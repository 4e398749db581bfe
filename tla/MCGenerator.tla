----------------------------- MODULE MCGenerator -----------------------------
(***************************************************************************)
(* Requests for EpochGenerator: ranges that start on and off the           *)
(* boundaries around the ends of January and February 2024 (29 February is *)
(* a Thursday, 31 March a Sunday) and of February 2025.                    *)
(***************************************************************************)
EXTENDS EpochGenerator

\* A suffix that tells values apart, not the columns they are of.
Suffix(start, dimensionValues) == {dimensionValues[name] : name \in DOMAIN dimensionValues}

Plain(s, e, g) ==
    [filter |-> "given", start |-> s, end |-> e, granularity |-> g, source |-> Undeclared,
     dims |-> <<>>]

Gran(v, u) == [value |-> v, unit |-> u]

\* Every half hour of six hours around midnight, for up to 4 hours.
ByHour == {Plain(s, s + d, Gran(v, "HOUR")) :
             s \in (Day - 6) .. (Day + 6), d \in 0..8, v \in 1..3}

\* Every sixth hour of nine days over the end of February, for up to 5 days.
ByDay == {Plain(57 * Day + s * 12, 57 * Day + s * 12 + d, Gran(v, "DAY")) :
            s \in 0..35, d \in {1, 12, Day, 2 * Day, 5 * Day + 1}, v \in 1..3}

ByWeek == {Plain(55 * Day + s * 24, 55 * Day + s * 24 + d, Gran(v, "WEEK")) :
             s \in 0..20, d \in {1, Day, Week, 2 * Week + 1}, v \in 1..2}

ByMonth == {Plain(m * Day, m * Day + d, Gran(v, "MONTH")) :
              m \in {0, 15, 30, 31, 59, 60, 90, 424, 425}, d \in {1, Day, 31 * Day, 62 * Day}, v \in 1..3}

\* The granularity of the source instead of the request's, and two dimensions.
Country == [name |-> "country", values |-> <<"de", "fr">>]
Product == [name |-> "product", values |-> <<"a", "b", "c">>]
Nothing == [name |-> "region", values |-> <<>>]

Sourced == {[filter |-> "given", start |-> 59 * Day + 1, end |-> 61 * Day, granularity |-> NoGranularity,
             source |-> u, dims |-> d] :
              u \in {"DAY", "WEEK", "MONTH", "UNSPECIFIED", Undeclared},
              d \in {<<>>, <<Country>>, <<Country, Nothing, Product>>}}

\* Requests without a range, and with granularities that go nowhere or back.
NoRange == {[r EXCEPT !.filter = f] : r \in Sourced, f \in {"incomplete", "nil"}}

NotPositive == {Plain(Day - 1, Day + d, Gran(v, u)) : d \in {0, 1}, v \in {-1, 0}, u \in Unit}

\* A unit that the enum does not have.
OtherUnit == {Plain(0, d, Gran(1, "YEAR")) : d \in 1..3}

Requests == OtherUnit \cup ByHour \cup ByDay \cup ByWeek \cup ByMonth \cup Sourced
            \cup NoRange \cup NotPositive

\* A value given twice.
Repeated == {[filter |-> "given", start |-> s, end |-> s + d, granularity |-> NoGranularity,
              source |-> "DAY", dims |-> <<[name |-> "country", values |-> <<"de", "de">>]>>] :
               s \in 0..3, d \in 1..3}
=============================================================================
