--------------------------- MODULE EpochGenerator ---------------------------
(***************************************************************************)
(* EpochGenerator (internal/api/grpc/epoch_generator.go): how an admission *)
(* request is cut into epochs.  A behaviour is one call of GenerateEpochs, *)
(* for any request of the set Request; every iteration of its loops is a   *)
(* step.                                                                   *)
(*                                                                         *)
(* Time is UTC, counted in half hours from Monday, 1 January 2024, so that *)
(* every truncation has something to cut off.                              *)
(***************************************************************************)
EXTENDS Integers, Sequences, FiniteSets

CONSTANTS
    Request,      \* the requests a behaviour may start with
    hashSuffix(_, _),  \* the first 3 bytes of the hash of a start and dimension values
    MaxEpochs     \* bound: length of the result

NoGranularity == [value |-> 0, unit |-> "none"]
Undeclared == "undeclared"

\* A request is a record with the fields
\*   filter       the time range: "given", "incomplete" (no time partition, or an end
\*                is missing) or "nil" (a time partition without one)
\*   start, end   its ends, when it is given
\*   granularity  [value, unit], or NoGranularity
\*   source       the granularity of the source, or Undeclared
\*   dims         the dimension partitions: a sequence of [name, values]
\* A granularity in hours becomes a time.Duration, which ends at MaxHours.
MaxHours == 2562047

ASSUME GeneratorAssumption ==
    /\ MaxEpochs \in Nat
    /\ \A r \in Request :
        /\ r.start \in Nat /\ r.end \in Nat
        /\ r.granularity.value \in Int
        /\ r.granularity.unit = "HOUR" => r.granularity.value \in (-MaxHours) .. MaxHours
        /\ r.dims \in Seq([name : STRING, values : Seq(STRING)])

VARIABLES
    req,        \* the request
    phase,      \* where GenerateEpochs is
    dim,        \* the dimension partition that the sets are extended by
    sets,       \* dimensionValueSets
    nextSets,   \* those that are extended by it already
    at,         \* the set that the loop over the sets is at
    value,      \* the value that the loop over the values is at
    current,    \* the loop variable of sliceTimeRange
    epochs      \* the epochs generated so far

loopVars == <<dim, sets, nextSets, at, value>>
generatorVars == <<req, phase, loopVars, current, epochs>>

-----------------------------------------------------------------------------
(* The calendar (package time) *)

Hour == 2
Day  == 24 * Hour
Week == 7 * Day

\* The first day of the year 2024 + y, in days.
YearStart(y) ==
    365 * y + ((y + 3) \div 4) - (((y + 2023) \div 100) - 20) + (((y + 2023) \div 400) - 5)

LeapDays(y) == YearStart(y + 1) - YearStart(y) - 365

DaysBefore == <<0, 31, 59, 90, 120, 151, 181, 212, 243, 273, 304, 334>>

\* The first day of the m-th month; January 2024 is the first month.
MonthStart(m) ==
    LET y == (m - 1) \div 12
        k == (m - 1) % 12
    IN  YearStart(y) + DaysBefore[k + 1] + (IF k >= 2 THEN LeapDays(y) ELSE 0)

\* The months t can be in: no month has less than 28 days.
MonthsNear(t) ==
    IF t < 0 THEN (t \div (28 * Day)) .. 0 ELSE 1 .. ((t \div (28 * Day)) + 1)

MonthOf(t) ==
    CHOOSE m \in MonthsNear(t) : MonthStart(m) * Day <= t /\ t < MonthStart(m + 1) * Day

Weekday(t) == ((t \div Day) + 1) % 7    \* Sunday is 0

-----------------------------------------------------------------------------
truncateToDay(t) == (t \div Day) * Day

\* Mutant: Sunday stays 0 and opens the next week.
truncateToGranularitySunday(t, g) ==
    CASE g.unit = "HOUR"  -> (t \div Hour) * Hour
      [] g.unit = "WEEK"  -> truncateToDay(t - (Weekday(t) - 1) * Day)
      [] g.unit = "MONTH" -> MonthStart(MonthOf(t)) * Day
      [] OTHER            -> truncateToDay(t)

\* Mutant: a week begins on the day the range begins.
truncateToGranularityNoWeek(t, g) ==
    CASE g.unit = "HOUR"  -> (t \div Hour) * Hour
      [] g.unit = "MONTH" -> MonthStart(MonthOf(t)) * Day
      [] OTHER            -> truncateToDay(t)

truncateToGranularity(t, g) ==
    CASE g.unit = "HOUR"  -> (t \div Hour) * Hour
      [] g.unit = "WEEK"  -> LET weekday == IF Weekday(t) = 0 THEN 7 ELSE Weekday(t)
                             IN  truncateToDay(t - (weekday - 1) * Day)
      [] g.unit = "MONTH" -> MonthStart(MonthOf(t)) * Day
      [] OTHER            -> truncateToDay(t)

Unit == {"HOUR", "DAY", "WEEK", "MONTH"}

\* Mutant: the months are not added.
addGranularityNoMonth(t, g) ==
    CASE g.unit = "HOUR"  -> t + g.value * Hour
      [] g.unit = "DAY"   -> t + g.value * Day
      [] g.unit = "WEEK"  -> t + g.value * Week
      [] g.unit = "MONTH" -> t

\* Defined for the units of the enum; any other panics.  A month is only ever
\* added to the first day of one.
addGranularity(t, g) ==
    CASE g.unit = "HOUR"  -> t + g.value * Hour
      [] g.unit = "DAY"   -> t + g.value * Day
      [] g.unit = "WEEK"  -> t + g.value * Week
      [] g.unit = "MONTH" -> MonthStart(MonthOf(t) + g.value) * Day

\* One to one; a source that declares an unspecified granularity has none.
convertSourceGranularity(unit) ==
    IF unit \in Unit THEN [value |-> 1, unit |-> unit] ELSE NoGranularity

determineGranularity(r) ==
    IF r.granularity # NoGranularity THEN r.granularity
    ELSE IF r.source # Undeclared THEN convertSourceGranularity(r.source)
    ELSE [value |-> 1, unit |-> "DAY"]

\* A clone of the set, with the j-th value of the dimension.
Extended(existing, d, j) ==
    [name \in DOMAIN existing \cup {d.name} |->
        IF name = d.name THEN d.values[j] ELSE existing[name]]

\* The start, then the suffix, which different dimension values may share.
generateEpochID(start, dimensionValues) == <<start, hashSuffix(start, dimensionValues)>>

-----------------------------------------------------------------------------
GeneratorInit ==
    /\ req \in Request
    /\ phase = "start"
    /\ dim = 1
    /\ sets = << [name \in {} |-> ""] >>
    /\ nextSets = <<>>
    /\ at = 1
    /\ value = 1
    /\ current = 0
    /\ epochs = <<>>

granularity == determineGranularity(req)

\* extractTimeRange, which reads the ends of a filter that may be nil, and
\* determineGranularity.
GenerateEpochs ==
    /\ phase = "start"
    /\ phase' = IF req.filter = "nil" THEN "panic"
                ELSE IF req.filter = "incomplete" \/ granularity = NoGranularity THEN "error"
                ELSE "extract"
    /\ UNCHANGED <<req, loopVars, current, epochs>>

-----------------------------------------------------------------------------
(* extractDimensionValueSets *)

AtDimension == phase = "extract" /\ dim <= Len(req.dims)

\* A dimension without values is skipped.
SkipDimension ==
    /\ AtDimension
    /\ req.dims[dim].values = <<>>
    /\ dim' = dim + 1
    /\ UNCHANGED <<req, phase, sets, nextSets, at, value, current, epochs>>

\* One iteration of the inner loop.
ExtendSet ==
    /\ AtDimension
    /\ req.dims[dim].values # <<>>
    /\ at <= Len(sets)
    /\ nextSets' = Append(nextSets, Extended(sets[at], req.dims[dim], value))
    /\ IF value = Len(req.dims[dim].values)
       THEN at' = at + 1 /\ value' = 1
       ELSE value' = value + 1 /\ UNCHANGED at
    /\ UNCHANGED <<req, phase, dim, sets, current, epochs>>

DimensionEnds ==
    /\ AtDimension
    /\ req.dims[dim].values # <<>>
    /\ at > Len(sets)
    /\ sets' = nextSets
    /\ nextSets' = <<>>
    /\ dim' = dim + 1
    /\ at' = 1
    /\ UNCHANGED <<req, phase, value, current, epochs>>

ExtractReturns ==
    /\ phase = "extract" /\ dim > Len(req.dims)
    /\ phase' = "next"
    /\ UNCHANGED <<req, loopVars, current, epochs>>

-----------------------------------------------------------------------------
(* sliceTimeRange *)

\* It begins, for the next set of dimension values.
sliceTimeRange ==
    /\ phase = "next" /\ at <= Len(sets)
    /\ IF req.start >= req.end
       THEN phase' = "error" /\ UNCHANGED current
       ELSE phase' = "slice" /\ current' = truncateToGranularity(req.start, granularity)
    /\ UNCHANGED <<req, loopVars, epochs>>

\* One iteration of its loop.  A unit outside the enum ends in a panic.
SliceStep ==
    /\ phase = "slice" /\ current < req.end
    /\ IF granularity.unit \notin Unit
       THEN phase' = "panic" /\ UNCHANGED <<epochs, current>>
       ELSE LET epochEnd == addGranularity(current, granularity) IN
            /\ Len(epochs) < MaxEpochs
            /\ epochs' = Append(epochs, [id |-> generateEpochID(current, sets[at]),
                                         start |-> current, end |-> epochEnd,
                                         dims |-> sets[at]])
            /\ current' = epochEnd
            /\ UNCHANGED phase
    /\ UNCHANGED <<req, loopVars>>

\* The range is covered: sliceTimeRange returns.
SliceEnds ==
    /\ phase = "slice" /\ current >= req.end
    /\ phase' = "next"
    /\ at' = at + 1
    /\ UNCHANGED <<req, dim, sets, nextSets, value, current, epochs>>

GenerateReturns ==
    /\ phase = "next" /\ at > Len(sets)
    /\ phase' = "done"
    /\ UNCHANGED <<req, loopVars, current, epochs>>

GeneratorNext ==
    \/ GenerateEpochs
    \/ SkipDimension \/ ExtendSet \/ DimensionEnds \/ ExtractReturns
    \/ sliceTimeRange \/ SliceStep \/ SliceEnds \/ GenerateReturns

GeneratorSpec == GeneratorInit /\ [][GeneratorNext]_generatorVars
                 /\ WF_generatorVars(GeneratorNext)

-----------------------------------------------------------------------------
(* Properties *)

\* The dimension partitions that have values, and the choices of one value of each.
Valued(r) == {i \in DOMAIN r.dims : r.dims[i].values # <<>>}

Values(d) == {d.values[j] : j \in DOMAIN d.values}

Combinations(r) ==
    {f \in [{r.dims[i].name : i \in Valued(r)} -> UNION {Values(r.dims[i]) : i \in Valued(r)}] :
        \A i \in Valued(r) : f[r.dims[i].name] \in Values(r.dims[i])}

\* The partitions are those of different columns, and name no value twice.
DistinctDimensions(r) ==
    \A i \in Valued(r) :
        /\ \A j \in Valued(r) : r.dims[i].name = r.dims[j].name => i = j
        /\ \A k, l \in DOMAIN r.dims[i].values :
             r.dims[i].values[k] = r.dims[i].values[l] => k = l

Holds(e, f, t) == e.dims = f /\ e.start <= t /\ t < e.end

\* Every instant that is requested lies in exactly one epoch of every combination
\* of dimension values, and every epoch is of a combination and holds an instant
\* that is requested: nothing is missing, no epochs overlap, none is superfluous.
ExactCover ==
    phase = "done" =>
      LET requested == req.start .. (req.end - 1) IN
      /\ \A f \in Combinations(req), t \in requested :
           \E i \in DOMAIN epochs : \A j \in DOMAIN epochs : Holds(epochs[j], f, t) <=> j = i
      /\ \A i \in DOMAIN epochs :
           /\ epochs[i].dims \in Combinations(req)
           /\ \E t \in requested : Holds(epochs[i], epochs[i].dims, t)

IsBoundary(t, unit) ==
    CASE unit = "HOUR"  -> t % Hour = 0
      [] unit = "DAY"   -> t % Day = 0
      [] unit = "WEEK"  -> t % Week = 0
      [] unit = "MONTH" -> \E m \in 1 .. ((t \div (28 * Day)) + 1) : t = MonthStart(m) * Day

\* "Always align to calendar boundaries": an epoch begins and ends on boundaries
\* of its unit and has exactly value - 1 of them inside, so that requests with
\* value 1 are cut alike wherever they overlap.
CalendarAligned ==
    phase = "done" =>
      \A i \in DOMAIN epochs :
        LET e == epochs[i]
            boundaries == {t \in e.start .. e.end : IsBoundary(t, granularity.unit)}
        IN  /\ {e.start, e.end} \subseteq boundaries
            /\ Cardinality(boundaries) = granularity.value + 1

\* The value of the granularity is above 0, as the API asks (proto/common.proto:154);
\* the code does not look.
PositiveGranularity == granularity # NoGranularity => granularity.value > 0

\* Every call with such a granularity comes to an end, whatever its range, unit and
\* dimensions are; with another, the loop of sliceTimeRange never gets to the end of
\* the range.
GenerationEnds == PositiveGranularity => <>(phase \in {"done", "error", "panic"})

\* "If values contain duplicates, they map to the same partition (idempotent)": no
\* identifier is generated twice.  The code does not keep this, for a value given
\* twice and for dimension values whose suffixes agree.
NoDuplicateEpochs == \A i, j \in DOMAIN epochs : epochs[i].id = epochs[j].id => i = j

\* "Fallback to day for unspecified or unknown units": only a nil filter makes it
\* panic.  The code does not keep this.
UnknownUnitFallsBack == phase = "panic" => req.filter = "nil"
=============================================================================
