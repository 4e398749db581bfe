----------------------------- MODULE MCAdmission -----------------------------
(***************************************************************************)
(* Requests for one dataset: two that overlap in one epoch, a second       *)
(* attempt at the first of them, one that is malformed and one that        *)
(* GenerateEpochs fails on.                                                *)
(***************************************************************************)
EXTENDS DatasetAdmission

CONSTANTS r1, r2, r3, r4, r5

Days(from, to) == [id |-> from, end |-> to]

Epochs == {Days(1, 2), Days(2, 3), Days(3, 4)}
Requests == {r1, r2, r3, r4, r5}
TwoRequests == {r1, r2}
Generated == [r \in Request |-> CASE r \in {r1, r3} -> {Days(1, 2), Days(2, 3)}
                                  [] r = r2 -> {Days(2, 3), Days(3, 4)}
                                  [] OTHER  -> {}]
Fourth == {r4}
Nobody == {}
NoList == {{}}
NoListOrOne == {{}, {Days(3, 4)}}
Quotas == {-1, 0, 1, 2}
Two == {2}
=============================================================================
