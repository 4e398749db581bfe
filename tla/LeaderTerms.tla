----------------------------- MODULE LeaderTerms -----------------------------
(***************************************************************************)
(* What the election promises to everyone who acts on it: at any time the  *)
(* cluster has at most one leader, and every change to a new leader comes  *)
(* with a fencing token larger than every token before it.                 *)
(***************************************************************************)
EXTENDS Naturals

CONSTANTS Node, NoNode

VARIABLES
    leader,   \* the node whose term it is, or NoNode
    token     \* its fencing token; between terms, a bound on all former ones

Init == leader = NoNode /\ token = 0

\* A new term, after a vacancy or directly after another one, which may have
\* been the same node's.
Elect(n) ==
    /\ leader' = n
    /\ token' \in Nat
    /\ token' > token

Vacate ==
    /\ leader # NoNode
    /\ leader' = NoNode
    /\ token' \in Nat
    /\ token' >= token

Next == (\E n \in Node : Elect(n)) \/ Vacate

Spec == Init /\ [][Next]_<<leader, token>>
=============================================================================
