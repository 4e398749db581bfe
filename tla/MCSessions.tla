----------------------------- MODULE MCSessions -----------------------------
(***************************************************************************)
(* Instances of WorkerSessions for TLC: two streams that may register      *)
(* under the same id, one of them also under another id or the empty one;  *)
(* and three streams of one worker.                                        *)
(***************************************************************************)
EXTENDS WorkerSessions

CONSTANTS w1, s1, s2, s3

TwoStreams == {s1, s2}
ThreeStreams == {s1, s2, s3}
OneAndEmpty == {w1, Empty}
OneID == {w1}
SecondChanges == [s \in Stream |-> IF s = s1 THEN {w1} ELSE {w1, Empty}]
SecondStream == {s2}
SameWorker == [s \in Stream |-> {w1}]
Nobody == {}
Listener == {"listener"}
=============================================================================
