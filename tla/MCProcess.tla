------------------------------ MODULE MCProcess ------------------------------
(***************************************************************************)
(* Instances of MasterProcess for TLC: one stream.                         *)
(***************************************************************************)
EXTENDS MasterProcess

CONSTANTS w1, s1

OneStream == {s1}
OneID == {w1}
OneWorker == [s \in Stream |-> {w1}]
Nobody == {}
ListenerAndShutdown == {"listener", "shutdown"}
=============================================================================
