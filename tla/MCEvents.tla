------------------------------ MODULE MCEvents ------------------------------
(***************************************************************************)
(* An instance of WorkerEvents for TLC: one session, three events of its   *)
(* worker and one message of the master, so that with an outbox of one     *)
(* message the writer can hold one, the outbox another, while a third      *)
(* sender waits.                                                           *)
(***************************************************************************)
EXTENDS WorkerEvents

CONSTANTS s1, p1, p2, q, b

Sessions == {s1}
Senders == {p1, p2, q, b}
Events == {p1, p2, q}

OnFirst == [e \in Event |-> s1]
FirstThenSecond == {<<p1, p2>>}
Everyone == [g \in Caller |-> Session]

\* Two updates of one epoch, and a message no handler is installed for.
Payloads == [e \in Event |->
    IF e = q
    THEN [kind |-> "assignment", id |-> <<"a", "b">>, name |-> <<"c">>]
    ELSE [kind |-> "pull", id |-> <<"a">>, name |-> <<"b", "c">>]]
=============================================================================
