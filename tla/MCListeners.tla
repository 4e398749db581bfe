----------------------------- MODULE MCListeners -----------------------------
(***************************************************************************)
(* An instance of MembershipListener for TLC: one listener, and leader     *)
(* events enough for one to be waiting while two are broadcast at once.    *)
(***************************************************************************)
EXTENDS MembershipListener

CONSTANT m

OneListener == {m}
=============================================================================
