----------------------------- MODULE Leadership -----------------------------
(***************************************************************************)
(* What the leader election of one node shows to the services of that      *)
(* node: IsLeader() and a listener with room for one event.                *)
(*                                                                         *)
(* Two goroutines write the role and tell the listener afterwards, each at *)
(* its own pace: observeLeader when the leader in etcd changes, campaign   *)
(* when the node's own term begins (without an event) and ends.  All a     *)
(* listener on this node tells apart is whether an event says that this    *)
(* node was elected ("self") or anything else ("other").                   *)
(***************************************************************************)

VARIABLES
    isLeader,   \* IsLeader()
    observed,   \* what observeLeader has set the role for, but not broadcast
    ended,      \* loseLeadership has reset the role, but not broadcast
    watching,   \* the listener is registered
    leaderCh    \* the event in the listener's channel

leadershipVars == <<isLeader, observed, ended, watching, leaderCh>>

Event == {"self", "other"}

LeadershipTypeOK ==
    /\ isLeader \in BOOLEAN
    /\ observed \in Event \cup {"none"}
    /\ ended \in BOOLEAN
    /\ watching \in BOOLEAN
    /\ leaderCh \in SUBSET Event

LeadershipInit ==
    /\ isLeader = FALSE
    /\ observed = "none"
    /\ ended = FALSE
    /\ watching = FALSE
    /\ leaderCh = {}

\* The role changes: on an observed leader, a won campaign or the end of a term.
RoleChanges ==
    \/ /\ observed = "none"
       /\ observed' \in Event
       /\ isLeader' = (observed' = "self")
       /\ UNCHANGED <<ended, watching, leaderCh>>
    \/ /\ isLeader' = TRUE
       /\ UNCHANGED <<observed, ended, watching, leaderCh>>
    \/ /\ ~ended
       /\ ended' = TRUE
       /\ isLeader' = FALSE
       /\ UNCHANGED <<observed, watching, leaderCh>>

\* The channel keeps the latest event.
Publish(ev) == leaderCh' = IF watching THEN {ev} ELSE leaderCh

BroadcastObserved ==
    /\ observed # "none"
    /\ Publish(observed)
    /\ observed' = "none"
    /\ UNCHANGED <<isLeader, ended, watching>>

BroadcastEnded ==
    /\ ended
    /\ Publish("other")
    /\ ended' = FALSE
    /\ UNCHANGED <<isLeader, observed, watching>>

StartWatching ==
    /\ ~watching
    /\ watching' = TRUE
    /\ UNCHANGED <<isLeader, observed, ended, leaderCh>>

\* The listener's goroutine is told to end.  It may find that together with an
\* event that waits, for instance after a callback, and select takes either: the
\* event is lost, or handled although nobody watches any more.
StopWatching ==
    /\ watching
    /\ watching' = FALSE
    /\ leaderCh' \in {leaderCh, {}}
    /\ UNCHANGED <<isLeader, observed, ended>>

\* The listener takes the event out of the channel.
TakeEvent(ev) ==
    /\ ev \in leaderCh
    /\ leaderCh' = {}
    /\ UNCHANGED <<isLeader, observed, ended, watching>>

\* The process ends.
Reset ==
    /\ isLeader' = FALSE
    /\ observed' = "none"
    /\ ended' = FALSE
    /\ watching' = FALSE
    /\ leaderCh' = {}

LeadershipNext ==
    \/ RoleChanges \/ BroadcastObserved \/ BroadcastEnded
    \/ StartWatching \/ StopWatching \/ Reset
    \/ \E ev \in leaderCh : TakeEvent(ev)

LeadershipSpec == LeadershipInit /\ [][LeadershipNext]_leadershipVars
=============================================================================
