-------------------------- MODULE MembershipListener --------------------------
(***************************************************************************)
(* internal/cluster/membership_listener.go: listeners whose callbacks hand *)
(* each event to a goroutine of its own, which tries to put it into a      *)
(* bounded queue, again and again with growing pauses for half a second,   *)
(* and then drops it.  Applications take events out of the queue.          *)
(***************************************************************************)
EXTENDS ListenerSink

CONSTANTS
    Queued,      \* the listeners that are MembershipListeners
    QueueSize    \* the capacity of their queues

ASSUME QueueAssumption ==
    /\ Queued \subseteq Listener
    /\ QueueSize \in Nat \ {0}

VARIABLES
    adding,      \* how many goroutines of tryAddEvent have not ended
    eventQueue   \* how many events the queue holds

queueVars == <<adding, eventQueue>>
membershipVars == <<listenerVars, queueVars>>

\* The types, and the capacity of the queues.
ListenersTypeOK ==
    /\ SinkTypeOK
    /\ adding \in [Queued -> 0 .. (MaxLeaderEvents + MaxMemberEvents)]
    /\ eventQueue \in [Queued -> 0 .. QueueSize]

ListenersInit ==
    /\ SinkInit
    /\ adding = [l \in Queued |-> 0]
    /\ eventQueue = [l \in Queued |-> 0]

\* A callback of the listener begins.  That of a MembershipListener starts
\* tryAddEvent for the event.
Callback(l) ==
    /\ CallOnLeaderChange(l) \/ CallOnMembershipChange(l)
    /\ adding' = [k \in Queued |-> IF k = l THEN adding[k] + 1 ELSE adding[k]]
    /\ UNCHANGED eventQueue

\* Mutant: the queue is never full.
AddUnbounded(l) ==
    /\ adding[l] > 0
    /\ eventQueue' = [eventQueue EXCEPT ![l] = @ + 1]
    /\ adding' = [adding EXCEPT ![l] = @ - 1]
    /\ UNCHANGED listenerVars

\* TryEnqueue succeeds.
AddSucceeds(l) ==
    /\ adding[l] > 0
    /\ eventQueue[l] < QueueSize
    /\ eventQueue' = [eventQueue EXCEPT ![l] = @ + 1]
    /\ adding' = [adding EXCEPT ![l] = @ - 1]
    /\ UNCHANGED listenerVars

\* Mutant: there is no maxElapsedTime.
AddRetriesForever(l) ==
    /\ adding[l] > 0
    /\ eventQueue[l] = QueueSize
    /\ UNCHANGED membershipVars

\* The queue is full and maxElapsedTime is over: the event is dropped.
AddGivesUp(l) ==
    /\ adding[l] > 0
    /\ eventQueue[l] = QueueSize
    /\ adding' = [adding EXCEPT ![l] = @ - 1]
    /\ UNCHANGED <<eventQueue, listenerVars>>

\* An application takes an event from Consume().
Dequeue(l) ==
    /\ eventQueue[l] > 0
    /\ eventQueue' = [eventQueue EXCEPT ![l] = @ - 1]
    /\ UNCHANGED <<adding, listenerVars>>

-----------------------------------------------------------------------------
\* The steps of the election's goroutines and those of the queues.
ElectionSteps ==
    \/ \E l \in Listener : WatcherEnds(l) \/ FirstSelectDefault(l)
    \/ \E c \in Caster : CastStep(c)
    \/ CloseWaits

QueueSteps ==
    \/ \E l \in Listener : Callback(l)
    \/ \E l \in Queued : AddSucceeds(l) \/ AddGivesUp(l)

ListenersNext ==
    \/ QueueSteps
    \/ \E l \in Queued : Dequeue(l)
    \/ /\ \/ ElectionSteps
          \/ \E l \in Listener : Watch(l) \/ Unwatch(l) \/ CallbackReturns(l)
          \/ \E c \in LeaderCaster : broadcastLeaderEvent(c)
          \/ broadcastMembershipEvent
          \/ closeAllListeners
       /\ UNCHANGED queueVars

ListenersSpec == ListenersInit /\ [][ListenersNext]_membershipVars

\* The goroutines of the election and of the queues run; every behaviour is
\* finite up to stuttering.  Callbacks need not return, nobody needs to take
\* events from the queues.
LiveListenersSpec ==
    /\ ListenersSpec
    /\ WF_membershipVars(QueueSteps \/ (ElectionSteps /\ UNCHANGED queueVars))

-----------------------------------------------------------------------------
(* Properties *)

LatestOf(l) == IF leaderCh[l] = <<>> THEN heard[l] ELSE Head(leaderCh[l])

\* When no broadcast is under way, what a listener heard last, or will hear
\* next, is no older than any event broadcast to it: enqueueLeader, called by
\* two goroutines at once, may give up an event, but only for one whose
\* broadcast had not returned before.
LatestHeard ==
    \A l \in registered : (\A c \in LeaderCaster : bcast[c] = "idle") =>
        \A e \in LeaderEvent : l \in told[e] =>
            LatestOf(l) # 0 /\ LatestOf(l) \notin before[e]

\* A leader event that was waiting when a callback returned is taken before
\* any other membership event: the goroutine of Watch looks for leader events
\* first.
LeaderFirst ==
    [][\A l \in Listener : memberHeard'[l] # memberHeard[l] => ~waiting[l]]_membershipVars

\* Broadcasts return whatever the callbacks of the listeners do.
BroadcastsReturn == \A c \in Caster : bcast[c] # "idle" ~> bcast[c] = "idle"

\* Close of the election returns, with listeners that are registered, removed
\* at the same time or have events waiting, unless a callback never returns or
\* a listener was registered after closeAllListeners.
ListenersEnd ==
    []<>(electionClose = "closing" =>
           \E l \in Listener : watcher[l] = "calling" \/ l \in registered)

\* The goroutines of tryAddEvent end, also when nobody takes events from the
\* queue.
AddersEnd ==
    \A l \in Queued : adding[l] > 0 ~> adding[l] = 0
=============================================================================
