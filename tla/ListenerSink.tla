---------------------------- MODULE ListenerSink ----------------------------
(***************************************************************************)
(* How the leader election of a node tells its listeners what happens:     *)
(* Watch, the sinks, the broadcasts and closeAllListeners of               *)
(* internal/cluster/election.go, one step per channel operation.           *)
(*                                                                         *)
(* Three goroutines broadcast: campaign and observeLeader leader events,   *)
(* observeMembers membership events.  They share one sink per listener,    *)
(* without a lock.  A goroutine per listener calls it back, with one event *)
(* at a time, for as long as the callback takes.  LeaderElection has all   *)
(* of enqueueLeader in one step; here its steps are taken apart.           *)
(*                                                                         *)
(* Events are numbered in the order in which their broadcasts begin.       *)
(***************************************************************************)
EXTENDS Naturals, Sequences, FiniteSets

CONSTANTS
    Listener,
    listenerQueueSize,  \* the capacity of memberCh
    MaxLeaderEvents,    \* bounds on what is broadcast
    MaxMemberEvents

ASSUME SinkAssumption ==
    /\ listenerQueueSize \in Nat \ {0}
    /\ MaxLeaderEvents \in Nat
    /\ MaxMemberEvents \in Nat

VARIABLES
    registered,   \* the keys of l.listeners
    done,         \* per listener: its sink is closed
    leaderCh,     \* its channel of capacity 1
    memberCh,     \* its channel of capacity listenerQueueSize
    watcher,      \* where its goroutine is
    bcast,        \* where the broadcast of each goroutine is
    current,      \* the event it broadcasts
    toNotify,     \* sinksToNotify, from the one the loop is at
    electionClose,\* where Close is
    begun,        \* how many leader events have begun
    returned,     \* the leader events whose broadcast has returned
    before,       \* per leader event: those that had returned when it began
    told,         \* per leader event: the sinks it was broadcast to
    memberSeq,    \* how many membership events have begun
    heard,        \* per listener: the leader event it was last called with
    memberHeard,  \* per listener: the membership event it was last called with
    waiting       \* per listener: a leader event was waiting when its
                  \* goroutine last came back to its loop

sinkVars  == <<registered, done, leaderCh, memberCh>>
watchVars == <<watcher, heard, memberHeard, waiting>>
castVars  == <<bcast, current, toNotify>>
countVars == <<begun, returned, before, told, memberSeq>>

listenerVars == <<sinkVars, watchVars, castVars, countVars, electionClose>>

LeaderCaster == {"campaign", "observeLeader"}
Caster == LeaderCaster \cup {"observeMembers"}
LeaderEvent == 1 .. MaxLeaderEvents
MemberEvent == 1 .. MaxMemberEvents

\* The types, and the capacities of the channels.
SinkTypeOK ==
    /\ registered \in SUBSET Listener
    /\ done \in [Listener -> BOOLEAN]
    /\ leaderCh \in [Listener -> Seq(LeaderEvent)]
    /\ memberCh \in [Listener -> Seq(MemberEvent)]
    /\ \A l \in Listener :
        Len(leaderCh[l]) <= 1 /\ Len(memberCh[l]) <= listenerQueueSize
    /\ watcher \in [Listener -> {"none", "first", "second", "calling", "ended"}]
    /\ bcast \in [Caster -> {"idle", "try", "drain", "retry"}]
    /\ current \in [Caster -> 0 .. (MaxLeaderEvents + MaxMemberEvents)]
    /\ toNotify \in [Caster -> Seq(Listener)]
    /\ electionClose \in {"open", "closing", "returned"}
    /\ begun \in 0 .. MaxLeaderEvents /\ memberSeq \in 0 .. MaxMemberEvents
    /\ returned \in SUBSET LeaderEvent
    /\ before \in [LeaderEvent -> SUBSET LeaderEvent]
    /\ told \in [LeaderEvent -> SUBSET Listener]
    /\ heard \in [Listener -> {0} \cup LeaderEvent]
    /\ memberHeard \in [Listener -> {0} \cup MemberEvent]
    /\ waiting \in [Listener -> BOOLEAN]

SinkInit ==
    /\ registered = {}
    /\ done = [l \in Listener |-> FALSE]
    /\ leaderCh = [l \in Listener |-> <<>>]
    /\ memberCh = [l \in Listener |-> <<>>]
    /\ watcher = [l \in Listener |-> "none"]
    /\ bcast = [c \in Caster |-> "idle"]
    /\ current = [c \in Caster |-> 0]
    /\ toNotify = [c \in Caster |-> <<>>]
    /\ electionClose = "open"
    /\ begun = 0
    /\ returned = {}
    /\ before = [e \in LeaderEvent |-> {}]
    /\ told = [e \in LeaderEvent |-> {}]
    /\ memberSeq = 0
    /\ heard = [l \in Listener |-> 0]
    /\ memberHeard = [l \in Listener |-> 0]
    /\ waiting = [l \in Listener |-> FALSE]

-----------------------------------------------------------------------------
(* The goroutine of a listener *)

\* Watch registers a new sink and starts the goroutine, also when the election
\* is closing or closed.
Watch(l) ==
    /\ watcher[l] = "none"
    /\ registered' = registered \cup {l}
    /\ watcher' = [watcher EXCEPT ![l] = "first"]
    /\ UNCHANGED <<done, leaderCh, memberCh, heard, memberHeard, waiting, castVars, countVars,
                   electionClose>>

\* Mutant: the sink is not closed.
UnwatchForgets(l) ==
    /\ l \in registered
    /\ registered' = registered \ {l}
    /\ UNCHANGED <<done, leaderCh, memberCh, watchVars, castVars, countVars, electionClose>>

\* removeListener: the sink leaves the map and is closed, unless
\* closeAllListeners has taken it out.
Unwatch(l) ==
    /\ l \in registered
    /\ registered' = registered \ {l}
    /\ done' = [done EXCEPT ![l] = TRUE]
    /\ UNCHANGED <<leaderCh, memberCh, watchVars, castVars, countVars, electionClose>>

\* Either select sees that the sink is closed.
WatcherEnds(l) ==
    /\ watcher[l] \in {"first", "second"}
    /\ done[l]
    /\ watcher' = [watcher EXCEPT ![l] = "ended"]
    /\ UNCHANGED <<heard, memberHeard, waiting, sinkVars, castVars, countVars, electionClose>>

\* Either select receives a leader event, and OnLeaderChange is called.
CallOnLeaderChange(l) ==
    /\ watcher[l] \in {"first", "second"}
    /\ leaderCh[l] # <<>>
    /\ heard' = [heard EXCEPT ![l] = Head(leaderCh[l])]
    /\ leaderCh' = [leaderCh EXCEPT ![l] = <<>>]
    /\ waiting' = [waiting EXCEPT ![l] = FALSE]
    /\ watcher' = [watcher EXCEPT ![l] = "calling"]
    /\ UNCHANGED <<memberHeard, registered, done, memberCh, castVars, countVars, electionClose>>

\* Mutant: leader events do not come first.
SkipFirstSelect(l) ==
    /\ watcher[l] = "first"
    /\ watcher' = [watcher EXCEPT ![l] = "second"]
    /\ UNCHANGED <<heard, memberHeard, waiting, sinkVars, castVars, countVars, electionClose>>

\* The default of the first select, when neither channel is ready.
FirstSelectDefault(l) ==
    /\ watcher[l] = "first"
    /\ ~done[l] /\ leaderCh[l] = <<>>
    /\ watcher' = [watcher EXCEPT ![l] = "second"]
    /\ UNCHANGED <<heard, memberHeard, waiting, sinkVars, castVars, countVars, electionClose>>

\* The second select receives a membership event, and OnMembershipChange is
\* called.
CallOnMembershipChange(l) ==
    /\ watcher[l] = "second"
    /\ memberCh[l] # <<>>
    /\ memberHeard' = [memberHeard EXCEPT ![l] = Head(memberCh[l])]
    /\ memberCh' = [memberCh EXCEPT ![l] = Tail(@)]
    /\ watcher' = [watcher EXCEPT ![l] = "calling"]
    /\ UNCHANGED <<heard, waiting, registered, done, leaderCh, castVars, countVars, electionClose>>

CallbackReturns(l) ==
    /\ watcher[l] = "calling"
    /\ watcher' = [watcher EXCEPT ![l] = "first"]
    /\ waiting' = [waiting EXCEPT ![l] = leaderCh[l] # <<>>]
    /\ UNCHANGED <<heard, memberHeard, sinkVars, castVars, countVars, electionClose>>

-----------------------------------------------------------------------------
(* The broadcasts *)

\* The orders in which a range over a map visits its keys: any, each key once.
IterationOrders(S) ==
    {f \in UNION {[1 .. n -> S] : n \in 0 .. Cardinality(S)} :
        /\ \A i, j \in DOMAIN f : f[i] = f[j] => i = j
        /\ \A x \in S : \E i \in DOMAIN f : f[i] = x}

\* The snapshot of the sinks that a broadcast takes under the lock, in any
\* order.  One that finds no sink does nothing.
Begin(c, ev) ==
    /\ bcast[c] = "idle"
    /\ electionClose = "open"
    /\ registered # {}
    /\ bcast' = [bcast EXCEPT ![c] = "try"]
    /\ current' = [current EXCEPT ![c] = ev]
    /\ \E sinks \in IterationOrders(registered) : toNotify' = [toNotify EXCEPT ![c] = sinks]

broadcastLeaderEvent(c) ==
    /\ begun < MaxLeaderEvents
    /\ Begin(c, begun + 1)
    /\ begun' = begun + 1
    /\ before' = [before EXCEPT ![begun + 1] = returned]
    /\ told' = [told EXCEPT ![begun + 1] = registered]
    /\ UNCHANGED <<returned, memberSeq, sinkVars, watchVars, electionClose>>

broadcastMembershipEvent ==
    /\ memberSeq < MaxMemberEvents
    /\ Begin("observeMembers", memberSeq + 1)
    /\ memberSeq' = memberSeq + 1
    /\ UNCHANGED <<begun, before, told, returned, sinkVars, watchVars, electionClose>>

\* The sink that the loop over the snapshot is at.
At(c, l) == toNotify[c] # <<>> /\ l = Head(toNotify[c])

LastSink(c) == Len(toNotify[c]) = 1

\* The call for that sink returns, and the broadcast with it after the last one.
Notified(c) ==
    /\ toNotify' = [toNotify EXCEPT ![c] = Tail(@)]
    /\ bcast' = [bcast EXCEPT ![c] = IF LastSink(c) THEN "idle" ELSE "try"]
    /\ returned' = IF LastSink(c) /\ c \in LeaderCaster
                   THEN returned \cup {current[c]} ELSE returned
    /\ current' = [current EXCEPT ![c] = IF LastSink(c) THEN 0 ELSE @]
    /\ UNCHANGED <<begun, before, told, memberSeq>>

PutLeader(c, l) == leaderCh' = [leaderCh EXCEPT ![l] = Append(@, current[c])]

\* enqueueLeader: the sink is closed, or has room, or must be drained first.
TryLeader(c, l) ==
    /\ c \in LeaderCaster
    /\ bcast[c] = "try" /\ At(c, l)
    /\ \/ /\ done[l]
          /\ Notified(c)
          /\ UNCHANGED leaderCh
       \/ /\ ~done[l] /\ leaderCh[l] = <<>>
          /\ PutLeader(c, l)
          /\ Notified(c)
       \/ /\ ~done[l] /\ leaderCh[l] # <<>>
          /\ bcast' = [bcast EXCEPT ![c] = "drain"]
          /\ UNCHANGED <<leaderCh, current, toNotify, begun, before, told, returned,
                         memberSeq>>
    /\ UNCHANGED <<registered, done, memberCh, watchVars, electionClose>>

\* Mutant: the older event stays.
DrainNothing(c, l) ==
    /\ bcast[c] = "drain" /\ At(c, l)
    /\ bcast' = [bcast EXCEPT ![c] = "retry"]
    /\ UNCHANGED <<sinkVars, current, toNotify, countVars, watchVars, electionClose>>

\* The older event, unless the listener has taken it by now, makes room.
DrainLeader(c, l) ==
    /\ bcast[c] = "drain" /\ At(c, l)
    /\ leaderCh' = [leaderCh EXCEPT ![l] = <<>>]
    /\ waiting' = [waiting EXCEPT ![l] = FALSE]
    /\ bcast' = [bcast EXCEPT ![c] = "retry"]
    /\ UNCHANGED <<registered, done, memberCh, current, toNotify, countVars, watcher, heard,
                   memberHeard, electionClose>>

\* Mutant: the last select has no default.
RetryBlocks(c, l) ==
    /\ bcast[c] = "retry" /\ At(c, l)
    /\ \/ leaderCh[l] = <<>> /\ PutLeader(c, l)
       \/ done[l] /\ UNCHANGED leaderCh
    /\ Notified(c)
    /\ UNCHANGED <<registered, done, memberCh, watchVars, electionClose>>

\* Its last select sends if there is room, and otherwise gives the event up.
RetryLeader(c, l) ==
    /\ bcast[c] = "retry" /\ At(c, l)
    /\ \/ leaderCh[l] = <<>> /\ PutLeader(c, l)
       \/ (done[l] \/ leaderCh[l] # <<>>) /\ UNCHANGED leaderCh
    /\ Notified(c)
    /\ UNCHANGED <<registered, done, memberCh, watchVars, electionClose>>

\* enqueueMembership: a full channel drops the event.
EnqueueMember(c, l) ==
    /\ c = "observeMembers"
    /\ bcast[c] = "try" /\ At(c, l)
    /\ IF ~done[l] /\ Len(memberCh[l]) < listenerQueueSize
       THEN memberCh' = [memberCh EXCEPT ![l] = Append(@, current[c])]
       ELSE UNCHANGED memberCh
    /\ Notified(c)
    /\ UNCHANGED <<registered, done, leaderCh, watchVars, electionClose>>

CastStep(c) ==
    \E l \in Listener :
        TryLeader(c, l) \/ DrainLeader(c, l) \/ RetryLeader(c, l) \/ EnqueueMember(c, l)

-----------------------------------------------------------------------------
(* Close *)

\* The goroutines that broadcast have ended: closeAllListeners empties the map.
closeAllListeners ==
    /\ electionClose = "open"
    /\ \A c \in Caster : bcast[c] = "idle"
    /\ electionClose' = "closing"
    /\ done' = [l \in Listener |-> done[l] \/ l \in registered]
    /\ registered' = {}
    /\ UNCHANGED <<leaderCh, memberCh, watchVars, castVars, countVars>>

\* listenerWg.Wait returns.
CloseWaits ==
    /\ electionClose = "closing"
    /\ \A l \in Listener : watcher[l] \in {"none", "ended"}
    /\ electionClose' = "returned"
    /\ UNCHANGED <<sinkVars, watchVars, castVars, countVars>>
=============================================================================
