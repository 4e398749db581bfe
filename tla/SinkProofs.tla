----------------------------- MODULE SinkProofs -----------------------------
(***************************************************************************)
(* Proofs about ListenerSink and MembershipListener, for any listeners,    *)
(* any number of events and any capacities: the broadcasts, the sinks and  *)
(* their channels, and the types.  ListenerProofs goes on from here.       *)
(***************************************************************************)
EXTENDS MembershipListener, Integers, TLAPS

\* A broadcast has yet to notify the sink.
Facing(c, l) == \E i \in 1 .. Len(toNotify[c]) : toNotify[c][i] = l

\* Broadcasts go through every sink of their snapshot once.
CastInv ==
    /\ \A c \in Caster :
        /\ bcast[c] = "idle" <=> toNotify[c] = <<>>
        /\ \A i, j \in 1 .. Len(toNotify[c]) : toNotify[c][i] = toNotify[c][j] => i = j
    /\ bcast["observeMembers"] \in {"idle", "try"}
    /\ bcast["observeMembers"] # "idle" => current["observeMembers"] \in 1 .. memberSeq

\* A sink in the map is open; a listener that was never registered has none.
SinkInv ==
    /\ \A l \in registered : ~done[l]
    /\ \A l \in Listener : watcher[l] = "none" => ~done[l] /\ l \notin registered

\* An event under way has not returned; what had returned before an event has
\* returned now.
EventInv ==
    /\ \A c \in LeaderCaster : bcast[c] # "idle" => current[c] \in (1 .. begun) \ returned
    /\ \A c, d \in LeaderCaster :
        bcast[c] # "idle" /\ bcast[d] # "idle" /\ current[c] = current[d] => c = d
    /\ returned \subseteq 1 .. begun
    /\ \A e \in LeaderEvent : before[e] \subseteq returned /\ (e > begun => told[e] = {})

\* Events are broadcast to listeners that were registered once.
ToldInv == \A e \in LeaderEvent : \A l \in told[e] : watcher[l] # "none"

\* The inductive invariant behind LeaderFirst.
WaitInv ==
    \A l \in Listener :
        waiting[l] => leaderCh[l] # <<>> /\ watcher[l] \in {"first", "ended"}

\* The types of the event queue.
QueueTypeOK ==
    /\ adding \in [Queued -> Nat]
    /\ eventQueue \in [Queued -> 0 .. QueueSize]

-----------------------------------------------------------------------------
(* Sequences *)

\* The snapshot that a broadcast takes holds every sink, once.
LEMMA SnapshotComplete ==
    ASSUME NEW S, NEW f \in IterationOrders(S)
    PROVE  /\ Len(f) \in Nat /\ f \in [1 .. Len(f) -> S]
           /\ \A i, j \in 1 .. Len(f) : f[i] = f[j] => i = j
           /\ \A x \in S : \E i \in 1 .. Len(f) : f[i] = x
           /\ S # {} => f # <<>>
<1>1. PICK n \in 0 .. Cardinality(S) : f \in [1 .. n -> S]
  BY DEF IterationOrders
<1>2. n \in Nat /\ DOMAIN f = 1 .. n
  BY <1>1
<1>3. f \in Seq(S) /\ Len(f) = n
  BY <1>1, <1>2
<1>4. /\ \A i, j \in 1 .. n : f[i] = f[j] => i = j
      /\ \A x \in S : \E i \in 1 .. n : f[i] = x
  BY <1>2, Zenon DEF IterationOrders
<1>5. S # {} => f # <<>>
  BY <1>3, <1>4
<1> QED
  BY <1>1, <1>2, <1>3, <1>4, <1>5, Zenon

\* A sequence without elements is the empty one.
LEMMA NoElements == ASSUME NEW S, NEW s \in Seq(S) PROVE s = <<>> <=> Len(s) = 0
  OBVIOUS

\* What a sequence of one element holds.
LEMMA OneElement ==
    ASSUME NEW S, NEW s \in Seq(S), s # <<>>, Len(s) <= 1
    PROVE  Head(s) \in S /\ Len(s) = 1
<1>1. Len(s) # 0
  BY NoElements, Zenon
<1>2. Len(s) \in Nat /\ Head(s) \in S
  OBVIOUS
<1>3. \A n \in Nat : n <= 1 /\ n # 0 => n = 1
  OBVIOUS
<1> QED
  BY <1>1, <1>2, <1>3, Zenon

\* The rest of the snapshot: the sinks but the first, still each of them once.
LEMMA RestOfSnapshot ==
    ASSUME NEW S, NEW s \in Seq(S), s # <<>>,
           \A i, j \in 1 .. Len(s) : s[i] = s[j] => i = j
    PROVE  /\ Tail(s) \in Seq(S) /\ Len(Tail(s)) = Len(s) - 1
           /\ Tail(s) = <<>> <=> Len(s) = 1
           /\ \A i, j \in 1 .. Len(Tail(s)) : Tail(s)[i] = Tail(s)[j] => i = j
           /\ \A k : (\E i \in 1 .. Len(Tail(s)) : Tail(s)[i] = k)
                       <=> (\E i \in 1 .. Len(s) : s[i] = k) /\ k # Head(s)
<1>1. /\ Tail(s) \in Seq(S) /\ Len(Tail(s)) = Len(s) - 1 /\ Len(s) \in Nat /\ Len(s) > 0
      /\ Head(s) = s[1]
  OBVIOUS
<1>2. \A i \in 1 .. Len(Tail(s)) : Tail(s)[i] = s[i + 1]
  OBVIOUS
<1>3. Tail(s) = <<>> <=> Len(s) = 1
  <2>1. Tail(s) = <<>> <=> Len(Tail(s)) = 0
    BY <1>1, NoElements, Zenon
  <2> QED
    BY <2>1, <1>1
<1>4. \A i, j \in 1 .. Len(Tail(s)) : Tail(s)[i] = Tail(s)[j] => i = j
  BY <1>1, <1>2
<1>5. ASSUME NEW k
      PROVE  (\E i \in 1 .. Len(Tail(s)) : Tail(s)[i] = k)
               <=> (\E i \in 1 .. Len(s) : s[i] = k) /\ k # Head(s)
  <2>1. ASSUME NEW i \in 1 .. Len(Tail(s)), Tail(s)[i] = k
        PROVE  (\E j \in 1 .. Len(s) : s[j] = k) /\ k # Head(s)
    <3>1. i + 1 \in 1 .. Len(s) /\ s[i + 1] = k /\ i + 1 # 1 /\ 1 \in 1 .. Len(s)
      BY <1>1, <1>2, <2>1
    <3> QED
      BY <3>1, <1>1, Zenon
  <2>2. ASSUME NEW i \in 1 .. Len(s), s[i] = k, k # Head(s)
        PROVE  \E j \in 1 .. Len(Tail(s)) : Tail(s)[j] = k
    <3>1. i # 1 /\ i - 1 \in 1 .. Len(Tail(s)) /\ (i - 1) + 1 = i
      BY <1>1, <2>2
    <3>2. Tail(s)[i - 1] = k
      BY <3>1, <1>2, <2>2, Zenon
    <3> QED
      BY <3>1, <3>2, Zenon
  <2> QED
    BY <2>1, <2>2, Zenon
<1> QED
  BY <1>1, <1>3, <1>4, <1>5, Zenon

-----------------------------------------------------------------------------
(* The broadcasts *)

\* What the return of one call for a sink does to the broadcasts: the goroutine
\* has this sink behind it and all else is as it was.
LEMMA CastMoves ==
    ASSUME SinkTypeOK, CastInv, NEW c \in Caster, NEW l \in Listener, At(c, l), Notified(c)
    PROVE  /\ bcast[c] # "idle" /\ Facing(c, l)
           /\ bcast' \in [Caster -> {"idle", "try", "drain", "retry"}]
           /\ toNotify' \in [Caster -> Seq(Listener)]
           /\ bcast'[c] \in {"idle", "try"}
           /\ \A d \in Caster :
               /\ bcast'[d] = "idle" <=> toNotify'[d] = <<>>
               /\ \A i, j \in 1 .. Len(toNotify'[d]) : toNotify'[d][i] = toNotify'[d][j] => i = j
               /\ d # c => bcast'[d] = bcast[d] /\ current'[d] = current[d]
                           /\ toNotify'[d] = toNotify[d]
               /\ \A k \in Listener : Facing(d, k)' <=> Facing(d, k) /\ (d # c \/ k # l)
           /\ \/ bcast'[c] = "try" /\ current'[c] = current[c] /\ returned' = returned
              \/ /\ bcast'[c] = "idle" /\ current'[c] = 0
                 /\ returned' = IF c \in LeaderCaster THEN returned \cup {current[c]} ELSE returned
<1> DEFINE s == toNotify[c]
<1>1. /\ s \in Seq(Listener) /\ s # <<>> /\ Head(s) = l
      /\ \A i, j \in 1 .. Len(s) : s[i] = s[j] => i = j
  BY Zenon DEF At, SinkTypeOK, CastInv
<1>2. bcast[c] # "idle" /\ Facing(c, l)
  <2>1. 1 \in 1 .. Len(s) /\ s[1] = l
    BY <1>1
  <2> QED
    BY <1>1, <2>1, Zenon DEF Facing, CastInv
<1>3. /\ toNotify' = [toNotify EXCEPT ![c] = Tail(s)]
      /\ bcast' = [bcast EXCEPT ![c] = IF Len(s) = 1 THEN "idle" ELSE "try"]
      /\ current' = [current EXCEPT ![c] = IF Len(s) = 1 THEN 0 ELSE current[c]]
      /\ returned' = IF Len(s) = 1 /\ c \in LeaderCaster
                     THEN returned \cup {current[c]} ELSE returned
  BY Zenon DEF Notified, LastSink
<1>4. /\ Tail(s) \in Seq(Listener) /\ (Tail(s) = <<>> <=> Len(s) = 1)
      /\ \A i, j \in 1 .. Len(Tail(s)) : Tail(s)[i] = Tail(s)[j] => i = j
      /\ \A k : (\E i \in 1 .. Len(Tail(s)) : Tail(s)[i] = k)
                       <=> (\E i \in 1 .. Len(s) : s[i] = k) /\ k # l
  BY <1>1, RestOfSnapshot, ZenonT(30)
<1>5. toNotify'[c] = Tail(s) /\ bcast'[c] = IF Len(s) = 1 THEN "idle" ELSE "try"
  BY <1>3, Zenon DEF SinkTypeOK
<1>6. current'[c] = IF Len(s) = 1 THEN 0 ELSE current[c]
  BY <1>3, Zenon DEF SinkTypeOK
<1>7. /\ bcast' \in [Caster -> {"idle", "try", "drain", "retry"}]
      /\ toNotify' \in [Caster -> Seq(Listener)]
  BY <1>3, <1>4, Zenon DEF SinkTypeOK
<1>8. ASSUME NEW d \in Caster, d # c
      PROVE  bcast'[d] = bcast[d] /\ current'[d] = current[d] /\ toNotify'[d] = toNotify[d]
  BY <1>3, <1>8, Zenon DEF SinkTypeOK
<1>9. ASSUME NEW d \in Caster, NEW k \in Listener
      PROVE  Facing(d, k)' <=> Facing(d, k) /\ (d # c \/ k # l)
  <2>1. CASE d # c
    BY <2>1, <1>8, Zenon DEF Facing
  <2>2. CASE d = c
    <3>1. Facing(d, k)' <=> \E i \in 1 .. Len(Tail(s)) : Tail(s)[i] = k
      BY <2>2, <1>5, Zenon DEF Facing
    <3>2. Facing(d, k) <=> \E i \in 1 .. Len(s) : s[i] = k
      BY <2>2, Zenon DEF Facing
    <3> QED
      BY <2>2, <3>1, <3>2, <1>4, Zenon
  <2> QED
    BY <2>1, <2>2, Zenon
<1>10. ASSUME NEW d \in Caster
      PROVE  /\ bcast'[d] = "idle" <=> toNotify'[d] = <<>>
             /\ \A i, j \in 1 .. Len(toNotify'[d]) : toNotify'[d][i] = toNotify'[d][j] => i = j
  <2>1. CASE d # c
    BY <2>1, <1>8 DEF CastInv
  <2>2. CASE d = c
    BY <2>2, <1>4, <1>5
  <2> QED
    BY <2>1, <2>2, Zenon
<1>11. \/ bcast'[c] = "try" /\ current'[c] = current[c] /\ returned' = returned
       \/ /\ bcast'[c] = "idle" /\ current'[c] = 0
          /\ returned' = IF c \in LeaderCaster THEN returned \cup {current[c]} ELSE returned
  BY <1>3, <1>5, <1>6, Zenon
<1>12. bcast'[c] \in {"idle", "try"}
  BY <1>5, Zenon
<1> QED
  BY <1>2, <1>7, <1>8, <1>9, <1>10, <1>11, <1>12, Zenon

\* What the snapshot does: the goroutine has every registered sink before it.
LEMMA CastBegins ==
    ASSUME SinkTypeOK, CastInv, SinkInv, NEW c \in Caster, NEW ev, Begin(c, ev)
    PROVE  /\ bcast[c] = "idle" /\ bcast'[c] = "try" /\ current'[c] = ev
           /\ bcast' \in [Caster -> {"idle", "try", "drain", "retry"}]
           /\ current' = [current EXCEPT ![c] = ev]
           /\ toNotify' \in [Caster -> Seq(Listener)]
           /\ \A d \in Caster :
               /\ bcast'[d] = "idle" <=> toNotify'[d] = <<>>
               /\ \A i, j \in 1 .. Len(toNotify'[d]) : toNotify'[d][i] = toNotify'[d][j] => i = j
               /\ d # c => bcast'[d] = bcast[d] /\ current'[d] = current[d]
                           /\ toNotify'[d] = toNotify[d]
               /\ \A k \in Listener :
                   Facing(d, k)' <=> Facing(d, k) \/ (d = c /\ k \in registered)
           /\ \A k \in Listener : ~Facing(c, k)
<1>1. PICK sinks \in IterationOrders(registered) : toNotify' = [toNotify EXCEPT ![c] = sinks]
  BY Zenon DEF Begin
<1>2. /\ bcast[c] = "idle" /\ registered # {}
      /\ bcast' = [bcast EXCEPT ![c] = "try"] /\ current' = [current EXCEPT ![c] = ev]
  BY Zenon DEF Begin
<1>3. /\ Len(sinks) \in Nat /\ sinks \in [1 .. Len(sinks) -> registered]
      /\ \A i, j \in 1 .. Len(sinks) : sinks[i] = sinks[j] => i = j
      /\ \A x \in registered : \E i \in 1 .. Len(sinks) : sinks[i] = x
      /\ sinks # <<>>
  BY <1>2, SnapshotComplete
<1>4. sinks \in Seq(Listener) /\ \A i \in 1 .. Len(sinks) : sinks[i] \in registered
  <2>1. sinks \in [1 .. Len(sinks) -> Listener]
    BY <1>3 DEF SinkTypeOK
  <2> QED
    BY <2>1, <1>3
<1>5. toNotify'[c] = sinks /\ bcast'[c] = "try" /\ current'[c] = ev
  BY <1>1, <1>2, Zenon DEF SinkTypeOK
<1>6. /\ bcast' \in [Caster -> {"idle", "try", "drain", "retry"}]
      /\ toNotify' \in [Caster -> Seq(Listener)]
  BY <1>1, <1>2, <1>4, Zenon DEF SinkTypeOK
<1>7. ASSUME NEW d \in Caster, d # c
      PROVE  bcast'[d] = bcast[d] /\ current'[d] = current[d] /\ toNotify'[d] = toNotify[d]
  BY <1>1, <1>2, <1>7, Zenon DEF SinkTypeOK
<1>8. \A k \in Listener : ~Facing(c, k)
  BY <1>2 DEF CastInv, Facing
<1>9. ASSUME NEW d \in Caster, NEW k \in Listener
      PROVE  Facing(d, k)' <=> Facing(d, k) \/ (d = c /\ k \in registered)
  <2>1. CASE d # c
    BY <2>1, <1>7, Zenon DEF Facing
  <2>2. CASE d = c
    <3>1. Facing(d, k)' <=> \E i \in 1 .. Len(sinks) : sinks[i] = k
      BY <2>2, <1>5, Zenon DEF Facing
    <3> QED
      BY <2>2, <3>1, <1>3, <1>4, <1>8, Zenon
  <2> QED
    BY <2>1, <2>2, Zenon
<1>10. ASSUME NEW d \in Caster
      PROVE  /\ bcast'[d] = "idle" <=> toNotify'[d] = <<>>
             /\ \A i, j \in 1 .. Len(toNotify'[d]) : toNotify'[d][i] = toNotify'[d][j] => i = j
  <2>1. CASE d # c
    BY <2>1, <1>7 DEF CastInv
  <2>2. CASE d = c
    BY <2>2, <1>3, <1>5
  <2> QED
    BY <2>1, <2>2, Zenon
<1> QED
  BY <1>2, <1>5, <1>6, <1>7, <1>8, <1>9, <1>10, Zenon

\* A goroutine goes on at the same sink.
Goes(c, label) ==
    /\ bcast[c] # "idle"
    /\ bcast' = [bcast EXCEPT ![c] = label]
    /\ UNCHANGED <<current, toNotify, countVars>>

\* The steps, by what they do to the broadcasts.
LEMMA StepKinds ==
    ASSUME CastInv, [ListenersNext]_membershipVars
    PROVE  \/ UNCHANGED <<castVars, countVars>>
           \/ \E c \in LeaderCaster : broadcastLeaderEvent(c)
           \/ broadcastMembershipEvent
           \/ \E c \in LeaderCaster : Goes(c, "drain") \/ Goes(c, "retry")
           \/ \E c \in Caster, l \in Listener : At(c, l) /\ Notified(c)
<1>1. ASSUME NEW c \in Caster, NEW l \in Listener, TryLeader(c, l)
      PROVE  (At(c, l) /\ Notified(c)) \/ (c \in LeaderCaster /\ Goes(c, "drain"))
  BY <1>1, Zenon DEF TryLeader, Goes, countVars
<1>2. ASSUME NEW c \in Caster, NEW l \in Listener, DrainLeader(c, l)
      PROVE  c \in LeaderCaster /\ Goes(c, "retry")
  BY <1>2, Zenon DEF DrainLeader, Goes, CastInv, Caster
<1>3. ASSUME NEW c \in Caster, NEW l \in Listener, RetryLeader(c, l) \/ EnqueueMember(c, l)
      PROVE  At(c, l) /\ Notified(c)
  BY <1>3, Zenon DEF RetryLeader, EnqueueMember
<1>4. ASSUME NEW l \in Listener,
             \/ Watch(l) \/ Unwatch(l) \/ WatcherEnds(l) \/ FirstSelectDefault(l)
             \/ Callback(l) \/ CallbackReturns(l)
      PROVE  UNCHANGED <<castVars, countVars>>
  BY <1>4, Zenon DEF Watch, Unwatch, WatcherEnds, FirstSelectDefault, Callback, CallbackReturns,
              CallOnLeaderChange, CallOnMembershipChange
<1>5. ASSUME NEW l \in Queued, AddSucceeds(l) \/ AddGivesUp(l) \/ Dequeue(l)
      PROVE  UNCHANGED <<castVars, countVars>>
  BY <1>5, Zenon DEF AddSucceeds, AddGivesUp, Dequeue, listenerVars
<1>6. CASE closeAllListeners \/ CloseWaits
  BY <1>6, Zenon DEF closeAllListeners, CloseWaits
<1>7. CASE UNCHANGED membershipVars
  BY <1>7, Zenon DEF membershipVars, listenerVars
<1> QED
  BY <1>1, <1>2, <1>3, <1>4, <1>5, <1>6, <1>7, Zenon
  DEF ListenersNext, QueueSteps, ElectionSteps, CastStep

\* Broadcasts go through their snapshots, sink by sink.
LEMMA CastInvStep ==
    ASSUME SinkTypeOK, CastInv, SinkInv, [ListenersNext]_membershipVars
    PROVE  CastInv'
<1>1. CASE UNCHANGED <<castVars, countVars>>
  BY <1>1 DEF CastInv, castVars, countVars
<1>2. ASSUME NEW c \in LeaderCaster, broadcastLeaderEvent(c) PROVE CastInv'
  <2>1. Begin(c, begun + 1) /\ UNCHANGED memberSeq /\ c \in Caster /\ c # "observeMembers"
    BY <1>2, Zenon DEF broadcastLeaderEvent, Caster, LeaderCaster
  <2> QED
    BY <2>1, CastBegins DEF CastInv, Caster
<1>3. CASE broadcastMembershipEvent
  <2>1. Begin("observeMembers", memberSeq + 1) /\ memberSeq' = memberSeq + 1
        /\ "observeMembers" \in Caster /\ memberSeq \in Nat
    BY <1>3 DEF broadcastMembershipEvent, Caster, SinkTypeOK
  <2> QED
    BY <2>1, CastBegins DEF CastInv
<1>4. ASSUME NEW c \in LeaderCaster, Goes(c, "drain") \/ Goes(c, "retry") PROVE CastInv'
  <2>1. /\ \E at \in {"drain", "retry"} : bcast' = [bcast EXCEPT ![c] = at]
        /\ bcast[c] # "idle" /\ c # "observeMembers" /\ UNCHANGED <<toNotify, current, memberSeq>>
    BY <1>4, Zenon DEF Goes, countVars, LeaderCaster
  <2>2. bcast \in [Caster -> {"idle", "try", "drain", "retry"}] /\ "observeMembers" \in Caster
    BY Zenon DEF SinkTypeOK, Caster
  <2> QED
    BY <2>1, <2>2, ZenonT(30) DEF CastInv
<1>5. ASSUME NEW c \in Caster, NEW l \in Listener, At(c, l), Notified(c) PROVE CastInv'
  <2>1. UNCHANGED memberSeq
    BY <1>5, Zenon DEF Notified
  <2> QED
    BY <2>1, <1>5, CastMoves DEF CastInv, Caster
<1> QED
  BY <1>1, <1>2, <1>3, <1>4, <1>5, StepKinds, Zenon

\* Events that are under way have not returned.
LEMMA EventInvStep ==
    ASSUME SinkTypeOK, CastInv, SinkInv, EventInv, [ListenersNext]_membershipVars
    PROVE  EventInv'
<1> USE SinkAssumption
<1>0. begun \in 0 .. MaxLeaderEvents /\ LeaderCaster \subseteq Caster
  BY Zenon DEF SinkTypeOK, Caster
<1>1. CASE UNCHANGED <<castVars, countVars>>
  BY <1>1, Zenon DEF EventInv, castVars, countVars
<1>2. ASSUME NEW c \in LeaderCaster, broadcastLeaderEvent(c) PROVE EventInv'
  <2>1. /\ Begin(c, begun + 1) /\ begun' = begun + 1 /\ UNCHANGED returned
        /\ before' = [before EXCEPT ![begun + 1] = returned]
        /\ told' = [told EXCEPT ![begun + 1] = registered]
        /\ begun < MaxLeaderEvents
    BY <1>2, Zenon DEF broadcastLeaderEvent
  <2>2. /\ bcast'[c] = "try" /\ current'[c] = begun + 1
        /\ \A d \in Caster : d # c => bcast'[d] = bcast[d] /\ current'[d] = current[d]
    BY <2>1, <1>0, CastBegins
  <2>3. \A d \in LeaderCaster : bcast'[d] # "idle" => current'[d] \in (1 .. begun') \ returned'
    BY <2>1, <2>2, <1>0 DEF EventInv
  <2>4. \A d, f \in LeaderCaster :
          bcast'[d] # "idle" /\ bcast'[f] # "idle" /\ current'[d] = current'[f] => d = f
    BY <2>2, <1>0 DEF EventInv
  <2>5. \A e \in LeaderEvent : before'[e] \subseteq returned' /\ (e > begun' => told'[e] = {})
    BY <2>1, <1>0 DEF EventInv, SinkTypeOK, LeaderEvent
  <2>6. returned' \subseteq 1 .. begun'
    BY <2>1, <1>0 DEF EventInv
  <2> QED
    BY <2>3, <2>4, <2>5, <2>6, Zenon DEF EventInv
<1>3. CASE broadcastMembershipEvent
  <2>1. Begin("observeMembers", memberSeq + 1) /\ UNCHANGED <<begun, before, told, returned>>
        /\ "observeMembers" \in Caster /\ "observeMembers" \notin LeaderCaster
    BY <1>3, Zenon DEF broadcastMembershipEvent, Caster, LeaderCaster
  <2>2. \A d \in LeaderCaster : bcast'[d] = bcast[d] /\ current'[d] = current[d]
    BY <2>1, <1>0, CastBegins
  <2> QED
    BY <2>1, <2>2 DEF EventInv
<1>4. ASSUME NEW c \in LeaderCaster, Goes(c, "drain") \/ Goes(c, "retry") PROVE EventInv'
  <2>1. /\ \A d \in LeaderCaster : bcast'[d] # "idle" => bcast[d] # "idle"
        /\ UNCHANGED <<current, begun, returned, before, told>>
    BY <1>4, <1>0, Zenon DEF Goes, SinkTypeOK, countVars
  <2> QED
    BY <2>1, Zenon DEF EventInv
<1>5. ASSUME NEW c \in Caster, NEW l \in Listener, At(c, l), Notified(c) PROVE EventInv'
  <2>1. UNCHANGED <<begun, before, told>>
    BY <1>5, Zenon DEF Notified
  <2>2. /\ bcast[c] # "idle"
        /\ \A d \in Caster : d # c => bcast'[d] = bcast[d] /\ current'[d] = current[d]
        /\ \/ bcast'[c] = "try" /\ current'[c] = current[c] /\ returned' = returned
           \/ /\ bcast'[c] = "idle" /\ current'[c] = 0
              /\ returned' = IF c \in LeaderCaster THEN returned \cup {current[c]} ELSE returned
    BY <1>5, CastMoves
  <2>3. returned \subseteq returned' /\ returned' \subseteq 1 .. begun'
    BY <2>1, <2>2, Zenon DEF EventInv
  <2>4. \A d \in LeaderCaster : bcast'[d] # "idle" => current'[d] \in (1 .. begun') \ returned'
    BY <2>1, <2>2, <1>0 DEF EventInv
  <2>5. \A d, f \in LeaderCaster :
          bcast'[d] # "idle" /\ bcast'[f] # "idle" /\ current'[d] = current'[f] => d = f
    BY <2>2, <1>0 DEF EventInv
  <2> QED
    BY <2>1, <2>3, <2>4, <2>5, Zenon DEF EventInv
<1> QED
  BY <1>1, <1>2, <1>3, <1>4, <1>5, StepKinds, Zenon

\* The types of what describes the broadcasts.
LEMMA CastTypesStep ==
    ASSUME SinkTypeOK, CastInv, SinkInv, EventInv, [ListenersNext]_membershipVars
    PROVE  /\ bcast' \in [Caster -> {"idle", "try", "drain", "retry"}]
           /\ current' \in [Caster -> 0 .. (MaxLeaderEvents + MaxMemberEvents)]
           /\ toNotify' \in [Caster -> Seq(Listener)]
           /\ begun' \in 0 .. MaxLeaderEvents /\ memberSeq' \in 0 .. MaxMemberEvents
           /\ returned' \in SUBSET LeaderEvent
           /\ before' \in [LeaderEvent -> SUBSET LeaderEvent]
           /\ told' \in [LeaderEvent -> SUBSET Listener]
<1> USE SinkAssumption
<1>0. begun \in 0 .. MaxLeaderEvents /\ memberSeq \in 0 .. MaxMemberEvents
      /\ LeaderCaster \subseteq Caster /\ "observeMembers" \in Caster
  BY Zenon DEF SinkTypeOK, Caster
<1>1. CASE UNCHANGED <<castVars, countVars>>
  BY <1>1, Zenon DEF SinkTypeOK, castVars, countVars
<1>2. ASSUME NEW c \in LeaderCaster, broadcastLeaderEvent(c)
      PROVE  /\ current' = [current EXCEPT ![c] = begun + 1]
             /\ begun + 1 \in LeaderEvent
             /\ begun' = begun + 1 /\ UNCHANGED <<memberSeq, returned>>
             /\ before' = [before EXCEPT ![begun + 1] = returned]
             /\ told' = [told EXCEPT ![begun + 1] = registered]
             /\ bcast' \in [Caster -> {"idle", "try", "drain", "retry"}]
             /\ toNotify' \in [Caster -> Seq(Listener)]
  <2>1. /\ Begin(c, begun + 1) /\ begun' = begun + 1 /\ UNCHANGED <<memberSeq, returned>>
        /\ before' = [before EXCEPT ![begun + 1] = returned]
        /\ told' = [told EXCEPT ![begun + 1] = registered]
        /\ begun + 1 \in LeaderEvent
    BY <1>2, <1>0 DEF broadcastLeaderEvent, LeaderEvent
  <2> QED
    BY <2>1, <1>0, CastBegins, Zenon
<1>3. ASSUME NEW c \in LeaderCaster, broadcastLeaderEvent(c)
      PROVE  /\ current' \in [Caster -> 0 .. (MaxLeaderEvents + MaxMemberEvents)]
             /\ begun' \in 0 .. MaxLeaderEvents /\ memberSeq' \in 0 .. MaxMemberEvents
             /\ returned' \in SUBSET LeaderEvent
             /\ before' \in [LeaderEvent -> SUBSET LeaderEvent]
             /\ told' \in [LeaderEvent -> SUBSET Listener]
  <2>0. /\ current' = [current EXCEPT ![c] = begun + 1]
        /\ begun + 1 \in LeaderEvent
        /\ begun' = begun + 1 /\ UNCHANGED <<memberSeq, returned>>
        /\ before' = [before EXCEPT ![begun + 1] = returned]
        /\ told' = [told EXCEPT ![begun + 1] = registered]
    BY <1>2, <1>3, Zenon
  <2>1. begun + 1 \in 0 .. (MaxLeaderEvents + MaxMemberEvents) /\ begun + 1 \in 0 .. MaxLeaderEvents
    BY <2>0, <1>0 DEF LeaderEvent
  <2>2. current' \in [Caster -> 0 .. (MaxLeaderEvents + MaxMemberEvents)]
    BY <2>0, <2>1, Zenon DEF SinkTypeOK
  <2>3. /\ before' \in [LeaderEvent -> SUBSET LeaderEvent]
        /\ told' \in [LeaderEvent -> SUBSET Listener]
    BY <2>0, Zenon DEF SinkTypeOK
  <2> QED
    BY <2>0, <2>1, <2>2, <2>3, <1>0, Zenon DEF SinkTypeOK
<1>4. CASE broadcastMembershipEvent
  <2>1. /\ Begin("observeMembers", memberSeq + 1) /\ memberSeq' = memberSeq + 1
        /\ UNCHANGED <<begun, returned, before, told>>
        /\ memberSeq + 1 \in 0 .. MaxMemberEvents
        /\ memberSeq + 1 \in 0 .. (MaxLeaderEvents + MaxMemberEvents)
    BY <1>4, <1>0 DEF broadcastMembershipEvent
  <2>2. /\ current' = [current EXCEPT !["observeMembers"] = memberSeq + 1]
        /\ bcast' \in [Caster -> {"idle", "try", "drain", "retry"}]
        /\ toNotify' \in [Caster -> Seq(Listener)]
    BY <2>1, <1>0, CastBegins, Zenon
  <2>3. current' \in [Caster -> 0 .. (MaxLeaderEvents + MaxMemberEvents)]
    BY <2>1, <2>2, Zenon DEF SinkTypeOK
  <2> QED
    BY <2>1, <2>2, <2>3, Zenon DEF SinkTypeOK
<1>5. ASSUME NEW c \in LeaderCaster, Goes(c, "drain") \/ Goes(c, "retry")
      PROVE  /\ bcast' \in [Caster -> {"idle", "try", "drain", "retry"}]
             /\ UNCHANGED <<current, toNotify, begun, memberSeq, returned, before, told>>
  BY <1>5, Zenon DEF Goes, SinkTypeOK, countVars
<1>6. ASSUME NEW c \in Caster, NEW l \in Listener, At(c, l), Notified(c)
      PROVE  /\ current' \in [Caster -> 0 .. (MaxLeaderEvents + MaxMemberEvents)]
             /\ returned' \in SUBSET LeaderEvent
             /\ bcast' \in [Caster -> {"idle", "try", "drain", "retry"}]
             /\ toNotify' \in [Caster -> Seq(Listener)]
             /\ UNCHANGED <<begun, before, told, memberSeq>>
  <2>1. current' \in [Caster -> 0 .. (MaxLeaderEvents + MaxMemberEvents)]
    BY <1>6 DEF Notified, SinkTypeOK
  <2>2. bcast[c] # "idle"
    BY <1>6, CastMoves, Zenon
  <2>3. c \in LeaderCaster => current[c] \in LeaderEvent
    BY <2>2, <1>0 DEF EventInv, LeaderEvent
  <2>4. returned' \in SUBSET LeaderEvent
    BY <2>3, <1>6, Zenon DEF Notified, SinkTypeOK
  <2> QED
    BY <2>1, <2>4, <1>6, CastMoves, Zenon DEF Notified
<1>7. CASE \E c \in LeaderCaster : Goes(c, "drain") \/ Goes(c, "retry")
  BY <1>5, <1>7, Zenon DEF SinkTypeOK
<1>8. CASE \E c \in Caster, l \in Listener : At(c, l) /\ Notified(c)
  BY <1>6, <1>8, Zenon DEF SinkTypeOK
<1> QED
  BY <1>1, <1>2, <1>3, <1>4, <1>7, <1>8, StepKinds, Zenon

-----------------------------------------------------------------------------
(* The sinks *)

\* The steps, by what they do to the sinks and to the goroutines of listeners.
LEMMA SinkKinds ==
    ASSUME CastInv, [ListenersNext]_membershipVars
    PROVE  \/ UNCHANGED <<sinkVars, watchVars>>
           \/ \E l \in Listener :
               \/ Watch(l) \/ Unwatch(l) \/ WatcherEnds(l) \/ FirstSelectDefault(l)
               \/ CallOnLeaderChange(l) \/ CallOnMembershipChange(l) \/ CallbackReturns(l)
           \/ \E c \in LeaderCaster, l \in Listener :
               TryLeader(c, l) \/ DrainLeader(c, l) \/ RetryLeader(c, l)
           \/ \E l \in Listener : EnqueueMember("observeMembers", l)
           \/ closeAllListeners
<1>1. ASSUME NEW c \in Caster, NEW l \in Listener,
             TryLeader(c, l) \/ DrainLeader(c, l) \/ RetryLeader(c, l)
      PROVE  c \in LeaderCaster
  BY <1>1, Zenon DEF TryLeader, DrainLeader, RetryLeader, CastInv, Caster
<1>2. ASSUME NEW c \in Caster, NEW l \in Listener, EnqueueMember(c, l)
      PROVE  c = "observeMembers"
  BY <1>2, Zenon DEF EnqueueMember
<1>3. ASSUME NEW l \in Queued, AddSucceeds(l) \/ AddGivesUp(l) \/ Dequeue(l)
      PROVE  UNCHANGED <<sinkVars, watchVars>>
  BY <1>3, Zenon DEF AddSucceeds, AddGivesUp, Dequeue, listenerVars
<1>4. CASE CloseWaits
  BY <1>4, Zenon DEF CloseWaits
<1>5. ASSUME NEW c \in LeaderCaster, broadcastLeaderEvent(c)
      PROVE  UNCHANGED <<sinkVars, watchVars>>
  BY <1>5, Zenon DEF broadcastLeaderEvent
<1>6. CASE broadcastMembershipEvent
  BY <1>6, Zenon DEF broadcastMembershipEvent
<1>7. CASE UNCHANGED membershipVars
  BY <1>7, Zenon DEF membershipVars, listenerVars
<1>8. ASSUME NEW l \in Listener, Callback(l)
      PROVE  CallOnLeaderChange(l) \/ CallOnMembershipChange(l)
  BY <1>8, Zenon DEF Callback
<1> QED
  BY <1>1, <1>2, <1>3, <1>4, <1>5, <1>6, <1>7, <1>8
  DEF ListenersNext, QueueSteps, ElectionSteps, CastStep

\* Sinks are registered open, and closed once and for all when they leave.
LEMMA SinkInvStep ==
    ASSUME SinkTypeOK, CastInv, SinkInv, [ListenersNext]_membershipVars
    PROVE  SinkInv'
<1>1. CASE UNCHANGED <<sinkVars, watchVars>>
  BY <1>1, Zenon DEF SinkInv, sinkVars, watchVars
<1>2. ASSUME NEW l \in Listener, Watch(l) PROVE SinkInv'
  BY <1>2, Zenon DEF Watch, SinkInv, SinkTypeOK
<1>3. ASSUME NEW l \in Listener, Unwatch(l) PROVE SinkInv'
  BY <1>3, Zenon DEF Unwatch, SinkInv, SinkTypeOK, watchVars
<1>4. ASSUME NEW l \in Listener,
             \/ WatcherEnds(l) \/ FirstSelectDefault(l)
             \/ CallOnLeaderChange(l) \/ CallOnMembershipChange(l) \/ CallbackReturns(l)
      PROVE  SinkInv'
  <2>1. UNCHANGED <<registered, done>>
    BY <1>4, Zenon DEF WatcherEnds, FirstSelectDefault, CallOnLeaderChange, CallOnMembershipChange,
                CallbackReturns, sinkVars
  <2>2. \E at \in {"ended", "second", "calling", "first"} : watcher' = [watcher EXCEPT ![l] = at]
    BY <1>4, Zenon DEF WatcherEnds, FirstSelectDefault, CallOnLeaderChange, CallOnMembershipChange,
                CallbackReturns
  <2> QED
    BY <2>1, <2>2, Zenon DEF SinkInv, SinkTypeOK
<1>5. ASSUME NEW c \in LeaderCaster, NEW l \in Listener,
             TryLeader(c, l) \/ DrainLeader(c, l) \/ RetryLeader(c, l)
      PROVE  SinkInv'
  <2>1. UNCHANGED <<registered, done, watcher>>
    BY <1>5, Zenon DEF TryLeader, DrainLeader, RetryLeader, watchVars
  <2> QED
    BY <2>1, Zenon DEF SinkInv
<1>6. ASSUME NEW l \in Listener, EnqueueMember("observeMembers", l) PROVE SinkInv'
  BY <1>6, Zenon DEF EnqueueMember, SinkInv, watchVars
<1>7. CASE closeAllListeners
  <2>1. registered' = {} /\ UNCHANGED watcher /\ done' = [l \in Listener |-> done[l] \/ l \in registered]
    BY <1>7, Zenon DEF closeAllListeners, watchVars
  <2>2. ASSUME NEW l \in Listener, watcher'[l] = "none" PROVE ~done'[l]
    BY <2>1, <2>2, Zenon DEF SinkInv
  <2> QED
    BY <2>1, <2>2, Zenon DEF SinkInv
<1> QED
  BY <1>1, <1>2, <1>3, <1>4, <1>5, <1>6, <1>7, SinkKinds

\* A select of enqueueLeader that sends: the event was not returned yet.
LEMMA LeaderPut ==
    ASSUME SinkTypeOK, EventInv, NEW c \in LeaderCaster, NEW l \in Listener,
           bcast[c] # "idle", leaderCh[l] = <<>>, PutLeader(c, l)
    PROVE  /\ current[c] \in LeaderEvent /\ current[c] \notin returned /\ current[c] # 0
           /\ leaderCh' \in [Listener -> Seq(LeaderEvent)]
           /\ leaderCh'[l] # <<>> /\ Len(leaderCh'[l]) = 1 /\ Head(leaderCh'[l]) = current[c]
           /\ \A k \in Listener : k # l => leaderCh'[k] = leaderCh[k]
<1> USE SinkAssumption
<1>1. begun \in 0 .. MaxLeaderEvents /\ current[c] \in (1 .. begun) \ returned
  BY Zenon DEF SinkTypeOK, EventInv
<1>2. current[c] \in LeaderEvent /\ current[c] \notin returned /\ current[c] # 0
  BY <1>1 DEF LeaderEvent
<1>3. leaderCh' = [leaderCh EXCEPT ![l] = Append(<<>>, current[c])]
  BY Zenon DEF PutLeader
<1>4. /\ Append(<<>>, current[c]) \in Seq(LeaderEvent)
      /\ Append(<<>>, current[c]) # <<>> /\ Len(Append(<<>>, current[c])) = 1
      /\ Head(Append(<<>>, current[c])) = current[c]
  BY <1>2
<1>5. leaderCh'[l] = Append(<<>>, current[c])
  BY <1>3, Zenon DEF SinkTypeOK
<1>6. leaderCh' \in [Listener -> Seq(LeaderEvent)]
  BY <1>3, <1>4, Zenon DEF SinkTypeOK
<1>7. \A k \in Listener : k # l => leaderCh'[k] = leaderCh[k]
  BY <1>3, Zenon DEF SinkTypeOK
<1> QED
  BY <1>2, <1>4, <1>5, <1>6, <1>7

\* What enqueueLeader does at a sink: it goes on to the drain, or ends with the
\* event in the channel, or without.
LEMMA LeaderKinds ==
    ASSUME NEW c \in LeaderCaster, NEW l \in Listener, TryLeader(c, l) \/ RetryLeader(c, l)
    PROVE  /\ bcast[c] \in {"try", "retry"} /\ At(c, l)
           /\ UNCHANGED <<registered, done, memberCh, watchVars, electionClose>>
           /\ \/ bcast[c] = "try" /\ Goes(c, "drain") /\ UNCHANGED leaderCh
              \/ Notified(c) /\ leaderCh[l] = <<>> /\ PutLeader(c, l)
              \/ /\ Notified(c) /\ UNCHANGED leaderCh
                 /\ done[l] \/ (bcast[c] = "retry" /\ leaderCh[l] # <<>>)
<1>1. CASE TryLeader(c, l)
  BY <1>1, Zenon DEF TryLeader, Goes, countVars
<1>2. CASE RetryLeader(c, l)
  <2>1. CASE done[l] /\ UNCHANGED leaderCh
    BY <1>2, <2>1, Zenon DEF RetryLeader
  <2>2. CASE leaderCh[l] # <<>> /\ UNCHANGED leaderCh
    BY <1>2, <2>2, Zenon DEF RetryLeader
  <2>3. CASE leaderCh[l] = <<>> /\ PutLeader(c, l)
    BY <1>2, <2>3, Zenon DEF RetryLeader
  <2> QED
    BY <1>2, <2>1, <2>2, <2>3 DEF RetryLeader
<1> QED
  BY <1>1, <1>2, Zenon

\* A channel of leader events holds at most one; the first of it is an event.
LEMMA LeaderChannel ==
    ASSUME SinkTypeOK, NEW l \in Listener, leaderCh[l] # <<>>
    PROVE  Head(leaderCh[l]) \in LeaderEvent /\ Head(leaderCh[l]) # 0 /\ Len(leaderCh[l]) = 1
<1>1. leaderCh[l] \in Seq(LeaderEvent) /\ Len(leaderCh[l]) <= 1
  BY Zenon DEF SinkTypeOK
<1>2. Head(leaderCh[l]) \in LeaderEvent /\ Len(leaderCh[l]) = 1
  BY <1>1, OneElement, Zenon
<1>3. Head(leaderCh[l]) # 0
  BY <1>2, SinkAssumption DEF LeaderEvent
<1> QED
  BY <1>2, <1>3, Zenon

\* The types and capacities of the channels.
LEMMA ChannelTypesStep ==
    ASSUME SinkTypeOK, CastInv, SinkInv, EventInv, [ListenersNext]_membershipVars
    PROVE  /\ leaderCh' \in [Listener -> Seq(LeaderEvent)]
           /\ memberCh' \in [Listener -> Seq(MemberEvent)]
           /\ \A l \in Listener : Len(leaderCh'[l]) <= 1 /\ Len(memberCh'[l]) <= listenerQueueSize
           /\ heard' \in [Listener -> {0} \cup LeaderEvent]
           /\ memberHeard' \in [Listener -> {0} \cup MemberEvent]
<1> USE SinkAssumption
<1>1. CASE UNCHANGED <<leaderCh, memberCh, heard, memberHeard>>
  BY <1>1, Zenon DEF SinkTypeOK
<1>2. ASSUME NEW l \in Listener,
             \/ Watch(l) \/ Unwatch(l) \/ WatcherEnds(l) \/ FirstSelectDefault(l)
             \/ CallbackReturns(l)
      PROVE  UNCHANGED <<leaderCh, memberCh, heard, memberHeard>>
  BY <1>2, Zenon DEF Watch, Unwatch, WatcherEnds, FirstSelectDefault, CallbackReturns, watchVars, sinkVars
<1>3. ASSUME NEW l \in Listener, CallOnLeaderChange(l)
      PROVE  /\ UNCHANGED <<memberCh, memberHeard>>
             /\ leaderCh' \in [Listener -> Seq(LeaderEvent)]
             /\ \A k \in Listener : Len(leaderCh'[k]) <= 1
             /\ heard' \in [Listener -> {0} \cup LeaderEvent]
  <2>1. Head(leaderCh[l]) \in LeaderEvent
    BY <1>3, LeaderChannel, Zenon DEF CallOnLeaderChange
  <2>2. heard' \in [Listener -> {0} \cup LeaderEvent]
    BY <2>1, <1>3, Zenon DEF CallOnLeaderChange, SinkTypeOK
  <2>3. leaderCh' \in [Listener -> Seq(LeaderEvent)]
    BY <1>3 DEF CallOnLeaderChange, SinkTypeOK
  <2>4. \A k \in Listener : leaderCh'[k] = leaderCh[k] \/ leaderCh'[k] = <<>>
    BY <1>3, Zenon DEF CallOnLeaderChange, SinkTypeOK
  <2>5. \A k \in Listener : Len(leaderCh'[k]) <= 1
    BY <2>4 DEF SinkTypeOK
  <2> QED
    BY <2>2, <2>3, <2>5, <1>3, Zenon DEF CallOnLeaderChange
<1>4. ASSUME NEW l \in Listener, CallOnMembershipChange(l)
      PROVE  /\ UNCHANGED <<leaderCh, heard>>
             /\ memberCh' \in [Listener -> Seq(MemberEvent)]
             /\ \A k \in Listener : Len(memberCh'[k]) <= listenerQueueSize
             /\ memberHeard' \in [Listener -> {0} \cup MemberEvent]
  <2>1. /\ memberCh[l] \in Seq(MemberEvent) /\ memberCh[l] # <<>>
        /\ memberCh' = [memberCh EXCEPT ![l] = Tail(memberCh[l])]
        /\ memberHeard' = [memberHeard EXCEPT ![l] = Head(memberCh[l])]
        /\ Len(memberCh[l]) <= listenerQueueSize
    BY <1>4, Zenon DEF CallOnMembershipChange, SinkTypeOK
  <2>2. /\ Head(memberCh[l]) \in MemberEvent /\ Tail(memberCh[l]) \in Seq(MemberEvent)
        /\ Len(Tail(memberCh[l])) <= listenerQueueSize
    BY <2>1
  <2>3. memberHeard' \in [Listener -> {0} \cup MemberEvent]
    BY <2>1, <2>2, Zenon DEF SinkTypeOK
  <2>4. memberCh' \in [Listener -> Seq(MemberEvent)]
    BY <2>1, <2>2, Zenon DEF SinkTypeOK
  <2>5. \A k \in Listener : Len(memberCh'[k]) <= listenerQueueSize
    BY <2>1, <2>2, Zenon DEF SinkTypeOK
  <2> QED
    BY <2>3, <2>4, <2>5, <1>4, Zenon DEF CallOnMembershipChange
<1>5. ASSUME NEW c \in LeaderCaster, NEW l \in Listener, TryLeader(c, l) \/ RetryLeader(c, l)
      PROVE  /\ UNCHANGED <<memberCh, heard, memberHeard>>
             /\ leaderCh' \in [Listener -> Seq(LeaderEvent)]
             /\ \A k \in Listener : Len(leaderCh'[k]) <= 1
  <2>1. /\ bcast[c] # "idle" /\ UNCHANGED <<memberCh, heard, memberHeard>>
        /\ UNCHANGED leaderCh \/ (leaderCh[l] = <<>> /\ PutLeader(c, l))
    BY <1>5, LeaderKinds, Zenon DEF watchVars
  <2>2. CASE UNCHANGED leaderCh
    BY <2>1, <2>2, Zenon DEF SinkTypeOK
  <2>3. CASE leaderCh[l] = <<>> /\ PutLeader(c, l)
    <3>1. /\ leaderCh' \in [Listener -> Seq(LeaderEvent)] /\ Len(leaderCh'[l]) = 1
          /\ \A k \in Listener : k # l => leaderCh'[k] = leaderCh[k]
      BY <2>1, <2>3, LeaderPut, Zenon
    <3>2. \A k \in Listener : Len(leaderCh[k]) <= 1
      BY Zenon DEF SinkTypeOK
    <3>3. ASSUME NEW k \in Listener PROVE Len(leaderCh'[k]) <= 1
      <4>1. CASE k = l
        BY <4>1, <3>1
      <4>2. CASE k # l
        BY <4>2, <3>1, <3>2, Zenon
      <4> QED
        BY <4>1, <4>2, Zenon
    <3> QED
      BY <2>1, <3>1, <3>3, Zenon
  <2> QED
    BY <2>1, <2>2, <2>3, Zenon
<1>6. ASSUME NEW c \in LeaderCaster, NEW l \in Listener, DrainLeader(c, l)
      PROVE  /\ UNCHANGED <<memberCh, heard, memberHeard>>
             /\ leaderCh' \in [Listener -> Seq(LeaderEvent)]
             /\ \A k \in Listener : Len(leaderCh'[k]) <= 1
  <2>1. leaderCh' \in [Listener -> Seq(LeaderEvent)]
    BY <1>6 DEF DrainLeader, SinkTypeOK
  <2>2. \A k \in Listener : leaderCh'[k] = leaderCh[k] \/ leaderCh'[k] = <<>>
    BY <1>6, Zenon DEF DrainLeader, SinkTypeOK
  <2>3. \A k \in Listener : Len(leaderCh'[k]) <= 1
    BY <2>2, SMTT(20) DEF SinkTypeOK
  <2> QED
    BY <2>1, <2>3, <1>6, Zenon DEF DrainLeader
<1>7. ASSUME NEW l \in Listener, EnqueueMember("observeMembers", l)
      PROVE  /\ UNCHANGED <<leaderCh, heard, memberHeard>>
             /\ memberCh' \in [Listener -> Seq(MemberEvent)]
             /\ \A k \in Listener : Len(memberCh'[k]) <= listenerQueueSize
  <2>1. current["observeMembers"] \in MemberEvent
    BY <1>7 DEF EnqueueMember, CastInv, SinkTypeOK, MemberEvent
  <2>2. CASE UNCHANGED memberCh
    BY <1>7, <2>2, Zenon DEF SinkTypeOK, EnqueueMember, watchVars
  <2>3. CASE /\ memberCh' = [memberCh EXCEPT ![l] = Append(memberCh[l], current["observeMembers"])]
             /\ Len(memberCh[l]) < listenerQueueSize
    <3>1. memberCh[l] \in Seq(MemberEvent)
      BY Zenon DEF SinkTypeOK
    <3>2. /\ Append(memberCh[l], current["observeMembers"]) \in Seq(MemberEvent)
          /\ Len(Append(memberCh[l], current["observeMembers"])) <= listenerQueueSize
      BY <3>1, <2>1, <2>3
    <3>3. memberCh' \in [Listener -> Seq(MemberEvent)]
      BY <2>3, <3>2, Zenon DEF SinkTypeOK
    <3>4. \A k \in Listener : Len(memberCh'[k]) <= listenerQueueSize
      BY <2>3, <3>2, Zenon DEF SinkTypeOK
    <3> QED
      BY <3>3, <3>4, <1>7, Zenon DEF EnqueueMember, watchVars
  <2> QED
    BY <1>7, <2>2, <2>3, Zenon DEF EnqueueMember
<1>8. CASE closeAllListeners
  BY <1>1, <1>8, Zenon DEF closeAllListeners, watchVars
<1>9. CASE UNCHANGED <<sinkVars, watchVars>>
  BY <1>1, <1>9, Zenon DEF sinkVars, watchVars
<1>10. CASE \E l \in Listener : CallOnLeaderChange(l) \/ CallOnMembershipChange(l)
  BY <1>3, <1>4, <1>10, Zenon DEF SinkTypeOK
<1>11. CASE \E c \in LeaderCaster, l \in Listener :
              TryLeader(c, l) \/ DrainLeader(c, l) \/ RetryLeader(c, l)
  BY <1>5, <1>6, <1>11 DEF SinkTypeOK
<1>12. CASE \E l \in Listener : EnqueueMember("observeMembers", l)
  BY <1>7, <1>12 DEF SinkTypeOK
<1> QED
  BY <1>1, <1>2, <1>8, <1>9, <1>10, <1>11, <1>12, SinkKinds

\* The types of the map of listeners and of what describes their goroutines.
LEMMA WatcherTypesStep ==
    ASSUME SinkTypeOK, CastInv, [ListenersNext]_membershipVars
    PROVE  /\ registered' \in SUBSET Listener
           /\ done' \in [Listener -> BOOLEAN]
           /\ watcher' \in [Listener -> {"none", "first", "second", "calling", "ended"}]
           /\ waiting' \in [Listener -> BOOLEAN]
<1>1. CASE UNCHANGED <<registered, done, watcher, waiting>>
  BY <1>1, Zenon DEF SinkTypeOK
<1>2. CASE UNCHANGED <<sinkVars, watchVars>>
  BY <1>1, <1>2 DEF sinkVars, watchVars
<1>3. ASSUME NEW l \in Listener, Watch(l) \/ WatcherEnds(l) \/ FirstSelectDefault(l)
      PROVE  /\ registered' \in SUBSET Listener /\ UNCHANGED <<done, waiting>>
             /\ watcher' \in [Listener -> {"none", "first", "second", "calling", "ended"}]
  BY <1>3, ZenonT(30) DEF Watch, WatcherEnds, FirstSelectDefault, sinkVars, SinkTypeOK
<1>4. ASSUME NEW l \in Listener, Unwatch(l)
      PROVE  /\ registered' \in SUBSET Listener /\ UNCHANGED <<watcher, waiting>>
             /\ done' \in [Listener -> BOOLEAN]
  BY <1>4, Zenon DEF Unwatch, watchVars, SinkTypeOK
<1>5. ASSUME NEW l \in Listener, CallOnLeaderChange(l)
      PROVE  /\ UNCHANGED <<registered, done>> /\ waiting' \in [Listener -> BOOLEAN]
             /\ watcher' \in [Listener -> {"none", "first", "second", "calling", "ended"}]
  BY <1>5, Zenon DEF CallOnLeaderChange, SinkTypeOK
<1>6. ASSUME NEW l \in Listener, CallOnMembershipChange(l)
      PROVE  /\ UNCHANGED <<registered, done, waiting>>
             /\ watcher' \in [Listener -> {"none", "first", "second", "calling", "ended"}]
  BY <1>6, Zenon DEF CallOnMembershipChange, SinkTypeOK
<1>7. ASSUME NEW l \in Listener, CallbackReturns(l)
      PROVE  /\ UNCHANGED <<registered, done>> /\ waiting' \in [Listener -> BOOLEAN]
             /\ watcher' \in [Listener -> {"none", "first", "second", "calling", "ended"}]
  BY <1>7, Zenon DEF CallbackReturns, sinkVars, SinkTypeOK
<1>8. ASSUME NEW c \in LeaderCaster, NEW l \in Listener, TryLeader(c, l) \/ RetryLeader(c, l)
      PROVE  UNCHANGED <<registered, done, watcher, waiting>>
  BY <1>8, LeaderKinds, Zenon DEF watchVars
<1>9. ASSUME NEW c \in LeaderCaster, NEW l \in Listener, DrainLeader(c, l)
      PROVE  UNCHANGED <<registered, done, watcher>> /\ waiting' \in [Listener -> BOOLEAN]
  BY <1>9, Zenon DEF DrainLeader, SinkTypeOK
<1>10. ASSUME NEW l \in Listener, EnqueueMember("observeMembers", l)
       PROVE  UNCHANGED <<registered, done, watcher, waiting>>
  BY <1>10, Zenon DEF EnqueueMember, watchVars
<1>11. CASE closeAllListeners
  BY <1>11 DEF closeAllListeners, watchVars, SinkTypeOK
<1>12. CASE \E l \in Listener :
               \/ Watch(l) \/ Unwatch(l) \/ WatcherEnds(l) \/ FirstSelectDefault(l)
               \/ CallOnLeaderChange(l) \/ CallOnMembershipChange(l) \/ CallbackReturns(l)
  BY <1>12, <1>3, <1>4, <1>5, <1>6, <1>7 DEF SinkTypeOK
<1>13. CASE \E c \in LeaderCaster, l \in Listener :
              TryLeader(c, l) \/ DrainLeader(c, l) \/ RetryLeader(c, l)
  BY <1>13, <1>8, <1>9, Zenon DEF SinkTypeOK
<1>14. CASE \E l \in Listener : EnqueueMember("observeMembers", l)
  BY <1>14, <1>10, <1>1, Zenon
<1> QED
  BY <1>2, <1>11, <1>12, <1>13, <1>14, SinkKinds

\* The types of the queues of MembershipListeners.
LEMMA QueueTypesStep ==
    ASSUME SinkTypeOK, QueueTypeOK, [ListenersNext]_membershipVars
    PROVE  QueueTypeOK' /\ electionClose' \in {"open", "closing", "returned"}
<1> USE QueueAssumption DEF QueueTypeOK
<1>1. ASSUME NEW l \in Listener, Callback(l) PROVE QueueTypeOK' /\ UNCHANGED electionClose
  BY <1>1 DEF Callback, CallOnLeaderChange, CallOnMembershipChange
<1>2. ASSUME NEW l \in Queued, AddSucceeds(l) PROVE QueueTypeOK' /\ UNCHANGED electionClose
  BY <1>2 DEF AddSucceeds, listenerVars
<1>3. ASSUME NEW l \in Queued, AddGivesUp(l) PROVE QueueTypeOK' /\ UNCHANGED electionClose
  BY <1>3 DEF AddGivesUp, listenerVars
<1>4. ASSUME NEW l \in Queued, Dequeue(l) PROVE QueueTypeOK' /\ UNCHANGED electionClose
  BY <1>4 DEF Dequeue, listenerVars
<1>5. CASE UNCHANGED membershipVars
  BY <1>5, Zenon DEF membershipVars, listenerVars, queueVars, SinkTypeOK
<1>6. ASSUME UNCHANGED queueVars PROVE QueueTypeOK'
  BY <1>6, Zenon DEF queueVars
<1>7. ASSUME NEW l \in Listener,
             \/ Watch(l) \/ Unwatch(l) \/ WatcherEnds(l) \/ FirstSelectDefault(l)
             \/ CallbackReturns(l)
      PROVE  UNCHANGED electionClose
  BY <1>7, Zenon DEF Watch, Unwatch, WatcherEnds, FirstSelectDefault, CallbackReturns
<1>8. ASSUME NEW c \in Caster, NEW l \in Listener,
             TryLeader(c, l) \/ DrainLeader(c, l) \/ RetryLeader(c, l) \/ EnqueueMember(c, l)
      PROVE  UNCHANGED electionClose
  BY <1>8, Zenon DEF TryLeader, DrainLeader, RetryLeader, EnqueueMember
<1>9. ASSUME NEW c \in LeaderCaster, broadcastLeaderEvent(c) PROVE UNCHANGED electionClose
  BY <1>9, Zenon DEF broadcastLeaderEvent
<1>10. ASSUME broadcastMembershipEvent PROVE UNCHANGED electionClose
  BY <1>10, Zenon DEF broadcastMembershipEvent
<1>11. electionClose \in {"open", "closing", "returned"}
  BY Zenon DEF SinkTypeOK
<1>12. CASE ListenersNext
  <2>1. electionClose' \in {"open", "closing", "returned"}
    <3>1. electionClose' = electionClose \/ closeAllListeners \/ CloseWaits
      BY <1>12, <1>1, <1>2, <1>3, <1>4, <1>7, <1>8, <1>9, <1>10
      DEF ListenersNext, QueueSteps, ElectionSteps, CastStep
    <3> QED
      BY <3>1, <1>11, Zenon DEF closeAllListeners, CloseWaits
  <2>2. QueueTypeOK'
    BY <1>12, <1>1, <1>2, <1>3, <1>4, <1>6, Zenon DEF ListenersNext, QueueSteps
  <2> QED
    BY <2>1, <2>2, Zenon
<1> QED
  BY <1>5, <1>11, <1>12 DEF membershipVars, listenerVars

\* All the types.
LEMMA SinkTypesStep ==
    ASSUME SinkTypeOK, QueueTypeOK, CastInv, SinkInv, EventInv, [ListenersNext]_membershipVars
    PROVE  SinkTypeOK' /\ QueueTypeOK'
<1>1. SinkTypeOK'
  BY CastTypesStep, ChannelTypesStep, WatcherTypesStep, QueueTypesStep, Zenon DEF SinkTypeOK
<1> QED
  BY <1>1, QueueTypesStep, Zenon

-----------------------------------------------------------------------------
(* Leader events *)

\* Only registered listeners are told.
LEMMA ToldInvStep ==
    ASSUME SinkTypeOK, CastInv, SinkInv, ToldInv, [ListenersNext]_membershipVars
    PROVE  ToldInv'
<1>1. \A l \in Listener : watcher[l] # "none" => watcher'[l] # "none"
  <2>1. CASE UNCHANGED watcher
    BY <2>1, Zenon
  <2>2. ASSUME NEW l \in Listener,
               \/ Watch(l) \/ WatcherEnds(l) \/ FirstSelectDefault(l)
               \/ CallOnLeaderChange(l) \/ CallOnMembershipChange(l) \/ CallbackReturns(l)
        PROVE  \E at \in {"ended", "second", "calling", "first"} :
                   watcher' = [watcher EXCEPT ![l] = at]
    BY <2>2, Zenon DEF Watch, WatcherEnds, FirstSelectDefault, CallOnLeaderChange,
                CallOnMembershipChange, CallbackReturns
  <2>3. CASE \E l \in Listener :
               \/ Watch(l) \/ WatcherEnds(l) \/ FirstSelectDefault(l)
               \/ CallOnLeaderChange(l) \/ CallOnMembershipChange(l) \/ CallbackReturns(l)
    BY <2>2, <2>3, Zenon DEF SinkTypeOK
  <2>4. CASE \E l \in Listener : Unwatch(l) \/ EnqueueMember("observeMembers", l)
    BY <2>1, <2>4, Zenon DEF Unwatch, EnqueueMember, watchVars
  <2>5. ASSUME NEW c \in LeaderCaster, NEW l \in Listener,
               TryLeader(c, l) \/ DrainLeader(c, l) \/ RetryLeader(c, l)
        PROVE  UNCHANGED watcher
    BY <2>5, Zenon DEF TryLeader, DrainLeader, RetryLeader, watchVars
  <2>6. CASE closeAllListeners \/ UNCHANGED <<sinkVars, watchVars>>
    BY <2>1, <2>6, Zenon DEF closeAllListeners, watchVars
  <2> QED
    BY <2>1, <2>3, <2>4, <2>5, <2>6, SinkKinds
<1>2. \/ UNCHANGED told
      \/ told' = [told EXCEPT ![begun + 1] = registered]
  BY StepKinds, Zenon DEF broadcastLeaderEvent, broadcastMembershipEvent, Goes, Notified, countVars
<1>3. \A l \in registered : watcher[l] # "none"
  BY Zenon DEF SinkInv, SinkTypeOK
<1>4. \A e \in LeaderEvent : told'[e] \subseteq told[e] \cup registered
  BY <1>2, Zenon DEF SinkTypeOK
<1>5. \A e \in LeaderEvent : \A l \in told'[e] : l \in Listener /\ watcher[l] # "none"
  BY <1>3, <1>4, Zenon DEF ToldInv, SinkTypeOK
<1> QED
  BY <1>1, <1>5, Zenon DEF ToldInv

\* A leader event that waits is taken from the first select.
LEMMA WaitInvStep ==
    ASSUME SinkTypeOK, CastInv, EventInv, WaitInv, [ListenersNext]_membershipVars
    PROVE  WaitInv'
<1>1. CASE UNCHANGED <<leaderCh, watcher, waiting>>
  BY <1>1, Zenon DEF WaitInv
<1>2. CASE UNCHANGED <<sinkVars, watchVars>>
  BY <1>1, <1>2, Zenon DEF sinkVars, watchVars
<1>3. ASSUME NEW l \in Listener, Watch(l) \/ WatcherEnds(l) PROVE WaitInv'
  <2>1. /\ UNCHANGED <<leaderCh, waiting>>
        /\ \E at \in {"first", "ended"} : watcher' = [watcher EXCEPT ![l] = at]
    BY <1>3, Zenon DEF Watch, WatcherEnds, sinkVars
  <2> QED
    BY <2>1, Zenon DEF WaitInv, SinkTypeOK
<1>4. ASSUME NEW l \in Listener, FirstSelectDefault(l) PROVE WaitInv'
  BY <1>4, Zenon DEF FirstSelectDefault, sinkVars, WaitInv, SinkTypeOK
<1>5. ASSUME NEW l \in Listener, CallOnLeaderChange(l) PROVE WaitInv'
  BY <1>5, Zenon DEF CallOnLeaderChange, WaitInv, SinkTypeOK
<1>6. ASSUME NEW l \in Listener, CallOnMembershipChange(l) PROVE WaitInv'
  BY <1>6, Zenon DEF CallOnMembershipChange, WaitInv, SinkTypeOK
<1>7. ASSUME NEW l \in Listener, CallbackReturns(l) PROVE WaitInv'
  <2>1. /\ UNCHANGED leaderCh /\ watcher' = [watcher EXCEPT ![l] = "first"]
        /\ waiting' = [waiting EXCEPT ![l] = leaderCh[l] # <<>>]
    BY <1>7, Zenon DEF CallbackReturns, sinkVars
  <2>2. ASSUME NEW k \in Listener, k # l PROVE waiting'[k] = waiting[k] /\ watcher'[k] = watcher[k]
    BY <2>1, <2>2 DEF SinkTypeOK
  <2>3. (waiting'[l] <=> leaderCh[l] # <<>>) /\ watcher'[l] = "first"
    BY <2>1, Zenon DEF SinkTypeOK
  <2> QED
    BY <2>1, <2>2, <2>3, Zenon DEF WaitInv
<1>8. ASSUME NEW c \in LeaderCaster, NEW l \in Listener, TryLeader(c, l) \/ RetryLeader(c, l)
      PROVE  WaitInv'
  <2>1. /\ bcast[c] # "idle" /\ UNCHANGED <<watcher, waiting>>
        /\ UNCHANGED leaderCh \/ (leaderCh[l] = <<>> /\ PutLeader(c, l))
    BY <1>8, LeaderKinds, Zenon DEF watchVars
  <2>2. CASE leaderCh[l] = <<>> /\ PutLeader(c, l)
    <3>1. leaderCh'[l] # <<>> /\ \A k \in Listener : k # l => leaderCh'[k] = leaderCh[k]
      BY <2>1, <2>2, LeaderPut, Zenon
    <3> QED
      BY <2>1, <3>1, Zenon DEF WaitInv
  <2> QED
    BY <2>1, <2>2, <1>1
<1>9. ASSUME NEW c \in LeaderCaster, NEW l \in Listener, DrainLeader(c, l) PROVE WaitInv'
  BY <1>9, Zenon DEF DrainLeader, WaitInv, SinkTypeOK
<1>10. CASE \E l \in Listener : Unwatch(l) \/ EnqueueMember("observeMembers", l)
  BY <1>1, <1>10, Zenon DEF Unwatch, EnqueueMember, watchVars
<1>11. CASE closeAllListeners
  BY <1>1, <1>11, Zenon DEF closeAllListeners, watchVars
<1> QED
  BY <1>2, <1>3, <1>4, <1>5, <1>6, <1>7, <1>8, <1>9, <1>10, <1>11, SinkKinds
=============================================================================
