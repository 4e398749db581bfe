--------------------------- MODULE ListenerProofs ---------------------------
(***************************************************************************)
(* What a listener hears, for any listeners, any number of events and any  *)
(* capacities: that no listener stays behind a leader event that was       *)
(* broadcast to it, that leader events come first, that membership events  *)
(* come in order, and how many events there are for it at most.            *)
(***************************************************************************)
EXTENDS SinkProofs

\* A goroutine between its drain and its last select at the sink.
Drained(c, l) == bcast[c] = "retry" /\ At(c, l)

\* The listener has, or has heard of, an event that had not returned before e began.
Recent(l, e) == LatestOf(l) # 0 /\ LatestOf(l) \notin before[e]

\* What such a goroutine finds in the channel was put there after the drain,
\* hence by a broadcast that had not returned before its own.
KeptWhileDrained(c, l) ==
    Drained(c, l) /\ leaderCh[l] # <<>> => Head(leaderCh[l]) \notin before[current[c]]

\* The listener has, or will be put, an event no older than e.
Coming(l, e) ==
    \/ Recent(l, e)
    \/ \E c \in LeaderCaster : current[c] = e /\ Facing(c, l)
    \/ leaderCh[l] = <<>> /\ \E c \in LeaderCaster : Drained(c, l)

\* The inductive invariant behind LatestHeard.
DeliveryInv ==
    /\ \A c \in LeaderCaster, l \in Listener : KeptWhileDrained(c, l)
    /\ \A l \in registered, e \in LeaderEvent : l \in told[e] => Coming(l, e)

\* A sink that a broadcast has yet to notify may receive one more event.
Due(c, l) == IF Facing(c, l) THEN 1 ELSE 0

\* The broadcasts that have yet to notify a sink, and what it and the goroutines
\* of tryAddEvent hold.
Faced(l) == Due("campaign", l) + Due("observeLeader", l) + Due("observeMembers", l)
Held(l) == adding[l] + Len(leaderCh[l]) + Len(memberCh[l])

\* Every event is at most one goroutine of tryAddEvent for a listener, from the
\* broadcast that has yet to reach its sink to the goroutine's end.
CountInv ==
    \A l \in Queued : Held(l) + Faced(l) <= begun + memberSeq

\* What waits in a sink is newer than what its listener has heard of, and in the
\* order of the broadcasts.
Ordered(l) ==
    /\ memberHeard[l] <= memberSeq
    /\ \A i \in 1 .. Len(memberCh[l]) :
        /\ memberHeard[l] < memberCh[l][i] /\ memberCh[l][i] <= memberSeq
        /\ \A j \in 1 .. Len(memberCh[l]) : j < i => memberCh[l][j] < memberCh[l][i]
    /\ Facing("observeMembers", l) =>
        /\ memberHeard[l] < current["observeMembers"]
        /\ \A i \in 1 .. Len(memberCh[l]) : memberCh[l][i] < current["observeMembers"]

OrderInv == \A l \in Listener : Ordered(l)

-----------------------------------------------------------------------------
(* Leader events *)

\* A step that leader events do not take part in.
LeaderSame ==
    /\ \A c \in LeaderCaster :
        bcast'[c] = bcast[c] /\ current'[c] = current[c] /\ toNotify'[c] = toNotify[c]
    /\ UNCHANGED <<leaderCh, heard, before, told>>

\* The steps that DeliveryInv depends on.
LEMMA DeliveryKinds ==
    ASSUME SinkTypeOK, CastInv, SinkInv, [ListenersNext]_membershipVars
    PROVE  \/ LeaderSame /\ registered' \subseteq registered
           \/ \E l \in Listener : LeaderSame /\ Watch(l)
           \/ \E l \in Listener : CallOnLeaderChange(l)
           \/ \E c \in LeaderCaster : broadcastLeaderEvent(c)
           \/ \E c \in LeaderCaster, l \in Listener :
               TryLeader(c, l) \/ DrainLeader(c, l) \/ RetryLeader(c, l)
<1>0. LeaderCaster \subseteq Caster /\ "observeMembers" \in Caster /\ "observeMembers" \notin LeaderCaster
  BY Zenon DEF Caster, LeaderCaster
<1>1. ASSUME NEW l \in Listener, Watch(l) PROVE LeaderSame
  BY <1>1, Zenon DEF Watch, LeaderSame, castVars, countVars
<1>2. ASSUME NEW l \in Listener,
             \/ Unwatch(l) \/ WatcherEnds(l) \/ FirstSelectDefault(l)
             \/ CallOnMembershipChange(l) \/ CallbackReturns(l)
      PROVE  LeaderSame /\ registered' \subseteq registered
  BY <1>2, Zenon DEF Unwatch, WatcherEnds, FirstSelectDefault, CallOnMembershipChange, CallbackReturns,
              LeaderSame, castVars, countVars, watchVars, sinkVars
<1>3. ASSUME NEW l \in Queued, AddSucceeds(l) \/ AddGivesUp(l) \/ Dequeue(l)
      PROVE  UNCHANGED listenerVars
  BY <1>3, Zenon DEF AddSucceeds, AddGivesUp, Dequeue
<1>4. CASE UNCHANGED listenerVars
  BY <1>4, Zenon DEF listenerVars, LeaderSame, castVars, countVars, watchVars, sinkVars
<1>5. CASE closeAllListeners \/ CloseWaits
  BY <1>5, Zenon DEF closeAllListeners, CloseWaits, LeaderSame, castVars, countVars, watchVars, sinkVars
<1>6. CASE broadcastMembershipEvent
  <2>1. /\ Begin("observeMembers", memberSeq + 1)
        /\ UNCHANGED <<begun, before, told, returned, sinkVars, watchVars>>
    BY <1>6, Zenon DEF broadcastMembershipEvent
  <2>2. \A c \in LeaderCaster :
            bcast'[c] = bcast[c] /\ current'[c] = current[c] /\ toNotify'[c] = toNotify[c]
    BY <2>1, <1>0, CastBegins
  <2> QED
    BY <2>1, <2>2, Zenon DEF LeaderSame, sinkVars, watchVars
<1>7. ASSUME NEW c \in Caster, NEW l \in Listener, EnqueueMember(c, l)
      PROVE  LeaderSame /\ registered' \subseteq registered
  <2>1. /\ c = "observeMembers" /\ At(c, l) /\ Notified(c)
        /\ UNCHANGED <<registered, leaderCh, heard, before, told>>
    BY <1>7, Zenon DEF EnqueueMember, watchVars, Notified
  <2>2. \A d \in LeaderCaster :
            bcast'[d] = bcast[d] /\ current'[d] = current[d] /\ toNotify'[d] = toNotify[d]
    BY <2>1, <1>0, CastMoves
  <2> QED
    BY <2>1, <2>2, Zenon DEF LeaderSame
<1>8. ASSUME NEW c \in Caster, NEW l \in Listener,
             TryLeader(c, l) \/ DrainLeader(c, l) \/ RetryLeader(c, l)
      PROVE  c \in LeaderCaster
  BY <1>8, Zenon DEF TryLeader, DrainLeader, RetryLeader, CastInv, Caster
<1>9. ASSUME NEW l \in Listener, Callback(l)
      PROVE  CallOnLeaderChange(l) \/ (LeaderSame /\ registered' \subseteq registered)
  BY <1>9, <1>2, Zenon DEF Callback
<1>10. CASE UNCHANGED membershipVars
  BY <1>4, <1>10, Zenon DEF membershipVars
<1> QED
  BY <1>1, <1>2, <1>3, <1>4, <1>5, <1>6, <1>7, <1>8, <1>9, <1>10
  DEF ListenersNext, QueueSteps, ElectionSteps, CastStep

\* What keeps an event coming.
LEMMA ComingKept ==
    ASSUME NEW k \in Listener, NEW e \in LeaderEvent, Coming(k, e),
           leaderCh'[k] = leaderCh[k], heard'[k] = heard[k], before'[e] = before[e],
           \A d \in LeaderCaster : current[d] = e /\ Facing(d, k) => current'[d] = e /\ Facing(d, k)',
           \A d \in LeaderCaster : Drained(d, k) => Drained(d, k)'
    PROVE  Coming(k, e)'
<1>1. CASE Recent(k, e)
  <2>1. LatestOf(k)' = LatestOf(k)
    BY Zenon DEF LatestOf
  <2>2. Recent(k, e)'
    BY <1>1, <2>1, Zenon DEF Recent
  <2> QED
    BY <2>2, Zenon DEF Coming
<1>2. CASE \E c \in LeaderCaster : current[c] = e /\ Facing(c, k)
  <2>1. PICK c \in LeaderCaster : current[c] = e /\ Facing(c, k)
    BY <1>2, Zenon
  <2>2. current'[c] = e /\ Facing(c, k)'
    BY <2>1, Zenon
  <2> QED
    BY <2>2, Zenon DEF Coming
<1>3. CASE leaderCh[k] = <<>> /\ \E c \in LeaderCaster : Drained(c, k)
  <2>1. PICK c \in LeaderCaster : Drained(c, k)
    BY <1>3, Zenon
  <2>2. leaderCh'[k] = <<>> /\ Drained(c, k)'
    BY <1>3, <2>1, Zenon
  <2> QED
    BY <2>2, Zenon DEF Coming
<1> QED
  BY <1>1, <1>2, <1>3, Zenon DEF Coming

\* A broadcast that leaves a sink is no longer between its selects there.
LEMMA DrainedMoves ==
    ASSUME SinkTypeOK, CastInv, NEW c \in Caster, NEW l \in Listener, At(c, l), Notified(c),
           NEW d \in Caster, NEW k \in Listener
    PROVE  /\ Drained(d, k)' => d # c /\ Drained(d, k)
           /\ Drained(d, k) /\ d # c => Drained(d, k)'
           /\ Drained(c, k) => k = l
<1>1. bcast'[c] \in {"idle", "try"}
      /\ (d # c => bcast'[d] = bcast[d] /\ toNotify'[d] = toNotify[d])
  BY CastMoves
<1>2. CASE d = c
  BY <1>1, <1>2, Zenon DEF Drained, At
<1>3. CASE d # c
  BY <1>1, <1>3, Zenon DEF Drained, At
<1> QED
  BY <1>2, <1>3, Zenon

\* Events stay on their way to the sinks that the broadcast is not at.
LEMMA ElsewhereKept ==
    ASSUME SinkTypeOK, CastInv, EventInv, DeliveryInv,
           NEW c \in LeaderCaster, NEW l \in Listener, At(c, l), Notified(c), UNCHANGED heard,
           NEW k \in Listener, k # l, leaderCh'[k] = leaderCh[k]
    PROVE  /\ \A d \in LeaderCaster : KeptWhileDrained(d, k)'
           /\ \A e \in LeaderEvent : Coming(k, e) => Coming(k, e)'
<1>0. LeaderCaster \subseteq Caster /\ UNCHANGED before
  BY Zenon DEF Caster, Notified
<1>1. ASSUME NEW d \in LeaderCaster PROVE KeptWhileDrained(d, k)'
  <2>1. Drained(d, k)' => Drained(d, k) /\ current'[d] = current[d]
    BY <1>0, DrainedMoves, CastMoves
  <2> QED
    BY <1>0, <2>1, Zenon DEF DeliveryInv, KeptWhileDrained
<1>2. ASSUME NEW e \in LeaderEvent, Coming(k, e) PROVE Coming(k, e)'
  <2>1. ASSUME NEW d \in LeaderCaster, current[d] = e, Facing(d, k)
        PROVE  current'[d] = e /\ Facing(d, k)'
    <3>1. Facing(d, k)'
      BY <1>0, <2>1, CastMoves
    <3>2. CASE d # c
      BY <1>0, <2>1, <3>1, <3>2, CastMoves
    <3>3. CASE d = c
      <4>1. toNotify'[c] # <<>>
        <5>1. PICK i \in 1 .. Len(toNotify'[c]) : TRUE
          BY <3>1, <3>3, Zenon DEF Facing
        <5>2. toNotify'[c] \in Seq(Listener)
          BY <1>0, CastMoves, Zenon
        <5> QED
          BY <5>1, <5>2
      <4>2. bcast'[c] # "idle"
        BY <4>1, <1>0, CastMoves, Zenon
      <4>3. current'[c] = current[c]
        BY <4>2, <1>0, CastMoves, Zenon
      <4> QED
        BY <2>1, <3>1, <3>3, <4>3, Zenon
    <3> QED
      BY <3>2, <3>3, Zenon
  <2>2. ASSUME NEW d \in LeaderCaster, Drained(d, k) PROVE Drained(d, k)'
    BY <1>0, <2>2, DrainedMoves
  <2> QED
    BY <1>0, <1>2, <2>1, <2>2, ComingKept, Zenon
<1> QED
  BY <1>1, <1>2, Zenon

\* No step loses an event that a listener has coming.
LEMMA DeliveryStep ==
    ASSUME SinkTypeOK, CastInv, SinkInv, EventInv, ToldInv, DeliveryInv,
           [ListenersNext]_membershipVars
    PROVE  DeliveryInv'
<1> USE SinkAssumption
<1>0. LeaderCaster \subseteq Caster /\ registered \subseteq Listener /\ begun \in 0 .. MaxLeaderEvents
  BY Zenon DEF Caster, SinkTypeOK
<1>1. ASSUME LeaderSame
      PROVE  /\ \A c \in LeaderCaster, l \in Listener : KeptWhileDrained(c, l)'
             /\ \A l \in registered, e \in LeaderEvent : l \in told'[e] => Coming(l, e)'
  <2>1. \A c \in LeaderCaster, l \in Listener :
            (Facing(c, l)' <=> Facing(c, l)) /\ (Drained(c, l)' <=> Drained(c, l))
    BY <1>1, Zenon DEF LeaderSame, Facing, Drained, At
  <2>2. \A c \in LeaderCaster, l \in Listener : KeptWhileDrained(c, l)'
    BY <1>1, <2>1, Zenon DEF LeaderSame, DeliveryInv, KeptWhileDrained
  <2>3. ASSUME NEW l \in registered, NEW e \in LeaderEvent, l \in told'[e] PROVE Coming(l, e)'
    <3>1. Coming(l, e)
      BY <1>1, <2>3, Zenon DEF LeaderSame, DeliveryInv
    <3> QED
      BY <1>0, <1>1, <2>1, <3>1, ComingKept, Zenon DEF LeaderSame
  <2> QED
    BY <2>2, <2>3, Zenon
<1>2. CASE LeaderSame /\ registered' \subseteq registered
  BY <1>1, <1>2, Zenon DEF DeliveryInv
<1>3. ASSUME NEW l \in Listener, LeaderSame, Watch(l) PROVE DeliveryInv'
  <2>1. registered' = registered \cup {l} /\ UNCHANGED told
    BY <1>3, Zenon DEF Watch, LeaderSame
  <2>2. \A e \in LeaderEvent : l \notin told[e]
    BY <1>3, Zenon DEF Watch, ToldInv
  <2> QED
    BY <1>1, <1>3, <2>1, <2>2, Zenon DEF DeliveryInv
<1>4. ASSUME NEW l \in Listener, CallOnLeaderChange(l) PROVE DeliveryInv'
  <2>1. /\ leaderCh[l] # <<>> /\ UNCHANGED <<registered, castVars, countVars>>
        /\ leaderCh'[l] = <<>> /\ heard'[l] = Head(leaderCh[l])
        /\ \A k \in Listener : k # l => leaderCh'[k] = leaderCh[k] /\ heard'[k] = heard[k]
    BY <1>4, Zenon DEF CallOnLeaderChange, SinkTypeOK
  <2>2. \A c \in LeaderCaster, k \in Listener :
            (Facing(c, k)' <=> Facing(c, k)) /\ (Drained(c, k)' <=> Drained(c, k))
    BY <2>1, Zenon DEF castVars, Facing, Drained, At
  <2>3. ASSUME NEW c \in LeaderCaster, NEW k \in Listener PROVE KeptWhileDrained(c, k)'
    <3>1. CASE k = l
      BY <3>1, <2>1, Zenon DEF KeptWhileDrained
    <3>2. CASE k # l
      BY <3>2, <2>1, <2>2, Zenon DEF KeptWhileDrained, DeliveryInv, castVars, countVars
    <3> QED
      BY <3>1, <3>2, Zenon
  <2>4. ASSUME NEW k \in registered, NEW e \in LeaderEvent, k \in told[e] PROVE Coming(k, e)'
    <3>0. Coming(k, e) /\ k \in Listener /\ UNCHANGED <<before, current>>
      BY <1>0, <2>1, <2>4, Zenon DEF DeliveryInv, castVars, countVars
    <3>1. CASE k # l
      BY <3>0, <3>1, <2>1, <2>2, ComingKept, Zenon
    <3>2. CASE k = l /\ Recent(k, e)
      <4>1. LatestOf(k)' = LatestOf(k)
        BY <3>2, <2>1, Zenon DEF LatestOf
      <4> QED
        BY <4>1, <3>0, <3>2, Zenon DEF Recent, Coming
    <3>3. CASE \E c \in LeaderCaster : current[c] = e /\ Facing(c, k)
      BY <3>0, <3>3, <2>2, Zenon DEF Coming
    <3> QED
      BY <3>0, <3>1, <3>2, <3>3, <2>1, Zenon DEF Coming
  <2> QED
    BY <2>1, <2>3, <2>4, Zenon DEF DeliveryInv, countVars
<1>5. ASSUME NEW c \in LeaderCaster, broadcastLeaderEvent(c) PROVE DeliveryInv'
  <2>1. /\ Begin(c, begun + 1) /\ UNCHANGED <<registered, leaderCh, heard>>
        /\ begun + 1 \in LeaderEvent
        /\ \A e \in LeaderEvent : e # begun + 1 => before'[e] = before[e] /\ told'[e] = told[e]
    BY <1>0, <1>5 DEF broadcastLeaderEvent, sinkVars, watchVars, SinkTypeOK, LeaderEvent
  <2>2. /\ bcast'[c] = "try" /\ current'[c] = begun + 1 /\ bcast[c] = "idle"
        /\ \A d \in Caster : d # c => bcast'[d] = bcast[d] /\ current'[d] = current[d]
                                      /\ toNotify'[d] = toNotify[d]
        /\ \A k \in Listener : ~Facing(c, k) /\ (k \in registered => Facing(c, k)')
        /\ \A d \in Caster, k \in Listener : Facing(d, k) => Facing(d, k)'
    BY <1>0, <2>1, CastBegins
  <2>3. \A d \in LeaderCaster, k \in Listener :
            /\ Drained(d, k)' => d # c /\ Drained(d, k)
            /\ Drained(d, k) => Drained(d, k)'
    BY <1>0, <2>2, Zenon DEF Drained, At
  <2>4. ASSUME NEW d \in LeaderCaster, NEW k \in Listener PROVE KeptWhileDrained(d, k)'
    <3>1. Drained(d, k)' =>
            /\ Drained(d, k) /\ current'[d] = current[d] /\ current[d] \in LeaderEvent
            /\ current[d] # begun + 1
      BY <1>0, <2>2, <2>3 DEF Drained, EventInv, LeaderEvent
    <3> QED
      BY <2>1, <3>1, Zenon DEF KeptWhileDrained, DeliveryInv
  <2>5. ASSUME NEW k \in registered, NEW e \in LeaderEvent, k \in told'[e] PROVE Coming(k, e)'
    <3>1. CASE e = begun + 1
      BY <1>0, <2>2, <3>1, Zenon DEF Coming
    <3>2. CASE e # begun + 1
      <4>1. Coming(k, e) /\ before'[e] = before[e]
        BY <2>1, <2>5, <3>2, Zenon DEF DeliveryInv
      <4>2. \A d \in LeaderCaster :
                current[d] = e /\ Facing(d, k) => current'[d] = e /\ Facing(d, k)'
        BY <1>0, <2>2, Zenon
      <4> QED
        BY <1>0, <2>1, <2>3, <4>1, <4>2, ComingKept, Zenon
    <3> QED
      BY <3>1, <3>2, Zenon
  <2> QED
    BY <2>1, <2>4, <2>5, Zenon DEF DeliveryInv
<1>6. ASSUME NEW c \in LeaderCaster, NEW l \in Listener, TryLeader(c, l) \/ RetryLeader(c, l)
      PROVE  DeliveryInv'
  <2>0. bcast[c] \in {"try", "retry"} /\ At(c, l) /\ UNCHANGED <<registered, done, heard>>
    BY <1>6, LeaderKinds, Zenon DEF watchVars
  <2>1. CASE bcast[c] = "try" /\ Goes(c, "drain") /\ UNCHANGED leaderCh
    <3>1. /\ UNCHANGED <<current, toNotify, before, told>>
          /\ bcast'[c] = "drain" /\ \A d \in LeaderCaster : d # c => bcast'[d] = bcast[d]
      BY <1>0, <2>1, Zenon DEF Goes, countVars, SinkTypeOK
    <3>2. \A d \in LeaderCaster, k \in Listener :
            (Facing(d, k)' <=> Facing(d, k)) /\ (Drained(d, k)' <=> Drained(d, k))
      BY <2>1, <3>1, Zenon DEF Facing, Drained, At
    <3>3. \A d \in LeaderCaster, k \in Listener : KeptWhileDrained(d, k)'
      BY <2>1, <3>1, <3>2, Zenon DEF DeliveryInv, KeptWhileDrained
    <3>4. ASSUME NEW k \in registered, NEW e \in LeaderEvent, k \in told[e] PROVE Coming(k, e)'
      <4>1. Coming(k, e)
        BY <3>4, Zenon DEF DeliveryInv
      <4> QED
        BY <1>0, <2>0, <2>1, <3>1, <3>2, <4>1, ComingKept
    <3> QED
      BY <2>0, <3>1, <3>3, <3>4, Zenon DEF DeliveryInv
  <2>2. ASSUME Notified(c), \A k \in Listener : k # l => leaderCh'[k] = leaderCh[k],
               \A d \in LeaderCaster : KeptWhileDrained(d, l)',
               l \in registered => \A e \in LeaderEvent : Coming(l, e) => Coming(l, e)'
        PROVE  DeliveryInv'
    <3>1. ASSUME NEW d \in LeaderCaster, NEW k \in Listener PROVE KeptWhileDrained(d, k)'
      <4>1. CASE k = l
        BY <2>2, <4>1, Zenon
      <4>2. CASE k # l
        BY <2>0, <2>2, <4>2, ElsewhereKept, Zenon
      <4> QED
        BY <4>1, <4>2, Zenon
    <3>2. ASSUME NEW k \in registered, NEW e \in LeaderEvent, k \in told[e] PROVE Coming(k, e)'
      <4>0. Coming(k, e) /\ k \in Listener
        BY <1>0, <3>2, Zenon DEF DeliveryInv
      <4>1. CASE k = l
        BY <2>2, <4>0, <4>1, Zenon
      <4>2. CASE k # l
        BY <2>0, <2>2, <4>0, <4>2, ElsewhereKept
      <4> QED
        BY <4>1, <4>2, Zenon
    <3>3. UNCHANGED told
      BY <2>2, Zenon DEF Notified
    <3> QED
      BY <2>0, <3>1, <3>2, <3>3, Zenon DEF DeliveryInv
  <2>3. CASE Notified(c) /\ leaderCh[l] = <<>> /\ PutLeader(c, l)
    <3>1. /\ current[c] \notin returned /\ current[c] # 0
          /\ leaderCh'[l] # <<>> /\ Head(leaderCh'[l]) = current[c]
          /\ \A k \in Listener : k # l => leaderCh'[k] = leaderCh[k]
      BY <2>0, <2>3, LeaderPut
    <3>2. UNCHANGED before /\ \A e \in LeaderEvent : current[c] \notin before[e]
      BY <2>3, <3>1, Zenon DEF Notified, EventInv
    <3>3. ASSUME NEW d \in LeaderCaster PROVE KeptWhileDrained(d, l)'
      <4>1. Drained(d, l)' => Drained(d, l) /\ current'[d] = current[d] /\ current[d] \in LeaderEvent
        <5>1. Drained(d, l)' => d # c /\ Drained(d, l)
          BY <1>0, <2>0, <2>3, DrainedMoves
        <5>2. d # c => current'[d] = current[d]
          BY <1>0, <2>0, <2>3, CastMoves
        <5>3. Drained(d, l) => current[d] \in LeaderEvent
          BY <1>0 DEF Drained, EventInv, LeaderEvent
        <5> QED
          BY <5>1, <5>2, <5>3, Zenon
      <4> QED
        BY <3>1, <3>2, <4>1, Zenon DEF KeptWhileDrained
    <3>4. ASSUME NEW e \in LeaderEvent PROVE Coming(l, e)'
      <4>1. LatestOf(l)' = current[c]
        BY <3>1, Zenon DEF LatestOf
      <4> QED
        BY <3>1, <3>2, <4>1, Zenon DEF Coming, Recent
    <3> QED
      BY <2>2, <2>3, <3>1, <3>3, <3>4, Zenon
  <2>4. ASSUME Notified(c), UNCHANGED leaderCh PROVE \A d \in LeaderCaster : KeptWhileDrained(d, l)'
    <3>1. ASSUME NEW d \in LeaderCaster
          PROVE  Drained(d, l)' => Drained(d, l) /\ current'[d] = current[d]
      <4>1. Drained(d, l)' => d # c /\ Drained(d, l)
        BY <1>0, <2>0, <2>4, DrainedMoves, Zenon
      <4>2. d # c => current'[d] = current[d]
        BY <1>0, <2>0, <2>4, CastMoves, Zenon
      <4> QED
        BY <4>1, <4>2, Zenon
    <3>2. UNCHANGED before
      BY <2>4, Zenon DEF Notified
    <3> QED
      BY <2>4, <3>1, <3>2, Zenon DEF KeptWhileDrained, DeliveryInv
  <2>5. CASE Notified(c) /\ UNCHANGED leaderCh /\ done[l]
    <3>1. l \notin registered
      BY <2>5, Zenon DEF SinkInv
    <3> QED
      BY <2>2, <2>4, <2>5, <3>1, Zenon
  <2>6. CASE Notified(c) /\ UNCHANGED leaderCh /\ bcast[c] = "retry" /\ leaderCh[l] # <<>>
    <3>1. Head(leaderCh[l]) \notin before[current[c]] /\ Head(leaderCh[l]) # 0
      BY <2>0, <2>6, LeaderChannel, Zenon DEF DeliveryInv, KeptWhileDrained, Drained
    <3>2. UNCHANGED before /\ LatestOf(l)' = LatestOf(l) /\ LatestOf(l) = Head(leaderCh[l])
      BY <2>0, <2>6, Zenon DEF Notified, LatestOf
    <3>3. ASSUME NEW e \in LeaderEvent, Coming(l, e) PROVE Coming(l, e)'
      <4>1. CASE Recent(l, e) \/ e = current[c]
        BY <3>1, <3>2, <4>1, Zenon DEF Recent, Coming
      <4>2. CASE \E d \in LeaderCaster : d # c /\ current[d] = e /\ Facing(d, l)
        <5>1. PICK d \in LeaderCaster : d # c /\ current[d] = e /\ Facing(d, l)
          BY <4>2, Zenon
        <5>2. current'[d] = e /\ Facing(d, l)'
          BY <1>0, <2>0, <2>6, <5>1, CastMoves
        <5> QED
          BY <5>2, Zenon DEF Coming
      <4> QED
        BY <2>6, <3>3, <4>1, <4>2, Zenon DEF Coming
    <3> QED
      BY <2>2, <2>4, <2>6, <3>3, Zenon
  <2> QED
    BY <1>6, <2>1, <2>3, <2>5, <2>6, LeaderKinds, Zenon
<1>7. ASSUME NEW c \in LeaderCaster, NEW l \in Listener, DrainLeader(c, l) PROVE DeliveryInv'
  <2>1. /\ bcast[c] = "drain" /\ At(c, l)
        /\ UNCHANGED <<registered, heard, current, toNotify, before, told>>
        /\ leaderCh'[l] = <<>> /\ \A k \in Listener : k # l => leaderCh'[k] = leaderCh[k]
        /\ bcast'[c] = "retry" /\ \A d \in LeaderCaster : d # c => bcast'[d] = bcast[d]
    BY <1>0, <1>7, Zenon DEF DrainLeader, countVars, SinkTypeOK
  <2>2. /\ Drained(c, l)'
        /\ \A d \in LeaderCaster, k \in Listener :
            /\ k # l => (Drained(d, k)' <=> Drained(d, k))
            /\ Facing(d, k)' <=> Facing(d, k)
    BY <2>1, Zenon DEF Drained, At, Facing
  <2>3. ASSUME NEW d \in LeaderCaster, NEW k \in Listener PROVE KeptWhileDrained(d, k)'
    <3>1. CASE k = l
      BY <2>1, <3>1, Zenon DEF KeptWhileDrained
    <3>2. CASE k # l
      BY <2>1, <2>2, <3>2 DEF KeptWhileDrained, DeliveryInv
    <3> QED
      BY <3>1, <3>2
  <2>4. ASSUME NEW k \in registered, NEW e \in LeaderEvent, k \in told[e] PROVE Coming(k, e)'
    <3>1. CASE k = l
      BY <2>1, <2>2, <3>1, Zenon DEF Coming
    <3>2. CASE k # l
      <4>1. Coming(k, e) /\ k \in Listener
        BY <1>0, <2>4 DEF DeliveryInv
      <4> QED
        BY <2>1, <2>2, <3>2, <4>1, ComingKept
    <3> QED
      BY <3>1, <3>2
  <2> QED
    BY <2>1, <2>3, <2>4, Zenon DEF DeliveryInv
<1> QED
  BY <1>2, <1>3, <1>4, <1>5, <1>6, <1>7, DeliveryKinds, Zenon

-----------------------------------------------------------------------------
(* How many events there are for a listener *)

\* A broadcast that has notified a sink is no longer due there, nothing else changes.
LEMMA DueMoves ==
    ASSUME SinkTypeOK, CastInv, NEW c \in Caster, NEW l \in Listener, At(c, l), Notified(c)
    PROVE  /\ Due(c, l) = 1 /\ Due(c, l)' = 0
           /\ \A d \in Caster, k \in Listener : d # c \/ k # l => Due(d, k)' = Due(d, k)
<1>1. /\ Facing(c, l)
      /\ \A d \in Caster, k \in Listener : Facing(d, k)' <=> Facing(d, k) /\ (d # c \/ k # l)
  BY CastMoves
<1>2. Due(c, l) = 1 /\ Due(c, l)' = 0
  BY <1>1, Zenon DEF Due
<1>3. ASSUME NEW d \in Caster, NEW k \in Listener, d # c \/ k # l PROVE Due(d, k)' = Due(d, k)
  <2>1. Facing(d, k)' <=> Facing(d, k)
    BY <1>1, <1>3, Zenon
  <2> QED
    BY <2>1, Zenon DEF Due
<1> QED
  BY <1>2, <1>3, Zenon

\* A broadcast that begins was due nowhere, and is now due at most once at a sink.
LEMMA DueBegins ==
    ASSUME SinkTypeOK, CastInv, SinkInv, NEW c \in Caster, NEW ev, Begin(c, ev),
           NEW k \in Listener
    PROVE  /\ Due(c, k) = 0 /\ Due(c, k)' \in {0, 1}
           /\ \A d \in Caster : d # c => Due(d, k)' = Due(d, k)
<1>1. /\ ~Facing(c, k)
      /\ \A d \in Caster : Facing(d, k)' <=> Facing(d, k) \/ (d = c /\ k \in registered)
  BY CastBegins, Zenon
<1>2. ASSUME NEW d \in Caster, d # c PROVE Due(d, k)' = Due(d, k)
  <2>1. Facing(d, k)' <=> Facing(d, k)
    BY <1>1, <1>2, Zenon
  <2> QED
    BY <2>1, Zenon DEF Due
<1>3. Due(c, k) = 0 /\ Due(c, k)' \in {0, 1}
  BY <1>1, Zenon DEF Due
<1> QED
  BY <1>2, <1>3, Zenon

\* How many broadcasts are due is a number,
LEMMA FacedType == ASSUME NEW l PROVE Faced(l) \in Nat
<1>1. \A c : Due(c, l) \in {0, 1}
  BY Zenon DEF Due
<1>2. Due("campaign", l) \in {0, 1} /\ Due("observeLeader", l) \in {0, 1}
      /\ Due("observeMembers", l) \in {0, 1}
  BY <1>1, Zenon
<1> QED
  BY <1>2 DEF Faced

\* which stays the same with each of them.
LEMMA FacedSame ==
    ASSUME NEW l, \A c \in Caster : Due(c, l)' = Due(c, l)
    PROVE  Faced(l)' = Faced(l)
<1>1. /\ Due("campaign", l)' = Due("campaign", l)
      /\ Due("observeLeader", l)' = Due("observeLeader", l)
      /\ Due("observeMembers", l)' = Due("observeMembers", l)
  BY Zenon DEF Caster, LeaderCaster
<1> QED
  BY <1>1, Zenon DEF Faced

\* One broadcast more or less has a sink before it.
LEMMA FacedChanges ==
    ASSUME NEW l, NEW c \in Caster, NEW n \in {-1, 0, 1}, Due(c, l)' = Due(c, l) + n,
           \A d \in Caster : d # c => Due(d, l)' = Due(d, l)
    PROVE  Faced(l)' = Faced(l) + n
<1>0. \A d : Due(d, l) \in {0, 1}
  BY Zenon DEF Due
<1>1. Due("campaign", l) \in {0, 1} /\ Due("observeLeader", l) \in {0, 1}
      /\ Due("observeMembers", l) \in {0, 1}
  BY <1>0, Zenon
<1>2. CASE c = "campaign"
  <2>1. /\ Due("campaign", l)' = Due("campaign", l) + n
        /\ Due("observeLeader", l)' = Due("observeLeader", l)
        /\ Due("observeMembers", l)' = Due("observeMembers", l)
    BY <1>2, Zenon DEF Caster, LeaderCaster
  <2> QED
    BY <1>1, <2>1 DEF Faced
<1>3. CASE c = "observeLeader"
  <2>1. /\ Due("campaign", l)' = Due("campaign", l)
        /\ Due("observeLeader", l)' = Due("observeLeader", l) + n
        /\ Due("observeMembers", l)' = Due("observeMembers", l)
    BY <1>3, Zenon DEF Caster, LeaderCaster
  <2> QED
    BY <1>1, <2>1 DEF Faced
<1>4. CASE c = "observeMembers"
  <2>1. /\ Due("campaign", l)' = Due("campaign", l)
        /\ Due("observeLeader", l)' = Due("observeLeader", l)
        /\ Due("observeMembers", l)' = Due("observeMembers", l) + n
    BY <1>4, Zenon DEF Caster, LeaderCaster
  <2> QED
    BY <1>1, <2>1 DEF Faced
<1> QED
  BY <1>2, <1>3, <1>4, Zenon DEF Caster, LeaderCaster

\* How the sums of three numbers move when their terms do.
LEMMA Sums ==
    /\ \A a, b \in Nat : (a + 1) + 0 + b <= a + 1 + b /\ a + 1 + b <= a + 0 + b + 1
    /\ \A a, b, c \in Nat :
        /\ a + b + c \in Nat /\ a <= a + b + c
        /\ (a + 1) + b + (c - 1) <= a + b + c
        /\ a + b + (c + 1) <= a + b + c + 1
    /\ \A a, b, c, x \in Nat :
        /\ x <= a => x + b + c <= a + b + c
        /\ x <= b => a + x + c <= a + b + c
  OBVIOUS

\* The numbers that CountInv adds up.
LEMMA HeldTypes ==
    ASSUME SinkTypeOK, QueueTypeOK, NEW l \in Queued
    PROVE  /\ l \in Listener /\ adding[l] \in Nat
           /\ Len(leaderCh[l]) \in Nat /\ Len(memberCh[l]) \in Nat
           /\ begun \in Nat /\ memberSeq \in Nat /\ Held(l) \in Nat
<1>1. l \in Listener /\ adding[l] \in Nat /\ begun \in Nat /\ memberSeq \in Nat
  BY QueueAssumption, SinkAssumption DEF QueueTypeOK, SinkTypeOK
<1>2. leaderCh[l] \in Seq(LeaderEvent) /\ memberCh[l] \in Seq(MemberEvent)
  BY <1>1, Zenon DEF SinkTypeOK
<1>3. Len(leaderCh[l]) \in Nat /\ Len(memberCh[l]) \in Nat
  BY <1>2
<1> QED
  BY <1>1, <1>3, Sums, Zenon DEF Held

\* No step makes a second goroutine of tryAddEvent for an event.
LEMMA CountStep ==
    ASSUME SinkTypeOK, QueueTypeOK, CastInv, SinkInv, EventInv, CountInv,
           SinkTypeOK', QueueTypeOK', [ListenersNext]_membershipVars
    PROVE  CountInv'
<1> SUFFICES ASSUME NEW l \in Queued PROVE Held(l)' + Faced(l)' <= begun' + memberSeq'
  BY Zenon DEF CountInv
<1>0. /\ l \in Listener /\ adding[l] \in Nat
      /\ Len(leaderCh[l]) \in Nat /\ Len(memberCh[l]) \in Nat
      /\ begun \in Nat /\ memberSeq \in Nat /\ Held(l) \in Nat /\ Faced(l) \in Nat
      /\ Held(l) + Faced(l) <= begun + memberSeq
  BY HeldTypes, FacedType, Zenon DEF CountInv
<1>1. Held(l)' \in Nat
  <2>1. adding'[l] \in Nat /\ leaderCh'[l] \in Seq(LeaderEvent) /\ memberCh'[l] \in Seq(MemberEvent)
    BY <1>0, Zenon DEF SinkTypeOK, QueueTypeOK
  <2>2. Len(leaderCh'[l]) \in Nat /\ Len(memberCh'[l]) \in Nat
    BY <2>1
  <2> QED
    BY <2>1, <2>2, Sums, Zenon DEF Held
<1>2. ASSUME UNCHANGED <<toNotify, begun, memberSeq>>, Held(l)' <= Held(l)
      PROVE  Held(l)' + Faced(l)' <= begun' + memberSeq'
  <2>1. \A c \in Caster : Due(c, l)' = Due(c, l)
    BY <1>2, Zenon DEF Due, Facing
  <2>2. Faced(l)' = Faced(l)
    BY <2>1, FacedSame, Zenon
  <2> QED
    BY <1>0, <1>1, <1>2, <2>2
<1>3. ASSUME NEW c \in Caster, NEW k \in Listener, At(c, k), Notified(c),
             k # l => Held(l)' = Held(l),
             k = l => Held(l)' <= Held(l) + 1
      PROVE  Held(l)' + Faced(l)' <= begun' + memberSeq'
  <2>1. UNCHANGED <<begun, memberSeq>>
    BY <1>3, Zenon DEF Notified
  <2>2. /\ k = l => Due(c, l) = 1 /\ Due(c, l)' = 0
        /\ \A d \in Caster : d # c \/ k # l => Due(d, l)' = Due(d, l)
    BY <1>0, <1>3, DueMoves
  <2>3. CASE k # l
    <3>1. Faced(l)' = Faced(l)
      BY <2>2, <2>3, FacedSame, Zenon
    <3> QED
      BY <1>0, <1>3, <2>1, <2>3, <3>1, Zenon
  <2>4. CASE k = l
    <3>1. Due(c, l)' = Due(c, l) + (-1) /\ -1 \in {-1, 0, 1}
      BY <2>2, <2>4
    <3>2. Faced(l)' = Faced(l) + (-1)
      BY <2>2, <3>1, FacedChanges, Zenon
    <3> QED
      BY <1>0, <1>1, <1>3, <2>1, <2>4, <3>2
  <2> QED
    BY <2>3, <2>4, Zenon
<1>4. ASSUME NEW c \in Caster, NEW ev, Begin(c, ev), Held(l)' = Held(l),
             begun' + memberSeq' = begun + memberSeq + 1
      PROVE  Held(l)' + Faced(l)' <= begun' + memberSeq'
  <2>1. /\ Due(c, l) = 0 /\ Due(c, l)' \in {0, 1}
        /\ \A d \in Caster : d # c => Due(d, l)' = Due(d, l)
    BY <1>0, <1>4, DueBegins, Zenon
  <2>2. Due(c, l)' = Due(c, l) + Due(c, l)' /\ Due(c, l)' \in {-1, 0, 1}
    BY <2>1
  <2>3. PICK n \in {0, 1} : Due(c, l)' = Due(c, l) + n
    BY <2>1
  <2>4. Faced(l)' = Faced(l) + n
    BY <2>1, <2>3, FacedChanges, Zenon
  <2> QED
    BY <1>0, <1>4, <2>3, <2>4
<1>5. ASSUME UNCHANGED <<toNotify, begun, memberSeq, adding, leaderCh, memberCh>>
      PROVE  Held(l)' + Faced(l)' <= begun' + memberSeq'
  <2>1. Held(l)' = Held(l)
    BY <1>5, Zenon DEF Held
  <2> QED
    BY <1>0, <1>2, <1>5, <2>1
<1>6. ASSUME NEW k \in Listener, Callback(k) PROVE Held(l)' + Faced(l)' <= begun' + memberSeq'
  <2>1. adding'[l] = IF l = k THEN adding[l] + 1 ELSE adding[l]
    BY <1>6, Zenon DEF Callback
  <2>2. CASE CallOnLeaderChange(k)
    <3>1. UNCHANGED <<castVars, countVars, memberCh>> /\ leaderCh[k] # <<>>
          /\ leaderCh' = [leaderCh EXCEPT ![k] = <<>>]
      BY <2>2, Zenon DEF CallOnLeaderChange
    <3>2. Len(leaderCh[k]) = 1
      BY <3>1, LeaderChannel, Zenon
    <3>3. l = k => leaderCh'[l] = <<>>
      BY <3>1 DEF SinkTypeOK
    <3>4. l # k => leaderCh'[l] = leaderCh[l]
      BY <3>1 DEF SinkTypeOK
    <3>5. Len(leaderCh'[l]) = IF l = k THEN 0 ELSE Len(leaderCh[l])
      BY <3>3, <3>4, Zenon
    <3>6. CASE l = k
      <4>1. /\ Held(l) = adding[l] + 1 + Len(memberCh[l])
            /\ Held(l)' = (adding[l] + 1) + 0 + Len(memberCh[l])
        BY <2>1, <3>1, <3>2, <3>5, <3>6, Zenon DEF Held
      <4>2. (adding[l] + 1) + 0 + Len(memberCh[l]) <= adding[l] + 1 + Len(memberCh[l])
        BY <1>0, Sums, Zenon
      <4> QED
        BY <1>2, <3>1, <4>1, <4>2, Zenon DEF castVars, countVars
    <3>7. CASE l # k
      <4>1. Held(l)' = Held(l)
        BY <2>1, <3>1, <3>4, <3>7, Zenon DEF Held
      <4>2. Held(l)' <= Held(l)
        BY <1>0, <4>1
      <4> QED
        BY <1>2, <3>1, <4>2, Zenon DEF castVars, countVars
    <3> QED
      BY <3>6, <3>7, Zenon
  <2>3. CASE CallOnMembershipChange(k)
    <3>1. UNCHANGED <<castVars, countVars, leaderCh>> /\ memberCh[k] # <<>>
          /\ memberCh' = [memberCh EXCEPT ![k] = Tail(memberCh[k])]
          /\ memberCh[k] \in Seq(MemberEvent)
      BY <2>3, Zenon DEF CallOnMembershipChange, SinkTypeOK
    <3>2. Len(Tail(memberCh[k])) = Len(memberCh[k]) - 1 /\ Len(memberCh[k]) \in Nat
          /\ Len(memberCh[k]) > 0
      BY <3>1
    <3>3. l = k => memberCh'[l] = Tail(memberCh[k])
      BY <3>1 DEF SinkTypeOK
    <3>4. l # k => memberCh'[l] = memberCh[l]
      BY <3>1 DEF SinkTypeOK
    <3>5. Len(memberCh'[l]) = IF l = k THEN Len(memberCh[l]) - 1 ELSE Len(memberCh[l])
      BY <3>2, <3>3, <3>4, Zenon
    <3>6. CASE l = k
      <4>1. Held(l)' = (adding[l] + 1) + Len(leaderCh[l]) + (Len(memberCh[l]) - 1)
        BY <2>1, <3>1, <3>5, <3>6, Zenon DEF Held
      <4>2. (adding[l] + 1) + Len(leaderCh[l]) + (Len(memberCh[l]) - 1) <= Held(l)
        BY <1>0, Sums, Zenon DEF Held
      <4> QED
        BY <1>2, <3>1, <4>1, <4>2, Zenon DEF castVars, countVars
    <3>7. CASE l # k
      <4>1. Held(l)' = Held(l)
        BY <2>1, <3>1, <3>4, <3>7, Zenon DEF Held
      <4>2. Held(l)' <= Held(l)
        BY <1>0, <4>1
      <4> QED
        BY <1>2, <3>1, <4>2, Zenon DEF castVars, countVars
    <3> QED
      BY <3>6, <3>7, Zenon
  <2> QED
    BY <1>6, <2>2, <2>3, Zenon DEF Callback
<1>7. ASSUME NEW k \in Queued, AddSucceeds(k) \/ AddGivesUp(k) PROVE Held(l)' + Faced(l)' <= begun' + memberSeq'
  <2>1. /\ adding[k] > 0 /\ adding' = [adding EXCEPT ![k] = adding[k] - 1]
        /\ UNCHANGED <<castVars, countVars, leaderCh, memberCh>>
    BY <1>7, Zenon DEF AddSucceeds, AddGivesUp, listenerVars, sinkVars
  <2>2. adding'[l] <= adding[l] /\ adding'[l] \in Nat
    <3>1. adding[k] \in Nat /\ adding[k] > 0 /\ adding'[l] = IF l = k THEN adding[k] - 1 ELSE adding[l]
      BY <2>1, Zenon DEF QueueTypeOK
    <3> QED
      BY <1>0, <3>1
  <2>3. Held(l)' <= Held(l)
    <3>1. Held(l)' = adding'[l] + Len(leaderCh[l]) + Len(memberCh[l])
      BY <2>1, Zenon DEF Held
    <3>2. adding'[l] + Len(leaderCh[l]) + Len(memberCh[l]) <= Held(l)
      BY <1>0, <2>2, Sums, Zenon DEF Held
    <3> QED
      BY <3>1, <3>2, Zenon
  <2> QED
    BY <1>2, <2>1, <2>3, Zenon DEF castVars, countVars
<1>8. ASSUME NEW k \in Queued, Dequeue(k) PROVE Held(l)' + Faced(l)' <= begun' + memberSeq'
  BY <1>5, <1>8, Zenon DEF Dequeue, listenerVars, sinkVars, castVars, countVars
<1>9. ASSUME UNCHANGED queueVars,
             \/ \E k \in Listener :
                 \/ Watch(k) \/ Unwatch(k) \/ WatcherEnds(k) \/ FirstSelectDefault(k)
                 \/ CallbackReturns(k)
             \/ closeAllListeners \/ CloseWaits
      PROVE  Held(l)' + Faced(l)' <= begun' + memberSeq'
  BY <1>5, <1>9, Zenon DEF Watch, Unwatch, WatcherEnds, FirstSelectDefault, CallbackReturns,
                    closeAllListeners, CloseWaits, sinkVars, queueVars, castVars, countVars
<1>10. ASSUME UNCHANGED queueVars, NEW c \in LeaderCaster, broadcastLeaderEvent(c)
       PROVE  Held(l)' + Faced(l)' <= begun' + memberSeq'
  <2>1. /\ c \in Caster /\ Begin(c, begun + 1) /\ Held(l)' = Held(l)
        /\ begun' + memberSeq' = begun + memberSeq + 1
    BY <1>0, <1>10 DEF broadcastLeaderEvent, sinkVars, Caster, Held, queueVars
  <2> QED
    BY <1>4, <1>10, <2>1, Zenon
<1>11. ASSUME UNCHANGED queueVars, broadcastMembershipEvent
       PROVE  Held(l)' + Faced(l)' <= begun' + memberSeq'
  <2>1. /\ "observeMembers" \in Caster /\ Begin("observeMembers", memberSeq + 1)
        /\ Held(l)' = Held(l) /\ begun' + memberSeq' = begun + memberSeq + 1
    BY <1>0, <1>11 DEF broadcastMembershipEvent, sinkVars, Caster, Held, queueVars
  <2> QED
    BY <1>4, <1>11, <2>1, Zenon
<1>12. ASSUME UNCHANGED queueVars, NEW c \in LeaderCaster, NEW k \in Listener,
              TryLeader(c, k) \/ RetryLeader(c, k)
       PROVE  Held(l)' + Faced(l)' <= begun' + memberSeq'
  <2>0. c \in Caster /\ bcast[c] # "idle" /\ At(c, k) /\ UNCHANGED memberCh
    BY <1>12, LeaderKinds, Zenon DEF Caster
  <2>1. CASE Goes(c, "drain") /\ UNCHANGED leaderCh
    BY <1>5, <1>12, <2>0, <2>1, SMTT(20) DEF Goes, countVars, queueVars
  <2>2. CASE Notified(c) /\ leaderCh[k] = <<>> /\ PutLeader(c, k)
    <3>1. /\ Len(leaderCh'[k]) = 1 /\ Len(leaderCh[k]) = 0
          /\ k # l => leaderCh'[l] = leaderCh[l]
      BY <1>0, <2>0, <2>2, <1>12, LeaderPut
    <3>2. UNCHANGED <<adding, memberCh>>
      BY <1>12, <2>0, Zenon DEF queueVars
    <3>3. ASSUME k = l PROVE Held(l)' <= Held(l) + 1
      <4>1. Len(leaderCh'[l]) = 1 /\ Len(leaderCh[l]) = 0 /\ adding' = adding /\ memberCh' = memberCh
        BY <3>1, <3>2, <3>3, Zenon
      <4>2. /\ Held(l) = adding[l] + 0 + Len(memberCh[l])
            /\ Held(l)' = adding[l] + 1 + Len(memberCh[l])
        BY <4>1, Zenon DEF Held
      <4>3. adding[l] + 1 + Len(memberCh[l]) <= adding[l] + 0 + Len(memberCh[l]) + 1
        BY <1>0, Sums, Zenon
      <4> QED
        BY <4>2, <4>3, Zenon
    <3>4. k # l => Held(l)' = Held(l)
      BY <3>1, <3>2, Zenon DEF Held
    <3> QED
      BY <1>3, <2>0, <2>2, <3>3, <3>4
  <2>3. CASE Notified(c) /\ UNCHANGED leaderCh
    <3>1. Held(l)' = Held(l)
      BY <1>12, <2>0, <2>3, Zenon DEF Held, queueVars
    <3> QED
      BY <1>0, <1>3, <2>0, <2>3, <3>1
  <2> QED
    BY <1>12, <2>1, <2>2, <2>3, LeaderKinds, Zenon
<1>13. ASSUME UNCHANGED queueVars, NEW c \in LeaderCaster, NEW k \in Listener, DrainLeader(c, k)
       PROVE  Held(l)' + Faced(l)' <= begun' + memberSeq'
  <2>1. UNCHANGED <<countVars, toNotify, memberCh, adding>>
        /\ leaderCh' = [leaderCh EXCEPT ![k] = <<>>]
    BY <1>13, Zenon DEF DrainLeader, queueVars
  <2>2. leaderCh'[l] = <<>> \/ leaderCh'[l] = leaderCh[l]
    BY <1>0, <2>1, Zenon DEF SinkTypeOK
  <2>3. Len(leaderCh'[l]) <= Len(leaderCh[l]) /\ Len(leaderCh'[l]) \in Nat
    BY <1>0, <2>2
  <2>4. Held(l)' <= Held(l)
    <3>1. Held(l)' = adding[l] + Len(leaderCh'[l]) + Len(memberCh[l])
      BY <2>1, Zenon DEF Held
    <3>2. adding[l] + Len(leaderCh'[l]) + Len(memberCh[l]) <= Held(l)
      BY <1>0, <2>3, Sums, Zenon DEF Held
    <3> QED
      BY <3>1, <3>2, Zenon
  <2> QED
    BY <1>2, <2>1, <2>4, Zenon DEF countVars
<1>14. ASSUME UNCHANGED queueVars, NEW k \in Listener, EnqueueMember("observeMembers", k)
       PROVE  Held(l)' + Faced(l)' <= begun' + memberSeq'
  <2>0. /\ "observeMembers" \in Caster /\ At("observeMembers", k) /\ Notified("observeMembers")
        /\ UNCHANGED leaderCh
        /\ \/ UNCHANGED memberCh
           \/ memberCh' = [memberCh EXCEPT ![k] = Append(memberCh[k], current["observeMembers"])]
    BY <1>14, Zenon DEF EnqueueMember, Caster
  <2>1. UNCHANGED <<adding, leaderCh>>
    BY <1>14, <2>0, Zenon DEF queueVars
  <2>2. CASE UNCHANGED memberCh[l]
    <3>1. Held(l)' = Held(l)
      BY <2>1, <2>2, Zenon DEF Held
    <3> QED
      BY <1>0, <1>3, <2>0, <3>1
  <2>3. CASE k = l /\ memberCh' = [memberCh EXCEPT ![k] = Append(memberCh[k], current["observeMembers"])]
    <3>1. current["observeMembers"] \in MemberEvent
      <4>1. current["observeMembers"] \in 1 .. memberSeq
        BY <1>14, Zenon DEF CastInv, EnqueueMember
      <4>2. memberSeq \in 0 .. MaxMemberEvents
        BY Zenon DEF SinkTypeOK
      <4> QED
        BY <4>1, <4>2, SinkAssumption DEF MemberEvent
    <3>2. memberCh[l] \in Seq(MemberEvent) /\ memberCh \in [Listener -> Seq(MemberEvent)]
      BY <1>0, Zenon DEF SinkTypeOK
    <3>3. memberCh'[l] = Append(memberCh[l], current["observeMembers"])
      BY <1>0, <2>3, <3>2, Zenon
    <3>4. Len(memberCh'[l]) = Len(memberCh[l]) + 1
      BY <3>1, <3>2, <3>3
    <3>5. /\ Held(l) = adding[l] + Len(leaderCh[l]) + Len(memberCh[l])
          /\ Held(l)' = adding[l] + Len(leaderCh[l]) + (Len(memberCh[l]) + 1)
      BY <2>1, <3>4, Zenon DEF Held
    <3>6. adding[l] + Len(leaderCh[l]) + (Len(memberCh[l]) + 1)
            <= adding[l] + Len(leaderCh[l]) + Len(memberCh[l]) + 1
      BY <1>0, Sums, Zenon
    <3>7. Held(l)' <= Held(l) + 1
      BY <3>5, <3>6, Zenon
    <3> QED
      BY <1>3, <2>0, <2>3, <3>7, Zenon
  <2>4. k # l => UNCHANGED memberCh[l]
    <3>1. memberCh \in [Listener -> Seq(MemberEvent)]
      BY Zenon DEF SinkTypeOK
    <3> QED
      BY <1>0, <2>0, <3>1, Zenon
  <2> QED
    BY <2>0, <2>2, <2>3, <2>4, Zenon
<1>15. CASE UNCHANGED membershipVars
  BY <1>5, <1>15, Zenon DEF membershipVars, listenerVars, queueVars, sinkVars, castVars, countVars
<1>16. ASSUME NEW c \in Caster, NEW k \in Listener,
              TryLeader(c, k) \/ DrainLeader(c, k) \/ RetryLeader(c, k)
       PROVE  c \in LeaderCaster
  BY <1>16, Zenon DEF TryLeader, DrainLeader, RetryLeader, CastInv, Caster
<1>17. ASSUME NEW c \in Caster, NEW k \in Listener, EnqueueMember(c, k)
       PROVE  EnqueueMember("observeMembers", k)
  BY <1>17, Zenon DEF EnqueueMember
<1>18. ASSUME UNCHANGED queueVars, NEW c \in Caster, CastStep(c)
       PROVE  Held(l)' + Faced(l)' <= begun' + memberSeq'
  BY <1>12, <1>13, <1>14, <1>16, <1>17, <1>18, SMTT(20) DEF CastStep
<1> QED
  BY <1>6, <1>7, <1>8, <1>9, <1>10, <1>11, <1>15, <1>18, Zenon DEF ListenersNext, QueueSteps, ElectionSteps

-----------------------------------------------------------------------------
(* Membership events *)

\* A step that membership events do not take part in.
MemberSame ==
    /\ UNCHANGED <<memberCh, memberHeard, memberSeq>>
    /\ current'["observeMembers"] = current["observeMembers"]
    /\ toNotify'["observeMembers"] = toNotify["observeMembers"]

\* The steps that OrderInv depends on.
LEMMA OrderKinds ==
    ASSUME SinkTypeOK, CastInv, SinkInv, [ListenersNext]_membershipVars
    PROVE  \/ MemberSame
           \/ \E l \in Listener : CallOnMembershipChange(l)
           \/ \E l \in Listener : EnqueueMember("observeMembers", l)
           \/ broadcastMembershipEvent
<1>0. LeaderCaster \subseteq Caster /\ "observeMembers" \in Caster /\ "observeMembers" \notin LeaderCaster
  BY DEF Caster, LeaderCaster
<1>1. ASSUME NEW l \in Listener,
             \/ Watch(l) \/ Unwatch(l) \/ WatcherEnds(l) \/ FirstSelectDefault(l)
             \/ CallOnLeaderChange(l) \/ CallbackReturns(l)
      PROVE  MemberSame
  BY <1>1, Zenon DEF Watch, Unwatch, WatcherEnds, FirstSelectDefault, CallOnLeaderChange, CallbackReturns,
              MemberSame, castVars, countVars, watchVars, sinkVars
<1>2. ASSUME NEW l \in Queued, AddSucceeds(l) \/ AddGivesUp(l) \/ Dequeue(l)
      PROVE  UNCHANGED listenerVars
  BY <1>2 DEF AddSucceeds, AddGivesUp, Dequeue
<1>3. CASE UNCHANGED listenerVars
  BY <1>3, Zenon DEF listenerVars, MemberSame, castVars, countVars, watchVars, sinkVars
<1>4. CASE closeAllListeners \/ CloseWaits
  BY <1>4, Zenon DEF closeAllListeners, CloseWaits, MemberSame, castVars, countVars, watchVars, sinkVars
<1>5. ASSUME NEW c \in LeaderCaster, broadcastLeaderEvent(c) PROVE MemberSame
  <2>1. Begin(c, begun + 1) /\ UNCHANGED <<memberSeq, sinkVars, watchVars>>
    BY <1>5, Zenon DEF broadcastLeaderEvent
  <2>2. /\ current'["observeMembers"] = current["observeMembers"]
        /\ toNotify'["observeMembers"] = toNotify["observeMembers"]
    BY <1>0, <2>1, CastBegins
  <2> QED
    BY <2>1, <2>2, Zenon DEF MemberSame, sinkVars, watchVars
<1>6. ASSUME NEW c \in LeaderCaster, NEW l \in Listener, TryLeader(c, l) \/ RetryLeader(c, l)
      PROVE  MemberSame
  <2>1. /\ At(c, l) /\ UNCHANGED <<memberCh, memberHeard>>
        /\ Goes(c, "drain") \/ Notified(c)
    BY <1>6, LeaderKinds, Zenon DEF watchVars
  <2>2. CASE Goes(c, "drain")
    BY <2>1, <2>2, Zenon DEF Goes, countVars, MemberSame
  <2>3. CASE Notified(c)
    <3>1. /\ current'["observeMembers"] = current["observeMembers"]
          /\ toNotify'["observeMembers"] = toNotify["observeMembers"]
      BY <1>0, <2>1, <2>3, CastMoves
    <3> QED
      BY <2>1, <2>3, <3>1, Zenon DEF MemberSame, Notified
  <2> QED
    BY <2>1, <2>2, <2>3, Zenon
<1>7. ASSUME NEW c \in LeaderCaster, NEW l \in Listener, DrainLeader(c, l) PROVE MemberSame
  BY <1>7, Zenon DEF DrainLeader, MemberSame, countVars
<1>8. ASSUME NEW c \in Caster, NEW l \in Listener,
             TryLeader(c, l) \/ DrainLeader(c, l) \/ RetryLeader(c, l)
      PROVE  c \in LeaderCaster
  BY <1>8 DEF TryLeader, DrainLeader, RetryLeader, CastInv, Caster
<1>9. ASSUME NEW c \in Caster, NEW l \in Listener, EnqueueMember(c, l)
      PROVE  EnqueueMember("observeMembers", l)
  BY <1>9, Zenon DEF EnqueueMember
<1>10. ASSUME NEW l \in Listener, Callback(l) PROVE MemberSame \/ CallOnMembershipChange(l)
  BY <1>1, <1>10, Zenon DEF Callback
<1>11. CASE UNCHANGED membershipVars
  BY <1>3, <1>11, Zenon DEF membershipVars
<1> QED
  BY <1>1, <1>2, <1>3, <1>4, <1>5, <1>6, <1>7, <1>8, <1>9, <1>10, <1>11, SMTT(20)
  DEF ListenersNext, QueueSteps, ElectionSteps, CastStep

\* The numbers that are compared.
LEMMA MemberNumbers ==
    ASSUME SinkTypeOK, NEW l \in Listener
    PROVE  /\ memberSeq \in Nat /\ memberHeard[l] \in Nat /\ current["observeMembers"] \in Nat
           /\ memberCh[l] \in Seq(MemberEvent) /\ Len(memberCh[l]) \in Nat
           /\ \A i \in 1 .. Len(memberCh[l]) : memberCh[l][i] \in Nat
<1> USE SinkAssumption
<1>1. memberCh[l] \in Seq(MemberEvent)
  BY Zenon DEF SinkTypeOK
<1>2. Len(memberCh[l]) \in Nat /\ \A i \in 1 .. Len(memberCh[l]) : memberCh[l][i] \in MemberEvent
  BY <1>1
<1>3. MemberEvent \subseteq Nat
  BY DEF MemberEvent
<1>4. memberSeq \in Nat /\ memberHeard[l] \in Nat
  <2>1. memberSeq \in Nat
    BY DEF SinkTypeOK
  <2>2. memberHeard[l] \in {0} \cup MemberEvent
    BY Zenon DEF SinkTypeOK
  <2>3. \A n \in {0} \cup MemberEvent : n \in Nat
    BY <1>3
  <2> QED
    BY <2>1, <2>2, <2>3, Zenon
<1>5. current["observeMembers"] \in Nat
  BY DEF SinkTypeOK, Caster
<1>6. \A i \in 1 .. Len(memberCh[l]) : memberCh[l][i] \in Nat
  BY <1>2, <1>3, Zenon
<1> QED
  BY <1>1, <1>2, <1>4, <1>5, <1>6

\* What OnMembershipChange is called with next is newer than what it was called
\* with last, and older than what is left.
LEMMA HeardNext ==
    ASSUME SinkTypeOK, OrderInv, NEW l \in Listener, CallOnMembershipChange(l)
    PROVE  /\ memberHeard[l] < memberHeard'[l] /\ memberHeard'[l] = memberCh[l][1]
           /\ 1 \in 1 .. Len(memberCh[l]) /\ memberCh'[l] = Tail(memberCh[l])
           /\ UNCHANGED <<memberSeq, castVars>>
           /\ \A k \in Listener : k # l => /\ memberHeard'[k] = memberHeard[k]
                                           /\ memberCh'[k] = memberCh[k]
<1>1. /\ memberCh[l] # <<>> /\ UNCHANGED <<memberSeq, castVars>>
      /\ memberHeard' = [memberHeard EXCEPT ![l] = Head(memberCh[l])]
      /\ memberCh' = [memberCh EXCEPT ![l] = Tail(memberCh[l])]
  BY Zenon DEF CallOnMembershipChange, countVars
<1>2. memberCh[l] \in Seq(MemberEvent)
  BY MemberNumbers, Zenon
<1>3. 1 \in 1 .. Len(memberCh[l]) /\ Head(memberCh[l]) = memberCh[l][1]
  BY <1>1, <1>2
<1>4. memberHeard'[l] = Head(memberCh[l]) /\ memberCh'[l] = Tail(memberCh[l])
  BY <1>1, Zenon DEF SinkTypeOK
<1>5. \A k \in Listener : k # l => memberHeard'[k] = memberHeard[k] /\ memberCh'[k] = memberCh[k]
  BY <1>1, Zenon DEF SinkTypeOK
<1>6. memberHeard[l] < memberCh[l][1]
  BY <1>3, Zenon DEF OrderInv, Ordered
<1> QED
  BY <1>1, <1>3, <1>4, <1>5, <1>6, Zenon

\* No step brings membership events out of order.
LEMMA OrderStep ==
    ASSUME SinkTypeOK, CastInv, SinkInv, OrderInv, [ListenersNext]_membershipVars
    PROVE  OrderInv'
<1> SUFFICES ASSUME NEW k \in Listener PROVE Ordered(k)'
  BY Zenon DEF OrderInv
<1>0. /\ Ordered(k) /\ memberSeq \in Nat /\ memberHeard[k] \in Nat
      /\ current["observeMembers"] \in Nat
      /\ memberCh[k] \in Seq(MemberEvent) /\ Len(memberCh[k]) \in Nat
      /\ \A i \in 1 .. Len(memberCh[k]) : memberCh[k][i] \in Nat
  BY MemberNumbers, Zenon DEF OrderInv
<1>1. ASSUME UNCHANGED <<memberHeard[k], memberCh[k], memberSeq>>,
             Facing("observeMembers", k)' =>
               /\ Facing("observeMembers", k)
               /\ current'["observeMembers"] = current["observeMembers"]
      PROVE  Ordered(k)'
  BY <1>0, <1>1, Zenon DEF Ordered
<1>2. CASE MemberSame
  BY <1>1, <1>2, Zenon DEF MemberSame, Facing
<1>3. ASSUME NEW l \in Listener, CallOnMembershipChange(l) PROVE Ordered(k)'
  <2>0. UNCHANGED <<memberSeq, current>> /\ (Facing("observeMembers", k)' <=> Facing("observeMembers", k))
    BY <1>3, HeardNext, Zenon DEF castVars, Facing
  <2>1. CASE k # l
    BY <1>1, <1>3, <2>0, <2>1, HeardNext
  <2>2. CASE k = l
    <3>1. /\ memberHeard'[k] = memberCh[k][1] /\ 1 \in 1 .. Len(memberCh[k])
          /\ memberCh'[k] = Tail(memberCh[k])
      BY <1>3, <2>2, HeardNext, Zenon
    <3>2. /\ Len(memberCh'[k]) = Len(memberCh[k]) - 1
          /\ \A i \in 1 .. Len(memberCh'[k]) : memberCh'[k][i] = memberCh[k][i + 1]
      BY <1>0, <3>1
    <3>3. \A i \in 1 .. Len(memberCh'[k]) : i + 1 \in 1 .. Len(memberCh[k]) /\ 1 < i + 1
      BY <1>0, <3>2
    <3>4. memberHeard'[k] <= memberSeq'
      BY <1>0, <2>0, <3>1, Zenon DEF Ordered
    <3>5. ASSUME NEW i \in 1 .. Len(memberCh'[k])
          PROVE  /\ memberHeard'[k] < memberCh'[k][i] /\ memberCh'[k][i] <= memberSeq'
                 /\ \A j \in 1 .. Len(memberCh'[k]) : j < i => memberCh'[k][j] < memberCh'[k][i]
      <4>1. memberHeard'[k] < memberCh'[k][i] /\ memberCh'[k][i] <= memberSeq'
        BY <1>0, <2>0, <3>1, <3>2, <3>3 DEF Ordered
      <4>2. ASSUME NEW j \in 1 .. Len(memberCh'[k]), j < i PROVE memberCh'[k][j] < memberCh'[k][i]
        <5>1. /\ i + 1 \in 1 .. Len(memberCh[k]) /\ j + 1 \in 1 .. Len(memberCh[k])
              /\ j + 1 < i + 1
          BY <3>2, <3>3, <4>2
        <5>2. memberCh[k][j + 1] < memberCh[k][i + 1]
          BY <1>0, <5>1, Zenon DEF Ordered
        <5> QED
          BY <3>2, <5>2, Zenon
      <4> QED
        BY <4>1, <4>2, Zenon
    <3>6. ASSUME Facing("observeMembers", k)'
          PROVE  /\ memberHeard'[k] < current'["observeMembers"]
                 /\ \A i \in 1 .. Len(memberCh'[k]) : memberCh'[k][i] < current'["observeMembers"]
      BY <1>0, <2>0, <3>1, <3>2, <3>3, <3>6, SMTT(20) DEF Ordered
    <3> QED
      BY <3>4, <3>5, <3>6, Zenon DEF Ordered
  <2> QED
    BY <2>1, <2>2, Zenon
<1>4. ASSUME NEW l \in Listener, EnqueueMember("observeMembers", l) PROVE Ordered(k)'
  <2>0. /\ "observeMembers" \in Caster /\ At("observeMembers", l) /\ Notified("observeMembers")
        /\ bcast["observeMembers"] # "idle" /\ UNCHANGED <<memberHeard, memberSeq>>
        /\ \/ UNCHANGED memberCh
           \/ memberCh' = [memberCh EXCEPT ![l] = Append(memberCh[l], current["observeMembers"])]
    BY <1>4, Zenon DEF EnqueueMember, Notified, watchVars, Caster
  <2>1. /\ Facing("observeMembers", l)
        /\ Facing("observeMembers", k)' => k # l /\ Facing("observeMembers", k)
        /\ \/ current'["observeMembers"] = current["observeMembers"]
           \/ toNotify'["observeMembers"] = <<>>
    BY <2>0, CastMoves
  <2>2. Facing("observeMembers", k)' => current'["observeMembers"] = current["observeMembers"]
    <3>1. toNotify'["observeMembers"] = <<>> => ~Facing("observeMembers", k)'
      BY DEF Facing
    <3> QED
      BY <2>1, <3>1, Zenon
  <2>3. CASE UNCHANGED memberCh[k]
    BY <1>1, <2>0, <2>1, <2>2, <2>3, Zenon
  <2>4. CASE k = l /\ memberCh' = [memberCh EXCEPT ![l] = Append(memberCh[l], current["observeMembers"])]
    <3>1. memberCh'[k] = Append(memberCh[k], current["observeMembers"])
      BY <2>4, Zenon DEF SinkTypeOK
    <3>2. current["observeMembers"] \in 1 .. memberSeq /\ current["observeMembers"] \in MemberEvent
      BY <2>0, SinkAssumption, SMTT(20) DEF CastInv, SinkTypeOK, MemberEvent
    <3>3. /\ Len(memberCh'[k]) = Len(memberCh[k]) + 1
          /\ memberCh'[k][Len(memberCh[k]) + 1] = current["observeMembers"]
          /\ \A i \in 1 .. Len(memberCh[k]) : memberCh'[k][i] = memberCh[k][i]
      BY <1>0, <3>1, <3>2
    <3>4. /\ memberHeard[k] < current["observeMembers"]
          /\ \A i \in 1 .. Len(memberCh[k]) : memberCh[k][i] < current["observeMembers"]
      BY <1>0, <2>1, <2>4, ZenonT(30) DEF Ordered
    <3>5. ASSUME NEW i \in 1 .. Len(memberCh'[k])
          PROVE  /\ memberHeard'[k] < memberCh'[k][i] /\ memberCh'[k][i] <= memberSeq'
                 /\ \A j \in 1 .. Len(memberCh'[k]) : j < i => memberCh'[k][j] < memberCh'[k][i]
      <4>1. CASE i \in 1 .. Len(memberCh[k])
        <5>1. memberHeard'[k] < memberCh'[k][i] /\ memberCh'[k][i] <= memberSeq'
          BY <1>0, <2>0, <3>3, <4>1 DEF Ordered
        <5>2. ASSUME NEW j \in 1 .. Len(memberCh'[k]), j < i PROVE memberCh'[k][j] < memberCh'[k][i]
          <6>1. j \in 1 .. Len(memberCh[k])
            BY <1>0, <3>3, <4>1, <5>2, SMTT(20)
          <6>2. memberCh[k][j] < memberCh[k][i]
            BY <1>0, <4>1, <5>2, <6>1, SMTT(20) DEF Ordered
          <6> QED
            BY <3>3, <4>1, <6>1, <6>2, SMTT(20)
        <5> QED
          BY <5>1, <5>2
      <4>2. CASE i = Len(memberCh[k]) + 1
        <5>1. memberHeard'[k] < memberCh'[k][i] /\ memberCh'[k][i] <= memberSeq'
          BY <1>0, <2>0, <3>2, <3>3, <3>4, <4>2
        <5>2. ASSUME NEW j \in 1 .. Len(memberCh'[k]), j < i PROVE memberCh'[k][j] < memberCh'[k][i]
          <6>1. j \in 1 .. Len(memberCh[k])
            BY <1>0, <3>3, <4>2, <5>2
          <6> QED
            BY <3>3, <3>4, <4>2, <6>1, Zenon
        <5> QED
          BY <5>1, <5>2
      <4> QED
        BY <1>0, <3>3, <4>1, <4>2, SMTT(20)
    <3>6. memberHeard'[k] <= memberSeq'
      BY <1>0, <2>0, Zenon DEF Ordered
    <3> QED
      BY <2>1, <2>4, <3>5, <3>6, Zenon DEF Ordered
  <2>5. UNCHANGED memberCh[k] \/ k = l
    BY <2>0, Zenon DEF SinkTypeOK
  <2> QED
    BY <2>0, <2>3, <2>4, <2>5, Zenon
<1>5. CASE broadcastMembershipEvent
  <2>1. /\ memberSeq' = memberSeq + 1 /\ UNCHANGED <<memberCh, memberHeard>>
        /\ Begin("observeMembers", memberSeq + 1) /\ "observeMembers" \in Caster
    BY <1>5, Zenon DEF broadcastMembershipEvent, sinkVars, watchVars, Caster
  <2>2. current'["observeMembers"] = memberSeq + 1
    BY <2>1, CastBegins, Zenon
  <2>3. memberHeard[k] < memberSeq + 1
        /\ \A i \in 1 .. Len(memberCh[k]) : memberCh[k][i] < memberSeq + 1
    BY <1>0 DEF Ordered
  <2>4. memberHeard[k] <= memberSeq + 1
        /\ \A i \in 1 .. Len(memberCh[k]) : memberCh[k][i] <= memberSeq + 1
    BY <1>0, <2>3
  <2> QED
    BY <1>0, <2>1, <2>2, <2>3, <2>4, Zenon DEF Ordered
<1> QED
  BY <1>2, <1>3, <1>4, <1>5, OrderKinds

-----------------------------------------------------------------------------
(* Theorems *)

\* The inductive invariant.
ListenersInv ==
    /\ SinkTypeOK /\ QueueTypeOK
    /\ CastInv /\ SinkInv /\ EventInv
    /\ ToldInv /\ DeliveryInv /\ WaitInv /\ CountInv /\ OrderInv

\* The inductive invariant holds at the start,
LEMMA ListenersInvInit == ListenersInit => ListenersInv
<1> SUFFICES ASSUME ListenersInit PROVE ListenersInv
  BY Zenon
<1> USE SinkAssumption, QueueAssumption
<1>0. /\ Caster = {"campaign", "observeLeader", "observeMembers"} /\ LeaderCaster \subseteq Caster
      /\ \A S : <<>> \in Seq(S) /\ Len(<<>>) = 0
  BY DEF Caster, LeaderCaster
<1>1. SinkTypeOK
  <2>1. /\ leaderCh \in [Listener -> Seq(LeaderEvent)] /\ memberCh \in [Listener -> Seq(MemberEvent)]
        /\ \A l \in Listener : leaderCh[l] = <<>> /\ memberCh[l] = <<>>
        /\ toNotify \in [Caster -> Seq(Listener)]
    BY <1>0, Zenon DEF ListenersInit, SinkInit
  <2>2. \A l \in Listener : Len(leaderCh[l]) <= 1 /\ Len(memberCh[l]) <= listenerQueueSize
    BY <2>1
  <2>3. /\ registered \in SUBSET Listener
        /\ watcher \in [Listener -> {"none", "first", "second", "calling", "ended"}]
        /\ bcast \in [Caster -> {"idle", "try", "drain", "retry"}]
        /\ current \in [Caster -> 0 .. (MaxLeaderEvents + MaxMemberEvents)]
        /\ electionClose \in {"open", "closing", "returned"}
        /\ begun \in 0 .. MaxLeaderEvents /\ memberSeq \in 0 .. MaxMemberEvents
        /\ returned \in SUBSET LeaderEvent
        /\ before \in [LeaderEvent -> SUBSET LeaderEvent]
        /\ told \in [LeaderEvent -> SUBSET Listener]
        /\ heard \in [Listener -> {0} \cup LeaderEvent]
        /\ memberHeard \in [Listener -> {0} \cup MemberEvent]
    BY DEF ListenersInit, SinkInit
  <2>4. done \in [Listener -> BOOLEAN] /\ waiting \in [Listener -> BOOLEAN]
    BY Zenon DEF ListenersInit, SinkInit
  <2> QED
    BY <2>1, <2>2, <2>3, <2>4 DEF SinkTypeOK
<1>2. QueueTypeOK
  BY DEF ListenersInit, QueueTypeOK
<1>3. /\ \A c \in Caster : toNotify[c] = <<>> /\ bcast[c] = "idle"
      /\ \A c \in Caster : \A l : ~Facing(c, l) /\ ~Drained(c, l)
      /\ \A l \in Listener : leaderCh[l] = <<>> /\ memberCh[l] = <<>>
  BY DEF ListenersInit, SinkInit, Facing, Drained
<1>4. CastInv
  BY <1>0, <1>3 DEF CastInv
<1>5. SinkInv
  BY Zenon DEF ListenersInit, SinkInit, SinkInv
<1>6. EventInv
  BY <1>0, <1>3, Zenon DEF ListenersInit, SinkInit, EventInv
<1>7. ToldInv
  BY Zenon DEF ListenersInit, SinkInit, ToldInv
<1>8. DeliveryInv
  <2>1. registered = {}
    BY Zenon DEF ListenersInit, SinkInit
  <2> QED
    BY <1>0, <1>3, <2>1, Zenon DEF DeliveryInv, KeptWhileDrained
<1>9. WaitInv
  BY Zenon DEF ListenersInit, SinkInit, WaitInv
<1>10. CountInv
  <2>1. ASSUME NEW l \in Queued PROVE Held(l) = 0 /\ Faced(l) = 0
    <3>1. Due("campaign", l) = 0 /\ Due("observeLeader", l) = 0 /\ Due("observeMembers", l) = 0
      BY <1>0, <1>3, Zenon DEF Due
    <3>2. adding[l] = 0 /\ leaderCh[l] = <<>> /\ memberCh[l] = <<>>
      BY <1>3, Zenon DEF ListenersInit
    <3>3. adding[l] = 0 /\ Len(leaderCh[l]) = 0 /\ Len(memberCh[l]) = 0
      BY <3>2, Zenon
    <3> QED
      BY <3>1, <3>3 DEF Held, Faced
  <2>2. begun = 0 /\ memberSeq = 0
    BY Zenon DEF ListenersInit, SinkInit
  <2> QED
    BY <2>1, <2>2 DEF CountInv
<1>11. OrderInv
  <2>1. ASSUME NEW l \in Listener PROVE Ordered(l)
    <3>1. memberHeard[l] = 0 /\ memberSeq = 0 /\ memberCh[l] = <<>>
          /\ ~Facing("observeMembers", l)
      BY <1>0, <1>3, Zenon DEF ListenersInit, SinkInit
    <3> QED
      BY <3>1 DEF Ordered
  <2> QED
    BY <2>1, Zenon DEF OrderInv
<1> QED
  BY <1>1, <1>2, <1>4, <1>5, <1>6, <1>7, <1>8, <1>9, <1>10, <1>11, Zenon DEF ListenersInv

\* and for good.
LEMMA ListenersInvariance == ListenersSpec => []ListenersInv
<1>1. ListenersInv /\ [ListenersNext]_membershipVars => ListenersInv'
  <2> SUFFICES ASSUME ListenersInv, [ListenersNext]_membershipVars PROVE ListenersInv'
    BY Zenon
  <2>1. SinkTypeOK' /\ QueueTypeOK'
    BY SinkTypesStep, Zenon DEF ListenersInv
  <2>2. CastInv' /\ SinkInv' /\ EventInv'
    BY CastInvStep, SinkInvStep, EventInvStep, Zenon DEF ListenersInv
  <2>3. ToldInv' /\ DeliveryInv' /\ WaitInv'
    BY ToldInvStep, DeliveryStep, WaitInvStep, Zenon DEF ListenersInv
  <2>4. CountInv' /\ OrderInv'
    BY <2>1, CountStep, OrderStep, Zenon DEF ListenersInv
  <2> QED
    BY <2>1, <2>2, <2>3, <2>4, Zenon DEF ListenersInv
<1> QED
  BY <1>1, ListenersInvInit, PTL DEF ListenersSpec

\* The channels of the sinks and the queues of MembershipListeners stay within
\* their capacities, and of each listener no more goroutines of tryAddEvent run
\* than events were broadcast: no event is handed over twice.
THEOREM ListenersTypeCorrect == ListenersSpec => []ListenersTypeOK
<1>1. ListenersInv => ListenersTypeOK
  <2> SUFFICES ASSUME ListenersInv PROVE ListenersTypeOK
    BY Zenon
  <2> USE SinkAssumption
  <2>1. begun \in 0 .. MaxLeaderEvents /\ memberSeq \in 0 .. MaxMemberEvents
    BY Zenon DEF ListenersInv, SinkTypeOK
  <2>2. ASSUME NEW l \in Queued PROVE adding[l] \in 0 .. (MaxLeaderEvents + MaxMemberEvents)
    <3>1. /\ adding[l] \in Nat /\ Len(leaderCh[l]) \in Nat /\ Len(memberCh[l]) \in Nat
          /\ Faced(l) \in Nat /\ Held(l) + Faced(l) <= begun + memberSeq
      BY HeldTypes, FacedType, Zenon DEF ListenersInv, CountInv
    <3>2. adding[l] <= Held(l) /\ Held(l) \in Nat
      BY <3>1, Sums, Zenon DEF Held
    <3> QED
      BY <2>1, <3>1, <3>2
  <2>3. adding \in [Queued -> 0 .. (MaxLeaderEvents + MaxMemberEvents)]
    BY <2>2, Zenon DEF ListenersInv, QueueTypeOK
  <2> QED
    BY <2>3, Zenon DEF ListenersInv, QueueTypeOK, ListenersTypeOK
<1> QED
  BY <1>1, ListenersInvariance, PTL

\* No listener stays behind: of two goroutines that enqueue leader events at
\* once, one may give its event up, but never for an event whose broadcast had
\* returned before its own began.
THEOREM ListenersHearLatest == ListenersSpec => []LatestHeard
<1>1. ListenersInv => LatestHeard
  <2> SUFFICES ASSUME ListenersInv, NEW l \in registered,
                      \A c \in LeaderCaster : bcast[c] = "idle",
                      NEW e \in LeaderEvent, l \in told[e]
               PROVE  LatestOf(l) # 0 /\ LatestOf(l) \notin before[e]
    BY Zenon DEF LatestHeard
  <2>1. Coming(l, e)
    BY Zenon DEF ListenersInv, DeliveryInv
  <2>2. \A c \in LeaderCaster : ~Facing(c, l) /\ ~Drained(c, l)
    BY DEF ListenersInv, CastInv, Facing, Drained, Caster
  <2> QED
    BY <2>1, <2>2, Zenon DEF Coming, Recent
<1> QED
  BY <1>1, ListenersInvariance, PTL

\* The goroutine of Watch takes a leader event that waits before any membership
\* event.
THEOREM LeaderEventsFirst == ListenersSpec => LeaderFirst
<1> DEFINE First == \A l \in Listener : memberHeard'[l] # memberHeard[l] => ~waiting[l]
<1>1. ListenersInv /\ [ListenersNext]_membershipVars => [First]_membershipVars
  <2> SUFFICES ASSUME ListenersInv, [ListenersNext]_membershipVars,
                      NEW k \in Listener, memberHeard'[k] # memberHeard[k]
               PROVE  ~waiting[k]
    BY Zenon
  <2>0. SinkTypeOK /\ CastInv /\ SinkInv /\ OrderInv /\ WaitInv
    BY Zenon DEF ListenersInv
  <2>1. ~MemberSame
    BY Zenon DEF MemberSame
  <2>2. ASSUME NEW l \in Listener, EnqueueMember("observeMembers", l) PROVE FALSE
    BY <2>2, Zenon DEF EnqueueMember, watchVars
  <2>3. ~broadcastMembershipEvent
    BY Zenon DEF broadcastMembershipEvent, watchVars
  <2>4. PICK l \in Listener : CallOnMembershipChange(l)
    BY <2>0, <2>1, <2>2, <2>3, OrderKinds, Zenon
  <2>5. k = l
    BY <2>0, <2>4, HeardNext, Zenon
  <2> QED
    BY <2>0, <2>4, <2>5, Zenon DEF CallOnMembershipChange, WaitInv
<1> QED
  BY <1>1, ListenersInvariance, PTL DEF ListenersSpec, LeaderFirst

\* Membership events may be dropped, but a listener is called with those that
\* are not in the order in which they were broadcast, each at most once.
MembersInOrder ==
    [][\A l \in Listener :
        memberHeard'[l] # memberHeard[l] => memberHeard'[l] > memberHeard[l]]_membershipVars

\* Listeners hear of changes of the membership in order: enqueueMembership drops
\* the newest event of a full channel, never an older one.
THEOREM MembersHeardInOrder == ListenersSpec => MembersInOrder
<1> DEFINE Later == \A l \in Listener :
                       memberHeard'[l] # memberHeard[l] => memberHeard'[l] > memberHeard[l]
<1>1. ListenersInv /\ [ListenersNext]_membershipVars => [Later]_membershipVars
  <2> SUFFICES ASSUME ListenersInv, [ListenersNext]_membershipVars,
                      NEW k \in Listener, memberHeard'[k] # memberHeard[k]
               PROVE  memberHeard'[k] > memberHeard[k]
    BY Zenon
  <2>0. SinkTypeOK /\ CastInv /\ SinkInv /\ OrderInv
    BY Zenon DEF ListenersInv
  <2>1. ~MemberSame
    BY DEF MemberSame
  <2>2. ASSUME NEW l \in Listener, EnqueueMember("observeMembers", l) PROVE FALSE
    BY <2>2 DEF EnqueueMember, watchVars
  <2>3. ~broadcastMembershipEvent
    BY DEF broadcastMembershipEvent, watchVars
  <2>4. PICK l \in Listener : CallOnMembershipChange(l)
    BY <2>0, <2>1, <2>2, <2>3, OrderKinds, Zenon
  <2>5. k = l
    BY <2>0, <2>4, HeardNext, Zenon
  <2>6. memberHeard[k] < memberHeard'[k]
    BY <2>0, <2>4, <2>5, HeardNext, Zenon
  <2> QED
    BY <2>6, Zenon
<1> QED
  BY <1>1, ListenersInvariance, PTL DEF ListenersSpec, MembersInOrder
=============================================================================
