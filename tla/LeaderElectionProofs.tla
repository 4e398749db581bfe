------------------------ MODULE LeaderElectionProofs ------------------------
(***************************************************************************)
(* Proofs about LeaderElection, for every set of nodes, every bound on the *)
(* number of sessions and every choice of the nodes on which faults occur: *)
(* types, the kinds of steps etcd sees, the parts of the inductive         *)
(* invariant that speak of leases and create revisions, and those that     *)
(* speak of campaigns and observers.                                       *)
(***************************************************************************)
EXTENDS LeaderElection, TLAPS

(* Leases, keys and revisions *)

\* What the observer holds names a node.
LEMMA ObservedOwner ==
    ASSUME TypeOK, LeaseInv, ObserverInv, NEW n \in Node, obs[n].lease # NoLease
    PROVE  obs[n].lease \in Lease /\ owner[obs[n].lease] \in Node
<1>1. obs[n].lease \in Lease
  BY Zenon DEF TypeOK
<1>2. obs[n].lease <= granted
  BY Zenon DEF ObserverInv
<1> QED
  BY <1>1, <1>2, Zenon DEF LeaseInv

\* The lease a new session gets.
LEMMA NextLease ==
    ASSUME TypeOK, granted < MaxLease
    PROVE  granted + 1 \in Lease /\ granted + 1 \in 0..MaxLease
BY ElectionAssumption DEF TypeOK, Lease

\* Creating an election key keeps the key space well typed.
LEMMA CreateKeyType ==
    ASSUME NEW l \in Lease, rev \in Nat, crev \in [Lease -> Nat],
           ekeys \subseteq Lease, createKey(l)
    PROVE  rev' \in Nat /\ crev' \in [Lease -> Nat] /\ ekeys' \subseteq Lease
BY DEF createKey

\* Every step preserves the types.  The names and epochs that observeLeader
\* publishes need ObserverInv: they come from a lease that has an owner.
LEMMA TypeStep == TypeOK /\ LeaseInv /\ ObserverInv /\ [Next]_vars => TypeOK'
<1> SUFFICES ASSUME TypeOK, LeaseInv, ObserverInv, [Next]_vars PROVE TypeOK'
  BY Zenon
<1> USE DEF TypeOK, NoKey, Proc, Role, CampaignPC, ObserverPC,
        etcdVars, procVars, viewVars, campVars, obsVars, sinkVars
<1>1. ASSUME NEW l \in Lease, LeaseExpires(l) PROVE TypeOK'
  BY <1>1, Zenon DEF LeaseExpires, dropLease
<1>2. ASSUME NEW n \in Node, NewSession(n) PROVE TypeOK'
  BY <1>2, NextLease, Zenon DEF NewSession
<1>3. ASSUME NEW n \in Node, registerMember(n) PROVE TypeOK'
  BY <1>3, Zenon DEF registerMember
<1>4. ASSUME NEW n \in Node, Exit(n),
             \/ dropLease(session[n])
             \/ UNCHANGED <<alive, ekeys, member>>
             \/ /\ member' = [member EXCEPT ![n] = session[n]]
                /\ UNCHANGED <<alive, ekeys>>,
             UNCHANGED <<granted, owner, crev, rev>>
      PROVE TypeOK'
  BY <1>4 DEF Exit, dropLease
<1>5. ASSUME NEW n \in Node, CampaignTxn(n) PROVE TypeOK'
  <2>1. session[n] \in Lease
    BY <1>5, Zenon DEF CampaignTxn
  <2>2. rev' \in Nat /\ crev' \in [Lease -> Nat] /\ ekeys' \subseteq Lease
    BY <1>5, <2>1, CreateKeyType, Zenon DEF CampaignTxn
  <2> QED
    BY <1>5, <2>1, <2>2, Zenon DEF CampaignTxn
<1>6. ASSUME NEW n \in Node, broadcastElected(n) PROVE TypeOK'
  <2>1. owner[obs[n].lease] \in Node /\ obs[n].epoch \in Nat
    BY <1>6, ObservedOwner, Zenon DEF broadcastElected, ObserverInv
  <2>2. leaderCh' \in [Node -> SUBSET LeaderEvent]
    BY <1>6, <2>1 DEF broadcastElected, broadcastLeaderEvent, LeaderEvent, EventType
  <2> QED
    BY <1>6, <2>2, Zenon DEF broadcastElected
<1>7. ASSUME NEW n \in Node, observeLeader(n) PROVE TypeOK'
  <2>1. owner[obs[n].lease] \in Node
    BY <1>7, ObservedOwner, Zenon DEF observeLeader, ObserverInv
  <2> QED
    BY <1>7, <2>1, Zenon DEF observeLeader
<1>8. ASSUME NEW n \in Node, CampaignReplyLost(n) PROVE TypeOK'
  BY <1>8, CreateKeyType, Zenon DEF CampaignReplyLost
<1>9. ASSUME NEW n \in Node, broadcastExpired(n) \/ broadcastResigned(n) PROVE TypeOK'
  <2>1. leaderCh' \in [Node -> SUBSET LeaderEvent]
    BY <1>9 DEF broadcastExpired, broadcastResigned, broadcastLeaderEvent,
                LeaderEvent, EventType
  <2> QED
    BY <1>9, <2>1, SMTT(20) DEF broadcastExpired, broadcastResigned
<1>10. ASSUME NEW n \in Node, NEW ev \in leaderCh[n], OnLeaderChange(n, ev)
       PROVE  TypeOK'
  <2>1. ev.epoch \in Nat
    BY DEF LeaderEvent
  <2> QED
    BY <1>10, <2>1, Zenon DEF OnLeaderChange
<1>11. ASSUME NEW n \in Node, Watch(n) PROVE TypeOK'
  BY <1>11, Zenon DEF Watch
<1>12. ASSUME NEW n \in Node, Unwatch(n) PROVE TypeOK'
  BY <1>12, Zenon DEF Unwatch
<1>13. ASSUME NEW n \in Node, Close(n) PROVE TypeOK'
  BY <1>13, Zenon DEF Close
<1>14. ASSUME NEW n \in Node, SessionDone(n) PROVE TypeOK'
  BY <1>14, Zenon DEF SessionDone
<1>15. ASSUME NEW n \in Node, ObserverStops(n) PROVE TypeOK'
  BY <1>15, Zenon DEF ObserverStops
<1>16. ASSUME NEW n \in Node, ObserverChannelClosed(n) PROVE TypeOK'
  BY <1>16, Zenon DEF ObserverChannelClosed
<1>17. ASSUME NEW n \in Node, ObserveDelete(n) PROVE TypeOK'
  BY <1>17, Zenon DEF ObserveDelete
<1>18. ASSUME NEW n \in Node, ObserveGet(n) PROVE TypeOK'
  BY <1>18 DEF ObserveGet
<1>19. ASSUME NEW n \in Node, CampaignReturns(n) PROVE TypeOK'
  BY <1>19, Zenon DEF CampaignReturns
<1>20. ASSUME NEW n \in Node, becomeLeader(n) PROVE TypeOK'
  BY <1>20, Zenon DEF becomeLeader
<1>21. ASSUME NEW n \in Node, SessionExpired(n) PROVE TypeOK'
  BY <1>21, Zenon DEF SessionExpired, loseLeadership
<1>22. ASSUME NEW n \in Node, LeadingCancelled(n) PROVE TypeOK'
  BY <1>22, Zenon DEF LeadingCancelled
<1>23. ASSUME NEW n \in Node, CampaignStops(n) PROVE TypeOK'
  BY <1>23, Zenon DEF CampaignStops
<1>24. ASSUME NEW n \in Node, LeaderResigned(n) PROVE TypeOK'
  BY <1>24, Zenon DEF LeaderResigned, loseLeadership
<1>25. ASSUME NEW n \in Node, CampaignFails(n) PROVE TypeOK'
  BY <1>25, Zenon DEF CampaignFails
<1>26. ASSUME NEW n \in Node, CampaignCancelled(n) PROVE TypeOK'
  BY <1>26, Zenon DEF CampaignCancelled, deleteKey
<1>27. ASSUME NEW n \in Node, resign(n) PROVE TypeOK'
  BY <1>27, SMTT(20) DEF resign, deleteKey
<1>28. CASE UNCHANGED vars
  BY <1>28, Zenon DEF vars
<1> QED
  BY <1>1, <1>2, <1>3, <1>4, <1>5, <1>6, <1>7, <1>8, <1>9, <1>10, <1>11,
     <1>12, <1>13, <1>14, <1>15, <1>16, <1>17, <1>18, <1>19, <1>20, <1>21,
     <1>22, <1>23, <1>24, <1>25, <1>26, <1>27, <1>28, ZenonT(30)
  DEF Next, campaign, observe, Fault, registerMemberFails, Crash, CloseSession

-----------------------------------------------------------------------------
(* The seven ways in which a step changes etcd and the life of a process.   *)

ExpiryStep(l) == dropLease(l) /\ UNCHANGED <<granted, owner, crev, rev, proc, session>>

ExitStep(n) ==
    /\ proc[n] # "down"
    /\ proc' = [proc EXCEPT ![n] = "down"]
    /\ session' = [session EXCEPT ![n] = NoLease]
    /\ \/ dropLease(session[n])
       \/ UNCHANGED <<alive, ekeys, member>>
       \/ /\ session[n] \in alive
          /\ member' = [member EXCEPT ![n] = session[n]]
          /\ UNCHANGED <<alive, ekeys>>
    /\ UNCHANGED <<granted, owner, crev, rev>>

KeyStep(n) ==
    /\ proc[n] = "running" /\ session[n] \in alive \ ekeys
    /\ createKey(session[n])
    /\ UNCHANGED <<granted, owner, alive, member, proc, session>>

ResignStep(n) ==
    /\ proc[n] = "closing"
    /\ ekeys' \subseteq ekeys /\ ekeys \ {session[n]} \subseteq ekeys'
    /\ UNCHANGED <<granted, owner, alive, member, crev, rev, proc, session>>

QuietStep ==
    /\ UNCHANGED <<granted, owner, alive, member, ekeys, crev, rev, session>>
    /\ \A n \in Node : proc'[n] = proc[n] \/ (proc[n] = "running" /\ proc'[n] = "closing")

EtcdStep ==
    \/ \E l \in Lease : ExpiryStep(l)
    \/ \E n \in Node : \/ NewSession(n) \/ registerMember(n) \/ ExitStep(n)
                       \/ KeyStep(n) \/ ResignStep(n)
    \/ QuietStep

\* Every step of the system is one of these kinds.
LEMMA StepKinds == TypeOK /\ CampaignInv /\ [Next]_vars => EtcdStep
<1> SUFFICES ASSUME TypeOK, CampaignInv, [Next]_vars PROVE EtcdStep
  BY Zenon
<1> USE DEF etcdVars, procVars
<1>1. ASSUME NEW l \in Lease, LeaseExpires(l) PROVE EtcdStep
  BY <1>1, Zenon DEF LeaseExpires, ExpiryStep, EtcdStep
<1>2. ASSUME NEW n \in Node, NewSession(n) \/ registerMember(n) PROVE EtcdStep
  BY <1>2, Zenon DEF EtcdStep
<1>3. ASSUME NEW n \in Node, registerMemberFails(n) \/ Crash(n) \/ CloseSession(n)
      PROVE EtcdStep
  <2>1. ExitStep(n)
    BY <1>3, Zenon DEF registerMemberFails, Crash, CloseSession, Exit, ExitStep
  <2> QED
    BY <2>1, Zenon DEF EtcdStep
<1>4. ASSUME NEW n \in Node, CampaignReplyLost(n) PROVE EtcdStep
  BY <1>4, Zenon DEF CampaignReplyLost, KeyStep, EtcdStep
<1>5. ASSUME NEW n \in Node, CampaignTxn(n) PROVE EtcdStep
  <2>1. CASE session[n] \notin ekeys
    BY <1>5, <2>1, Zenon DEF CampaignTxn, KeyStep, EtcdStep
  <2>2. CASE session[n] \in ekeys
    BY <1>5, <2>2, Zenon DEF CampaignTxn, QuietStep, EtcdStep
  <2> QED
    BY <2>1, <2>2, Zenon
<1>6. ASSUME NEW n \in Node, CampaignCancelled(n) PROVE EtcdStep
  BY <1>6, Zenon DEF CampaignCancelled, deleteKey, ResignStep, EtcdStep
<1>7. ASSUME NEW n \in Node, resign(n) PROVE EtcdStep
  BY <1>7, Zenon DEF resign, deleteKey, CampaignInv, ResignStep, EtcdStep
<1>8. ASSUME NEW n \in Node, Close(n) PROVE EtcdStep
  BY <1>8, Zenon DEF Close, TypeOK, QuietStep, EtcdStep
<1>9. ASSUME UNCHANGED <<etcdVars, proc, session>> PROVE EtcdStep
  BY <1>9, Zenon DEF QuietStep, EtcdStep
<1>10. ASSUME NEW n \in Node,
              \/ CampaignReturns(n) \/ CampaignFails(n) \/ becomeLeader(n)
              \/ SessionExpired(n) \/ broadcastExpired(n) \/ LeadingCancelled(n)
              \/ CampaignStops(n) \/ LeaderResigned(n) \/ broadcastResigned(n)
       PROVE  UNCHANGED <<etcdVars, proc, session>>
  BY <1>10, Zenon DEF CampaignReturns, CampaignFails, becomeLeader, SessionExpired, broadcastExpired,
               LeadingCancelled, CampaignStops, LeaderResigned, broadcastResigned
<1>11. ASSUME NEW n \in Node,
              \/ ObserveGet(n) \/ observeLeader(n) \/ broadcastElected(n)
              \/ ObserveDelete(n) \/ ObserverStops(n) \/ ObserverChannelClosed(n)
       PROVE  UNCHANGED <<etcdVars, proc, session>>
  BY <1>11, Zenon DEF ObserveGet, observeLeader, broadcastElected, ObserveDelete, ObserverStops,
               ObserverChannelClosed
<1>12. ASSUME NEW n \in Node,
              \/ SessionDone(n) \/ Watch(n) \/ Unwatch(n)
              \/ \E ev \in leaderCh[n] : OnLeaderChange(n, ev)
       PROVE  UNCHANGED <<etcdVars, proc, session>>
  BY <1>12, Zenon DEF SessionDone, Watch, Unwatch, OnLeaderChange
<1>13. CASE UNCHANGED vars
  BY <1>9, <1>13, Zenon DEF vars
<1> QED
  BY ONLY <1>1, <1>2, <1>3, <1>4, <1>5, <1>6, <1>7, <1>8, <1>9, <1>10, <1>11, <1>12, <1>13,
          [Next]_vars, ZenonT(30)
  DEF Next, campaign, observe, Fault

\* Every kind of step preserves the tie between leases, owners and keys.
LEMMA LeaseStep == TypeOK /\ LeaseInv /\ EtcdStep => LeaseInv'
<1> SUFFICES ASSUME TypeOK, LeaseInv, EtcdStep PROVE LeaseInv'
  BY Zenon
<1>1. ASSUME NEW l \in Lease, ExpiryStep(l) PROVE LeaseInv'
  BY <1>1 DEF ExpiryStep, dropLease, LeaseInv, TypeOK
<1>2. ASSUME NEW n \in Node, NewSession(n) PROVE LeaseInv'
  <2> granted + 1 \in Lease /\ granted \in Nat
    BY <1>2, NextLease DEF NewSession, TypeOK
  <2> USE <1>2 DEF NewSession, LeaseInv, TypeOK
  <2>1. LeaseInv!1' /\ LeaseInv!2'
    OBVIOUS
  <2>2. LeaseInv!3'
    OBVIOUS
  <2>3. LeaseInv!4'
    BY ElectionAssumption
  <2>4. LeaseInv!5'
    <3> SUFFICES ASSUME NEW l \in ekeys
                 PROVE  \/ member[owner'[l]] = l
                        \/ \E k \in Lease : k > l /\ owner'[k] = owner'[l]
      BY Zenon
    <3>1. l \in Lease /\ l # granted + 1 /\ owner'[l] = owner[l] /\ owner[l] \in Node
      OBVIOUS
    <3>2. ASSUME NEW k \in Lease, owner[k] = owner[l] PROVE owner'[k] = owner[k]
      BY <3>1, <3>2, ElectionAssumption
    <3> QED
      BY <3>1, <3>2
  <2> QED
    BY <2>1, <2>2, <2>3, <2>4, Zenon
<1>3. ASSUME NEW n \in Node, registerMember(n) PROVE LeaseInv'
  <2> USE <1>3 DEF registerMember, LeaseInv, TypeOK
  <2>1. LeaseInv!1' /\ LeaseInv!2'
    BY Zenon
  <2>2. LeaseInv!3'
    BY Zenon
  <2>3. LeaseInv!4'
    OBVIOUS
  <2>4. LeaseInv!5'
    <3> SUFFICES ASSUME NEW l \in ekeys
                 PROVE  \/ member'[owner[l]] = l
                        \/ \E k \in Lease : k > l /\ owner[k] = owner[l]
      OBVIOUS
    <3>1. l \in Lease /\ owner[l] \in Node
      OBVIOUS
    <3>2. CASE owner[l] # n
      BY <3>1, <3>2, Zenon
    <3>3. CASE owner[l] = n /\ l = session[n]
      BY <3>3, Zenon
    <3>4. CASE owner[l] = n /\ l # session[n]
      <4>1. session[n] \in Lease /\ owner[session[n]] = n /\ l <= session[n]
        BY <3>1, <3>4, Zenon
      <4> QED
        BY <3>4, <4>1 DEF Lease
    <3> QED
      BY <3>2, <3>3, <3>4, Zenon
  <2> QED
    BY <2>1, <2>2, <2>3, <2>4, Zenon
<1>4. ASSUME NEW n \in Node, ExitStep(n) PROVE LeaseInv'
  <2>0. /\ session[n] \in Lease \/ session[n] = NoLease
        /\ owner[session[n]] = n
        /\ \A k \in Lease : owner[k] = n => k <= session[n]
    BY <1>4 DEF ExitStep, LeaseInv, TypeOK
  <2> USE <1>4 DEF ExitStep, dropLease, LeaseInv, TypeOK
  <2>1. LeaseInv!1' /\ LeaseInv!2'
    BY Zenon
  <2>2. LeaseInv!3'
    BY Zenon
  <2>3. LeaseInv!4'
    OBVIOUS
  <2>4. LeaseInv!5'
    <3>1. CASE dropLease(session[n])
      BY <3>1
    <3>2. CASE UNCHANGED <<alive, ekeys, member>>
      BY <3>2, Zenon
    <3>3. CASE /\ session[n] \in alive /\ UNCHANGED <<alive, ekeys>>
               /\ member' = [member EXCEPT ![n] = session[n]]
      <4> SUFFICES ASSUME NEW l \in ekeys
                   PROVE  \/ member'[owner[l]] = l
                          \/ \E k \in Lease : k > l /\ owner[k] = owner[l]
        BY <3>3
      <4>1. l \in Lease /\ owner[l] \in Node
        OBVIOUS
      <4>2. CASE owner[l] # n
        BY <3>3, <4>1, <4>2, Zenon
      <4>3. CASE owner[l] = n /\ l = session[n]
        BY <3>3, <4>3, Zenon
      <4>4. CASE owner[l] = n /\ l # session[n]
        <5>1. session[n] \in Lease /\ owner[session[n]] = n /\ l <= session[n]
          BY <2>0, <3>3, <4>1, <4>4, Zenon
        <5> QED
          BY <4>4, <5>1 DEF Lease
      <4> QED
        BY <4>2, <4>3, <4>4, Zenon
    <3> QED
      BY <3>1, <3>2, <3>3, Zenon
  <2> QED
    BY <2>1, <2>2, <2>3, <2>4, Zenon
<1>5. ASSUME NEW n \in Node, KeyStep(n) PROVE LeaseInv'
  <2> USE <1>5 DEF KeyStep, createKey, LeaseInv, TypeOK
  <2>1. LeaseInv!1' /\ LeaseInv!2'
    BY Zenon
  <2>2. LeaseInv!3'
    OBVIOUS
  <2>3. LeaseInv!4'
    BY Zenon
  <2>4. LeaseInv!5'
    OBVIOUS
  <2> QED
    BY <2>1, <2>2, <2>3, <2>4, Zenon
<1>6. ASSUME NEW n \in Node, ResignStep(n) PROVE LeaseInv'
  BY <1>6, Zenon DEF ResignStep, LeaseInv, TypeOK
<1>7. CASE QuietStep
  BY <1>7 DEF QuietStep, LeaseInv, TypeOK
<1> QED
  BY <1>1, <1>2, <1>3, <1>4, <1>5, <1>6, <1>7, Zenon DEF EtcdStep

\* A session creates its election key once, with the next revision.
LEMMA FreshKey ==
    ASSUME TypeOK, RevisionInv, NEW n \in Node, KeyStep(n)
    PROVE  /\ session[n] \in Lease /\ crev[session[n]] = 0
           /\ crev'[session[n]] = rev + 1
           /\ \A l \in Lease : l # session[n] => crev'[l] = crev[l]
BY Zenon DEF KeyStep, createKey, RevisionInv, TypeOK

\* Every kind of step keeps create revisions unique and increasing.
LEMMA RevisionStep == TypeOK /\ LeaseInv /\ RevisionInv /\ EtcdStep => RevisionInv'
<1> SUFFICES ASSUME TypeOK, LeaseInv, RevisionInv, EtcdStep PROVE RevisionInv'
  BY Zenon
<1>1. ASSUME NEW l \in Lease, ExpiryStep(l) PROVE RevisionInv'
  BY <1>1, Zenon DEF ExpiryStep, dropLease, RevisionInv, TypeOK
<1>2. ASSUME NEW n \in Node, NewSession(n) PROVE RevisionInv'
  BY <1>2, NextLease DEF NewSession, RevisionInv, LeaseInv, TypeOK
<1>3. ASSUME NEW n \in Node, registerMember(n) PROVE RevisionInv'
  BY <1>3 DEF registerMember, RevisionInv, TypeOK
<1>4. ASSUME NEW n \in Node, ExitStep(n) PROVE RevisionInv'
  <2>1. ekeys' \subseteq ekeys /\ alive' \ ekeys' \subseteq alive \ ekeys
    BY <1>4, Zenon DEF ExitStep, dropLease
  <2>2. ASSUME NEW m \in Node, proc'[m] # "down"
        PROVE  proc'[m] = proc[m] /\ session'[m] = session[m]
    BY <1>4, <2>2, Zenon DEF ExitStep, TypeOK
  <2>3. UNCHANGED <<crev, rev>>
    BY <1>4, Zenon DEF ExitStep
  <2> QED
    BY <2>1, <2>2, <2>3, Zenon DEF RevisionInv
<1>5. ASSUME NEW n \in Node, KeyStep(n) PROVE RevisionInv'
  <2>1. /\ ekeys' = ekeys \cup {session[n]} /\ rev' = rev + 1
        /\ UNCHANGED <<alive, proc, session>>
    BY <1>5, Zenon DEF KeyStep, createKey
  <2>2. rev \in Nat /\ ekeys \subseteq Lease /\ \A l \in Lease : crev[l] \in Nat /\ crev[l] <= rev
    BY Zenon DEF RevisionInv, TypeOK
  <2>3. /\ session[n] \in Lease /\ crev'[session[n]] = rev + 1
        /\ \A l \in Lease : l # session[n] => crev'[l] = crev[l]
    BY <1>5, FreshKey, Zenon
  <2>4. RevisionInv!1' /\ RevisionInv!2'
    BY <2>1, <2>2, <2>3 DEF RevisionInv
  <2>5. RevisionInv!3'
    BY <2>2, <2>3 DEF RevisionInv
  <2>6. ASSUME NEW m \in Node, proc[m] = "running" \/ proc[m] = "starting"
        PROVE  m = n \/ session[m] # session[n]
    BY <1>5, <2>6 DEF KeyStep, LeaseInv
  <2>7. ASSUME NEW m \in Node
        PROVE  /\ proc[m] = "starting" => crev'[session[m]] = 0
               /\ proc[m] = "running" /\ session[m] \in alive \ ekeys' => crev'[session[m]] = 0
    <3>1. proc[m] # "down" => session[m] \in Lease
      BY ElectionAssumption DEF LeaseInv, TypeOK, Lease
    <3> QED
      BY <1>5, <2>1, <2>3, <2>6, <3>1, Zenon DEF KeyStep, RevisionInv
  <2> QED
    BY <2>1, <2>4, <2>5, <2>7, Zenon DEF RevisionInv
<1>6. ASSUME NEW n \in Node, ResignStep(n) PROVE RevisionInv'
  <2>1. ASSUME NEW m \in Node, proc'[m] = "running", session'[m] \in alive' \ ekeys'
        PROVE  crev'[session'[m]] = 0
    <3>1. m # n /\ proc[m] # "down" /\ proc[n] # "down"
      BY <1>6, <2>1, Zenon DEF ResignStep
    <3>2. session[m] # session[n]
      BY <3>1 DEF LeaseInv
    <3> QED
      BY <1>6, <2>1, <3>2, Zenon DEF ResignStep, RevisionInv
  <2> QED
    BY <1>6, <2>1, Zenon DEF ResignStep, RevisionInv, TypeOK
<1>7. CASE QuietStep
  BY <1>7, Zenon DEF QuietStep, RevisionInv, TypeOK
<1> QED
  BY <1>1, <1>2, <1>3, <1>4, <1>5, <1>6, <1>7, Zenon DEF EtcdStep

-----------------------------------------------------------------------------
(* What a new election key leaves alone *)

\* A campaign that waits, or that has won, is not disturbed by a new key.
LEMMA OtherCampaigns ==
    ASSUME TypeOK, LeaseInv, RevisionInv, CampaignInv,
           NEW n \in Node, KeyStep(n), NEW m \in Node, m # n,
           cpc[m] \in {"wait", "won", "leading"}, session[m] \in ekeys'
    PROVE  /\ session[m] \in ekeys
           /\ crev'[session[m]] = leaderRev[m]
           /\ cpc[m] \in {"won", "leading"} => \A k \in ekeys' : crev'[k] >= leaderRev[m]
<1>1. proc[m] # "down" /\ proc[n] # "down"
  BY Zenon DEF CampaignInv, KeyStep
<1>2. session[m] # session[n]
  BY <1>1 DEF LeaseInv
<1>3. session[m] \in ekeys /\ session[m] \in Lease /\ ekeys' = ekeys \cup {session[n]}
  BY <1>2, Zenon DEF KeyStep, createKey, TypeOK
<1>4. crev'[session[m]] = crev[session[m]] /\ crev[session[m]] = leaderRev[m]
  BY <1>2, <1>3, FreshKey, Zenon DEF CampaignInv
<1>5. leaderRev[m] <= rev /\ rev \in Nat /\ leaderRev[m] \in Nat
  BY <1>3, <1>4, Zenon DEF RevisionInv, TypeOK
<1>6. ASSUME cpc[m] \in {"won", "leading"}, NEW k \in ekeys'
      PROVE crev'[k] >= leaderRev[m]
  <2>1. CASE k = session[n]
    BY <1>5, <2>1, FreshKey
  <2>2. CASE k # session[n]
    BY <1>3, <1>6, <2>2, FreshKey DEF CampaignInv, TypeOK
  <2> QED
    BY <2>1, <2>2, Zenon
<1> QED
  BY <1>3, <1>4, <1>6, Zenon

\* A lease that once had an election key keeps its create revision.
LEMMA RevisionsStay ==
    ASSUME TypeOK, RevisionInv, EtcdStep, NEW l \in Lease, crev[l] # 0
    PROVE  crev'[l] = crev[l]
<1>1. ASSUME NEW n \in Node, KeyStep(n) PROVE crev'[l] = crev[l]
  BY <1>1, FreshKey, Zenon
<1> QED
  BY <1>1, Zenon DEF EtcdStep, ExpiryStep, NewSession, registerMember, ExitStep,
              ResignStep, QuietStep

\* ... and its owner.
LEMMA OwnersStay ==
    ASSUME TypeOK, LeaseInv, EtcdStep, NEW l \in Lease, owner[l] \in Node
    PROVE  owner'[l] = owner[l] /\ granted' \in Nat /\ granted <= granted'
<1>1. l <= granted /\ l \in Nat /\ granted \in Nat
  BY ElectionAssumption DEF LeaseInv, TypeOK, Lease
<1>2. ASSUME NEW n \in Node, NewSession(n)
      PROVE owner'[l] = owner[l] /\ granted' \in Nat /\ granted <= granted'
  BY <1>1, <1>2 DEF NewSession, TypeOK
<1> QED
  BY <1>1, <1>2 DEF EtcdStep, ExpiryStep, registerMember, ExitStep, KeyStep,
                    ResignStep, QuietStep

-----------------------------------------------------------------------------
(* Campaigns and observers *)

\* Every step preserves what a returned campaign knows of the other keys.
LEMMA CampaignStep == TypeOK /\ LeaseInv /\ RevisionInv /\ CampaignInv /\ [Next]_vars => CampaignInv'
<1> SUFFICES ASSUME TypeOK, LeaseInv, RevisionInv, CampaignInv, [Next]_vars PROVE CampaignInv'
  BY Zenon
<1> USE DEF TypeOK, CampaignInv, etcdVars, procVars, campVars, obsVars
<1>1. ASSUME NEW l \in Lease, LeaseExpires(l) PROVE CampaignInv'
  BY <1>1, Zenon DEF LeaseExpires, dropLease
<1>2. ASSUME NEW n \in Node, NewSession(n) PROVE CampaignInv'
  BY <1>2 DEF NewSession
<1>3. ASSUME NEW n \in Node, registerMember(n) PROVE CampaignInv'
  BY <1>3, SMTT(20) DEF registerMember
<1>4. ASSUME NEW n \in Node, registerMemberFails(n) PROVE CampaignInv'
  BY <1>4, SMTT(20) DEF registerMemberFails, Exit, dropLease
<1>5. ASSUME NEW n \in Node, Crash(n) PROVE CampaignInv'
  BY <1>5, SMTT(20) DEF Crash, Exit
<1>6. ASSUME NEW n \in Node, CloseSession(n) PROVE CampaignInv'
  BY <1>6 DEF CloseSession, Exit, dropLease
<1>7. ASSUME NEW n \in Node, Close(n) PROVE CampaignInv'
  BY <1>7, Zenon DEF Close
<1>8. ASSUME NEW n \in Node, SessionDone(n) PROVE CampaignInv'
  BY <1>8, Zenon DEF SessionDone
<1>9. ASSUME NEW n \in Node, CampaignTxn(n) PROVE CampaignInv'
  <2>1. CASE session[n] \in ekeys
    BY <1>9, <2>1 DEF CampaignTxn
  <2>2. CASE session[n] \notin ekeys
    <3>1. KeyStep(n) /\ session[n] \in Lease
      BY <1>9, <2>2, Zenon DEF CampaignTxn, KeyStep
    <3>2. ASSUME NEW m \in Node, m # n PROVE CampaignInv!(m)'
      BY <1>9, <3>1, <3>2, OtherCampaigns DEF CampaignTxn
    <3>3. CampaignInv!(n)'
      BY <1>9, Zenon DEF CampaignTxn
    <3> QED
      BY <3>2, <3>3
  <2> QED
    BY <2>1, <2>2, Zenon
<1>10. ASSUME NEW n \in Node, CampaignReplyLost(n) PROVE CampaignInv'
  <2>1. KeyStep(n)
    BY <1>10, Zenon DEF CampaignReplyLost, KeyStep
  <2>2. ASSUME NEW m \in Node, m # n PROVE CampaignInv!(m)'
    BY <1>10, <2>1, <2>2, OtherCampaigns DEF CampaignReplyLost
  <2>3. CampaignInv!(n)'
    BY <1>10, Zenon DEF CampaignReplyLost
  <2> QED
    BY <2>2, <2>3
<1>11. ASSUME NEW n \in Node, CampaignReturns(n) PROVE CampaignInv'
  BY <1>11 DEF CampaignReturns
<1>12. ASSUME NEW n \in Node, CampaignFails(n) PROVE CampaignInv'
  BY <1>12 DEF CampaignFails
<1>13. ASSUME NEW n \in Node, becomeLeader(n) PROVE CampaignInv'
  BY <1>13 DEF becomeLeader
<1>14. ASSUME NEW n \in Node, SessionExpired(n) PROVE CampaignInv'
  BY <1>14 DEF SessionExpired
<1>15. ASSUME NEW n \in Node, broadcastExpired(n) PROVE CampaignInv'
  BY <1>15, Zenon DEF broadcastExpired
<1>16. ASSUME NEW n \in Node, LeadingCancelled(n) PROVE CampaignInv'
  BY <1>16, Zenon DEF LeadingCancelled
<1>17. ASSUME NEW n \in Node, CampaignCancelled(n) PROVE CampaignInv'
  BY <1>17 DEF CampaignCancelled, deleteKey
<1>18. ASSUME NEW n \in Node, CampaignStops(n) PROVE CampaignInv'
  BY <1>18 DEF CampaignStops
<1>19. ASSUME NEW n \in Node, resign(n) PROVE CampaignInv'
  BY <1>19 DEF resign, deleteKey
<1>20. ASSUME NEW n \in Node, LeaderResigned(n) PROVE CampaignInv'
  BY <1>20, Zenon DEF LeaderResigned
<1>21. ASSUME NEW n \in Node, broadcastResigned(n) PROVE CampaignInv'
  BY <1>21 DEF broadcastResigned
<1>22. ASSUME NEW n \in Node, ObserveGet(n) PROVE CampaignInv'
  BY <1>22, Zenon DEF ObserveGet
<1>23. ASSUME NEW n \in Node, observeLeader(n) PROVE CampaignInv'
  BY <1>23, Zenon DEF observeLeader
<1>24. ASSUME NEW n \in Node, broadcastElected(n) PROVE CampaignInv'
  BY <1>24, Zenon DEF broadcastElected
<1>25. ASSUME NEW n \in Node, ObserveDelete(n) PROVE CampaignInv'
  BY <1>25, Zenon DEF ObserveDelete
<1>26. ASSUME NEW n \in Node, ObserverStops(n) PROVE CampaignInv'
  BY <1>26, Zenon DEF ObserverStops
<1>27. ASSUME NEW n \in Node, ObserverChannelClosed(n) PROVE CampaignInv'
  BY <1>27, Zenon DEF ObserverChannelClosed
<1>28. ASSUME NEW n \in Node, Watch(n) PROVE CampaignInv'
  BY <1>28, Zenon DEF Watch
<1>29. ASSUME NEW n \in Node, Unwatch(n) PROVE CampaignInv'
  BY <1>29, Zenon DEF Unwatch
<1>30. ASSUME NEW n \in Node, NEW ev \in leaderCh[n], OnLeaderChange(n, ev) PROVE CampaignInv'
  BY <1>30, Zenon DEF OnLeaderChange
<1>31. CASE UNCHANGED vars
  BY <1>31, Zenon DEF vars
<1> QED
  BY <1>1, <1>2, <1>3, <1>4, <1>5, <1>6, <1>7, <1>8, <1>9, <1>10, <1>11,
     <1>12, <1>13, <1>14, <1>15, <1>16, <1>17, <1>18, <1>19, <1>20, <1>21,
     <1>22, <1>23, <1>24, <1>25, <1>26, <1>27, <1>28, <1>29, <1>30, <1>31, ZenonT(30)
  DEF Next, campaign, observe, Fault

\* What an observer or a listener remembers of an election key stays true.
ObservedKey(l, epoch) == l <= granted /\ epoch = crev[l] /\ epoch > 0

Remembered(ev) ==
    ev.type = "LeaderElected" =>
      ev.epoch > 0 /\ \E l \in Lease : crev[l] = ev.epoch /\ owner[l] = ev.member

\* The key an observer holds keeps its create revision.
LEMMA ObservedStays ==
    ASSUME TypeOK, LeaseInv, RevisionInv, EtcdStep, NEW l \in Lease,
           NEW epoch \in Nat, ObservedKey(l, epoch)
    PROVE  l <= granted' /\ epoch = crev'[l] /\ epoch > 0
<1>1. l \in Nat /\ granted \in Nat /\ owner[l] \in Node
  BY ElectionAssumption DEF ObservedKey, LeaseInv, TypeOK, Lease
<1>2. crev'[l] = crev[l]
  BY RevisionsStay DEF ObservedKey
<1>3. granted' \in Nat /\ granted <= granted'
  BY <1>1, OwnersStay, Zenon
<1> QED
  BY <1>1, <1>2, <1>3 DEF ObservedKey

\* The epoch of an event stays the create revision of a key of its member.
LEMMA RememberedStays ==
    ASSUME TypeOK, LeaseInv, RevisionInv, EtcdStep, NEW ev \in LeaderEvent,
           Remembered(ev)
    PROVE  Remembered(ev)'
<1> SUFFICES ASSUME ev.type = "LeaderElected"
             PROVE  ev.epoch > 0 /\ \E l \in Lease : crev'[l] = ev.epoch /\ owner'[l] = ev.member
  BY Zenon DEF Remembered
<1>1. ev.epoch \in Nat /\ ev.epoch > 0 /\ ev.member \in Node
  BY Zenon DEF Remembered, LeaderEvent
<1>2. PICK l \in Lease : crev[l] = ev.epoch /\ owner[l] = ev.member
  BY Zenon DEF Remembered
<1>3. crev'[l] = crev[l] /\ owner'[l] = owner[l]
  BY <1>1, <1>2, RevisionsStay, OwnersStay
<1> QED
  BY <1>1, <1>2, <1>3, Zenon

\* What a step does to the observer and to the channel of node m.
ObserverKind(m) ==
    /\ opc'[m] \in {"received", "publish", "watch"} <=> obs'[m].lease # NoLease
    /\ \/ obs'[m] = obs[m]
       \/ obs'[m].lease = NoLease
       \/ \E l \in ekeys : /\ obs'[m] = [lease |-> l, epoch |-> crev[l]]
                           /\ UNCHANGED <<granted, crev>>
    /\ \A ev \in leaderCh'[m] :
         \/ ev \in leaderCh[m]
         \/ ev.type # "LeaderElected"
         \/ /\ obs[m].lease # NoLease
            /\ ev.member = owner[obs[m].lease] /\ ev.epoch = obs[m].epoch

\* Every step treats each observer and each channel in one of these ways.
LEMMA ObserverKinds ==
    TypeOK /\ CampaignInv /\ ObserverInv /\ [Next]_vars 
      => \A m \in Node : ObserverKind(m)
<1> SUFFICES ASSUME TypeOK, CampaignInv, ObserverInv, [Next]_vars, NEW m \in Node
             PROVE  ObserverKind(m)
  BY Zenon
<1> USE DEF TypeOK, ObserverInv, ObserverKind, NoLease, NoKey, etcdVars, procVars, campVars, obsVars, sinkVars
<1>1. ASSUME NEW l \in Lease, LeaseExpires(l) PROVE ObserverKind(m)
  BY <1>1, Zenon DEF LeaseExpires, dropLease
<1>2. ASSUME NEW n \in Node, NewSession(n) PROVE ObserverKind(m)
  BY <1>2, Zenon DEF NewSession
<1>3. ASSUME NEW n \in Node, registerMember(n) PROVE ObserverKind(m)
  BY <1>3, Zenon DEF registerMember, CampaignInv
<1>4. ASSUME NEW n \in Node, registerMemberFails(n) PROVE ObserverKind(m)
  BY <1>4, SMTT(20) DEF registerMemberFails, Exit, dropLease
<1>5. ASSUME NEW n \in Node, Crash(n) PROVE ObserverKind(m)
  BY <1>5, SMTT(20) DEF Crash, Exit
<1>6. ASSUME NEW n \in Node, CloseSession(n) PROVE ObserverKind(m)
  BY <1>6 DEF CloseSession, Exit, dropLease
<1>7. ASSUME NEW n \in Node, Close(n) PROVE ObserverKind(m)
  BY <1>7, Zenon DEF Close
<1>8. ASSUME NEW n \in Node, SessionDone(n) PROVE ObserverKind(m)
  BY <1>8, Zenon DEF SessionDone
<1>9. ASSUME NEW n \in Node, CampaignTxn(n) PROVE ObserverKind(m)
  BY <1>9, Zenon DEF CampaignTxn, createKey
<1>10. ASSUME NEW n \in Node, CampaignReplyLost(n) PROVE ObserverKind(m)
  BY <1>10, Zenon DEF CampaignReplyLost, createKey
<1>11. ASSUME NEW n \in Node, CampaignReturns(n) PROVE ObserverKind(m)
  BY <1>11, Zenon DEF CampaignReturns
<1>12. ASSUME NEW n \in Node, CampaignFails(n) PROVE ObserverKind(m)
  BY <1>12, Zenon DEF CampaignFails
<1>13. ASSUME NEW n \in Node, becomeLeader(n) PROVE ObserverKind(m)
  BY <1>13, Zenon DEF becomeLeader
<1>14. ASSUME NEW n \in Node, SessionExpired(n) PROVE ObserverKind(m)
  BY <1>14, Zenon DEF SessionExpired
<1>15. ASSUME NEW n \in Node, broadcastExpired(n) PROVE ObserverKind(m)
  BY <1>15 DEF broadcastExpired, broadcastLeaderEvent
<1>16. ASSUME NEW n \in Node, LeadingCancelled(n) PROVE ObserverKind(m)
  BY <1>16, Zenon DEF LeadingCancelled
<1>17. ASSUME NEW n \in Node, CampaignCancelled(n) PROVE ObserverKind(m)
  BY <1>17, Zenon DEF CampaignCancelled, deleteKey
<1>18. ASSUME NEW n \in Node, CampaignStops(n) PROVE ObserverKind(m)
  BY <1>18, Zenon DEF CampaignStops
<1>19. ASSUME NEW n \in Node, resign(n) PROVE ObserverKind(m)
  BY <1>19, Zenon DEF resign, deleteKey
<1>20. ASSUME NEW n \in Node, LeaderResigned(n) PROVE ObserverKind(m)
  BY <1>20, Zenon DEF LeaderResigned
<1>21. ASSUME NEW n \in Node, broadcastResigned(n) PROVE ObserverKind(m)
  BY <1>21 DEF broadcastResigned, broadcastLeaderEvent
<1>22. ASSUME NEW n \in Node, ObserveGet(n) PROVE ObserverKind(m)
  <2>1. PICK l \in ekeys : obs' = [obs EXCEPT ![n] = [lease |-> l, epoch |-> crev[l]]]
    BY <1>22, Zenon DEF ObserveGet
  <2>2. l # NoLease
    BY DEF Lease
  <2> QED
    BY <1>22, <2>1, <2>2 DEF ObserveGet
<1>23. ASSUME NEW n \in Node, observeLeader(n) PROVE ObserverKind(m)
  BY <1>23, Zenon DEF observeLeader
<1>24. ASSUME NEW n \in Node, broadcastElected(n) PROVE ObserverKind(m)
  BY <1>24 DEF broadcastElected, broadcastLeaderEvent
<1>25. ASSUME NEW n \in Node, ObserveDelete(n) PROVE ObserverKind(m)
  BY <1>25, Zenon DEF ObserveDelete
<1>26. ASSUME NEW n \in Node, ObserverStops(n) PROVE ObserverKind(m)
  BY <1>26, Zenon DEF ObserverStops
<1>27. ASSUME NEW n \in Node, ObserverChannelClosed(n) PROVE ObserverKind(m)
  BY <1>27, ZenonT(30) DEF ObserverChannelClosed
<1>28. ASSUME NEW n \in Node, Watch(n) PROVE ObserverKind(m)
  BY <1>28, Zenon DEF Watch
<1>29. ASSUME NEW n \in Node, Unwatch(n) PROVE ObserverKind(m)
  BY <1>29 DEF Unwatch
<1>30. ASSUME NEW n \in Node, NEW ev \in leaderCh[n], OnLeaderChange(n, ev) PROVE ObserverKind(m)
  BY <1>30, Zenon DEF OnLeaderChange
<1>31. CASE UNCHANGED vars
  BY <1>31, Zenon DEF vars
<1> QED
  BY <1>1, <1>2, <1>3, <1>4, <1>5, <1>6, <1>7, <1>8, <1>9, <1>10, <1>11,
     <1>12, <1>13, <1>14, <1>15, <1>16, <1>17, <1>18, <1>19, <1>20, <1>21,
     <1>22, <1>23, <1>24, <1>25, <1>26, <1>27, <1>28, <1>29, <1>30, <1>31, ZenonT(30)
  DEF Next, campaign, observe, Fault

\* Every step preserves what observers and channels remember of the keys.
LEMMA ObserverStep ==
    TypeOK /\ LeaseInv /\ RevisionInv /\ CampaignInv /\ ObserverInv /\ TypeOK' /\ [Next]_vars
      => ObserverInv'
<1> SUFFICES ASSUME TypeOK, LeaseInv, RevisionInv, CampaignInv, ObserverInv, TypeOK',
                    [Next]_vars, NEW m \in Node
             PROVE  ObserverInv!(m)'
  BY Zenon DEF ObserverInv
<1>1. EtcdStep /\ ObserverKind(m)
  BY StepKinds, ObserverKinds, Zenon
<1>2. ASSUME obs'[m].lease # NoLease
      PROVE  /\ obs'[m].lease <= granted' /\ obs'[m].epoch > 0
             /\ obs'[m].epoch = crev'[obs'[m].lease]
  <2>1. CASE obs'[m] = obs[m]
    <3>1. obs[m].lease \in Lease /\ obs[m].epoch \in Nat
      BY <1>2, <2>1, Zenon DEF TypeOK
    <3>2. ObservedKey(obs[m].lease, obs[m].epoch)
      BY <1>2, <2>1, Zenon DEF ObserverInv, ObservedKey
    <3> QED
      BY <1>1, <2>1, <3>1, <3>2, ObservedStays, Zenon
  <2>2. CASE \E l \in ekeys : /\ obs'[m] = [lease |-> l, epoch |-> crev[l]]
                              /\ UNCHANGED <<granted, crev>>
    <3>1. PICK l \in ekeys : /\ obs'[m] = [lease |-> l, epoch |-> crev[l]]
                             /\ UNCHANGED <<granted, crev>>
      BY <2>2, Zenon
    <3>2. l \in 1..granted /\ crev[l] > 0
      BY Zenon DEF LeaseInv, RevisionInv
    <3> QED
      BY <3>1, <3>2 DEF TypeOK
  <2> QED
    BY <1>1, <1>2, <2>1, <2>2, Zenon DEF ObserverKind
<1>3. ASSUME NEW ev \in leaderCh'[m] PROVE Remembered(ev)'
  <2>1. ev \in LeaderEvent
    BY Zenon DEF TypeOK
  <2>2. CASE ev \in leaderCh[m]
    BY <1>1, <2>1, <2>2, RememberedStays, Zenon DEF ObserverInv, Remembered
  <2>3. CASE /\ obs[m].lease # NoLease
             /\ ev.member = owner[obs[m].lease] /\ ev.epoch = obs[m].epoch
    <3>1. obs[m].lease \in Lease
      BY <2>3, Zenon DEF TypeOK
    <3>2. Remembered(ev)
      BY <2>3, <3>1, Zenon DEF ObserverInv, Remembered
    <3> QED
      BY <1>1, <2>1, <3>2, RememberedStays, Zenon
  <2> QED
    BY <1>1, <2>2, <2>3, Zenon DEF ObserverKind, Remembered
<1> QED
  BY <1>1, <1>2, <1>3, Zenon DEF ObserverKind, Remembered

-----------------------------------------------------------------------------
\* The initial state satisfies the inductive invariant.
LEMMA InitInv == Init => IndInv
<1> SUFFICES ASSUME Init PROVE IndInv
  BY Zenon
<1> USE ElectionAssumption DEF Init
<1>1. TypeOK
  BY DEF TypeOK, Lease, NoLease, NoKey, Proc, Role, CampaignPC, ObserverPC
<1>2. LeaseInv
  BY DEF LeaseInv, Lease, NoLease
<1>3. RevisionInv
  BY DEF RevisionInv, Lease, NoLease
<1>4. CampaignInv
  BY Zenon DEF CampaignInv, Lease, NoLease
<1>5. ObserverInv
  BY Zenon DEF ObserverInv, Lease, NoLease, NoKey
<1> QED
  BY <1>1, <1>2, <1>3, <1>4, <1>5, Zenon DEF IndInv

\* Every step preserves the inductive invariant.
LEMMA NextInv == IndInv /\ [Next]_vars => IndInv'
<1> SUFFICES ASSUME IndInv, [Next]_vars PROVE IndInv'
  BY Zenon
<1> USE DEF IndInv
<1>1. EtcdStep
  BY StepKinds, Zenon
<1>2. TypeOK'
  BY TypeStep, Zenon
<1>3. LeaseInv'
  BY <1>1, LeaseStep, Zenon
<1>4. RevisionInv'
  BY <1>1, RevisionStep, Zenon
<1>5. CampaignInv'
  BY CampaignStep, Zenon
<1>6. ObserverInv'
  BY <1>2, ObserverStep, Zenon
<1> QED
  BY <1>2, <1>3, <1>4, <1>5, <1>6, Zenon

\* The inductive invariant holds in every reachable state.
THEOREM Invariance == Spec => []IndInv
BY InitInv, NextInv, PTL DEF Spec

\* Every variable keeps its type, whatever the faults.
THEOREM TypeCorrect == Spec => []TypeOK
BY Invariance, PTL DEF IndInv

\* At most one node at a time is past election.Campaign with its election key
\* still in etcd.
THEOREM TermsExclude == Spec => []TermExclusion
<1>1. IndInv => TermExclusion
  <2> SUFFICES ASSUME IndInv, NEW m \in Node, NEW n \in Node, HoldsTerm(m), HoldsTerm(n)
               PROVE  m = n
    BY Zenon DEF TermExclusion
  <2>1. /\ session[m] \in ekeys /\ session[n] \in ekeys
        /\ session[m] \in Lease /\ session[n] \in Lease
    BY Zenon DEF HoldsTerm, IndInv, TypeOK
  <2>2. crev[session[m]] >= crev[session[n]] /\ crev[session[n]] >= crev[session[m]]
    BY <2>1, Zenon DEF HoldsTerm, IndInv, CampaignInv
  <2>3. session[m] = session[n]
    <3>1. crev[session[m]] \in Nat /\ crev[session[n]] \in Nat /\ crev[session[m]] > 0
      BY <2>1, ZenonT(30) DEF IndInv, RevisionInv, TypeOK
    <3>2. crev[session[m]] = crev[session[n]] /\ crev[session[m]] # 0
      BY <2>2, <3>1
    <3> QED
      BY <2>1, <3>2, Zenon DEF IndInv, RevisionInv
  <2>4. proc[m] # "down" /\ proc[n] # "down"
    BY Zenon DEF HoldsTerm, IndInv, CampaignInv
  <2>5. owner[session[m]] = m
    BY <2>4, Zenon DEF IndInv, LeaseInv
  <2>6. owner[session[n]] = n
    BY <2>4, Zenon DEF IndInv, LeaseInv
  <2> QED
    BY <2>3, <2>5, <2>6, Zenon
<1> QED
  BY <1>1, Invariance, PTL

\* An election key implies a live lease and, unless the node was started
\* again, the member key of the same lease; a member key implies a live lease.
THEOREM LeaseIsShared == Spec => []SharedLease
<1>1. IndInv => SharedLease
  BY ZenonT(30) DEF IndInv, LeaseInv, SharedLease, TypeOK
<1> QED
  BY <1>1, Invariance, PTL

\* One epoch names one leader, in every event on every node.
THEOREM EpochsAgree == Spec => []EpochAgreement
<1>1. IndInv => EpochAgreement
  <2> SUFFICES ASSUME IndInv PROVE EpochAgreement
    BY Zenon
  <2>0. ASSUME NEW n \in Node, obs[n].lease # NoLease
        PROVE  /\ obs[n].lease \in Lease
               /\ obs[n].epoch = crev[obs[n].lease]
               /\ obs[n].epoch # 0
    <3>1. obs[n].lease \in Lease /\ obs[n].epoch \in Nat
      BY <2>0, Zenon DEF IndInv, TypeOK
    <3>2. obs[n].epoch = crev[obs[n].lease] /\ obs[n].epoch > 0
      BY <2>0, Zenon DEF IndInv, ObserverInv
    <3> QED
      BY <3>1, <3>2
  <2>1. ASSUME NEW e \in ElectedEvents
        PROVE  e.epoch # 0 /\ \E l \in Lease : crev[l] = e.epoch /\ owner[l] = e.member
    <3>1. CASE \E n \in Node : e \in leaderCh[n] /\ e.type = "LeaderElected"
      BY <3>1 DEF IndInv, ObserverInv, TypeOK, LeaderEvent
    <3>2. ASSUME NEW n \in Node, obs[n].lease # NoLease,
                 e = [type |-> "LeaderElected", member |-> owner[obs[n].lease],
                      epoch |-> obs[n].epoch]
          PROVE  e.epoch # 0 /\ \E l \in Lease : crev[l] = e.epoch /\ owner[l] = e.member
      <4>1. e.epoch = obs[n].epoch /\ e.member = owner[obs[n].lease]
        BY <3>2, Zenon
      <4> QED
        BY <2>0, <3>2, <4>1, Zenon
    <3> QED
      BY <3>1, <3>2, Zenon DEF ElectedEvents
  <2> QED
    BY <2>1 DEF EpochAgreement, IndInv, RevisionInv
<1> QED
  BY <1>1, Invariance, PTL
=============================================================================
