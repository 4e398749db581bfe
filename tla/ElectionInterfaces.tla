------------------------- MODULE ElectionInterfaces -------------------------
(***************************************************************************)
(* What the election promises to others, proved from the inductive         *)
(* invariant of LeaderElectionProofs: to the cluster that it implements    *)
(* LeaderTerms, to listeners that the epochs they are given increase, and  *)
(* to the services of each node that it implements Leadership under the    *)
(* mapping View(n).                                                        *)
(***************************************************************************)
EXTENDS LeaderElectionProofs

(* The cluster: LeaderTerms *)

\* Every nonempty set of election keys has one with the lowest create revision.
LowestKeyExists ==
    \A S \in SUBSET ekeys : S # {} => \E l \in S : \A k \in S : crev[l] <= crev[k]

\* This is inductive: keys vanish, or one appears with the largest revision.
LEMMA LowestStep == IndInv /\ LowestKeyExists /\ EtcdStep => LowestKeyExists'
<1> SUFFICES ASSUME IndInv, LowestKeyExists, EtcdStep PROVE LowestKeyExists'
  BY Zenon
<1>1. ASSUME ekeys' \subseteq ekeys, crev' = crev PROVE LowestKeyExists'
  BY <1>1, Zenon DEF LowestKeyExists
<1>2. ASSUME NEW n \in Node, KeyStep(n) PROVE LowestKeyExists'
  <2> SUFFICES ASSUME NEW S \in SUBSET (ekeys'), S # {}
               PROVE  \E l \in S : \A k \in S : crev'[l] <= crev'[k]
    BY Zenon DEF LowestKeyExists
  <2>1. /\ ekeys' = ekeys \cup {session[n]} /\ ekeys \subseteq Lease
        /\ crev'[session[n]] = rev + 1 /\ rev \in Nat
        /\ \A l \in Lease : l # session[n] => crev'[l] = crev[l]
        /\ \A l \in Lease : crev[l] \in Nat /\ crev[l] <= rev
    BY <1>2, FreshKey, Zenon DEF KeyStep, createKey, IndInv, TypeOK, RevisionInv
  <2>2. CASE S \ {session[n]} = {}
    <3>1. \A k \in S : k = session[n]
      BY <2>2, Zenon
    <3> QED
      BY <2>1, <3>1
  <2>3. CASE S \ {session[n]} # {}
    <3>1. S \ {session[n]} \in SUBSET ekeys
      BY <2>1, Zenon
    <3>2. PICK l \in S \ {session[n]} : \A k \in S \ {session[n]} : crev[l] <= crev[k]
      BY <2>3, <3>1, Zenon DEF LowestKeyExists
    <3> QED
      BY <2>1, <3>1, <3>2
  <2> QED
    BY <2>2, <2>3, Zenon
<1> QED
  BY <1>1, <1>2, Zenon DEF EtcdStep, ExpiryStep, NewSession, registerMember, ExitStep,
                    ResignStep, QuietStep, dropLease

\* So there is a first key in every reachable state with keys.
LEMMA LowestInvariance == Spec => []LowestKeyExists
<1>1. Init => LowestKeyExists
  BY Zenon DEF Init, LowestKeyExists
<1>2. IndInv /\ LowestKeyExists /\ [Next]_vars => LowestKeyExists'
  BY LowestStep, StepKinds, Zenon DEF IndInv
<1> QED
  BY <1>1, <1>2, Invariance, PTL DEF Spec

\* The first election key is well defined, and no other key is first.
FirstKeyOK ==
    ekeys # {} => /\ firstKey \in ekeys
                  /\ \A l \in ekeys : l # firstKey => crev[firstKey] < crev[l]

\* It follows from the inductive invariant: create revisions are unique.
LEMMA FirstKey == IndInv /\ LowestKeyExists => FirstKeyOK
<1> SUFFICES ASSUME TypeOK, RevisionInv, LowestKeyExists, ekeys # {}
             PROVE  /\ firstKey \in ekeys
                    /\ \A l \in ekeys : l # firstKey => crev[firstKey] < crev[l]
  BY Zenon DEF IndInv, FirstKeyOK
<1>1. \E l \in ekeys : \A k \in ekeys : crev[l] <= crev[k]
  BY Zenon DEF LowestKeyExists
<1>2. firstKey \in ekeys /\ IsFirstKey(firstKey)
  BY <1>1, Zenon DEF firstKey, IsFirstKey
<1>3. ASSUME NEW l \in ekeys, l # firstKey PROVE crev[firstKey] < crev[l]
  <2>1. crev[l] \in Nat /\ crev[firstKey] \in Nat /\ crev[l] > 0
    BY <1>2, Zenon DEF TypeOK, RevisionInv
  <2>2. crev[firstKey] # crev[l]
    BY <1>2, <1>3, <2>1 DEF TypeOK, RevisionInv
  <2> QED
    BY <1>2, <2>1, <2>2 DEF IsFirstKey
<1> QED
  BY <1>2, <1>3, Zenon

\* Two key sets with the same first key belong to the same term.
LEMMA SameTerm ==
    ASSUME IndInv, FirstKeyOK, FirstKeyOK', ekeys # {}, firstKey \in ekeys',
           \A k \in ekeys' : k # firstKey => crev'[firstKey] < crev'[k],
           crev'[firstKey] = crev[firstKey], owner'[firstKey] = owner[firstKey],
           \A k \in ekeys' : crev'[k] \in Nat
    PROVE  UNCHANGED <<leader, token>>
<1>1. firstKey' \in ekeys' /\ \A l \in ekeys' : l # firstKey' => crev'[firstKey'] < crev'[l]
  BY Zenon DEF FirstKeyOK
<1>2. firstKey' = firstKey
  BY <1>1
<1> QED
  BY <1>2, Zenon DEF leader, token

\* Keys only disappear: the term goes on, passes to a later key, or ends.
LEMMA KeysVanish ==
    ASSUME IndInv, IndInv', FirstKeyOK, FirstKeyOK', ekeys' \subseteq ekeys,
           UNCHANGED <<crev, rev>>, \A l \in ekeys : owner'[l] = owner[l]
    PROVE  [Terms!Next]_<<leader, token>>
<1>1. CASE ekeys = {}
  BY <1>1, Zenon DEF leader, token
<1>2. CASE ekeys # {} /\ firstKey \in ekeys'
  <2>1. \A k \in ekeys' : crev'[k] \in Nat
    BY Zenon DEF IndInv, TypeOK
  <2>2. UNCHANGED <<leader, token>>
    BY <1>2, <2>1, SameTerm, Zenon DEF FirstKeyOK
  <2> QED
    BY <2>2, Zenon
<1>3. CASE ekeys # {} /\ firstKey \notin ekeys'
  <2>1. firstKey \in ekeys /\ firstKey \in Lease /\ crev[firstKey] \in Nat /\ rev \in Nat
    BY <1>3, Zenon DEF FirstKeyOK, IndInv, TypeOK
  <2>2. leader = owner[firstKey] /\ leader \in Node /\ token = crev[firstKey]
    <3>1. firstKey \in 1..granted
      BY <2>1, Zenon DEF IndInv, LeaseInv
    <3>2. firstKey <= granted
      BY <3>1 DEF IndInv, TypeOK
    <3> QED
      BY <1>3, <2>1, <3>2, Zenon DEF leader, token, IndInv, LeaseInv
  <2>3. CASE ekeys' = {}
    <3>1. leader' = NoNode /\ token' = rev /\ crev[firstKey] <= rev
      BY <2>1, <2>3, Zenon DEF leader, token, IndInv, RevisionInv
    <3> QED
      BY <2>1, <2>2, <3>1, ElectionAssumption, Zenon DEF Terms!Next, Terms!Vacate
  <2>4. CASE ekeys' # {}
    <3>1. firstKey' \in ekeys' /\ firstKey' \in ekeys /\ firstKey' # firstKey
      BY <1>3, <2>4, Zenon DEF FirstKeyOK
    <3>2. crev[firstKey'] > crev[firstKey] /\ crev[firstKey'] \in Nat
      BY <1>3, <2>1, <3>1, Zenon DEF FirstKeyOK, IndInv, TypeOK
    <3>3. owner[firstKey'] \in Node
      BY <3>1 DEF IndInv, LeaseInv, TypeOK
    <3>4. leader' = owner[firstKey'] /\ token' = crev[firstKey']
      BY <2>4, <3>1, Zenon DEF leader, token
    <3> QED
      BY <2>2, <3>2, <3>3, <3>4, Zenon DEF Terms!Next, Terms!Elect
  <2> QED
    BY <2>3, <2>4, Zenon
<1> QED
  BY <1>1, <1>2, <1>3, Zenon

\* A new key starts a term if it is the only one, and queues up otherwise.
LEMMA KeyAppears ==
    ASSUME IndInv, IndInv', FirstKeyOK, FirstKeyOK', NEW n \in Node, KeyStep(n)
    PROVE  [Terms!Next]_<<leader, token>>
<1>1. /\ ekeys' = ekeys \cup {session[n]} /\ session[n] \in Lease
      /\ crev'[session[n]] = rev + 1 /\ rev \in Nat /\ owner' = owner
      /\ \A l \in Lease : l # session[n] => crev'[l] = crev[l]
      /\ owner[session[n]] = n /\ session[n] \notin ekeys
  BY FreshKey DEF KeyStep, createKey, IndInv, TypeOK, LeaseInv
<1>2. CASE ekeys = {}
  <2>1. firstKey' = session[n]
    BY <1>1, <1>2, Zenon DEF FirstKeyOK
  <2>2. leader' = n /\ token' = rev + 1 /\ token = rev
    BY <1>1, <1>2, <2>1, Zenon DEF leader, token
  <2> QED
    BY <1>1, <2>2 DEF Terms!Next, Terms!Elect
<1>3. CASE ekeys # {}
  <2>1. firstKey \in ekeys /\ firstKey \in Lease /\ firstKey # session[n]
    BY <1>1, <1>3, Zenon DEF FirstKeyOK, IndInv, TypeOK
  <2>2. \A k \in ekeys' : crev'[k] \in Nat
    BY Zenon DEF IndInv, TypeOK
  <2>3. ASSUME NEW k \in ekeys', k # firstKey PROVE crev'[firstKey] < crev'[k]
    <3>1. crev'[firstKey] = crev[firstKey] /\ crev[firstKey] <= rev /\ crev[firstKey] \in Nat
      BY <1>1, <2>1, Zenon DEF IndInv, RevisionInv, TypeOK
    <3>2. CASE k = session[n]
      BY <1>1, <3>1, <3>2
    <3>3. CASE k # session[n]
      BY <1>1, <1>3, <2>3, <3>1, <3>3, Zenon DEF FirstKeyOK, IndInv, TypeOK
    <3> QED
      BY <3>2, <3>3, Zenon
  <2>4. UNCHANGED <<leader, token>>
    BY <1>1, <1>3, <2>1, <2>2, <2>3, SameTerm, Zenon
  <2> QED
    BY <2>4, Zenon
<1> QED
  BY <1>2, <1>3, Zenon

\* Every step of the election is a step of LeaderTerms or leaves it alone.
LEMMA TermStep ==
    ASSUME IndInv, IndInv', LowestKeyExists, LowestKeyExists', [Next]_vars
    PROVE  [Terms!Next]_<<leader, token>>
<1>1. FirstKeyOK /\ EtcdStep
  BY FirstKey, StepKinds, Zenon DEF IndInv
<1>2. FirstKeyOK'
  BY FirstKey, PTL
<1>3. CASE \E n \in Node : KeyStep(n)
  BY <1>1, <1>2, <1>3, KeyAppears, Zenon
<1>4. CASE \E n \in Node : NewSession(n)
  <2>1. ekeys' = ekeys /\ crev' = crev /\ rev' = rev
    BY <1>4, Zenon DEF NewSession
  <2>2. \A l \in ekeys : owner'[l] = owner[l]
    <3>1. ASSUME NEW l \in ekeys PROVE l \in Lease /\ l <= granted
      BY ElectionAssumption DEF IndInv, LeaseInv, TypeOK, Lease
    <3>2. ASSUME NEW l \in Lease, l <= granted PROVE owner[l] \in Node
      BY <3>2, Zenon DEF IndInv, LeaseInv
    <3>3. TypeOK /\ LeaseInv
      BY Zenon DEF IndInv
    <3> QED
      BY <1>1, <3>1, <3>2, <3>3, OwnersStay, Zenon
  <2> QED
    BY <1>1, <1>2, <2>1, <2>2, KeysVanish, Zenon
<1>5. CASE ekeys' \subseteq ekeys /\ UNCHANGED <<crev, rev, owner>>
  BY <1>1, <1>2, <1>5, KeysVanish, Zenon
<1> QED
  BY <1>1, <1>3, <1>4, <1>5, Zenon DEF EtcdStep, ExpiryStep, registerMember, ExitStep,
     ResignStep, QuietStep, dropLease

\* The election implements LeaderTerms: at any time etcd knows one leader, and
\* each new term has a larger fencing token than all terms before it.
THEOREM ElectionImplementsTerms == Spec => ImplementsTerms
<1>1. Init => Terms!Init
  BY Zenon DEF Init, Terms!Init, leader, token
<1>2. IndInv /\ IndInv' /\ LowestKeyExists /\ LowestKeyExists' /\ [Next]_vars
        => [Terms!Next]_<<leader, token>>
  BY TermStep, Zenon
<1> QED
  BY <1>1, <1>2, LowestInvariance, Invariance, PTL DEF Spec, ImplementsTerms, Terms!Spec

-----------------------------------------------------------------------------
(* Fencing: what the revision of a campaign is worth once its key is gone *)

\* A campaign that has its revision keeps it, and one that returned has no key
\* before its own, whether its own key still exists or not.
FenceInv ==
    \A n \in Node :
      /\ cpc[n] \in {"wait", "won", "leading"}
           => leaderRev[n] = crev[session[n]] /\ leaderRev[n] > 0
      /\ cpc[n] \in {"won", "leading"} => \A k \in ekeys : crev[k] >= leaderRev[n]

\* The revision of a leader's campaign fences it off: it is the token of the
\* current term as long as the node holds it, and lower than the token of every
\* later term, however long the node takes to learn that its lease is gone.
LeadersFenced ==
    \A n \in Node : cpc[n] = "leading" =>
      /\ HoldsTerm(n) => leader = n /\ token = leaderRev[n]
      /\ ~HoldsTerm(n) => token >= leaderRev[n] /\ (leader # NoNode => token > leaderRev[n])

\* What a step may do to the campaign of a node.
CampaignKind(m) ==
    \/ cpc'[m] \notin {"wait", "won", "leading"}
    \/ CampaignTxn(m)
    \/ CampaignReturns(m)
    \/ /\ cpc[m] \in {"wait", "won", "leading"} /\ leaderRev'[m] = leaderRev[m]
       /\ session'[m] = session[m] /\ cpc'[m] \in {cpc[m], "leading"}
       /\ cpc'[m] = "leading" => cpc[m] \in {"won", "leading"}

\* Every step of the election is one of these for each node.
LEMMA CampaignKinds ==
    ASSUME TypeOK, CampaignInv, [Next]_vars, NEW m \in Node
    PROVE  CampaignKind(m)
<1> USE DEF TypeOK, CampaignKind, etcdVars, procVars, campVars
<1>1. ASSUME UNCHANGED <<session, cpc, leaderRev>> PROVE CampaignKind(m)
  BY <1>1, Zenon
<1>2. ASSUME NEW n \in Node, NewSession(n) PROVE CampaignKind(m)
  <2>1. CASE m = n
    BY <1>2, <2>1 DEF NewSession, CampaignInv
  <2>2. CASE m # n
    BY <1>2, <2>2 DEF NewSession
  <2> QED
    BY <2>1, <2>2, Zenon
<1>3. ASSUME NEW n \in Node, Exit(n) PROVE CampaignKind(m)
  BY <1>3 DEF Exit
<1>4. ASSUME NEW n \in Node, session' = session,
             \/ registerMember(n) \/ CampaignFails(n) \/ SessionExpired(n)
             \/ broadcastExpired(n) \/ LeadingCancelled(n) \/ CampaignCancelled(n)
             \/ CampaignStops(n) \/ resign(n) \/ LeaderResigned(n) \/ broadcastResigned(n)
      PROVE  CampaignKind(m)
  <2>1. CASE m = n
    <3>1. cpc'[m] \notin {"wait", "won", "leading"}
      BY <1>4, <2>1 DEF registerMember, CampaignFails, SessionExpired, broadcastExpired,
         LeadingCancelled, CampaignCancelled, CampaignStops, resign, LeaderResigned,
         broadcastResigned
    <3> QED
      BY <3>1, Zenon
  <2>2. CASE m # n
    <3>1. cpc'[m] = cpc[m] /\ leaderRev'[m] = leaderRev[m]
      BY <1>4, <2>2 DEF registerMember, CampaignFails, SessionExpired, broadcastExpired,
         LeadingCancelled, CampaignCancelled, CampaignStops, resign, LeaderResigned,
         broadcastResigned
    <3> QED
      BY <1>4, <3>1, ZenonT(30)
  <2> QED
    BY <2>1, <2>2, Zenon
<1>5. ASSUME NEW n \in Node, CampaignTxn(n) \/ CampaignReturns(n) \/ becomeLeader(n)
      PROVE  CampaignKind(m)
  <2>1. CASE m = n
    BY <1>5, <2>1 DEF becomeLeader
  <2>2. CASE m # n
    <3>1. cpc'[m] = cpc[m] /\ leaderRev'[m] = leaderRev[m] /\ session' = session
      BY <1>5, <2>2 DEF CampaignTxn, CampaignReturns, becomeLeader
    <3> QED
      BY <3>1, Zenon
  <2> QED
    BY <2>1, <2>2, Zenon
<1>6. ASSUME NEW n \in Node,
             \/ registerMember(n) \/ CampaignFails(n) \/ SessionExpired(n)
             \/ broadcastExpired(n) \/ LeadingCancelled(n) \/ CampaignCancelled(n)
             \/ CampaignStops(n) \/ resign(n) \/ LeaderResigned(n) \/ broadcastResigned(n)
      PROVE  session' = session
  BY <1>6, Zenon DEF registerMember, CampaignFails, SessionExpired, broadcastExpired,
     LeadingCancelled, CampaignCancelled, CampaignStops, resign, LeaderResigned, broadcastResigned
<1>7. ASSUME NEW n \in Node,
             \/ registerMemberFails(n) \/ Crash(n) \/ CloseSession(n)
      PROVE  Exit(n)
  BY <1>7, Zenon DEF registerMemberFails, Crash, CloseSession
<1>8. ASSUME NEW n \in Node,
             \/ observe(n) \/ SessionDone(n) \/ CampaignReplyLost(n) \/ ObserverChannelClosed(n)
             \/ Close(n) \/ Watch(n) \/ Unwatch(n) \/ \E ev \in leaderCh[n] : OnLeaderChange(n, ev)
      PROVE  UNCHANGED <<session, cpc, leaderRev>>
  BY <1>8, Zenon DEF observe, ObserveGet, observeLeader, broadcastElected, ObserveDelete,
     ObserverStops, SessionDone, CampaignReplyLost, ObserverChannelClosed, Close, Watch, Unwatch,
     OnLeaderChange
<1>9. ASSUME (\E l \in Lease : LeaseExpires(l)) \/ UNCHANGED vars
      PROVE  UNCHANGED <<session, cpc, leaderRev>>
  BY <1>9, Zenon DEF LeaseExpires, vars
<1> QED
  BY <1>1, <1>2, <1>3, <1>4, <1>5, <1>6, <1>7, <1>8, <1>9, Zenon DEF Next, campaign, Fault

\* Every step preserves FenceInv: revisions stay, and a new key comes last.
LEMMA FenceStep == IndInv /\ IndInv' /\ FenceInv /\ [Next]_vars => FenceInv'
<1> SUFFICES ASSUME IndInv, IndInv', FenceInv, [Next]_vars, NEW m \in Node
             PROVE  FenceInv!(m)'
  BY Zenon DEF FenceInv
<1> DEFINE l == session[m]
<1>1. CampaignKind(m) /\ EtcdStep
  BY CampaignKinds, StepKinds, Zenon DEF IndInv
<1>2. ASSUME cpc[m] \in {"wait", "won", "leading"}
      PROVE  /\ l \in Lease /\ crev[l] = leaderRev[m] /\ leaderRev[m] > 0
             /\ crev'[l] = leaderRev[m] /\ leaderRev[m] <= rev
  <2>1. crev[l] = leaderRev[m] /\ leaderRev[m] > 0 /\ proc[m] # "down"
    BY <1>2, Zenon DEF FenceInv, IndInv, CampaignInv
  <2>2. l \in Lease
    BY <2>1, ElectionAssumption DEF IndInv, LeaseInv, TypeOK, Lease
  <2>3. leaderRev[m] # 0 /\ TypeOK /\ RevisionInv
    BY <2>1 DEF IndInv, TypeOK
  <2>4. crev'[l] = crev[l]
    BY <1>1, <2>1, <2>2, <2>3, RevisionsStay, Zenon
  <2> QED
    BY <2>1, <2>2, <2>4, Zenon DEF IndInv, RevisionInv
<1>3. ASSUME cpc[m] \in {"won", "leading"}, NEW k \in ekeys'
      PROVE  crev'[k] >= leaderRev[m]
  <2>1. CASE k \in ekeys
    <3>1. k \in Lease /\ crev[k] \in Nat /\ crev[k] > 0
      BY <2>1, Zenon DEF IndInv, TypeOK, RevisionInv
    <3>2. crev'[k] = crev[k]
      BY <1>1, <3>1, RevisionsStay DEF IndInv
    <3> QED
      BY <1>3, <2>1, <3>2, Zenon DEF FenceInv
  <2>2. CASE k \notin ekeys
    <3>1. PICK n \in Node : KeyStep(n)
      BY <1>1, <2>2, Zenon DEF EtcdStep, ExpiryStep, NewSession, registerMember, ExitStep,
         ResignStep, QuietStep, dropLease
    <3>2. k = session[n]
      BY <2>2, <3>1, Zenon DEF KeyStep, createKey
    <3>3. crev'[k] = rev + 1 /\ rev \in Nat /\ leaderRev[m] \in Nat
      BY <3>1, <3>2, FreshKey, Zenon DEF IndInv, TypeOK
    <3>4. leaderRev[m] <= rev
      BY <1>2, <1>3, Zenon
    <3> QED
      BY <3>3, <3>4
  <2> QED
    BY <2>1, <2>2, Zenon
<1>4. CASE cpc'[m] \notin {"wait", "won", "leading"}
  BY <1>4, Zenon
<1>5. CASE CampaignTxn(m)
  <2>1. cpc'[m] = "wait" /\ leaderRev'[m] = crev'[session'[m]] /\ session'[m] \in ekeys'
    BY <1>5, Zenon DEF CampaignTxn, createKey, procVars, IndInv, TypeOK
  <2>2. crev'[session'[m]] > 0
    BY <2>1, Zenon DEF IndInv, RevisionInv
  <2> QED
    BY <2>1, <2>2, Zenon
<1>6. CASE CampaignReturns(m)
  <2>1. /\ cpc[m] = "wait" /\ leaderRev' = leaderRev /\ session' = session
        /\ ekeys' = ekeys /\ crev' = crev
        /\ \A k \in ekeys : crev[k] >= leaderRev[m]
    BY <1>6, Zenon DEF CampaignReturns, etcdVars, procVars
  <2> QED
    BY <1>2, <2>1, Zenon
<1>7. CASE /\ cpc[m] \in {"wait", "won", "leading"} /\ leaderRev'[m] = leaderRev[m]
           /\ session'[m] = session[m] /\ cpc'[m] \in {cpc[m], "leading"}
           /\ cpc'[m] = "leading" => cpc[m] \in {"won", "leading"}
  <2>1. leaderRev'[m] = crev'[session'[m]] /\ leaderRev'[m] > 0
    BY <1>2, <1>7, Zenon
  <2>2. cpc'[m] \in {"won", "leading"} => cpc[m] \in {"won", "leading"}
    BY <1>7, Zenon
  <2> QED
    BY <1>3, <1>7, <2>1, <2>2, Zenon
<1> QED
  BY <1>1, <1>4, <1>5, <1>6, <1>7, Zenon DEF CampaignKind

\* The revision of a campaign is the token of its term, and below all later ones.
LEMMA FenceFollows == IndInv /\ LowestKeyExists /\ FenceInv => LeadersFenced
<1> SUFFICES ASSUME IndInv, LowestKeyExists, FenceInv, NEW n \in Node, cpc[n] = "leading"
             PROVE  /\ HoldsTerm(n) => leader = n /\ token = leaderRev[n]
                    /\ ~HoldsTerm(n) => /\ token >= leaderRev[n]
                                        /\ leader # NoNode => token > leaderRev[n]
  BY Zenon DEF LeadersFenced
<1>1. /\ session[n] \in Lease /\ leaderRev[n] \in Nat /\ rev \in Nat
      /\ owner[session[n]] = n /\ leaderRev[n] <= rev /\ leaderRev[n] > 0
      /\ crev[session[n]] = leaderRev[n]
  <2>1. proc[n] # "down"
    BY Zenon DEF IndInv, CampaignInv
  <2>2. session[n] \in Lease
    BY <2>1, ElectionAssumption DEF IndInv, LeaseInv, TypeOK, Lease
  <2>3. crev[session[n]] = leaderRev[n] /\ leaderRev[n] > 0
    BY Zenon DEF FenceInv
  <2> QED
    BY <2>1, <2>2, <2>3, ZenonT(30) DEF IndInv, LeaseInv, RevisionInv, TypeOK
<1>2. ASSUME ekeys # {}
      PROVE  /\ firstKey \in ekeys /\ firstKey \in Lease /\ crev[firstKey] \in Nat
             /\ crev[firstKey] >= leaderRev[n]
             /\ \A k \in ekeys : k # firstKey => crev[firstKey] < crev[k]
             /\ leader = owner[firstKey] /\ token = crev[firstKey]
  <2>1. firstKey \in ekeys /\ \A k \in ekeys : k # firstKey => crev[firstKey] < crev[k]
    BY <1>2, FirstKey, Zenon DEF FirstKeyOK
  <2> QED
    BY <1>2, <2>1, Zenon DEF IndInv, TypeOK, FenceInv, leader, token
<1>3. ASSUME HoldsTerm(n) PROVE leader = n /\ token = leaderRev[n]
  <2>1. session[n] \in ekeys
    BY <1>3, Zenon DEF HoldsTerm
  <2>2. firstKey # session[n] => crev[firstKey] < leaderRev[n]
    BY <1>1, <1>2, <2>1, Zenon
  <2>3. crev[firstKey] \in Nat /\ crev[firstKey] >= leaderRev[n]
    BY <1>2, <2>1, Zenon
  <2>4. ~(crev[firstKey] < leaderRev[n])
    BY <1>1, <2>3
  <2> QED
    BY <1>1, <1>2, <2>1, <2>2, <2>4, Zenon
<1>4. ASSUME ~HoldsTerm(n)
      PROVE  token >= leaderRev[n] /\ (leader # NoNode => token > leaderRev[n])
  <2>1. CASE ekeys = {}
    <3>1. token = rev /\ leader = NoNode
      BY <2>1, Zenon DEF token, leader
    <3> QED
      BY <1>1, <3>1
  <2>2. CASE ekeys # {}
    <3>1. firstKey # session[n]
      BY <1>2, <1>4, <2>2, Zenon DEF HoldsTerm
    <3>2. leaderRev[n] # 0
      BY <1>1
    <3>3. crev[firstKey] # leaderRev[n]
      BY <1>1, <1>2, <2>2, <3>1, <3>2, Zenon DEF IndInv, RevisionInv
    <3> QED
      BY <1>1, <1>2, <2>2, <3>3
  <2> QED
    BY <2>1, <2>2, Zenon
<1> QED
  BY <1>3, <1>4, Zenon

\* A node that leads has the token of the current term or a lower one, and the
\* lower one once its lease is gone and another node was elected.
THEOREM StaleLeadersFenced == Spec => []LeadersFenced
<1>1. Init => FenceInv
  BY Zenon DEF Init, FenceInv
<1>2. Spec => []FenceInv
  BY <1>1, FenceStep, Invariance, PTL DEF Spec
<1> QED
  BY <1>2, FenceFollows, LowestInvariance, Invariance, PTL

-----------------------------------------------------------------------------
(* Listeners: epochs increase, with a second inductive invariant, EpochInv *)

\* Every epoch a listener can hold is a revision etcd has already given out.
LEMMA EpochsAreOld ==
    ASSUME IndInv, EpochInv, NEW n \in Node
    PROVE  UpTo(n, rev)
<1>1. ASSUME NEW ev \in Elected(n) PROVE ev.epoch <= rev
  BY SMTT(20) DEF Elected, IndInv, ObserverInv, RevisionInv, TypeOK
<1> QED
  BY <1>1, Zenon DEF UpTo, EpochInv, EpochAt

\* A new key comes after every epoch that was published or observed.
LEMMA EpochKeyStep ==
    ASSUME IndInv, EpochInv, NEW n \in Node, KeyStep(n),
           UNCHANGED <<opc, obs, leaderCh, heardEpoch>>
    PROVE  EpochInv'
<1> SUFFICES ASSUME NEW m \in Node, EpochAt(m) PROVE EpochAt(m)'
  BY Zenon DEF EpochInv
<1>1. /\ ekeys' = ekeys \cup {session[n]} /\ rev' = rev + 1 /\ rev \in Nat /\ proc' = proc
      /\ crev'[session[n]] = rev + 1
      /\ \A k \in ekeys : crev'[k] = crev[k]
  BY FreshKey DEF KeyStep, createKey, IndInv, TypeOK
<1>2. UpTo(m, rev)
  BY EpochsAreOld, Zenon
<1>3. heardEpoch[m] \in Nat /\ \A ev \in Elected(m) : ev.epoch \in Nat
  BY DEF IndInv, TypeOK, Elected, LeaderEvent
<1>4. Elected(m)' = Elected(m)
  BY Zenon DEF Elected
<1>5. Below(m, rev + 1)
  BY <1>1, <1>2, <1>3 DEF UpTo, Below
<1>6. ASSUME opc[m] = "get", NEW k \in ekeys' PROVE Below(m, crev'[k])
  BY <1>1, <1>5, <1>6, Zenon DEF EpochAt
<1>7. ASSUME opc[m] \in {"received", "publish", "watch"}, NEW k \in ekeys'
      PROVE  crev'[k] >= obs[m].epoch
  <2>1. obs[m].lease \in Lease /\ obs[m].epoch = crev[obs[m].lease]
    BY <1>7 DEF IndInv, ObserverInv, TypeOK
  <2>2. obs[m].epoch <= rev /\ obs[m].epoch \in Nat
    BY <2>1, Zenon DEF IndInv, RevisionInv, TypeOK
  <2> QED
    BY <1>1, <1>7, <2>2 DEF EpochAt
<1> QED
  BY <1>1, <1>3, <1>4, <1>6, <1>7 DEF EpochAt, Below, UpTo

\* What EpochInv says of node m is kept by a step that leaves its observer and
\* its listener alone and creates no election key.
LEMMA EpochKept ==
    ASSUME NEW m \in Node, EpochAt(m),
           opc'[m] = opc[m], obs'[m] = obs[m],
           leaderCh'[m] = leaderCh[m], heardEpoch'[m] = heardEpoch[m],
           proc'[m] \in {"down", "starting"} => proc[m] \in {"down", "starting"},
           ekeys' \subseteq ekeys, crev' = crev, rev' = rev
    PROVE  EpochAt(m)'
<1>1. Elected(m)' = Elected(m)
  BY Zenon DEF Elected
<1>2. \A e : Below(m, e)' = Below(m, e) /\ UpTo(m, e)' = UpTo(m, e)
  BY <1>1, Zenon DEF Below, UpTo
<1> QED
  BY <1>1, <1>2, Zenon DEF EpochAt

\* It also holds when the channel is empty, or holds no elected leader, and
\* what was heard does not exceed what may come.
LEMMA EpochNoEvent ==
    ASSUME NEW m \in Node, EpochAt(m),
           opc'[m] = opc[m], obs'[m] = obs[m], Elected(m)' = {},
           heardEpoch'[m] = heardEpoch[m], proc' = proc,
           proc[m] \in {"down", "starting"} => leaderCh'[m] = {},
           UNCHANGED <<ekeys, crev, rev>>
    PROVE  EpochAt(m)'
<1>1. \A e : Below(m, e) => Below(m, e)'
  BY Zenon DEF Below
<1>2. \A e : UpTo(m, e) => UpTo(m, e)'
  BY Zenon DEF UpTo
<1> QED
  BY <1>1, <1>2, Zenon DEF EpochAt

\* Every step preserves EpochInv.
LEMMA EpochStep == IndInv /\ EpochInv /\ [Next]_vars => EpochInv'
<1> SUFFICES ASSUME IndInv, EpochInv, [Next]_vars, NEW m \in Node, EpochAt(m) PROVE EpochAt(m)'
  BY Zenon DEF EpochInv
<1>0. /\ opc \in [Node -> ObserverPC]
      /\ obs \in [Node -> [lease : Lease \cup {NoLease}, epoch : Nat]]
      /\ leaderCh \in [Node -> SUBSET LeaderEvent] /\ heardEpoch \in [Node -> Nat]
      /\ proc \in [Node -> Proc]
      /\ ekeys \subseteq Lease /\ crev \in [Lease -> Nat] /\ rev \in Nat
  BY Zenon DEF IndInv, TypeOK
<1>1. ASSUME UNCHANGED <<opc, obs, leaderCh, heardEpoch, proc, crev, rev>>, ekeys' \subseteq ekeys
      PROVE  EpochAt(m)'
  BY <1>1, EpochKept, Zenon
<1>2. ASSUME NEW n \in Node,
             \/ SessionDone(n) \/ CampaignReturns(n) \/ CampaignFails(n) \/ becomeLeader(n)
             \/ SessionExpired(n) \/ LeadingCancelled(n) \/ CampaignStops(n)
             \/ LeaderResigned(n) \/ Watch(n)
      PROVE  EpochAt(m)'
  <2>1. UNCHANGED <<opc, obs, leaderCh, heardEpoch, proc, crev, rev, ekeys>>
    BY <1>2, Zenon DEF SessionDone, CampaignReturns, CampaignFails, becomeLeader,
       SessionExpired, LeadingCancelled, CampaignStops, LeaderResigned, Watch,
       etcdVars, procVars, obsVars, sinkVars
  <2> QED
    BY <1>1, <2>1, Zenon
<1>3. ASSUME NEW n \in Node, CampaignCancelled(n) \/ resign(n) PROVE EpochAt(m)'
  <2>1. UNCHANGED <<opc, obs, leaderCh, heardEpoch, proc, crev, rev>>
    BY <1>3, Zenon DEF CampaignCancelled, resign, procVars, obsVars, sinkVars
  <2>2. ekeys' \subseteq ekeys
    BY <1>3, Zenon DEF CampaignCancelled, resign, deleteKey
  <2> QED
    BY <1>1, <2>1, <2>2, Zenon
<1>4. ASSUME NEW l \in Lease, LeaseExpires(l) PROVE EpochAt(m)'
  <2>1. UNCHANGED <<opc, obs, leaderCh, heardEpoch, proc, crev, rev>> /\ ekeys' \subseteq ekeys
    BY <1>4, Zenon DEF LeaseExpires, dropLease, procVars, obsVars, sinkVars
  <2> QED
    BY <1>1, <2>1, Zenon
<1>5. ASSUME NEW n \in Node, NewSession(n) \/ Close(n) PROVE EpochAt(m)'
  <2>1. UNCHANGED <<opc, obs, leaderCh, heardEpoch, crev, rev, ekeys>>
    BY <1>5, Zenon DEF NewSession, Close, etcdVars, obsVars, sinkVars
  <2>2. proc'[m] \in {"down", "starting"} => proc[m] \in {"down", "starting"}
    BY <1>0, <1>5, Zenon DEF NewSession, Close
  <2> QED
    BY <2>1, <2>2, EpochKept, Zenon
<1>6. ASSUME NEW n \in Node, registerMemberFails(n) \/ Crash(n) \/ CloseSession(n)
      PROVE  EpochAt(m)'
  <2>1. ekeys' \subseteq ekeys /\ UNCHANGED <<crev, rev>> /\ Exit(n)
    BY <1>6, Zenon DEF registerMemberFails, Crash, CloseSession, dropLease, etcdVars
  <2>2. CASE m = n
    <3>1. opc'[m] = "idle" /\ heardEpoch'[m] = 0 /\ leaderCh'[m] = {}
      BY <1>0, <2>1, <2>2, Zenon DEF Exit
    <3>2. Elected(m)' = {} /\ 0 <= rev'
      BY <1>0, <2>1, <3>1 DEF Elected
    <3> QED
      BY <3>1, <3>2, Zenon DEF EpochAt
  <2>3. CASE m # n
    <3>1. /\ opc'[m] = opc[m] /\ obs'[m] = obs[m] /\ leaderCh'[m] = leaderCh[m]
          /\ heardEpoch'[m] = heardEpoch[m] /\ proc'[m] = proc[m]
      BY <1>0, <2>1, <2>3, Zenon DEF Exit
    <3> QED
      BY <2>1, <3>1, EpochKept, Zenon
  <2> QED
    BY <2>2, <2>3, Zenon
<1>7. ASSUME NEW n \in Node, n # m,
             \/ registerMember(n) \/ broadcastExpired(n) \/ broadcastResigned(n)
             \/ ObserveGet(n) \/ observeLeader(n) \/ broadcastElected(n) \/ ObserveDelete(n)
             \/ ObserverStops(n) \/ ObserverChannelClosed(n) \/ Unwatch(n)
             \/ \E ev \in leaderCh[n] : OnLeaderChange(n, ev)
      PROVE  EpochAt(m)'
  <2>1. UNCHANGED <<ekeys, crev, rev>>
    BY <1>7, Zenon DEF registerMember, broadcastExpired, broadcastResigned, ObserveGet,
       observeLeader, broadcastElected, ObserveDelete, ObserverStops, ObserverChannelClosed,
       Unwatch, OnLeaderChange, etcdVars
  <2>2. opc'[m] = opc[m] /\ obs'[m] = obs[m]
    BY <1>0, <1>7, Zenon DEF registerMember, broadcastExpired, broadcastResigned, ObserveGet,
       observeLeader, broadcastElected, ObserveDelete, ObserverStops, ObserverChannelClosed,
       Unwatch, OnLeaderChange, obsVars
  <2>3. leaderCh'[m] = leaderCh[m] /\ heardEpoch'[m] = heardEpoch[m]
    BY <1>0, <1>7, Zenon DEF registerMember, broadcastExpired, broadcastResigned, ObserveGet,
       observeLeader, broadcastElected, ObserveDelete, ObserverStops, ObserverChannelClosed,
       Unwatch, OnLeaderChange, broadcastLeaderEvent, sinkVars
  <2>4. proc'[m] = proc[m]
    BY <1>0, <1>7, Zenon DEF registerMember, broadcastExpired, broadcastResigned, ObserveGet,
       observeLeader, broadcastElected, ObserveDelete, ObserverStops, ObserverChannelClosed,
       Unwatch, OnLeaderChange, procVars
  <2> QED
    BY <2>1, <2>2, <2>3, <2>4, EpochKept, Zenon
<1>8. CASE registerMember(m)
  <2>1. /\ proc[m] = "starting" /\ proc'[m] = "running" /\ opc'[m] = "get"
        /\ UNCHANGED <<ekeys, crev, rev, leaderCh, heardEpoch>>
    BY <1>0, <1>8, Zenon DEF registerMember, sinkVars
  <2>2. heardEpoch[m] = 0 /\ leaderCh[m] = {} /\ \A k \in ekeys : crev[k] > 0
    BY <2>1, Zenon DEF EpochAt, IndInv, RevisionInv
  <2>3. Elected(m)' = {}
    BY <2>1, <2>2, Zenon DEF Elected
  <2> QED
    BY <1>0, <2>1, <2>2, <2>3, Zenon DEF EpochAt, Below
<1>9. CASE broadcastExpired(m) \/ broadcastResigned(m)
  <2>1. UNCHANGED <<opc, obs, heardEpoch, proc, ekeys, crev, rev>>
    BY <1>9, Zenon DEF broadcastExpired, broadcastResigned, etcdVars, procVars, obsVars
  <2>2. CASE ~watching[m]
    <3>1. leaderCh'[m] = leaderCh[m]
      BY <1>0, <1>9, <2>2, Zenon DEF broadcastExpired, broadcastResigned, broadcastLeaderEvent
    <3> QED
      BY <2>1, <3>1, EpochKept, Zenon
  <2>3. CASE watching[m]
    <3>1. \A ev \in leaderCh'[m] : ev.type \in {"LeaderExpired", "LeaderResigned"}
      BY <1>0, <1>9, <2>3 DEF broadcastExpired, broadcastResigned, broadcastLeaderEvent
    <3>2. Elected(m)' = {}
      BY <3>1, Zenon DEF Elected
    <3>3. proc[m] \notin {"down", "starting"}
      BY <1>9, Zenon DEF broadcastExpired, broadcastResigned, IndInv, CampaignInv
    <3> QED
      BY <2>1, <3>2, <3>3, EpochNoEvent, Zenon
  <2> QED
    BY <2>2, <2>3, Zenon
<1>10. CASE Unwatch(m)
  <2>1. UNCHANGED <<opc, obs, heardEpoch, proc, ekeys, crev, rev>>
    BY <1>10, Zenon DEF Unwatch, etcdVars, procVars, obsVars
  <2>2. leaderCh'[m] = {}
    BY <1>0, <1>10, Zenon DEF Unwatch
  <2>3. Elected(m)' = {}
    BY <2>2, Zenon DEF Elected
  <2> QED
    BY <2>1, <2>2, <2>3, EpochNoEvent, Zenon
<1>11. CASE ObserveGet(m) \/ observeLeader(m) \/ ObserverStops(m) \/ ObserverChannelClosed(m)
  <2>1. UNCHANGED <<leaderCh, heardEpoch, proc, ekeys, crev, rev>>
    BY <1>11, Zenon DEF ObserveGet, observeLeader, ObserverStops, ObserverChannelClosed,
       etcdVars, procVars, sinkVars
  <2>2. Elected(m)' = Elected(m) /\ \A e : Below(m, e)' = Below(m, e)
    BY <2>1, Zenon DEF Elected, Below
  <2>3. CASE ObserverStops(m) \/ ObserverChannelClosed(m)
    <3>1. opc'[m] = "done"
      BY <1>0, <2>3, Zenon DEF ObserverStops, ObserverChannelClosed
    <3> QED
      BY <2>1, <2>2, <3>1, Zenon DEF EpochAt
  <2>4. CASE ObserveGet(m)
    <3>1. PICK l \in ekeys : /\ IsFirstKey(l) /\ opc[m] = "get" /\ opc'[m] = "received"
                             /\ obs'[m] = [lease |-> l, epoch |-> crev[l]]
      BY <1>0, <2>4, Zenon DEF ObserveGet
    <3>2. obs'[m].epoch = crev[l] /\ \A k \in ekeys : crev[l] <= crev[k]
      BY <3>1 DEF IsFirstKey
    <3>3. Below(m, crev[l]) /\ \A k \in ekeys : crev[k] >= crev[l]
      BY <1>0, <3>1, <3>2, Zenon DEF EpochAt
    <3>4. Below(m, obs[m].epoch)' /\ \A k \in ekeys : crev[k] >= obs'[m].epoch
      BY <2>1, <2>2, <3>2, <3>3, Zenon DEF Below
    <3> QED
      BY <2>1, <2>2, <3>1, <3>4, Zenon DEF EpochAt
  <2>5. CASE observeLeader(m)
    <3>1. opc[m] = "received" /\ opc'[m] = "publish" /\ obs'[m] = obs[m]
      BY <1>0, <2>5, Zenon DEF observeLeader
    <3> QED
      BY <2>1, <2>2, <3>1, Zenon DEF EpochAt
  <2> QED
    BY <1>11, <2>3, <2>4, <2>5, Zenon
<1>12. CASE broadcastElected(m)
  <2>1. UNCHANGED <<obs, heardEpoch, proc, ekeys, crev, rev>>
    BY <1>12, Zenon DEF broadcastElected, etcdVars, procVars
  <2>2. /\ opc[m] = "publish" /\ opc'[m] = "watch"
        /\ \A ev \in leaderCh'[m] : ev.epoch = obs[m].epoch \/ ev \in leaderCh[m]
    <3>1. opc[m] = "publish" /\ opc'[m] = "watch"
      BY <1>0, <1>12, Zenon DEF broadcastElected
    <3>2. CASE watching[m]
      BY <1>0, <1>12, <3>1, <3>2 DEF broadcastElected, broadcastLeaderEvent
    <3>3. CASE ~watching[m]
      BY <1>0, <1>12, <3>1, <3>3, Zenon DEF broadcastElected, broadcastLeaderEvent
    <3> QED
      BY <3>2, <3>3, Zenon
  <2>3. proc[m] \notin {"down", "starting"}
    BY <2>2, Zenon DEF IndInv, CampaignInv
  <2>4. heardEpoch[m] < obs[m].epoch /\ \A k \in ekeys : crev[k] >= obs[m].epoch
    BY <2>2, Zenon DEF EpochAt, Below
  <2>5. \A ev \in Elected(m)' : ev.epoch = obs[m].epoch \/ ev \in Elected(m)
    BY <2>2, Zenon DEF Elected
  <2>6. UpTo(m, obs[m].epoch)' /\ \A ev \in Elected(m)' : heardEpoch[m] < ev.epoch
    <3>1. \A ev \in Elected(m) : ev.epoch \in Nat /\ ev.epoch < obs[m].epoch /\ heardEpoch[m] < ev.epoch
      BY <1>0, <2>2 DEF EpochAt, Below, Elected, LeaderEvent
    <3> QED
      BY <1>0, <2>1, <2>4, <2>5, <3>1 DEF UpTo
  <2> QED
    BY <2>1, <2>2, <2>3, <2>4, <2>6, Zenon DEF EpochAt
<1>13. CASE ObserveDelete(m)
  <2>1. UNCHANGED <<leaderCh, heardEpoch, proc, ekeys, crev, rev>>
    BY <1>13, Zenon DEF ObserveDelete, etcdVars, procVars, sinkVars
  <2>2. /\ opc[m] = "watch" /\ opc'[m] = "get"
        /\ ~(obs[m].lease \in ekeys /\ crev[obs[m].lease] = obs[m].epoch)
    BY <1>0, <1>13, Zenon DEF ObserveDelete
  <2>3. Elected(m)' = Elected(m)
    BY <2>1, Zenon DEF Elected
  <2>4. ASSUME NEW k \in ekeys PROVE Below(m, crev[k])
    <3>1. obs[m].lease \in Lease /\ obs[m].epoch = crev[obs[m].lease] /\ obs[m].epoch > 0
      BY <1>0, <2>2 DEF IndInv, ObserverInv
    <3>2. k # obs[m].lease /\ crev[k] >= obs[m].epoch /\ UpTo(m, obs[m].epoch)
      BY <2>2, <3>1, Zenon DEF EpochAt
    <3>3. obs[m].epoch \in Nat /\ crev[k] \in Nat /\ crev[k] # obs[m].epoch
      BY <1>0, <3>1, <3>2 DEF IndInv, RevisionInv
    <3>4. crev[k] > obs[m].epoch
      BY ONLY <3>2, <3>3
    <3>5. heardEpoch[m] \in Nat /\ \A ev \in Elected(m) : ev.epoch \in Nat
      BY <1>0 DEF Elected, LeaderEvent
    <3> QED
      BY <3>2, <3>3, <3>4, <3>5, SMTT(20) DEF UpTo, Below
  <2>5. \A k \in ekeys : Below(m, crev[k])'
    BY <2>1, <2>3, <2>4, Zenon DEF Below
  <2> QED
    BY <2>1, <2>2, <2>3, <2>5, Zenon DEF EpochAt
<1>14. ASSUME NEW ev \in leaderCh[m], OnLeaderChange(m, ev) PROVE EpochAt(m)'
  <2>1. UNCHANGED <<opc, obs, proc, ekeys, crev, rev>>
    BY <1>14, Zenon DEF OnLeaderChange, etcdVars, procVars, obsVars
  <2>2. leaderCh'[m] = {} /\ leaderCh[m] # {}
    BY <1>0, <1>14, Zenon DEF OnLeaderChange
  <2>3. Elected(m)' = {} /\ proc[m] \notin {"down", "starting"}
    BY <2>2, Zenon DEF Elected, EpochAt
  <2>4. CASE ev.type # "LeaderElected"
    <3>1. heardEpoch'[m] = heardEpoch[m]
      BY <1>0, <1>14, <2>4, Zenon DEF OnLeaderChange
    <3> QED
      BY <2>1, <2>2, <2>3, <3>1, EpochNoEvent, Zenon
  <2>5. CASE ev.type = "LeaderElected"
    <3>1. heardEpoch'[m] = ev.epoch /\ ev \in Elected(m)
      BY <1>0, <1>14, <2>5, Zenon DEF OnLeaderChange, Elected
    <3>2. ev.epoch <= rev
      BY <3>1, EpochsAreOld, Zenon DEF UpTo
    <3>3. \A e : Below(m, e) => Below(m, e)'
      BY <2>3, <3>1, Zenon DEF Below
    <3>4. \A e : UpTo(m, e) => UpTo(m, e)'
      BY <2>3, <3>1, Zenon DEF UpTo
    <3> QED
      BY <2>1, <2>3, <3>1, <3>2, <3>3, <3>4, Zenon DEF EpochAt
  <2> QED
    BY <2>4, <2>5, Zenon
<1>15. ASSUME NEW n \in Node, CampaignTxn(n) \/ CampaignReplyLost(n) PROVE EpochAt(m)'
  <2>1. UNCHANGED <<opc, obs, leaderCh, heardEpoch, proc>>
    BY <1>15, Zenon DEF CampaignTxn, CampaignReplyLost, procVars, obsVars, sinkVars
  <2>2. KeyStep(n) \/ UNCHANGED <<ekeys, crev, rev>>
    BY <1>15, Zenon DEF CampaignTxn, CampaignReplyLost, KeyStep, procVars
  <2> QED
    BY <1>1, <2>1, <2>2, EpochKeyStep, Zenon DEF EpochInv
<1>16. CASE UNCHANGED vars
  BY <1>1, <1>16, Zenon DEF vars, etcdVars, procVars, obsVars, sinkVars
<1> QED
  BY <1>2, <1>3, <1>4, <1>5, <1>6, <1>7, <1>8, <1>9, <1>10, <1>11, <1>12, <1>13,
     <1>14, <1>15, <1>16, ZenonT(30)
  DEF Next, campaign, observe, Fault

\* Both invariants hold in every reachable state.
THEOREM EpochInvariance == Spec => []EpochInv
<1>1. Init => EpochInv
  <2> SUFFICES ASSUME Init, NEW n \in Node PROVE EpochAt(n)
    BY Zenon DEF EpochInv
  <2>1. leaderCh[n] = {} /\ heardEpoch[n] = 0 /\ opc[n] = "idle" /\ rev = 0
    BY Zenon DEF Init
  <2>2. Elected(n) = {}
    BY <2>1, Zenon DEF Elected
  <2>3. heardEpoch[n] <= rev
    BY <2>1
  <2> QED
    BY <2>1, <2>2, <2>3, Zenon DEF EpochAt
<1> QED
  BY <1>1, EpochStep, Invariance, PTL DEF Spec

\* Each LeaderElected event a listener is given has a larger epoch than the one
\* before it, until its process ends.
THEOREM ListenersSeeEpochsIncrease == Spec => EpochsIncrease
<1>1. ASSUME IndInv, EpochInv, NEW n \in Node, NEW ev \in leaderCh[n], ev.type = "LeaderElected"
      PROVE  ev.epoch > heardEpoch[n]
  <2>1. ev \in LeaderEvent /\ ev \in Elected(n) /\ heardEpoch[n] \in Nat
    BY <1>1, Zenon DEF Elected, IndInv, TypeOK
  <2>2. heardEpoch[n] < ev.epoch /\ ev.epoch \in Nat
    BY <1>1, <2>1, Zenon DEF EpochInv, EpochAt, LeaderEvent
  <2> QED
    BY <2>1, <2>2
<1>2. IndInv /\ EpochInv
        => [\A n \in Node : \A ev \in leaderCh[n] :
              OnLeaderChange(n, ev) /\ ev.type = "LeaderElected" => ev.epoch > heardEpoch[n]]_vars
  BY <1>1, Zenon
<1> QED
  BY <1>2, Invariance, EpochInvariance, PTL DEF EpochsIncrease

-----------------------------------------------------------------------------
(* The services of a node: Leadership *)

\* The values the mapping gives to observed and to leaderCh.
Observed(n) == IF opc[n] # "publish" THEN "none"
               ELSE IF owner[obs[n].lease] = n THEN "self" ELSE "other"

Shown(n) == {IF ev.type = "LeaderElected" /\ ev.member = n THEN "self" ELSE "other" :
               ev \in leaderCh[n]}

Ended(n) == cpc[n] \in {"expired", "resigned"}

ViewStep(n) == View(n)!LeadershipNext \/ UNCHANGED View(n)!leadershipVars

\* What the mapping reads of node n.
Local(n) == <<role[n], cpc[n], opc[n], obs[n], watching[n], leaderCh[n]>>

\* The owner of a lease that was observed does not change.
LEMMA ObservedStable ==
    ASSUME IndInv, NEW n \in Node, opc'[n] = opc[n], obs'[n] = obs[n],
           owner' = owner \/ \E m \in Node : NewSession(m)
    PROVE  Observed(n)' = Observed(n)
<1>1. CASE owner' = owner
  BY <1>1, Zenon DEF Observed
<1>2. ASSUME NEW m \in Node, NewSession(m), opc[n] = "publish"
      PROVE  owner'[obs[n].lease] = owner[obs[n].lease]
  <2>1. obs[n].lease <= granted /\ obs[n].lease \in Lease /\ granted \in Nat
    BY <1>2 DEF IndInv, ObserverInv, TypeOK
  <2>2. obs[n].lease # granted + 1
    BY <2>1 DEF Lease
  <2> QED
    BY <1>2, <2>1, <2>2, ZenonT(30) DEF NewSession, IndInv, TypeOK
<1> QED
  BY <1>1, <1>2, Zenon DEF Observed

\* A step that changes nothing the mapping reads, but perhaps where the campaign
\* is outside the end of a term, is a stutter.
LEMMA SameView ==
    ASSUME IndInv, NEW n \in Node,
           role'[n] = role[n], opc'[n] = opc[n], obs'[n] = obs[n],
           watching'[n] = watching[n], leaderCh'[n] = leaderCh[n],
           Ended(n)' = Ended(n),
           owner' = owner \/ \E m \in Node : NewSession(m)
    PROVE  ViewStep(n)
<1>1. Observed(n)' = Observed(n)
  BY ObservedStable, Zenon
<1>2. Shown(n)' = Shown(n)
  BY Zenon DEF Shown
<1> QED
  BY <1>1, <1>2, Zenon DEF ViewStep, View!leadershipVars, Observed, Shown, Ended

\* The end of the process.
LEMMA ExitView ==
    ASSUME IndInv, NEW n \in Node, Exit(n) PROVE ViewStep(n)
<1>1. role'[n] = "Candidate" /\ cpc'[n] = "idle" /\ opc'[n] = "idle"
      /\ watching'[n] = FALSE /\ leaderCh'[n] = {}
  BY Zenon DEF Exit, IndInv, TypeOK
<1>2. Observed(n)' = "none" /\ Ended(n)' = FALSE /\ Shown(n)' = {}
  BY <1>1 DEF Observed, Ended, Shown
<1>3. (role'[n] = "Leader") = FALSE
  BY <1>1, Zenon
<1> QED
  BY <1>1, <1>2, <1>3, Zenon
  DEF ViewStep, View!LeadershipNext, View!Reset, Observed, Ended, Shown

\* A step of one node leaves the others alone.
LEMMA OtherViews ==
    ASSUME IndInv, NEW n \in Node, UNCHANGED Local(n),
           owner' = owner \/ \E m \in Node : NewSession(m)
    PROVE  ViewStep(n)
  BY SameView, Zenon DEF Local, Ended

\* A broadcast puts the event into the channel of a registered listener.
LEMMA BroadcastView ==
    ASSUME IndInv, NEW n \in Node, NEW type \in EventType, NEW name, NEW epoch,
           broadcastLeaderEvent(n, type, name, epoch)
    PROVE  Shown(n)' = IF watching[n]
                       THEN {IF type = "LeaderElected" /\ name = n THEN "self" ELSE "other"}
                       ELSE Shown(n)
<1> DEFINE e == [type |-> type, member |-> name, epoch |-> epoch]
<1>1. leaderCh'[n] = IF watching[n] THEN {e} ELSE leaderCh[n]
  BY Zenon DEF broadcastLeaderEvent, IndInv, TypeOK
<1>2. e.type = type /\ e.member = name
  BY Zenon
<1> HIDE DEF e
<1> QED
  BY <1>1, <1>2, Zenon DEF Shown

\* Every step of the election is a step of Leadership, or a stutter, for node n.
LEMMA ElectionViewStep ==
    ASSUME IndInv, [Next]_vars, NEW n \in Node PROVE ViewStep(n)
<1>0. /\ role \in [Node -> Role] /\ cpc \in [Node -> CampaignPC]
      /\ opc \in [Node -> ObserverPC]
      /\ obs \in [Node -> [lease : Lease \cup {NoLease}, epoch : Nat]]
      /\ watching \in [Node -> BOOLEAN] /\ leaderCh \in [Node -> SUBSET LeaderEvent]
  BY Zenon DEF IndInv, TypeOK
<1>1. ASSUME Ended(n)' = Ended(n), UNCHANGED <<role, opc, obs, watching, leaderCh>>,
             owner' = owner \/ \E m \in Node : NewSession(m)
      PROVE  ViewStep(n)
  BY <1>1, SameView, Zenon
<1>2. ASSUME UNCHANGED <<cpc, role, opc, obs, watching, leaderCh>>,
             owner' = owner \/ \E m \in Node : NewSession(m)
      PROVE  ViewStep(n)
  BY <1>1, <1>2, Zenon DEF Ended
<1>3. ASSUME NEW l \in Lease, LeaseExpires(l) PROVE ViewStep(n)
  <2>1. UNCHANGED <<owner, cpc, role, opc, obs, watching, leaderCh>>
    BY <1>3, Zenon DEF LeaseExpires, viewVars, campVars, obsVars, sinkVars
  <2> QED
    BY <1>2, <2>1, Zenon
<1>4. ASSUME NEW m \in Node, NewSession(m) PROVE ViewStep(n)
  <2>1. UNCHANGED <<cpc, role, opc, obs, watching, leaderCh>>
    BY <1>4, Zenon DEF NewSession, viewVars, campVars, obsVars, sinkVars
  <2> QED
    BY <1>2, <1>4, <2>1, Zenon
<1>5. ASSUME NEW m \in Node, Close(m) \/ SessionDone(m) PROVE ViewStep(n)
  <2>1. UNCHANGED <<owner, cpc, role, opc, obs, watching, leaderCh>>
    BY <1>5, Zenon DEF Close, SessionDone, etcdVars, viewVars, campVars, obsVars, sinkVars
  <2> QED
    BY <1>2, <2>1, Zenon
<1>6. CASE UNCHANGED vars
  <2>1. UNCHANGED <<owner, cpc, role, opc, obs, watching, leaderCh>>
    BY <1>6, Zenon DEF vars, etcdVars, viewVars, campVars, obsVars, sinkVars
  <2> QED
    BY <1>2, <2>1, Zenon
<1>7. ASSUME NEW m \in Node,
             \/ CampaignTxn(m) \/ CampaignReplyLost(m) \/ CampaignReturns(m)
             \/ CampaignFails(m) \/ LeadingCancelled(m) \/ CampaignCancelled(m)
             \/ CampaignStops(m) \/ resign(m)
      PROVE  ViewStep(n)
  <2>1. UNCHANGED <<owner, role, opc, obs, watching, leaderCh>>
    BY <1>7, Zenon DEF CampaignTxn, CampaignReplyLost, CampaignReturns, CampaignFails,
       LeadingCancelled, CampaignCancelled, CampaignStops, resign,
       etcdVars, viewVars, obsVars, sinkVars
  <2>2. CASE m = n
    <3>1. ASSUME CampaignTxn(n) \/ CampaignReplyLost(n) \/ CampaignReturns(n) \/ CampaignFails(n)
          PROVE  Ended(n)' = Ended(n)
      BY <1>0, <3>1
      DEF CampaignTxn, CampaignReplyLost, CampaignReturns, CampaignFails, campVars, Ended
    <3>2. ASSUME LeadingCancelled(n) \/ CampaignCancelled(n) \/ CampaignStops(n) \/ resign(n)
          PROVE  Ended(n)' = Ended(n)
      BY <1>0, <3>2
      DEF LeadingCancelled, CampaignCancelled, CampaignStops, resign, Ended
    <3>3. Ended(n)' = Ended(n)
      BY <1>7, <2>2, <3>1, <3>2, Zenon
    <3> QED
      BY <1>1, <2>1, <3>3, ZenonT(30)
  <2>3. CASE m # n
    <3>1. cpc'[n] = cpc[n]
      BY <1>0, <1>7, <2>3, Zenon DEF CampaignTxn, CampaignReplyLost, CampaignReturns, CampaignFails,
         LeadingCancelled, CampaignCancelled, CampaignStops, resign, campVars
    <3> QED
      BY <1>1, <2>1, <3>1, Zenon DEF Ended
  <2> QED
    BY <2>2, <2>3, Zenon
<1>8. ASSUME NEW m \in Node, registerMemberFails(m) \/ Crash(m) \/ CloseSession(m)
      PROVE  ViewStep(n)
  <2>1. Exit(m) /\ owner' = owner
    BY <1>8, Zenon DEF registerMemberFails, Crash, CloseSession, etcdVars
  <2>2. CASE m # n
    <3>1. UNCHANGED Local(n)
      BY <1>0, <2>1, <2>2, Zenon DEF Exit, Local
    <3> QED
      BY <2>1, <3>1, OtherViews, Zenon
  <2> QED
    BY <2>1, <2>2, ExitView, Zenon
<1>9. ASSUME NEW m \in Node, m # n,
             \/ registerMember(m) \/ becomeLeader(m) \/ SessionExpired(m) \/ LeaderResigned(m)
             \/ broadcastExpired(m) \/ broadcastResigned(m)
      PROVE  ViewStep(n)
  <2>1. owner' = owner
    BY <1>9, Zenon DEF registerMember, becomeLeader, SessionExpired, LeaderResigned,
       broadcastExpired, broadcastResigned, etcdVars
  <2>2. UNCHANGED <<role[n], cpc[n], opc[n], obs[n]>>
    BY <1>0, <1>9, Zenon DEF registerMember, becomeLeader, SessionExpired, LeaderResigned,
       broadcastExpired, broadcastResigned, loseLeadership, viewVars, obsVars
  <2>3. UNCHANGED <<watching[n], leaderCh[n]>>
    BY <1>0, <1>9, Zenon DEF registerMember, becomeLeader, SessionExpired, LeaderResigned,
       broadcastExpired, broadcastResigned, broadcastLeaderEvent, sinkVars
  <2> QED
    BY <2>1, <2>2, <2>3, OtherViews, Zenon DEF Local
<1>10. ASSUME NEW m \in Node, m # n,
              \/ ObserveGet(m) \/ observeLeader(m) \/ broadcastElected(m) \/ ObserveDelete(m)
              \/ ObserverStops(m) \/ ObserverChannelClosed(m) \/ Watch(m) \/ Unwatch(m)
              \/ \E ev \in leaderCh[m] : OnLeaderChange(m, ev)
       PROVE  ViewStep(n)
  <2>1. owner' = owner /\ cpc' = cpc
    BY <1>10, Zenon DEF ObserveGet, observeLeader, broadcastElected, ObserveDelete,
       ObserverStops, ObserverChannelClosed, Watch, Unwatch, OnLeaderChange, etcdVars, campVars
  <2>2. UNCHANGED <<role[n], opc[n], obs[n]>>
    BY <1>0, <1>10, Zenon DEF ObserveGet, observeLeader, broadcastElected, ObserveDelete,
       ObserverStops, ObserverChannelClosed, Watch, Unwatch, OnLeaderChange, viewVars, obsVars
  <2>3. UNCHANGED <<watching[n], leaderCh[n]>>
    BY <1>0, <1>10, Zenon DEF ObserveGet, observeLeader, broadcastElected, ObserveDelete,
       ObserverStops, ObserverChannelClosed, Watch, Unwatch, OnLeaderChange,
       broadcastLeaderEvent, sinkVars
  <2> QED
    BY <2>1, <2>2, <2>3, OtherViews, Zenon DEF Local
<1>11. CASE registerMember(n)
  <2>1. cpc[n] = "idle" /\ opc[n] = "idle"
    BY <1>11, Zenon DEF registerMember, IndInv, CampaignInv
  <2>2. /\ cpc'[n] = "campaign" /\ opc'[n] = "get"
        /\ UNCHANGED <<role, watching, leaderCh>>
    BY <1>0, <1>11, Zenon DEF registerMember, viewVars, sinkVars
  <2>3. /\ Ended(n) = FALSE /\ Ended(n)' = FALSE
        /\ Observed(n)' = Observed(n)
    BY <2>1, <2>2 DEF Ended, Observed
  <2> QED
    BY <2>2, <2>3, Zenon DEF ViewStep, View!leadershipVars, Observed, Ended
<1>12. CASE becomeLeader(n)
  <2>1. UNCHANGED <<owner, opc, obs, watching, leaderCh>>
    BY <1>12, Zenon DEF becomeLeader, etcdVars, obsVars, sinkVars
  <2>2. role'[n] = "Leader" /\ Ended(n)' = Ended(n)
    BY <1>0, <1>12 DEF becomeLeader, Ended
  <2>3. Observed(n)' = Observed(n) /\ Shown(n)' = Shown(n)
    BY <2>1, Zenon DEF Observed, Shown
  <2> QED
    BY <2>1, <2>2, <2>3, Zenon
    DEF ViewStep, View!LeadershipNext, View!RoleChanges, Observed, Shown, Ended
<1>13. CASE SessionExpired(n) \/ LeaderResigned(n)
  <2>1. UNCHANGED <<owner, opc, obs, watching, leaderCh>>
    BY <1>13, Zenon DEF SessionExpired, LeaderResigned, etcdVars, obsVars, sinkVars
  <2>2. role'[n] = "Candidate" /\ ~Ended(n) /\ Ended(n)'
    BY <1>0, <1>13, Zenon DEF SessionExpired, LeaderResigned, loseLeadership, Ended
  <2>3. Observed(n)' = Observed(n) /\ Shown(n)' = Shown(n)
    BY <2>1, Zenon DEF Observed, Shown
  <2> QED
    BY <2>1, <2>2, <2>3, Zenon
    DEF ViewStep, View!LeadershipNext, View!RoleChanges, Observed, Shown, Ended
<1>14. CASE broadcastExpired(n) \/ broadcastResigned(n)
  <2>1. UNCHANGED <<owner, role, opc, obs, watching>>
    BY <1>14, Zenon DEF broadcastExpired, broadcastResigned, etcdVars, viewVars, obsVars
  <2>2. Ended(n) = TRUE /\ Ended(n)' = FALSE
    BY <1>0, <1>14 DEF broadcastExpired, broadcastResigned, Ended
  <2>3. Observed(n)' = Observed(n)
    BY <2>1, Zenon DEF Observed
  <2>4. Shown(n)' = IF watching[n] THEN {"other"} ELSE Shown(n)
    BY <1>14, BroadcastView, Zenon DEF broadcastExpired, broadcastResigned, EventType
  <2> QED
    BY <2>1, <2>2, <2>3, <2>4, Zenon
    DEF ViewStep, View!LeadershipNext, View!BroadcastEnded, View!Publish, Observed, Shown, Ended
<1>15. CASE ObserveGet(n) \/ ObserveDelete(n) \/ ObserverStops(n) \/ ObserverChannelClosed(n)
  <2>1. UNCHANGED <<role, cpc, watching, leaderCh>>
    BY <1>15, Zenon DEF ObserveGet, ObserveDelete, ObserverStops, ObserverChannelClosed,
       viewVars, campVars, sinkVars
  <2>2. Observed(n) = "none" /\ Observed(n)' = "none"
    BY <1>0, <1>15, Zenon
    DEF ObserveGet, ObserveDelete, ObserverStops, ObserverChannelClosed, Observed
  <2> QED
    BY <2>1, <2>2, Zenon DEF ViewStep, View!leadershipVars, Observed
<1>16. CASE observeLeader(n)
  <2>1. UNCHANGED <<cpc, watching, leaderCh>>
    BY <1>16, Zenon DEF observeLeader, campVars, sinkVars
  <2>2. /\ Observed(n) = "none"
        /\ Observed(n)' = IF owner[obs[n].lease] = n THEN "self" ELSE "other"
        /\ role'[n] = IF owner[obs[n].lease] = n THEN "Leader" ELSE "Follower"
    BY <1>0, <1>16, Zenon DEF observeLeader, etcdVars, Observed
  <2>3. Observed(n)' \in View(n)!Event /\ (role'[n] = "Leader" <=> Observed(n)' = "self")
    BY <2>2, Zenon DEF View!Event
  <2> QED
    BY <2>1, <2>2, <2>3, Zenon DEF ViewStep, View!LeadershipNext, View!RoleChanges, Observed
<1>17. CASE broadcastElected(n)
  <2>1. UNCHANGED <<role, cpc, watching>>
    BY <1>17, Zenon DEF broadcastElected, viewVars, campVars
  <2>2. /\ Observed(n) = IF owner[obs[n].lease] = n THEN "self" ELSE "other"
        /\ Observed(n)' = "none"
    BY <1>0, <1>17, Zenon DEF broadcastElected, Observed
  <2>3. Shown(n)' = IF watching[n] THEN {Observed(n)} ELSE Shown(n)
    BY <1>17, <2>2, BroadcastView, Zenon DEF broadcastElected, EventType
  <2> QED
    BY <2>1, <2>2, <2>3, Zenon
    DEF ViewStep, View!LeadershipNext, View!BroadcastObserved, View!Publish, Observed, Shown
<1>18. CASE Watch(n)
  <2>1. UNCHANGED <<owner, role, cpc, opc, obs, leaderCh>>
    BY <1>18, Zenon DEF Watch, etcdVars, viewVars, campVars, obsVars
  <2>2. watching[n] = FALSE /\ watching'[n] = TRUE
    BY <1>0, <1>18, Zenon DEF Watch
  <2>3. Observed(n)' = Observed(n) /\ Shown(n)' = Shown(n)
    BY <2>1, Zenon DEF Observed, Shown
  <2> QED
    BY <2>1, <2>2, <2>3, Zenon DEF ViewStep, View!LeadershipNext, View!StartWatching, Observed, Shown
<1>19. CASE Unwatch(n)
  <2>1. UNCHANGED <<owner, role, cpc, opc, obs>>
    BY <1>19, Zenon DEF Unwatch, etcdVars, viewVars, campVars, obsVars
  <2>2. watching[n] = TRUE /\ watching'[n] = FALSE /\ leaderCh'[n] = {}
    BY <1>0, <1>19, Zenon DEF Unwatch
  <2>3. Observed(n)' = Observed(n) /\ Shown(n)' = {}
    BY <2>1, <2>2, Zenon DEF Observed, Shown
  <2> QED
    BY <2>1, <2>2, <2>3, Zenon DEF ViewStep, View!LeadershipNext, View!StopWatching, Observed, Shown
<1>20. ASSUME NEW ev \in leaderCh[n], OnLeaderChange(n, ev) PROVE ViewStep(n)
  <2>1. UNCHANGED <<owner, role, cpc, opc, obs, watching>>
    BY <1>20, Zenon DEF OnLeaderChange, etcdVars, viewVars, campVars, obsVars
  <2>2. leaderCh'[n] = {}
    BY <1>0, <1>20, Zenon DEF OnLeaderChange
  <2>3. Observed(n)' = Observed(n) /\ Shown(n)' = {}
    BY <2>1, <2>2, Zenon DEF Observed, Shown
  <2>4. \E e \in Shown(n) : TRUE
    BY <1>20, Zenon DEF Shown
  <2> QED
    BY <2>1, <2>3, <2>4, Zenon DEF ViewStep, View!LeadershipNext, View!TakeEvent, Observed, Shown
<1> QED
  BY <1>3, <1>4, <1>5, <1>6, <1>7, <1>8, <1>9, <1>10, <1>11, <1>12, <1>13, <1>14,
     <1>15, <1>16, <1>17, <1>18, <1>19, <1>20, Zenon
  DEF Next, campaign, observe, Fault

\* Towards its own services every node behaves as Leadership: IsLeader() and the
\* events of a listener change only as GrpcServer assumes, for any number of nodes
\* and with every fault.
THEOREM ElectionImplementsLeadership == Spec => ImplementsLeadership
<1>1. Init => ViewInit
  <2> SUFFICES ASSUME Init, NEW n \in Node PROVE View(n)!LeadershipInit
    BY Zenon DEF ViewInit
  <2> QED
    BY DEF Init, View!LeadershipInit
<1>2. IndInv /\ [Next]_vars => ViewNext
  BY ElectionViewStep, Zenon DEF ViewStep, ViewNext
<1> QED
  BY <1>1, <1>2, Invariance, PTL DEF Spec, ImplementsLeadership
=============================================================================
