--------------------------- MODULE LeaderElection ---------------------------
(***************************************************************************)
(* Leader election and membership of the Leibrix master nodes              *)
(* (internal/cluster/election.go), together with the part of etcd it       *)
(* stands on: leases, the election keys and the member keys.               *)
(*                                                                         *)
(* A node runs two goroutines that both write its role: `campaign', which  *)
(* competes for the election key and classifies how a term ends, and       *)
(* `observeLeader', which follows the first election key in etcd.  Their   *)
(* steps interleave with lease expiry on the server, with the closing of   *)
(* session.Done() on the client, with Close and with crashes.  A node that *)
(* restarts keeps its name and gets a new lease; the keys of its previous  *)
(* lease live until that lease expires.                                    *)
(*                                                                         *)
(* Only the creations of election keys take a revision number here: every  *)
(* other write of etcd just skips numbers, and the code compares create    *)
(* revisions of election keys and nothing else.                            *)
(***************************************************************************)
EXTENDS Naturals

CONSTANTS
    Node,       \* the names of the master nodes
    NoNode,     \* the empty leader name ""
    MaxLease,   \* bound: number of sessions (process starts) in a behaviour
    Watchers,   \* the nodes on which a listener may call Watch
    Crashers,   \* the nodes that may crash
    Closers,    \* the nodes that may be shut down
    Lossy       \* the nodes on which requests to etcd may fail

ASSUME ElectionAssumption ==
    /\ NoNode \notin Node
    /\ MaxLease \in Nat
    /\ Watchers \subseteq Node
    /\ Crashers \subseteq Node
    /\ Closers \subseteq Node
    /\ Lossy \subseteq Node

Lease == 1..MaxLease
NoLease == 0

EventType == {"LeaderElected", "LeaderExpired", "LeaderResigned"}

LeaderEvent == [type : EventType, member : Node, epoch : Nat]

VARIABLES
    granted,        \* etcd: leases 1..granted have been granted
    owner,          \* etcd: the node whose session the lease is
    alive,          \* etcd: the leases that are neither expired nor revoked
    member,         \* etcd: the lease of the key members/<node>, or NoLease
    ekeys,          \* etcd: the leases whose election key exists
    crev,           \* etcd: create revision of the lease's election key
    rev,            \* etcd: the last revision given to an election key
    proc,           \* life cycle of the process: Start, Close, crash
    session,        \* l.session: the lease of the node's session
    sdone,          \* session.Done() is closed
    role,           \* l.myNode.Role
    currentLeader,  \* l.currentLeader
    cpc,            \* where the campaign goroutine is
    leaderRev,      \* l.election.leaderRev, 0 when leaderSession is nil
    opc,            \* where the observeLeader goroutine is
    obs,            \* the election key it received last
    watching,       \* a listener is registered in l.listeners
    leaderCh,       \* its sink's leaderCh, a channel of capacity 1
    heardEpoch      \* the epoch of the last LeaderElected it was given

etcdVars == <<granted, owner, alive, member, ekeys, crev, rev>>
procVars == <<proc, session, sdone>>
viewVars == <<role, currentLeader>>
campVars == <<cpc, leaderRev>>
obsVars  == <<opc, obs>>
sinkVars == <<watching, leaderCh, heardEpoch>>

vars == <<etcdVars, procVars, viewVars, campVars, obsVars, sinkVars>>

Proc == {"down", "starting", "running", "closing"}
Role == {"Candidate", "Leader", "Follower"}
CampaignPC == {"idle", "campaign", "wait", "won", "leading", "expired",
               "resigning", "losing", "resigned", "done"}
ObserverPC == {"idle", "get", "received", "publish", "watch", "done"}

NoKey == [lease |-> NoLease, epoch |-> 0]

TypeOK ==
    /\ granted \in 0..MaxLease
    /\ owner \in [Lease -> Node \cup {NoNode}]
    /\ alive \subseteq Lease
    /\ member \in [Node -> Lease \cup {NoLease}]
    /\ ekeys \subseteq Lease
    /\ crev \in [Lease -> Nat]
    /\ rev \in Nat
    /\ proc \in [Node -> Proc]
    /\ session \in [Node -> Lease \cup {NoLease}]
    /\ sdone \in [Node -> BOOLEAN]
    /\ role \in [Node -> Role]
    /\ currentLeader \in [Node -> Node \cup {NoNode}]
    /\ cpc \in [Node -> CampaignPC]
    /\ leaderRev \in [Node -> Nat]
    /\ opc \in [Node -> ObserverPC]
    /\ obs \in [Node -> [lease : Lease \cup {NoLease}, epoch : Nat]]
    /\ watching \in [Node -> BOOLEAN]
    /\ leaderCh \in [Node -> SUBSET LeaderEvent]
    /\ heardEpoch \in [Node -> Nat]

Init ==
    /\ granted = 0
    /\ owner = [l \in Lease |-> NoNode]
    /\ alive = {}
    /\ member = [n \in Node |-> NoLease]
    /\ ekeys = {}
    /\ crev = [l \in Lease |-> 0]
    /\ rev = 0
    /\ proc = [n \in Node |-> "down"]
    /\ session = [n \in Node |-> NoLease]
    /\ sdone = [n \in Node |-> FALSE]
    /\ role = [n \in Node |-> "Candidate"]
    /\ currentLeader = [n \in Node |-> NoNode]
    /\ cpc = [n \in Node |-> "idle"]
    /\ leaderRev = [n \in Node |-> 0]
    /\ opc = [n \in Node |-> "idle"]
    /\ obs = [n \in Node |-> NoKey]
    /\ watching = [n \in Node |-> FALSE]
    /\ leaderCh = [n \in Node |-> {}]
    /\ heardEpoch = [n \in Node |-> 0]

-----------------------------------------------------------------------------
(* etcd *)

\* What etcd deletes with a lease: both keys that were put with it.
dropLease(l) ==
    /\ alive' = alive \ {l}
    /\ ekeys' = ekeys \ {l}
    /\ member' = [n \in Node |-> IF member[n] = l THEN NoLease ELSE member[n]]

\* The election key with the lowest create revision: the leader's key.
IsFirstKey(l) == l \in ekeys /\ \A k \in ekeys : crev[l] <= crev[k]

\* The lease was not kept alive for sessionTTL seconds.
LeaseExpires(l) ==
    /\ l \in alive
    /\ dropLease(l)
    /\ UNCHANGED <<granted, owner, crev, rev, procVars, viewVars, campVars,
                   obsVars, sinkVars>>

\* The client gives up the keepalive: it learnt of the expiry, or got no
\* answer for sessionTTL seconds.  Neither side waits for the other.
SessionDone(n) ==
    /\ proc[n] \in {"running", "closing"}
    /\ ~sdone[n]
    /\ sdone' = [sdone EXCEPT ![n] = TRUE]
    /\ UNCHANGED <<etcdVars, proc, session, viewVars, campVars, obsVars, sinkVars>>

-----------------------------------------------------------------------------
(* Start and crash *)

\* The process exits: what it held in memory is gone.
Exit(n) ==
    /\ proc' = [proc EXCEPT ![n] = "down"]
    /\ session' = [session EXCEPT ![n] = NoLease]
    /\ sdone' = [sdone EXCEPT ![n] = FALSE]
    /\ role' = [role EXCEPT ![n] = "Candidate"]
    /\ currentLeader' = [currentLeader EXCEPT ![n] = NoNode]
    /\ cpc' = [cpc EXCEPT ![n] = "idle"]
    /\ leaderRev' = [leaderRev EXCEPT ![n] = 0]
    /\ opc' = [opc EXCEPT ![n] = "idle"]
    /\ obs' = [obs EXCEPT ![n] = NoKey]
    /\ watching' = [watching EXCEPT ![n] = FALSE]
    /\ leaderCh' = [leaderCh EXCEPT ![n] = {}]
    /\ heardEpoch' = [heardEpoch EXCEPT ![n] = 0]

\* NewLeaderElection and the first half of Start: a session with a new lease.
NewSession(n) ==
    /\ proc[n] = "down"
    /\ granted < MaxLease
    /\ granted' = granted + 1
    /\ owner' = [owner EXCEPT ![granted + 1] = n]
    /\ alive' = alive \cup {granted + 1}
    /\ proc' = [proc EXCEPT ![n] = "starting"]
    /\ session' = [session EXCEPT ![n] = granted + 1]
    /\ UNCHANGED <<member, ekeys, crev, rev, sdone, viewVars, campVars, obsVars,
                   sinkVars>>

\* Mutant: the goroutines start whether or not the member key is put.
registerMemberSkips(n) ==
    /\ proc[n] = "starting"
    /\ proc' = [proc EXCEPT ![n] = "running"]
    /\ cpc' = [cpc EXCEPT ![n] = "campaign"]
    /\ opc' = [opc EXCEPT ![n] = "get"]
    /\ UNCHANGED <<etcdVars, session, sdone, viewVars, leaderRev, obs, sinkVars>>

\* The member key is put with the session's lease, then the goroutines start.
registerMember(n) ==
    /\ proc[n] = "starting"
    /\ session[n] \in alive
    /\ member' = [member EXCEPT ![n] = session[n]]
    /\ proc' = [proc EXCEPT ![n] = "running"]
    /\ cpc' = [cpc EXCEPT ![n] = "campaign"]
    /\ opc' = [opc EXCEPT ![n] = "get"]
    /\ UNCHANGED <<granted, owner, alive, ekeys, crev, rev, session, sdone,
                   viewVars, leaderRev, obs, sinkVars>>

\* The Put fails: session.Close() revokes the lease, or fails too and leaves
\* it, perhaps with the key that was put without an answer, to expire.  Start
\* returns the error and main exits.
registerMemberFails(n) ==
    /\ proc[n] = "starting"
    /\ n \in Lossy \/ session[n] \notin alive
    /\ \/ dropLease(session[n])
       \/ UNCHANGED <<alive, ekeys, member>>
       \/ /\ session[n] \in alive
          /\ member' = [member EXCEPT ![n] = session[n]]
          /\ UNCHANGED <<alive, ekeys>>
    /\ Exit(n)
    /\ UNCHANGED <<granted, owner, crev, rev>>

\* The process dies; its lease and its keys stay in etcd.
Crash(n) ==
    /\ n \in Crashers
    /\ proc[n] # "down"
    /\ Exit(n)
    /\ UNCHANGED etcdVars

-----------------------------------------------------------------------------
(* The listener's sink.  A producer that finds leaderCh full replaces the    *)
(* event in it, so the channel holds the latest broadcast.                   *)

broadcastLeaderEvent(n, type, name, epoch) ==
    leaderCh' = [leaderCh EXCEPT ![n] =
                   IF watching[n]
                   THEN {[type |-> type, member |-> name, epoch |-> epoch]}
                   ELSE @]

Watch(n) ==
    /\ n \in Watchers
    /\ proc[n] = "running"
    /\ ~watching[n]
    /\ watching' = [watching EXCEPT ![n] = TRUE]
    /\ UNCHANGED <<etcdVars, procVars, viewVars, campVars, obsVars, leaderCh,
                   heardEpoch>>

\* removeListener closes the sink: an event still in it is lost (or given to the
\* listener once more, as if just before).
Unwatch(n) ==
    /\ watching[n]
    /\ watching' = [watching EXCEPT ![n] = FALSE]
    /\ leaderCh' = [leaderCh EXCEPT ![n] = {}]
    /\ UNCHANGED <<etcdVars, procVars, viewVars, campVars, obsVars, heardEpoch>>

\* The sink's goroutine calls OnLeaderChange with the event.
OnLeaderChange(n, ev) ==
    /\ ev \in leaderCh[n]
    /\ leaderCh' = [leaderCh EXCEPT ![n] = {}]
    /\ heardEpoch' = [heardEpoch EXCEPT ![n] =
                        IF ev.type = "LeaderElected" THEN ev.epoch ELSE @]
    /\ UNCHANGED <<etcdVars, procVars, viewVars, campVars, obsVars, watching>>

-----------------------------------------------------------------------------
(* The campaign goroutine *)

\* Mutant: the key gets the revision of the store before the transaction.
createKeyStale(l) ==
    /\ ekeys' = ekeys \cup {l}
    /\ rev' = rev + 1
    /\ crev' = [crev EXCEPT ![l] = rev]

createKey(l) ==
    /\ ekeys' = ekeys \cup {l}
    /\ rev' = rev + 1
    /\ crev' = [crev EXCEPT ![l] = rev + 1]

\* The transaction of election.Campaign: the key of this session is created
\* unless it exists.  With a dead lease it fails, and campaign tries again
\* after leaderChangeRetry with the same session: nothing changes.
CampaignTxn(n) ==
    /\ proc[n] = "running" /\ cpc[n] = "campaign"
    /\ session[n] \in alive
    /\ \/ session[n] \notin ekeys /\ createKey(session[n])
       \/ session[n] \in ekeys /\ UNCHANGED <<ekeys, rev, crev>>
    /\ leaderRev' = [leaderRev EXCEPT ![n] = crev'[session[n]]]
    /\ cpc' = [cpc EXCEPT ![n] = "wait"]
    /\ UNCHANGED <<granted, owner, alive, member, procVars, viewVars, obsVars,
                   sinkVars>>

\* The same transaction commits but its answer is lost.
CampaignReplyLost(n) ==
    /\ n \in Lossy
    /\ proc[n] = "running" /\ cpc[n] = "campaign"
    /\ session[n] \in alive \ ekeys
    /\ createKey(session[n])
    /\ UNCHANGED <<granted, owner, alive, member, procVars, viewVars, campVars,
                   obsVars, sinkVars>>

\* Campaign returns nil once every key created before its own is gone; that
\* its own key still exists is not looked at.
CampaignReturns(n) ==
    /\ cpc[n] = "wait"
    /\ \A k \in ekeys : crev[k] >= leaderRev[n]
    /\ cpc' = [cpc EXCEPT ![n] = "won"]
    /\ UNCHANGED <<etcdVars, procVars, viewVars, leaderRev, obsVars, sinkVars>>

\* Mutant: the error of Campaign is logged and the loop goes on as leader.
CampaignFailsWins(n) ==
    /\ n \in Lossy
    /\ proc[n] = "running" /\ cpc[n] = "wait"
    /\ cpc' = [cpc EXCEPT ![n] = "won"]
    /\ UNCHANGED <<etcdVars, procVars, viewVars, leaderRev, obsVars, sinkVars>>

\* Mutant: campaign returns on the first error.
CampaignFailsReturns(n) ==
    /\ n \in Lossy
    /\ proc[n] = "running" /\ cpc[n] = "wait"
    /\ cpc' = [cpc EXCEPT ![n] = "done"]
    /\ leaderRev' = [leaderRev EXCEPT ![n] = 0]
    /\ UNCHANGED <<etcdVars, procVars, viewVars, obsVars, sinkVars>>

\* Waiting for the older keys fails; the key stays, leaderSession becomes nil.
CampaignFails(n) ==
    /\ n \in Lossy
    /\ proc[n] = "running" /\ cpc[n] = "wait"
    /\ cpc' = [cpc EXCEPT ![n] = "campaign"]
    /\ leaderRev' = [leaderRev EXCEPT ![n] = 0]
    /\ UNCHANGED <<etcdVars, procVars, viewVars, obsVars, sinkVars>>

becomeLeader(n) ==
    /\ cpc[n] = "won"
    /\ role' = [role EXCEPT ![n] = "Leader"]
    /\ currentLeader' = [currentLeader EXCEPT ![n] = n]
    /\ cpc' = [cpc EXCEPT ![n] = "leading"]
    /\ UNCHANGED <<etcdVars, procVars, leaderRev, obsVars, sinkVars>>

\* loseLeadership, first half: the fields, under the lock.
loseLeadership(n) ==
    /\ role' = [role EXCEPT ![n] = "Candidate"]
    /\ currentLeader' = [currentLeader EXCEPT ![n] = NoNode]

\* Mutant: a term that ends is not broadcast.
SessionExpiredSilently(n) ==
    /\ cpc[n] = "leading" /\ sdone[n]
    /\ loseLeadership(n)
    /\ cpc' = [cpc EXCEPT ![n] = "campaign"]
    /\ UNCHANGED <<etcdVars, procVars, leaderRev, obsVars, sinkVars>>

\* session.Done() while leading.
SessionExpired(n) ==
    /\ cpc[n] = "leading" /\ sdone[n]
    /\ loseLeadership(n)
    /\ cpc' = [cpc EXCEPT ![n] = "expired"]
    /\ UNCHANGED <<etcdVars, procVars, leaderRev, obsVars, sinkVars>>

\* loseLeadership, second half: the broadcast, after the lock is released.
broadcastExpired(n) ==
    /\ cpc[n] = "expired"
    /\ broadcastLeaderEvent(n, "LeaderExpired", n, 0)
    /\ cpc' = [cpc EXCEPT ![n] = "campaign"]
    /\ UNCHANGED <<etcdVars, procVars, viewVars, leaderRev, obsVars, watching,
                   heardEpoch>>

\* Mutant: a leader only waits for the end of its session.
LeadingIgnoresCancel(n) ==
    /\ cpc[n] = "leading" /\ proc[n] = "closing" /\ sdone[n]
    /\ cpc' = [cpc EXCEPT ![n] = "campaign"]
    /\ UNCHANGED <<etcdVars, procVars, viewVars, leaderRev, obsVars, sinkVars>>

\* ctx.Done() while leading: back to the top of the loop.
LeadingCancelled(n) ==
    /\ cpc[n] = "leading" /\ proc[n] = "closing"
    /\ cpc' = [cpc EXCEPT ![n] = "campaign"]
    /\ UNCHANGED <<etcdVars, procVars, viewVars, leaderRev, obsVars, sinkVars>>

\* election.Resign: deletes the session's key if its create revision is
\* leaderRev, unless the request fails.
deleteKey(n) ==
    \/ ekeys' = {k \in ekeys : ~(k = session[n] /\ crev[k] = leaderRev[n])}
    \/ n \in Lossy /\ UNCHANGED ekeys

\* ctx.Done() inside Campaign: it resigns its key and returns an error.
CampaignCancelled(n) ==
    /\ cpc[n] = "wait" /\ proc[n] = "closing"
    /\ deleteKey(n)
    /\ leaderRev' = [leaderRev EXCEPT ![n] = 0]
    /\ cpc' = [cpc EXCEPT ![n] = "campaign"]
    /\ UNCHANGED <<granted, owner, alive, member, crev, rev, procVars, viewVars,
                   obsVars, sinkVars>>

\* ctx.Done() at the top of the loop.
CampaignStops(n) ==
    /\ cpc[n] = "campaign" /\ proc[n] = "closing"
    /\ cpc' = [cpc EXCEPT ![n] = IF role[n] = "Leader" THEN "resigning" ELSE "done"]
    /\ UNCHANGED <<etcdVars, procVars, viewVars, leaderRev, obsVars, sinkVars>>

\* resign gives the key up if the node is still marked as leader.
resign(n) ==
    /\ cpc[n] = "resigning"
    /\ IF role[n] = "Leader" /\ leaderRev[n] # 0
       THEN /\ deleteKey(n)
            /\ leaderRev' = [leaderRev EXCEPT ![n] = 0]
       ELSE UNCHANGED <<ekeys, leaderRev>>
    /\ cpc' = [cpc EXCEPT ![n] = "losing"]
    /\ UNCHANGED <<granted, owner, alive, member, crev, rev, procVars, viewVars,
                   obsVars, sinkVars>>

LeaderResigned(n) ==
    /\ cpc[n] = "losing"
    /\ loseLeadership(n)
    /\ cpc' = [cpc EXCEPT ![n] = "resigned"]
    /\ UNCHANGED <<etcdVars, procVars, leaderRev, obsVars, sinkVars>>

broadcastResigned(n) ==
    /\ cpc[n] = "resigned"
    /\ broadcastLeaderEvent(n, "LeaderResigned", n, 0)
    /\ cpc' = [cpc EXCEPT ![n] = "done"]
    /\ UNCHANGED <<etcdVars, procVars, viewVars, leaderRev, obsVars, watching,
                   heardEpoch>>
-----------------------------------------------------------------------------
(* The observeLeader goroutine and the Observe goroutine that feeds it *)

\* Observe reads the first election key; with none it waits for the first put.
ObserveGet(n) ==
    /\ opc[n] = "get"
    /\ \E l \in ekeys :
         /\ IsFirstKey(l)
         /\ obs' = [obs EXCEPT ![n] = [lease |-> l, epoch |-> crev[l]]]
    /\ opc' = [opc EXCEPT ![n] = "received"]
    /\ UNCHANGED <<etcdVars, procVars, viewVars, campVars, sinkVars>>

\* The received key sets the role and the leader's name, under the lock.
observeLeader(n) ==
    /\ opc[n] = "received"
    /\ LET leaderName == owner[obs[n].lease] IN
         /\ role' = [role EXCEPT ![n] =
                       IF leaderName = n THEN "Leader" ELSE "Follower"]
         /\ currentLeader' = [currentLeader EXCEPT ![n] = leaderName]
    /\ opc' = [opc EXCEPT ![n] = "publish"]
    /\ UNCHANGED <<etcdVars, procVars, campVars, obs, sinkVars>>

\* Mutant: the epoch is the revision of the response's header.
broadcastElectedHeader(n) ==
    /\ opc[n] = "publish"
    /\ broadcastLeaderEvent(n, "LeaderElected", owner[obs[n].lease], rev)
    /\ opc' = [opc EXCEPT ![n] = "watch"]
    /\ UNCHANGED <<etcdVars, procVars, viewVars, campVars, obs, watching,
                   heardEpoch>>

\* Mutant: the name is read from l.currentLeader, after the unlock.
broadcastElectedStale(n) ==
    /\ opc[n] = "publish"
    /\ broadcastLeaderEvent(n, "LeaderElected", currentLeader[n], obs[n].epoch)
    /\ opc' = [opc EXCEPT ![n] = "watch"]
    /\ UNCHANGED <<etcdVars, procVars, viewVars, campVars, obs, watching,
                   heardEpoch>>

\* Mutant: the response is handled again after the broadcast.
broadcastElectedAgain(n) ==
    /\ opc[n] = "publish"
    /\ broadcastLeaderEvent(n, "LeaderElected", owner[obs[n].lease], obs[n].epoch)
    /\ opc' = [opc EXCEPT ![n] = "received"]
    /\ UNCHANGED <<etcdVars, procVars, viewVars, campVars, obs, watching,
                   heardEpoch>>

\* ... and is broadcast after the lock is released.
broadcastElected(n) ==
    /\ opc[n] = "publish"
    /\ broadcastLeaderEvent(n, "LeaderElected", owner[obs[n].lease], obs[n].epoch)
    /\ opc' = [opc EXCEPT ![n] = "watch"]
    /\ UNCHANGED <<etcdVars, procVars, viewVars, campVars, obs, watching,
                   heardEpoch>>

\* Observe watches the key it reported until that key is deleted.
ObserveDelete(n) ==
    /\ opc[n] = "watch"
    /\ ~(obs[n].lease \in ekeys /\ crev[obs[n].lease] = obs[n].epoch)
    /\ opc' = [opc EXCEPT ![n] = "get"]
    /\ obs' = [obs EXCEPT ![n] = NoKey]
    /\ UNCHANGED <<etcdVars, procVars, viewVars, campVars, sinkVars>>

\* ctx.Done(); a key already received may be dropped.
ObserverStops(n) ==
    /\ proc[n] = "closing" /\ opc[n] \in {"get", "received", "watch"}
    /\ opc' = [opc EXCEPT ![n] = "done"]
    /\ obs' = [obs EXCEPT ![n] = NoKey]
    /\ UNCHANGED <<etcdVars, procVars, viewVars, campVars, sinkVars>>

\* A read or a watch of Observe fails: it closes its channel, and
\* observeLeader returns for good.
ObserverChannelClosed(n) ==
    /\ n \in Lossy
    /\ proc[n] = "running" /\ opc[n] \in {"get", "watch"}
    /\ opc' = [opc EXCEPT ![n] = "done"]
    /\ obs' = [obs EXCEPT ![n] = NoKey]
    /\ UNCHANGED <<etcdVars, procVars, viewVars, campVars, sinkVars>>

-----------------------------------------------------------------------------
(* Close *)

\* l.cancel()
Close(n) ==
    /\ n \in Closers
    /\ proc[n] = "running"
    /\ proc' = [proc EXCEPT ![n] = "closing"]
    /\ UNCHANGED <<etcdVars, session, sdone, viewVars, campVars, obsVars, sinkVars>>

\* After serviceWg.Wait: session.Close() revokes the lease (or fails and
\* leaves it to expire), all listeners are closed, and main exits.
CloseSession(n) ==
    /\ proc[n] = "closing" /\ cpc[n] = "done" /\ opc[n] = "done"
    /\ dropLease(session[n]) \/ (n \in Lossy /\ UNCHANGED <<alive, ekeys, member>>)
    /\ Exit(n)
    /\ UNCHANGED <<granted, owner, crev, rev>>

-----------------------------------------------------------------------------
campaign(n) ==
    \/ CampaignTxn(n) \/ CampaignReturns(n) \/ becomeLeader(n)
    \/ SessionExpired(n) \/ broadcastExpired(n)
    \/ LeadingCancelled(n) \/ CampaignCancelled(n) \/ CampaignStops(n)
    \/ resign(n) \/ LeaderResigned(n) \/ broadcastResigned(n)

observe(n) ==
    \/ ObserveGet(n) \/ observeLeader(n) \/ broadcastElected(n)
    \/ ObserveDelete(n) \/ ObserverStops(n)

\* What etcd, the network or the operator may do at any time.
Fault(n) ==
    \/ Crash(n) \/ SessionDone(n)
    \/ CampaignReplyLost(n) \/ CampaignFails(n) \/ ObserverChannelClosed(n)

Next ==
    \/ \E l \in Lease : LeaseExpires(l)
    \/ \E n \in Node :
         \/ NewSession(n) \/ registerMember(n) \/ registerMemberFails(n)
         \/ campaign(n) \/ observe(n) \/ Fault(n)
         \/ Close(n) \/ CloseSession(n)
         \/ Watch(n) \/ Unwatch(n)
         \/ \E ev \in leaderCh[n] : OnLeaderChange(n, ev)

Spec == Init /\ [][Next]_vars

-----------------------------------------------------------------------------
(* Properties *)

\* A node leads on the strength of its own lease: Campaign returned for this
\* session and the session's election key still exists.
HoldsTerm(n) == cpc[n] = "leading" /\ session[n] \in ekeys

\* At most one node at a time is past Campaign with its key still in etcd,
\* however delayed its goroutines and its view of the lease are.
TermExclusion == \A m, n \in Node : HoldsTerm(m) /\ HoldsTerm(n) => m = n

\* Leadership and membership are tied to one lease (registerMember, campaign):
\* an election key implies a live lease and the member key of the same lease,
\* unless the node was started again since; a member key implies a live lease.
SharedLease ==
    /\ \A l \in ekeys :
         /\ l \in alive
         /\ \/ member[owner[l]] = l
            \/ \E k \in Lease : k > l /\ owner[k] = owner[l]
    /\ \A n \in Node : member[n] # NoLease => member[n] \in alive

\* The fencing tokens of observeLeader: two LeaderElected events with the same
\* epoch, on any two nodes, broadcast or about to be, name the same leader.
ElectedEvents ==
    {ev \in UNION {leaderCh[n] : n \in Node} : ev.type = "LeaderElected"}
      \cup {[type |-> "LeaderElected", member |-> owner[obs[n].lease],
             epoch |-> obs[n].epoch] : n \in {m \in Node : obs[m].lease # NoLease}}

EpochAgreement ==
    \A e, f \in ElectedEvents : e.epoch = f.epoch => e.member = f.member

\* Every LeaderElected event a listener is given has a larger epoch than the one
\* before it, until its process restarts (which resets heardEpoch to 0): it never
\* sees an older leader again, nor the same term twice.
EpochsIncrease ==
    [][\A n \in Node : \A ev \in leaderCh[n] :
         OnLeaderChange(n, ev) /\ ev.type = "LeaderElected" => ev.epoch > heardEpoch[n]]_vars

-----------------------------------------------------------------------------
(* Fairness.  A goroutine that can take a step takes it; requests to etcd   *)
(* that are retried for ever succeed in the end (the strong fairness of     *)
(* CampaignReturns, which CampaignFails can interrupt); a lease nobody      *)
(* keeps alive expires; and a client learns that its lease is gone.         *)

KeptAlive(l) ==
    \E n \in Node : session[n] = l /\ proc[n] # "down" /\ ~sdone[n]

LearnsExpiry(n) == session[n] \notin alive /\ SessionDone(n)

Fairness ==
    /\ \A n \in Node :
         /\ WF_vars(registerMember(n) \/ registerMemberFails(n))
         /\ WF_vars(campaign(n))
         /\ SF_vars(CampaignReturns(n))
         /\ WF_vars(observe(n))
         /\ WF_vars(LearnsExpiry(n))
         /\ WF_vars(CloseSession(n))
         /\ WF_vars(\E ev \in leaderCh[n] : OnLeaderChange(n, ev))
    /\ \A l \in Lease : WF_vars(~KeptAlive(l) /\ LeaseExpires(l))

FairSpec == Spec /\ Fairness

\* Close returns: whatever the goroutines are doing when ctx is cancelled,
\* serviceWg.Wait ends and the process exits.
CloseReturns == \A n \in Node : proc[n] = "closing" ~> proc[n] = "down"

Healthy(n) == proc[n] = "running" /\ ~sdone[n] /\ opc[n] # "done"

\* A node that keeps its session and its observer ends up agreeing with etcd
\* on one leader, which holds its term, and knows whether that is itself.
HealthyNodeConverges ==
    \A n \in Node :
      <>[]Healthy(n) =>
        <>[](\E m \in Node : /\ HoldsTerm(m)
                             /\ currentLeader[n] = m
                             /\ role[n] = "Leader" <=> m = n)

\* "It prevents a demoted node from continuing to coordinate workers after its
\* lease has ended": a running node whose lease is gone does not answer
\* IsLeader() with true for ever.
ExpiredLeaderStepsDown ==
    \A n \in Node :
      ~<>[](proc[n] = "running" /\ session[n] \notin alive /\ role[n] = "Leader")

\* "transient etcd or transport failures do not permanently wedge the election
\* loop": while some node keeps running there is a leader again and again.
LeadershipRecovers ==
    \A n \in Node : <>[](proc[n] = "running") => []<>(\E m \in Node : HoldsTerm(m))

\* "a convergent view of who the leader is": a running node whose observer
\* works learns the name of a leader that stays.  The code does not keep this.
LeaderNameConverges ==
    \A m, n \in Node :
      <>[](HoldsTerm(m) /\ proc[n] = "running" /\ opc[n] # "done")
        => <>[](currentLeader[n] = m)

-----------------------------------------------------------------------------
(* The election implements LeaderTerms: the leader is the owner of the first *)
(* election key and its token is the create revision of that key.            *)

firstKey == CHOOSE l \in ekeys : IsFirstKey(l)

leader == IF ekeys = {} THEN NoNode ELSE owner[firstKey]
token  == IF ekeys = {} THEN rev ELSE crev[firstKey]

Terms == INSTANCE LeaderTerms

\* Every change of the first election key in etcd, by expiry, resignation,
\* revocation or a new campaign, is a change of term in LeaderTerms: "a new
\* leader always gets a strictly newer fencing token than an old one".
ImplementsTerms == Terms!Spec

\* What the services of node n see of all this.
View(n) == INSTANCE Leadership WITH
    isLeader <- role[n] = "Leader",
    observed <- IF opc[n] # "publish" THEN "none"
                ELSE IF owner[obs[n].lease] = n THEN "self" ELSE "other",
    ended    <- cpc[n] \in {"expired", "resigned"},
    watching <- watching[n],
    leaderCh <- {IF ev.type = "LeaderElected" /\ ev.member = n THEN "self" ELSE "other" :
                   ev \in leaderCh[n]}

ViewInit == \A n \in Node : View(n)!LeadershipInit
ViewNext == \A n \in Node : View(n)!LeadershipNext \/ UNCHANGED View(n)!leadershipVars

\* Towards its own services each node behaves as Leadership says: what GrpcServer
\* assumes of the election, the election does.
ImplementsLeadership == ViewInit /\ [][ViewNext]_vars

-----------------------------------------------------------------------------
(* The inductive invariant *)

\* Leases 1..granted have an owner; sessions are the youngest lease of their
\* node; keys and member keys hang on live leases.
LeaseInv ==
    /\ alive \subseteq 1..granted
    /\ ekeys \subseteq alive
    /\ \A l \in Lease : IF l <= granted THEN owner[l] \in Node
                                        ELSE owner[l] = NoNode /\ crev[l] = 0
    /\ \A n \in Node :
         /\ member[n] # NoLease => member[n] \in alive
         /\ proc[n] # "down" =>
              /\ session[n] \in 1..granted
              /\ owner[session[n]] = n
              /\ \A k \in Lease : owner[k] = n => k <= session[n]
         /\ proc[n] \in {"running", "closing"} /\ session[n] \in alive
              => member[n] = session[n]
    /\ \A l \in ekeys :
         \/ member[owner[l]] = l
         \/ \E k \in Lease : k > l /\ owner[k] = owner[l]

\* Create revisions identify leases, and no key is created twice: while the
\* campaign may still create the key of its live session, it never existed.
RevisionInv ==
    /\ \A l \in Lease : crev[l] <= rev
    /\ \A l \in ekeys : crev[l] > 0
    /\ \A k, l \in Lease : crev[k] = crev[l] /\ crev[k] # 0 => k = l
    /\ \A n \in Node :
         /\ proc[n] = "starting" => crev[session[n]] = 0
         /\ proc[n] = "running" /\ session[n] \in alive \ ekeys
              => crev[session[n]] = 0

\* A campaign that returned has the first key as long as it has its key.
CampaignInv ==
    \A n \in Node :
      /\ proc[n] \in {"down", "starting"} => cpc[n] = "idle" /\ opc[n] = "idle"
      /\ cpc[n] \in {"resigning", "losing", "resigned", "done"} => proc[n] = "closing"
      /\ cpc[n] \in {"wait", "won", "leading"} /\ session[n] \in ekeys
           => crev[session[n]] = leaderRev[n]
      /\ cpc[n] \in {"won", "leading"} /\ session[n] \in ekeys
           => \A k \in ekeys : crev[k] >= leaderRev[n]

\* What the observer and the listener hold was an election key once.
ObserverInv ==
    \A n \in Node :
      /\ opc[n] \in {"received", "publish", "watch"} <=> obs[n].lease # NoLease
      /\ obs[n].lease # NoLease =>
           /\ obs[n].lease <= granted
           /\ obs[n].epoch = crev[obs[n].lease]
           /\ obs[n].epoch > 0
      /\ \A ev \in leaderCh[n] : ev.type = "LeaderElected" =>
           ev.epoch > 0 /\ \E l \in Lease : crev[l] = ev.epoch /\ owner[l] = ev.member

IndInv == TypeOK /\ LeaseInv /\ RevisionInv /\ CampaignInv /\ ObserverInv

Elected(n) == {ev \in leaderCh[n] : ev.type = "LeaderElected"}

\* The listener was given, or has in its channel, only epochs below e (up to e).
Below(n, e) == heardEpoch[n] < e /\ \A ev \in Elected(n) : ev.epoch < e
UpTo(n, e)  == heardEpoch[n] <= e /\ \A ev \in Elected(n) : ev.epoch <= e

\* The epochs already given to the listener, or in its channel, are below the
\* one the observer is about to publish and below those it can still read.
EpochAt(n) ==
    /\ heardEpoch[n] <= rev
    /\ \A ev \in Elected(n) : heardEpoch[n] < ev.epoch
    /\ proc[n] \in {"down", "starting"} => heardEpoch[n] = 0 /\ leaderCh[n] = {}
    /\ opc[n] = "get" => \A k \in ekeys : Below(n, crev[k])
    /\ opc[n] \in {"received", "publish"} => Below(n, obs[n].epoch)
    /\ opc[n] = "watch" => UpTo(n, obs[n].epoch)
    /\ opc[n] \in {"received", "publish", "watch"}
         => \A k \in ekeys : crev[k] >= obs[n].epoch

EpochInv == \A n \in Node : EpochAt(n)
=============================================================================
