---------------------------- MODULE MasterProcess ----------------------------
(***************************************************************************)
(* The life of a master process (cmd/main.go): startServices starts etcd   *)
(* (NodeServer), the leader election (of which Leadership is the visible   *)
(* part) and the gRPC server (GrpcServer), undoing what was started when   *)
(* one of them fails; a signal or an error of the gRPC server makes        *)
(* shutdownServices stop them in the reverse order.                        *)
(*                                                                         *)
(* The process may also crash, or be killed.  It is started again after it *)
(* has ended, with the data directory as it was left.                      *)
(***************************************************************************)
EXTENDS GrpcServer, NodeServer

VARIABLES
    main,      \* where main is
    election   \* the leader election service

processVars == <<main, election>>
masterVars == <<grpcVars, nodeVars, processVars>>

Starting == {"start", "etcd", "election", "grpc"}

MainPC == Starting \cup
    {"running",
     "grpcShutdown", "electionClose", "etcdStop",         \* shutdownServices
     "undoEtcd", "undoElection",                          \* a partial start
     "stopped", "undone",         \* what was started is stopped, main returns
     "exited", "panicked"}

\* The types of main's state and of the services it starts.
ProcessTypeOK ==
    /\ ServerTypeOK
    /\ NodeTypeOK
    /\ main \in MainPC
    /\ election \in {"none", "started", "stopping", "waiting", "closed"}

ProcessInit ==
    /\ ServerInit
    /\ NodeInit
    /\ main = "start"
    /\ election = "none"

MainAt(label) == main' = label

\* The memory of the process is gone when it ends.
ServicesEnd ==
    /\ election' = "none"
    /\ Reset
    /\ pc' = [s \in Stream |-> "idle"]
    /\ workerID' = [s \in Stream |-> Empty]
    /\ replaced' = [s \in Stream |-> NoStream]
    /\ recv' = [s \in Stream |-> "idle"]
    /\ closed' = [s \in Stream |-> FALSE]
    /\ sessions' = [w \in WorkerID |-> NoStream]
    /\ sessionCnt' = 0
    /\ closerPC' = [c \in Closer |-> "idle"]
    /\ toVisit' = [c \in Closer |-> {}]
    /\ health' = TRUE /\ srv' = "new" /\ handling' = "none" /\ shut' = "running"

\* main returns, or the process is killed.
ProcessEnds == MainAt("exited") /\ ServicesEnd

-----------------------------------------------------------------------------
(* startServices *)

\* nodeServer.Start begins; the configuration may be refused, the data
\* directory may make it panic.
StartEtcd ==
    /\ main = "start"
    /\ \/ NodeStarts /\ MainAt("etcd")
       \/ detectClusterState = "panic" /\ MainAt("panicked") /\ UNCHANGED nodeVars
       \/ detectClusterState # "panic" /\ MainAt("exited") /\ UNCHANGED nodeVars
    /\ UNCHANGED <<election, grpcVars>>

\* A Start that fails has closed etcd.
EtcdStarts ==
    /\ main = "etcd"
    /\ (NodeStarted /\ MainAt("election")) \/ (NodeStartFails /\ MainAt("undone"))
    /\ UNCHANGED <<election, grpcVars>>

EtcdStep ==
    /\ main = "etcd"
    /\ EtcdWrites \/ EtcdReady
    /\ UNCHANGED <<processVars, grpcVars>>

\* NewLeaderElection and Start.  After an error of Start, which leaves none of
\* its goroutines running, the election is still to be closed.
StartElection ==
    /\ main = "election"
    /\ \/ MainAt("grpc") /\ election' = "started"
       \/ MainAt("undoEtcd") /\ election' \in {"none", "stopping"}
    /\ UNCHANGED <<nodeVars, grpcVars>>

\* NewGRPCServer, and the goroutine that calls its Start.
StartGrpc ==
    /\ main = "grpc"
    /\ MainAt("running") \/ MainAt("undoEtcd")
    /\ UNCHANGED <<election, nodeVars, grpcVars>>

\* What was started is undone: etcd first, then the election.
UndoEtcd ==
    /\ main = "undoEtcd"
    /\ NodeStops
    /\ MainAt(IF election = "none" THEN "undone" ELSE "undoElection")
    /\ UNCHANGED <<election, grpcVars>>

-----------------------------------------------------------------------------
(* handleShutdown and shutdownServices *)

\* A signal, at any time, or the error of a failed Start.
HandleShutdown ==
    /\ main = "running"
    /\ MainAt("grpcShutdown")
    /\ UNCHANGED <<election, nodeVars, grpcVars>>

\* Mutant: main forgets to close the election.
GrpcShutdownSkipsElection ==
    /\ main = "grpcShutdown"
    /\ IF shut = "stopped"
       THEN MainAt("etcdStop") /\ UNCHANGED grpcVars
       ELSE (Shutdown \/ SessionManagerClose("shutdown")) /\ UNCHANGED main
    /\ UNCHANGED <<election, nodeVars>>

GrpcShutdown ==
    /\ main = "grpcShutdown"
    /\ IF shut = "stopped"
       THEN MainAt("electionClose") /\ UNCHANGED grpcVars
       ELSE (Shutdown \/ SessionManagerClose("shutdown")) /\ UNCHANGED main
    /\ UNCHANGED <<election, nodeVars>>

ClosingElection == main \in {"electionClose", "undoElection"}

\* Close: the goroutines are told to end, and the term with them if this node
\* is the leader, ...
ElectionCancels ==
    /\ ClosingElection
    /\ election = "started"
    /\ election' = "stopping"
    /\ (RoleChanges /\ ~ended /\ ended') \/ UNCHANGED leadershipVars
    /\ UNCHANGED <<main, nodeVars, sessionVars, serverVars>>

\* ... have ended once their last events are broadcast, and all listeners are
\* removed, ...
ElectionClosesListeners ==
    /\ ClosingElection
    /\ election = "stopping" /\ observed = "none" /\ ~ended
    /\ election' = "waiting"
    /\ IF watching THEN StopWatching ELSE UNCHANGED leadershipVars
    /\ UNCHANGED <<main, nodeVars, sessionVars, serverVars>>

\* ... and Close returns once the goroutines of the listeners have ended.
ElectionClosed ==
    /\ ClosingElection
    /\ election = "waiting"
    /\ ~watching /\ leaderCh = {} /\ ~ListenerBusy
    /\ election' = "closed"
    /\ MainAt(IF main = "undoElection" THEN "undone" ELSE "etcdStop")
    /\ UNCHANGED <<nodeVars, grpcVars>>

EtcdStop ==
    /\ main = "etcdStop"
    /\ NodeStops
    /\ MainAt("stopped")
    /\ UNCHANGED <<election, grpcVars>>

\* main returns, and with it all goroutines that still run.
MainReturns ==
    /\ main \in {"stopped", "undone"}
    /\ ProcessEnds
    /\ UNCHANGED nodeVars

-----------------------------------------------------------------------------
(* The goroutines of the services, while the process lives *)

Alive == main \notin {"start", "exited", "panicked"}

GrpcRuns == Alive /\ main \notin Starting \cup {"undoEtcd", "undoElection", "undone"}

\* The role changes as long as the election runs; once it is told to end, only
\* what is due is still broadcast.
ElectionRuns ==
    /\ Alive /\ election = "started" /\ RoleChanges
    /\ UNCHANGED <<sessionVars, serverVars, nodeVars, processVars>>

ElectionBroadcasts ==
    /\ Alive /\ election \in {"started", "stopping"}
    /\ BroadcastObserved \/ BroadcastEnded
    /\ UNCHANGED <<sessionVars, serverVars, nodeVars, processVars>>

StreamRuns(s) ==
    GrpcRuns /\ (CoordinateWorker(s) \/ StreamStep(s)) /\ UNCHANGED <<nodeVars, processVars>>

StartRuns == GrpcRuns /\ Start /\ UNCHANGED <<nodeVars, processVars>>

ListenerRuns ==
    /\ GrpcRuns
    /\ ListenerStep \/ SessionManagerClose("listener")
    /\ UNCHANGED <<nodeVars, processVars>>

\* A crash; a signal before handleShutdown has asked to be notified of it.
Crash ==
    /\ main \in Starting \cup {"running"}
    /\ ProcessEnds
    /\ UNCHANGED nodeVars

Restart ==
    /\ main = "exited"
    /\ MainAt("start")
    /\ NodeRestarts
    /\ UNCHANGED <<election, grpcVars>>

-----------------------------------------------------------------------------
MainStep ==
    \/ StartEtcd \/ EtcdStarts \/ StartElection \/ StartGrpc \/ UndoEtcd
    \/ GrpcShutdown
    \/ ElectionCancels \/ ElectionClosesListeners \/ ElectionClosed \/ EtcdStop
    \/ MainReturns

ProcessNext ==
    \/ MainStep \/ HandleShutdown \/ Crash \/ Restart
    \/ EtcdStep \/ ElectionRuns \/ ElectionBroadcasts \/ StartRuns \/ ListenerRuns
    \/ \E s \in Stream : StreamRuns(s)

ProcessSpec == ProcessInit /\ [][ProcessNext]_masterVars

\* Main, and what it waits for in Close of the election, which by then has only
\* finitely many steps left: its last broadcasts and those of its listener.
ProcessRuns ==
    \/ MainStep
    \/ election \in {"stopping", "waiting"} /\ (ElectionBroadcasts \/ ListenerRuns)

\* These goroutines run.  A handler of a stream need not return.
LiveProcessSpec == ProcessSpec /\ WF_masterVars(ProcessRuns)

\* Besides, the others run, Start gets to its end, and so do the handlers of the
\* streams, whose select is fair as in WorkerSessions.
FairProcessSpec ==
    /\ LiveProcessSpec
    /\ WF_masterVars(ListenerRuns)
    /\ WF_masterVars(ElectionBroadcasts)
    /\ WF_masterVars(StartRuns)
    /\ \A s \in Stream :
         /\ WF_masterVars(StreamRuns(s) /\ Handler(s))
         /\ SF_masterVars(StreamRuns(s) /\ LoopEnds(s))
-----------------------------------------------------------------------------
(* Properties *)

\* "The same config file works for ... subsequent restarts": once Start has
\* returned nil, no later process of the node, however the earlier ones ended,
\* starts etcd as a new cluster or panics on what it finds in the directory.
RejoinsCluster == everReady => clusterState # "new" /\ main # "panicked"

\* Shutdown goes in the reverse order: while main waits for etcd to stop, and
\* after that, the election is closed, with no broadcast of its goroutines, no
\* event of its listener and no callback still under way.  (A start that fails
\* half-way does not keep this order.)
EtcdStopsLast ==
    etcd = "closed" /\ main # "undoElection" =>
      /\ election \in {"none", "closed"}
      /\ observed = "none" /\ ~ended
      /\ leaderCh = {} /\ ~ListenerBusy

\* A process told to shut down exits, whatever roles, events and streams it
\* meets on the way and even if no handler of a stream returns; unless
\* the gRPC server's Start registers its listener after Close has removed all
\* of them.
ProcessExits ==
    main = "grpcShutdown" ~> (main = "exited" \/ (election = "waiting" /\ watching))

\* "shutdown is not blocked by active watchers": the same without the
\* exception.  The code does not keep this.
ProcessAlwaysExits == main = "grpcShutdown" ~> main = "exited"

\* A start that fails half-way "tears down partially started services in reverse
\* order".  The code does not keep this.
UndoneInReverseOrder == etcd = "closed" => election \in {"none", "closed"}

\* "The same config file works for both": no crash in a first start makes the
\* next one panic.  The code does not keep this.
RestartsWithoutHelp == main # "panicked"

\* "terminates existing streams when leadership is lost": a stream that exists
\* when the server handles the event does not outlive the leadership for ever.
\* The code does not keep this.
LossEndsStreams ==
    \A s \in Stream :
      (handling = "other" /\ pc[s] = "loop" /\ ~isLeader)
        ~> (pc[s] \in {"idle", "done"} \/ isLeader)

\* "when the local node loses leadership, health switches to NOT_SERVING".  The
\* code does not keep this.
HealthFollowsLeadership ==
    (srv = "serving" /\ ~isLeader) ~> (~health \/ isLeader \/ main # "running")
=============================================================================
