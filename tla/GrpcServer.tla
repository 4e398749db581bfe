----------------------------- MODULE GrpcServer -----------------------------
(***************************************************************************)
(* LeibrixGRPCServer (internal/api/grpc/lanuch_grpc_server.go): the worker *)
(* streams of WorkerSessions, opened and closed as the leadership of the   *)
(* node (Leadership) comes and goes.                                       *)
(*                                                                         *)
(* Four goroutines meet here: Start, which reads IsLeader() and then       *)
(* registers a listener; the listener, which takes one event at a time and *)
(* handles it; Shutdown, which main calls on a signal or when Start fails; *)
(* and the handlers of the streams.  MasterProcess puts them in the life   *)
(* of a process.                                                           *)
(***************************************************************************)
EXTENDS WorkerSessions, Leadership

ASSUME ServerAssumption == Closer = {"listener", "shutdown"}

VARIABLES
    health,     \* the health service says SERVING
    srv,        \* where Start is
    handling,   \* the event handleLeaderEvent was called with
    shut        \* where Shutdown is

serverVars == <<health, srv, handling, shut>>

grpcVars == <<sessionVars, leadershipVars, serverVars>>

\* The types, and what goes with them: only Start registers the listener, and
\* Shutdown waits for its SessionManager.Close.
ServerTypeOK ==
    /\ SessionsTypeOK
    /\ LeadershipTypeOK
    /\ health \in BOOLEAN
    /\ srv \in {"new", "checked", "watching", "serving", "failed"}
    /\ handling \in Event \cup {"none"}
    /\ shut \in {"running", "unwatched", "closing", "draining", "stopped"}
    /\ watching => srv \in {"watching", "serving", "failed"}
    /\ closerPC["shutdown"] \in {"range", "zero"} => shut = "closing"

\* NewGRPCServer: both services are SERVING.
ServerInit ==
    /\ SessionsInit
    /\ LeadershipInit
    /\ health = TRUE
    /\ srv = "new"
    /\ handling = "none"
    /\ shut = "running"

-----------------------------------------------------------------------------
(* Start *)

StartChecks ==
    /\ srv = "new"
    /\ health' = isLeader
    /\ srv' = "checked"
    /\ UNCHANGED <<sessionVars, leadershipVars, handling, shut>>

registerLeadershipWatcher ==
    /\ srv = "checked"
    /\ StartWatching
    /\ srv' = "watching"
    /\ UNCHANGED <<sessionVars, health, handling, shut>>

\* The port is taken, or the server listens.
Listen ==
    /\ srv = "watching"
    /\ srv' \in {"serving", "failed"}
    /\ UNCHANGED <<sessionVars, leadershipVars, health, handling, shut>>

-----------------------------------------------------------------------------
(* The streams and the listener *)

Accepting == srv = "serving" /\ shut \notin {"draining", "stopped"}

requireLeader == isLeader

\* Only the leader opens a session for a new stream.
CoordinateWorker(s) ==
    /\ Accepting /\ requireLeader
    /\ OpenStream(s)
    /\ UNCHANGED <<leadershipVars, serverVars>>

StreamStep(s) ==
    /\ Receiver(s) \/ Handler(s) \/ SessionBreaks(s)
    /\ UNCHANGED <<leadershipVars, serverVars>>

ListenerBusy == handling # "none" \/ closerPC["listener"] \in {"range", "zero"}

\* The listener's goroutine calls OnLeaderChange, one event after the other.
OnLeaderChange ==
    /\ ~ListenerBusy
    /\ \E ev \in leaderCh : TakeEvent(ev) /\ handling' = ev
    /\ UNCHANGED <<sessionVars, health, srv, shut>>

\* handleLeaderEvent: elected, or anything else.
handleLeaderEvent ==
    /\ handling # "none"
    /\ handling' = "none"
    /\ health' = (handling = "self")
    /\ IF handling = "self" THEN UNCHANGED sessionVars ELSE StartClose("listener")
    /\ UNCHANGED <<leadershipVars, srv, shut>>

SessionManagerClose(c) ==
    /\ CloseSteps(c)
    /\ UNCHANGED <<leadershipVars, serverVars>>

-----------------------------------------------------------------------------
(* Shutdown *)

\* unregisterLeadershipWatcher does nothing before Start has registered it.
ShutdownUnwatches ==
    /\ shut = "running"
    /\ shut' = "unwatched"
    /\ IF watching THEN StopWatching ELSE UNCHANGED leadershipVars
    /\ UNCHANGED <<sessionVars, health, srv, handling>>

ShutdownCloses ==
    /\ shut = "unwatched"
    /\ shut' = "closing"
    /\ health' = FALSE
    /\ StartClose("shutdown")
    /\ UNCHANGED <<leadershipVars, srv, handling>>

\* Mutant: Shutdown does not wait for SessionManager.Close.
ShutdownDrainsEarly ==
    /\ shut = "closing"
    /\ shut' = "draining"
    /\ UNCHANGED <<sessionVars, leadershipVars, health, srv, handling>>

\* The sessions are closed, the ManagementService too: GracefulStop begins.
ShutdownDrains ==
    /\ shut = "closing" /\ closerPC["shutdown"] = "done"
    /\ shut' = "draining"
    /\ UNCHANGED <<sessionVars, leadershipVars, health, srv, handling>>

\* GracefulStop returns once every handler has returned.
ShutdownGraceful ==
    /\ shut = "draining"
    /\ \A s \in Stream : pc[s] \in {"idle", "done"}
    /\ shut' = "stopped"
    /\ UNCHANGED <<sessionVars, leadershipVars, health, srv, handling>>

\* Mutant: GracefulStop is waited for without a timeout.
ShutdownWaits == ShutdownGraceful

\* The timeout: Stop cancels the contexts of all streams.
ShutdownForced ==
    /\ shut = "draining"
    /\ shut' = "stopped"
    /\ closed' = [s \in Stream |-> closed[s] \/ pc[s] \notin {"idle", "done"}]
    /\ UNCHANGED <<handlerVars, recv, managerVars, closerVars, leadershipVars,
                   health, srv, handling>>

-----------------------------------------------------------------------------
Start == StartChecks \/ registerLeadershipWatcher \/ Listen

ListenerStep == OnLeaderChange \/ handleLeaderEvent

Shutdown ==
    \/ ShutdownUnwatches \/ ShutdownCloses \/ ShutdownDrains
    \/ ShutdownGraceful \/ ShutdownForced
=============================================================================
