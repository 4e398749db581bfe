--------------------------- MODULE WorkerSessions ---------------------------
(***************************************************************************)
(* The worker streams of one master node: the handler CoordinateWorker and *)
(* its receiving goroutine (internal/api/grpc/control_plane_service.go),   *)
(* and the SessionManager they share                                       *)
(* (internal/api/grpc/events/session_manager.go).                          *)
(*                                                                         *)
(* The manager has no lock: a map of sessions and an atomic counter are    *)
(* updated one after the other, by every stream's handler and by whoever   *)
(* closes the manager.  Each atomic operation on them is a step here.      *)
(*                                                                         *)
(* Every RegisterEvent carries the id to register, which need not be the   *)
(* one of an earlier event of the stream, and may be empty.  A session is  *)
(* named by its stream.  Events other than RegisterEvent do not touch this *)
(* state and are left out.                                                 *)
(***************************************************************************)
EXTENDS Integers, FiniteSets

CONSTANTS
    WorkerID,    \* the ids that workers register under
    Empty,       \* the empty id, which is also a workerID that is not set
    Stream,      \* the streams opened in a behaviour
    NoStream,
    ids,         \* the ids that the RegisterEvents of each stream may carry
    Repeats,     \* bound: the streams that may register again after a nonempty id
    Faulty,      \* bound: the streams whose client leaves or whose connection breaks
    Closer,      \* the goroutines that may call SessionManager.Close
    Recloses     \* bound: those that may call it again

ASSUME SessionsAssumption ==
    /\ NoStream \notin Stream
    /\ ids \in [Stream -> (SUBSET WorkerID) \ {{}}]
    /\ Repeats \subseteq Stream
    /\ Faulty \subseteq Stream
    /\ Recloses \subseteq Closer
    /\ IsFiniteSet(WorkerID)
    /\ IsFiniteSet(Stream)

VARIABLES
    pc,          \* where the stream's CoordinateWorker is
    workerID,    \* the id it registered last
    replaced,    \* the session that Register found and has still to close
    recv,        \* the receiving goroutine of the stream
    closed,      \* session.Done() of the stream's Session is closed
    sessions,    \* sm.sessions
    sessionCnt,  \* sm.sessionCnt
    closerPC,    \* where SessionManager.Close is
    toVisit      \* what its Range has still to visit

handlerVars == <<pc, workerID, replaced>>
managerVars == <<sessions, sessionCnt>>
closerVars  == <<closerPC, toVisit>>

sessionVars == <<handlerVars, recv, closed, managerVars, closerVars>>

HandlerPC == {"idle", "loop", "replacing", "counting", "returning",
              "uncounting", "closing", "done"}

SessionsTypeOK ==
    /\ pc \in [Stream -> HandlerPC]
    /\ workerID \in [Stream -> WorkerID \cup {Empty}]
    /\ replaced \in [Stream -> Stream \cup {NoStream}]
    /\ recv \in [Stream -> {"idle", "reading", "register", "eof", "ended"}]
    /\ closed \in [Stream -> BOOLEAN]
    /\ sessions \in [WorkerID -> Stream \cup {NoStream}]
    /\ sessionCnt \in Int
    /\ closerPC \in [Closer -> {"idle", "range", "zero", "done"}]
    /\ toVisit \in [Closer -> SUBSET WorkerID]

SessionsInit ==
    /\ pc = [s \in Stream |-> "idle"]
    /\ workerID = [s \in Stream |-> Empty]
    /\ replaced = [s \in Stream |-> NoStream]
    /\ recv = [s \in Stream |-> "idle"]
    /\ closed = [s \in Stream |-> FALSE]
    /\ sessions = [w \in WorkerID |-> NoStream]
    /\ sessionCnt = 0
    /\ closerPC = [c \in Closer |-> "idle"]
    /\ toVisit = [c \in Closer |-> {}]

Goto(s, label) == pc' = [pc EXCEPT ![s] = label]

-----------------------------------------------------------------------------
(* The receiving goroutine *)

\* stream.Recv returns a RegisterEvent, while the client may still send, or
\* an error; once the handler has returned it is always an error.
Recv(s) ==
    /\ recv[s] = "reading"
    /\ \E msg \in {"register", "eof"} :
         /\ msg = "register" => pc[s] # "done" /\ (workerID[s] # Empty => s \in Repeats)
         /\ msg = "eof" => pc[s] = "done" \/ s \in Faulty
         /\ recv' = [recv EXCEPT ![s] = msg]
    /\ UNCHANGED <<handlerVars, closed, managerVars, closerVars>>

\* Mutant: session.Done() is only watched together with an error.
ReceiverStopsOnError(s) ==
    /\ recv[s] = "eof" /\ closed[s]
    /\ recv' = [recv EXCEPT ![s] = "ended"]
    /\ UNCHANGED <<handlerVars, closed, managerVars, closerVars>>

\* Nobody takes the message: session.Done() ends the goroutine.
ReceiverStops(s) ==
    /\ recv[s] \in {"register", "eof"} /\ closed[s]
    /\ recv' = [recv EXCEPT ![s] = "ended"]
    /\ UNCHANGED <<handlerVars, closed, managerVars, closerVars>>

-----------------------------------------------------------------------------
(* CoordinateWorker *)

\* A new session, with its writer and its receiver.
OpenStream(s) ==
    /\ pc[s] = "idle"
    /\ Goto(s, "loop")
    /\ recv' = [recv EXCEPT ![s] = "reading"]
    /\ UNCHANGED <<workerID, replaced, closed, managerVars, closerVars>>

\* A RegisterEvent arrives: Register stores the session in the map, whatever id
\* the event carries.  Both cases of the select may be ready, so the session may
\* be closed already.
Register(s) ==
    /\ pc[s] = "loop" /\ recv[s] = "register"
    /\ recv' = [recv EXCEPT ![s] = "reading"]
    /\ \E w \in ids[s] :
         /\ workerID' = [workerID EXCEPT ![s] = w]
         /\ sessions' = [sessions EXCEPT ![w] = s]
         /\ replaced' = [replaced EXCEPT ![s] = sessions[w]]
         /\ Goto(s, IF sessions[w] = NoStream THEN "counting" ELSE "replacing")
    /\ UNCHANGED <<closed, sessionCnt, closerVars>>

\* Mutant: a session that replaces another is counted again.
CloseReplacedCounts(s) ==
    /\ pc[s] = "replacing"
    /\ closed' = [t \in Stream |-> closed[t] \/ t = replaced[s]]
    /\ replaced' = [replaced EXCEPT ![s] = NoStream]
    /\ Goto(s, "counting")
    /\ UNCHANGED <<workerID, recv, managerVars, closerVars>>

\* Mutant: the session that was replaced is left open.
CloseReplacedForgets(s) ==
    /\ pc[s] = "replacing"
    /\ replaced' = [replaced EXCEPT ![s] = NoStream]
    /\ Goto(s, "loop")
    /\ UNCHANGED <<workerID, recv, closed, managerVars, closerVars>>

\* existingSession.Close(): the worker reconnected, or registered again on the
\* same stream, which then closes its own session.
CloseReplaced(s) ==
    /\ pc[s] = "replacing"
    /\ closed' = [t \in Stream |-> closed[t] \/ t = replaced[s]]
    /\ replaced' = [replaced EXCEPT ![s] = NoStream]
    /\ Goto(s, "loop")
    /\ UNCHANGED <<workerID, recv, managerVars, closerVars>>

CountSession(s) ==
    /\ pc[s] = "counting"
    /\ sessionCnt' = sessionCnt + 1
    /\ Goto(s, "loop")
    /\ UNCHANGED <<workerID, replaced, recv, closed, sessions, closerVars>>

\* The loop ends: the session is done, the stream has an error, or the
\* receiver has closed its channel.
LoopEnds(s) ==
    /\ pc[s] = "loop"
    /\ \/ closed[s] /\ UNCHANGED recv
       \/ recv[s] = "eof" /\ recv' = [recv EXCEPT ![s] = "ended"]
       \/ recv[s] = "ended" /\ UNCHANGED recv
    /\ Goto(s, "returning")
    /\ UNCHANGED <<workerID, replaced, closed, managerVars, closerVars>>

\* Mutant: a session closed by somebody else is left in the map.
UnregisterUnlessClosed(s) ==
    LET w == workerID[s] IN
    /\ pc[s] = "returning"
    /\ IF w # Empty /\ ~closed[s] /\ sessions[w] # NoStream
       THEN sessions' = [sessions EXCEPT ![w] = NoStream] /\ Goto(s, "uncounting")
       ELSE UNCHANGED sessions /\ Goto(s, "closing")
    /\ UNCHANGED <<workerID, replaced, recv, closed, sessionCnt, closerVars>>

\* The deferred function: Unregister deletes the entry of the last id, if that
\* is not empty and whosever session the entry holds.
Unregister(s) ==
    LET w == workerID[s] IN
    /\ pc[s] = "returning"
    /\ IF w # Empty /\ sessions[w] # NoStream
       THEN sessions' = [sessions EXCEPT ![w] = NoStream] /\ Goto(s, "uncounting")
       ELSE UNCHANGED sessions /\ Goto(s, "closing")
    /\ UNCHANGED <<workerID, replaced, recv, closed, sessionCnt, closerVars>>

UncountSession(s) ==
    /\ pc[s] = "uncounting"
    /\ sessionCnt' = sessionCnt - 1
    /\ Goto(s, "closing")
    /\ UNCHANGED <<workerID, replaced, recv, closed, sessions, closerVars>>

\* ... and closes the session; the handler returns.
HandlerReturns(s) ==
    /\ pc[s] = "closing"
    /\ closed' = [closed EXCEPT ![s] = TRUE]
    /\ Goto(s, "done")
    /\ UNCHANGED <<workerID, replaced, recv, managerVars, closerVars>>

\* The session's writer fails to send and closes the session, or the context
\* of the stream, on which the session's depends, is cancelled.
SessionBreaks(s) ==
    /\ s \in Faulty
    /\ pc[s] \notin {"idle", "done"} /\ ~closed[s]
    /\ closed' = [closed EXCEPT ![s] = TRUE]
    /\ UNCHANGED <<handlerVars, recv, managerVars, closerVars>>

-----------------------------------------------------------------------------
(* SessionManager.Close *)

\* A closer is "idle" until it calls Close for the first time, and "done" after
\* every call.
StartClose(c) ==
    /\ closerPC[c] = "idle" \/ (closerPC[c] = "done" /\ c \in Recloses)
    /\ closerPC' = [closerPC EXCEPT ![c] = "range"]
    /\ toVisit' = [toVisit EXCEPT ![c] = WorkerID]
    /\ UNCHANGED <<handlerVars, recv, closed, managerVars>>

\* Mutant: the callback of Range returns false and ends the iteration.
CloseVisitsOne(c, w) ==
    /\ closerPC[c] = "range" /\ w \in toVisit[c]
    /\ toVisit' = [toVisit EXCEPT ![c] = {}]
    /\ closed' = [s \in Stream |-> closed[s] \/ s = sessions[w]]
    /\ UNCHANGED <<handlerVars, recv, managerVars, closerPC>>

\* Range visits an entry and closes the session it finds there now.
CloseVisit(c, w) ==
    /\ closerPC[c] = "range" /\ w \in toVisit[c]
    /\ toVisit' = [toVisit EXCEPT ![c] = @ \ {w}]
    /\ closed' = [s \in Stream |-> closed[s] \/ s = sessions[w]]
    /\ UNCHANGED <<handlerVars, recv, managerVars, closerPC>>

\* Mutant: the map is dropped instead of emptied.
CloseDropsMap(c) ==
    /\ closerPC[c] = "range" /\ toVisit[c] = {}
    /\ sessions' = <<>>
    /\ closerPC' = [closerPC EXCEPT ![c] = "zero"]
    /\ UNCHANGED <<handlerVars, recv, closed, sessionCnt, toVisit>>

CloseClear(c) ==
    /\ closerPC[c] = "range" /\ toVisit[c] = {}
    /\ sessions' = [w \in WorkerID |-> NoStream]
    /\ closerPC' = [closerPC EXCEPT ![c] = "zero"]
    /\ UNCHANGED <<handlerVars, recv, closed, sessionCnt, toVisit>>

CloseZero(c) ==
    /\ closerPC[c] = "zero"
    /\ sessionCnt' = 0
    /\ closerPC' = [closerPC EXCEPT ![c] = "done"]
    /\ UNCHANGED <<handlerVars, recv, closed, sessions, toVisit>>

-----------------------------------------------------------------------------
Receiver(s) == Recv(s) \/ ReceiverStops(s)

Handler(s) ==
    \/ Register(s) \/ CloseReplaced(s) \/ CountSession(s) \/ LoopEnds(s)
    \/ Unregister(s) \/ UncountSession(s) \/ HandlerReturns(s)

CloseSteps(c) == (\E w \in WorkerID : CloseVisit(c, w)) \/ CloseClear(c) \/ CloseZero(c)

SessionsNext ==
    \/ \E s \in Stream : OpenStream(s) \/ Receiver(s) \/ Handler(s) \/ SessionBreaks(s)
    \/ \E c \in Closer : StartClose(c) \/ CloseSteps(c)

SessionsSpec == SessionsInit /\ [][SessionsNext]_sessionVars

\* Goroutines run, and a select that finds session.Done() ready again and again
\* takes that case in the end: select chooses at random.  Clients and writers
\* need not do anything, except that stream.Recv fails once the handler has
\* returned.
SessionsFairness ==
    /\ \A s \in Stream :
         /\ WF_sessionVars(Handler(s))
         /\ SF_sessionVars(LoopEnds(s))
         /\ WF_sessionVars(ReceiverStops(s) \/ (pc[s] = "done" /\ Recv(s)))
    /\ \A c \in Closer : WF_sessionVars(CloseSteps(c))

FairSessionsSpec == SessionsSpec /\ SessionsFairness

-----------------------------------------------------------------------------
(* Properties *)

At(label) == {s \in Stream : pc[s] = label}

Entries == {w \in WorkerID : sessions[w] # NoStream}

\* SessionManager.Close has not been called in this process.
NeverClosed == \A c \in Closer : closerPC[c] = "idle"

\* Until the first SessionManager.Close the counter is exact up to the handlers
\* between their two updates, whoever replaces or deletes whose entry.
CountAccounting ==
    NeverClosed =>
      sessionCnt + Cardinality(At("counting"))
        = Cardinality(Entries) + Cardinality(At("uncounting"))

\* The handler has not come to Unregister yet, or is past it.
Serving == {"loop", "replacing", "counting", "returning"}
Gone == {"uncounting", "closing", "done"}

\* The only entries that outlive their stream, and that ToWorker and Broadcast go
\* on finding, are those that the deferred function does not look for: of the
\* empty id, and of an id before the last that the stream registered.
LeftoverEntries ==
    \A w \in Entries :
      /\ w \in ids[sessions[w]]
      /\ pc[sessions[w]] \in Gone => w = Empty \/ workerID[sessions[w]] # w

\* An open session of a registered worker does not get lost: until the first
\* SessionManager.Close it is in the map, or the stream that replaced it is about
\* to close it, or another stream of that worker has ended, whose Unregister may
\* have deleted the entry.
OpenSessionsFound ==
    NeverClosed =>
      \A s \in Stream :
        /\ pc[s] \in Serving
        /\ workerID[s] # Empty
        /\ ~closed[s]
        => \/ sessions[workerID[s]] = s
           \/ \E t \in Stream : replaced[t] = s
           \/ \E t \in Stream \ {s} : workerID[t] = workerID[s] /\ pc[t] \in Gone

\* Closed sessions, by a reconnect, a failed write or a loss of leadership, end
\* their handlers and leave no receiving goroutine behind: a state without such
\* remains always comes again.
ClosedSessionsEnd ==
    []<>(\A s \in Stream : closed[s] => pc[s] = "done" /\ recv[s] = "ended")

\* Stream t may still delete the entry of w.
MayDelete(t, w) == workerID[t] = w /\ w # Empty /\ pc[t] \in Serving

\* Close of c will clear the entry of w without visiting it again.
HasPassed(c, w) == closerPC[c] = "range" /\ w \notin toVisit[c]

\* SessionManager.Close closes every session that is in the map before Range
\* visits its entry, whatever registers and unregisters meanwhile, unless an
\* earlier stream of the same worker deletes the entry first, or another Close
\* clears it.
CloseReachesEntries ==
    \A c \in Closer, s \in Stream :
      (\E w \in toVisit[c] :
         /\ sessions[w] = s
         /\ \A t \in Stream \ {s} : ~MayDelete(t, w)
         /\ \A d \in Closer : ~HasPassed(d, w))
        ~> closed[s]

Quiet ==
    /\ \A s \in Stream : pc[s] \in {"idle", "loop", "done"}
    /\ \A c \in Closer : closerPC[c] \in {"idle", "done"}

\* "ActiveWorkerCount returns the number of connected workers": when nothing is
\* in flight the counter is the number of entries.  The code does not keep this
\* when SessionManager.Close runs concurrently.
CountWhenQuiet == Quiet => sessionCnt = Cardinality(Entries)

\* "If a session already exists for this worker, it closes the old one first
\* (reconnection scenario)": when nothing is in flight a worker has at most one
\* open session.  The code does not keep this: an old stream that ends deletes
\* the entry of the stream that replaced it, which the next one does not find.
OneSessionPerWorker ==
    Quiet =>
      \A s, t \in At("loop") :
        workerID[s] = workerID[t] /\ workerID[s] # Empty /\ ~closed[s] /\ ~closed[t]
          => s = t
=============================================================================
