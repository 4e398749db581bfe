--------------------------- MODULE ProcessProofs ----------------------------
(***************************************************************************)
(* Proofs about WorkerSessions and MasterProcess, for any ids, streams and *)
(* goroutines that close the manager, and any number of starts, crashes    *)
(* and shutdowns: types, which entries of the session map outlive their    *)
(* stream, that no open session gets lost, that the counter is exact up to *)
(* the updates in flight, that a node that was ready once rejoins its      *)
(* cluster, and that etcd is stopped last.                                 *)
(***************************************************************************)
EXTENDS MasterProcess, FiniteSetTheorems, TLAPS

(* The sessions *)

\* What a handler has not done yet: an unopened stream has no workerID, and only
\* a handler inside Register has a session to close.
HandlerInv ==
    \A s \in Stream :
      /\ pc[s] = "idle" => workerID[s] = Empty
      /\ pc[s] # "replacing" => replaced[s] = NoStream

\* LeftoverEntries is inductive together with the types: an entry of the last id
\* leaves the map before its handler is gone, and only the stream itself puts its
\* session into the map.
EntryInv == SessionsTypeOK /\ HandlerInv /\ LeftoverEntries

\* No session is in the map before the first stream opens.
LEMMA EntryInit == SessionsInit => EntryInv
  BY SessionsAssumption
  DEF SessionsInit, EntryInv, SessionsTypeOK, HandlerInv, LeftoverEntries, Entries, HandlerPC

\* Every step of the receivers, the handlers and SessionManager.Close keeps
\* EntryInv.
LEMMA EntryStep == EntryInv /\ [SessionsNext]_sessionVars => EntryInv'
<1> SUFFICES ASSUME EntryInv, [SessionsNext]_sessionVars
             PROVE  EntryInv'
  BY Zenon
<1> USE SessionsAssumption
<1> USE DEF EntryInv, SessionsTypeOK, HandlerInv, LeftoverEntries, Entries, Gone, HandlerPC, Goto,
            handlerVars, managerVars, closerVars
<1>1. ASSUME NEW s \in Stream, OpenStream(s) PROVE EntryInv'
  BY <1>1 DEF OpenStream
<1>2. ASSUME NEW s \in Stream, Recv(s) PROVE EntryInv'
  BY <1>2 DEF Recv
<1>3. ASSUME NEW s \in Stream, ReceiverStops(s) PROVE EntryInv'
  BY <1>3 DEF ReceiverStops
<1>4. ASSUME NEW s \in Stream, Register(s) PROVE EntryInv'
  BY <1>4 DEF Register
<1>5. ASSUME NEW s \in Stream, CloseReplaced(s) PROVE EntryInv'
  BY <1>5 DEF CloseReplaced
<1>6. ASSUME NEW s \in Stream, CountSession(s) PROVE EntryInv'
  BY <1>6 DEF CountSession
<1>7. ASSUME NEW s \in Stream, LoopEnds(s) PROVE EntryInv'
  BY <1>7 DEF LoopEnds
<1>8. ASSUME NEW s \in Stream, Unregister(s) PROVE EntryInv'
  BY <1>8 DEF Unregister
<1>9. ASSUME NEW s \in Stream, UncountSession(s) PROVE EntryInv'
  BY <1>9 DEF UncountSession
<1>10. ASSUME NEW s \in Stream, HandlerReturns(s) PROVE EntryInv'
  BY <1>10 DEF HandlerReturns
<1>11. ASSUME NEW s \in Stream, SessionBreaks(s) PROVE EntryInv'
  BY <1>11 DEF SessionBreaks
<1>12. ASSUME NEW c \in Closer, StartClose(c) PROVE EntryInv'
  BY <1>12 DEF StartClose
<1>13. ASSUME NEW c \in Closer, NEW w \in WorkerID, CloseVisit(c, w) PROVE EntryInv'
  BY <1>13 DEF CloseVisit
<1>14. ASSUME NEW c \in Closer, CloseClear(c) PROVE EntryInv'
  BY <1>14 DEF CloseClear
<1>15. ASSUME NEW c \in Closer, CloseZero(c) PROVE EntryInv'
  BY <1>15 DEF CloseZero
<1>16. CASE UNCHANGED sessionVars
  BY <1>16 DEF sessionVars
<1> QED
  BY ZenonT(30), <1>1, <1>2, <1>3, <1>4, <1>5, <1>6, <1>7, <1>8, <1>9, <1>10, <1>11, <1>12,
     <1>13, <1>14, <1>15, <1>16
  DEF SessionsNext, Receiver, Handler, CloseSteps

\* The types and the entries of the map are right in every behaviour.
LEMMA EntryInvariance == SessionsSpec => []EntryInv
  BY EntryInit, EntryStep, PTL DEF SessionsSpec

\* ToWorker and Broadcast find the session of a stream that has ended only under
\* the empty id or an id that the stream had given up for another, for any ids,
\* streams and concurrent calls of SessionManager.Close.
THEOREM OnlyGivenUpEntriesStay == SessionsSpec => []LeftoverEntries
  BY EntryInvariance, PTL DEF EntryInv

\* The variables of the session manager keep their types.
THEOREM SessionsTypeCorrect == SessionsSpec => []SessionsTypeOK
  BY EntryInvariance, PTL DEF EntryInv

-----------------------------------------------------------------------------
(* Open sessions *)

\* SessionManager.Close was not called before either, and its steps are over.
LEMMA NoCloserStep ==
    ASSUME SessionsTypeOK, NeverClosed', [SessionsNext]_sessionVars
    PROVE  /\ NeverClosed
           /\ \/ \E s \in Stream :
                  OpenStream(s) \/ Receiver(s) \/ Handler(s) \/ SessionBreaks(s)
              \/ UNCHANGED sessionVars
<1> USE DEF SessionsTypeOK, NeverClosed
<1>1. ASSUME NEW c \in Closer, StartClose(c) PROVE FALSE
  BY <1>1, Zenon DEF StartClose
<1>2. ASSUME NEW c \in Closer, CloseSteps(c) PROVE FALSE
  BY <1>2, Zenon DEF CloseSteps, CloseVisit, CloseClear, CloseZero
<1>3. \/ \E s \in Stream : OpenStream(s) \/ Receiver(s) \/ Handler(s) \/ SessionBreaks(s)
      \/ UNCHANGED sessionVars
  BY <1>1, <1>2, Zenon DEF SessionsNext
<1>4. closerPC' = closerPC
  BY <1>3, ZenonT(30)
  DEF OpenStream, Receiver, Recv, ReceiverStops, Handler, Register, CloseReplaced, CountSession,
      LoopEnds, Unregister, UncountSession, HandlerReturns, SessionBreaks, closerVars, sessionVars
<1> QED
  BY <1>3, <1>4, Zenon

\* A session that is open and not in the map is about to be closed by the stream
\* that replaced it, or lost its entry to another stream of the worker: Register
\* and Unregister are the only operations that take an entry away.
LEMMA FoundStep ==
    ASSUME EntryInv, OpenSessionsFound, [SessionsNext]_sessionVars
    PROVE  OpenSessionsFound'
<1> SUFFICES ASSUME NeverClosed', NEW r \in Stream,
                    (pc[r] \in Serving /\ workerID[r] # Empty /\ ~closed[r])'
             PROVE  \/ sessions'[workerID'[r]] = r
                    \/ \E t \in Stream : replaced'[t] = r
                    \/ \E t \in Stream \ {r} : workerID'[t] = workerID'[r] /\ pc'[t] \in Gone
  BY Zenon DEF OpenSessionsFound
<1>0. NeverClosed /\ SessionsTypeOK /\ HandlerInv
  BY NoCloserStep, Zenon DEF EntryInv
<1> DEFINE Found == \/ sessions[workerID[r]] = r
                    \/ \E t \in Stream : replaced[t] = r
                    \/ \E t \in Stream \ {r} : workerID[t] = workerID[r] /\ pc[t] \in Gone
<1>i. pc[r] \in Serving /\ workerID[r] # Empty /\ ~closed[r] => Found
  BY <1>0, Zenon DEF OpenSessionsFound
<1> USE SessionsAssumption, <1>0
<1> USE DEF SessionsTypeOK, HandlerInv, HandlerPC, Serving, Gone, Goto,
            handlerVars, managerVars, closerVars
<1>1. ASSUME NEW s \in Stream, OpenStream(s) PROVE Found'
  BY <1>1, <1>i DEF OpenStream
<1>2. ASSUME NEW s \in Stream, Receiver(s) \/ SessionBreaks(s) PROVE Found'
  BY <1>2, <1>i DEF Receiver, Recv, ReceiverStops, SessionBreaks
<1>4. ASSUME NEW s \in Stream, Register(s) PROVE Found'
  BY <1>4, <1>i DEF Register
<1>5. ASSUME NEW s \in Stream, CloseReplaced(s) PROVE Found'
  BY <1>5, <1>i, Zenon DEF CloseReplaced
<1>6. ASSUME NEW s \in Stream, CountSession(s) PROVE Found'
  BY <1>6, <1>i DEF CountSession
<1>7. ASSUME NEW s \in Stream, LoopEnds(s) PROVE Found'
  BY <1>7, <1>i DEF LoopEnds
<1>8. ASSUME NEW s \in Stream, Unregister(s) PROVE Found'
  BY <1>8, <1>i DEF Unregister
<1>9. ASSUME NEW s \in Stream, UncountSession(s) PROVE Found'
  BY <1>9, <1>i DEF UncountSession
<1>10. ASSUME NEW s \in Stream, HandlerReturns(s) PROVE Found'
  BY <1>10, <1>i DEF HandlerReturns
<1>11. CASE UNCHANGED sessionVars
  BY <1>11, <1>i, Zenon DEF sessionVars
<1> QED
  BY ZenonT(30), <1>1, <1>2, <1>4, <1>5, <1>6, <1>7, <1>8, <1>9, <1>10, <1>11, NoCloserStep
  DEF Handler

\* No stream is open.
LEMMA FoundInit == SessionsInit => OpenSessionsFound
  BY Zenon DEF SessionsInit, OpenSessionsFound, Serving

\* An open session of a registered worker is in the map or about to be closed, or
\* another stream of the worker has ended, for any ids and streams, until
\* SessionManager.Close is called.
THEOREM OpenSessionsAreFound == SessionsSpec => []OpenSessionsFound
  BY EntryInvariance, FoundInit, FoundStep, PTL DEF SessionsSpec

-----------------------------------------------------------------------------
(* The counter *)

\* The sets that the accounting counts are finite.
LEMMA CountedFinite ==
    ASSUME SessionsTypeOK
    PROVE  /\ IsFiniteSet(Entries)
           /\ \A label : IsFiniteSet(At(label))
<1>1. Entries \subseteq WorkerID /\ \A label : At(label) \subseteq Stream
  BY Zenon DEF Entries, At
<1> QED
  BY <1>1, FS_Subset, SessionsAssumption, Zenon

\* What the accounting says about one state, as a predicate of its parts.
Balance == sessionCnt + Cardinality(At("counting"))
             = Cardinality(Entries) + Cardinality(At("uncounting"))

\* Without SessionManager.Close each step moves both sides of the balance alike:
\* an entry that appears is being counted, one that disappears uncounted.
LEMMA BalanceStep ==
    ASSUME EntryInv, EntryInv', Balance, NeverClosed', [SessionsNext]_sessionVars
    PROVE  Balance'
<1> DEFINE C == At("counting")
<1> DEFINE U == At("uncounting")
<1>t. /\ SessionsTypeOK /\ SessionsTypeOK'
      /\ IsFiniteSet(Entries) /\ IsFiniteSet(C) /\ IsFiniteSet(U)
      /\ IsFiniteSet(Entries') /\ IsFiniteSet(C') /\ IsFiniteSet(U')
  <2>1. SessionsTypeOK /\ SessionsTypeOK'
    BY Zenon DEF EntryInv
  <2>2. IsFiniteSet(Entries) /\ IsFiniteSet(C) /\ IsFiniteSet(U)
    BY <2>1, CountedFinite, Zenon
  <2>3. Entries' \subseteq WorkerID /\ C' \subseteq Stream /\ U' \subseteq Stream
    BY Zenon DEF Entries, At
  <2> QED
    BY <2>1, <2>2, <2>3, FS_Subset, SessionsAssumption, Zenon
<1>n. /\ Cardinality(Entries) \in Nat /\ Cardinality(C) \in Nat /\ Cardinality(U) \in Nat
      /\ sessionCnt \in Int /\ sessionCnt' \in Int
  BY <1>t, FS_CardinalityType, Zenon DEF SessionsTypeOK
<1>b. sessionCnt + Cardinality(C) = Cardinality(Entries) + Cardinality(U)
  BY Zenon DEF Balance
<1>0. ASSUME Entries' = Entries, C' = C, U' = U, sessionCnt' = sessionCnt
      PROVE  Balance'
  BY <1>0, <1>b, Zenon DEF Balance
<1>1. ASSUME NEW s \in Stream, Register(s) PROVE Balance'
  <2> PICK w \in ids[s] :
         /\ sessions' = [sessions EXCEPT ![w] = s]
         /\ Goto(s, IF sessions[w] = NoStream THEN "counting" ELSE "replacing")
    BY <1>1, Zenon DEF Register
  <2>1. w \in WorkerID /\ s \in Stream /\ s # NoStream /\ sessionCnt' = sessionCnt
    BY <1>1, SessionsAssumption DEF Register
  <2>2. U' = U
    BY <1>1, <1>t DEF Register, Goto, At, SessionsTypeOK, HandlerPC
  <2>3. CASE sessions[w] = NoStream
    <3>1. Entries' = Entries \cup {w} /\ w \notin Entries
      BY <1>1, <1>t, <2>1, <2>3 DEF Register, Entries, SessionsTypeOK
    <3>2. C' = C \cup {s} /\ s \notin C
      BY <1>1, <1>t, <2>3 DEF Register, Goto, At, SessionsTypeOK, HandlerPC
    <3>3. /\ Cardinality(Entries') = Cardinality(Entries) + 1
          /\ Cardinality(C') = Cardinality(C) + 1
      BY <3>1, <3>2, <1>t, FS_AddElement, Zenon
    <3> QED
      BY <3>3, <2>1, <2>2, <1>b, <1>n DEF Balance
  <2>4. CASE sessions[w] # NoStream
    <3>1. Entries' = Entries
      BY <1>1, <1>t, <2>1, <2>4, Zenon DEF Register, Entries, SessionsTypeOK
    <3>2. C' = C
      BY <1>1, <1>t, <2>4, Zenon DEF Register, Goto, At, SessionsTypeOK, HandlerPC
    <3> QED
      BY <3>1, <3>2, <2>1, <2>2, <1>0, Zenon
  <2> QED
    BY <2>3, <2>4, Zenon
<1>2. ASSUME NEW s \in Stream, CountSession(s) PROVE Balance'
  <2>1. Entries' = Entries /\ sessionCnt' = sessionCnt + 1
    BY <1>2, Zenon DEF CountSession, Entries
  <2>2. U' = U /\ C' = C \ {s} /\ s \in C
    BY <1>2, <1>t DEF CountSession, Goto, At, SessionsTypeOK, HandlerPC
  <2>3. Cardinality(C') = Cardinality(C) - 1
    BY <2>2, <1>t, FS_RemoveElement, Zenon
  <2> QED
    BY <2>1, <2>2, <2>3, <1>b, <1>n DEF Balance
<1>3. ASSUME NEW s \in Stream, Unregister(s) PROVE Balance'
  <2> DEFINE w == workerID[s]
  <2>1. sessionCnt' = sessionCnt /\ (w = Empty \/ w \in WorkerID)
    BY <1>3, <1>t, Zenon DEF Unregister, SessionsTypeOK
  <2>2. C' = C
    BY <1>3, <1>t DEF Unregister, Goto, At, SessionsTypeOK, HandlerPC
  <2>3. CASE w # Empty /\ sessions[w] # NoStream
    <3>1. Entries' = Entries \ {w} /\ w \in Entries
      BY <1>3, <1>t, <2>1, <2>3 DEF Unregister, Entries, SessionsTypeOK
    <3>2. U' = U \cup {s} /\ s \notin U
      BY <1>3, <1>t, <2>3 DEF Unregister, Goto, At, SessionsTypeOK, HandlerPC
    <3>3. /\ Cardinality(Entries') = Cardinality(Entries) - 1
          /\ Cardinality(U') = Cardinality(U) + 1
      BY <3>1, <3>2, <1>t, FS_AddElement, FS_RemoveElement, SMTT(20)
    <3> QED
      BY <3>3, <2>1, <2>2, <1>b, <1>n DEF Balance
  <2>4. CASE ~(w # Empty /\ sessions[w] # NoStream)
    <3>1. Entries' = Entries
      BY <1>3, <2>4, Zenon DEF Unregister, Entries
    <3>2. U' = U
      BY <1>3, <1>t, <2>4, Zenon DEF Unregister, Goto, At, SessionsTypeOK, HandlerPC
    <3> QED
      BY <3>1, <3>2, <2>1, <2>2, <1>0, Zenon
  <2> QED
    BY <2>3, <2>4, Zenon
<1>4. ASSUME NEW s \in Stream, UncountSession(s) PROVE Balance'
  <2>1. Entries' = Entries /\ sessionCnt' = sessionCnt - 1
    BY <1>4, Zenon DEF UncountSession, Entries
  <2>2. C' = C /\ U' = U \ {s} /\ s \in U
    BY <1>4, <1>t DEF UncountSession, Goto, At, SessionsTypeOK, HandlerPC
  <2>3. Cardinality(U') = Cardinality(U) - 1
    BY <2>2, <1>t, FS_RemoveElement, Zenon
  <2> QED
    BY <2>1, <2>2, <2>3, <1>b, <1>n DEF Balance
<1>5. ASSUME NEW s \in Stream,
             OpenStream(s) \/ CloseReplaced(s) \/ LoopEnds(s) \/ HandlerReturns(s)
      PROVE  Balance'
  <2>1. C' = C /\ U' = U
    BY <1>5, <1>t DEF OpenStream, CloseReplaced, LoopEnds, HandlerReturns, Goto, At,
                      SessionsTypeOK, HandlerPC
  <2>2. Entries' = Entries /\ sessionCnt' = sessionCnt
    BY <1>5, Zenon DEF OpenStream, CloseReplaced, LoopEnds, HandlerReturns, Entries, managerVars
  <2> QED
    BY <2>1, <2>2, <1>0, Zenon
<1>6. ASSUME NEW s \in Stream, Receiver(s) \/ SessionBreaks(s) PROVE Balance'
  <2>1. UNCHANGED <<pc, sessions, sessionCnt>>
    BY <1>6, Zenon DEF Receiver, Recv, ReceiverStops, SessionBreaks, handlerVars, managerVars
  <2> QED
    BY <2>1, <1>0, Zenon DEF At, Entries
<1>7. CASE UNCHANGED sessionVars
  <2>1. UNCHANGED <<pc, sessions, sessionCnt>>
    BY <1>7, Zenon DEF sessionVars, handlerVars, managerVars
  <2> QED
    BY <2>1, <1>0, Zenon DEF At, Entries
<1> QED
  BY <1>1, <1>2, <1>3, <1>4, <1>5, <1>6, <1>7, <1>t, NoCloserStep, Zenon DEF Handler

\* Balance holds until SessionManager.Close is called.
LEMMA CountStep ==
    ASSUME EntryInv, EntryInv', CountAccounting, [SessionsNext]_sessionVars
    PROVE  CountAccounting'
<1>1. NeverClosed' => NeverClosed
  BY NoCloserStep, Zenon DEF EntryInv
<1> QED
  BY <1>1, BalanceStep, Zenon DEF CountAccounting, Balance

\* Nothing is counted when the process starts.
LEMMA CountInit == SessionsInit => CountAccounting
<1> SUFFICES ASSUME SessionsInit PROVE Balance
  BY Zenon DEF CountAccounting, Balance
<1>1. Entries = {} /\ At("counting") = {} /\ At("uncounting") = {} /\ sessionCnt = 0
  BY Zenon DEF SessionsInit, Entries, At
<1> QED
  BY <1>1, FS_EmptySet, Zenon DEF Balance

\* Until SessionManager.Close is called, ActiveWorkerCount is exact up to the
\* handlers between their update of the map and that of the counter, for any
\* number of ids and streams, also where streams delete each other's entries.
THEOREM CounterIsExact == SessionsSpec => []CountAccounting
  BY EntryInvariance, CountInit, CountStep, PTL DEF SessionsSpec

-----------------------------------------------------------------------------
(* The process *)

\* etcd is ready only with its WAL on the disk, and the WAL stays: whoever was
\* ready once finds it.
DiskInv ==
    /\ etcd = "ready" => disk = "wal"
    /\ everReady => disk = "wal" /\ clusterState # "new" /\ main # "panicked"

\* No broadcast of the election is due.
NothingDue == observed = "none" /\ ~ended

\* Nothing of the election is under way: no broadcast is due, no event waits and
\* the listener is not in a callback.
ElectionQuiet == NothingDue /\ leaderCh = {} /\ ~ListenerBusy

\* The election exists between its start and its Close, and is quiet without it.
\* etcd is closed only after that, or while a partial start is undone.
OrderInv ==
    /\ main \in {"start", "etcd", "election", "exited", "panicked"} => election = "none"
    /\ main \in {"etcdStop", "stopped", "undone"} => election \in {"none", "closed"}
    /\ election \in {"none", "closed"} => ElectionQuiet
    /\ election = "waiting" => NothingDue
    /\ etcd = "closed" => main \in {"undoElection", "undone", "stopped", "exited"}

-----------------------------------------------------------------------------
(* What a step of the process does to the parts it is composed of *)

\* The end of a process leaves its sessions and its view of the leadership as a
\* new one finds them.
LEMMA EndsClean ==
    ASSUME ProcessEnds
    PROVE  /\ SessionsInit' /\ LeadershipInit'
           /\ main' = "exited" /\ election' = "none"
           /\ health' = TRUE /\ srv' = "new" /\ handling' = "none" /\ shut' = "running"
  BY Zenon DEF ProcessEnds, ServicesEnd, MainAt, Reset, SessionsInit, LeadershipInit

\* What main does by itself leaves the gRPC server alone, or ends the process.
LEMMA MainSteps ==
    ASSUME \/ StartEtcd \/ EtcdStarts \/ StartElection \/ StartGrpc \/ UndoEtcd
           \/ ElectionClosed \/ EtcdStop \/ MainReturns
           \/ HandleShutdown \/ Crash \/ Restart \/ EtcdStep
    PROVE  UNCHANGED grpcVars \/ ProcessEnds
  BY Zenon DEF StartEtcd, EtcdStarts, StartElection, StartGrpc, UndoEtcd, ElectionClosed, EtcdStop,
         MainReturns, HandleShutdown, Crash, Restart, EtcdStep

\* The goroutines of the gRPC server: Start, the listener, Shutdown and the
\* handlers of the streams.
ServerStep ==
    \/ Start \/ ListenerStep \/ Shutdown
    \/ \E c \in Closer : SessionManagerClose(c)
    \/ \E s \in Stream : CoordinateWorker(s) \/ StreamStep(s)

\* The steps of the election that the gRPC server may see.
ElectionStep ==
    \/ RoleChanges \/ BroadcastObserved \/ BroadcastEnded \/ StopWatching
    \/ UNCHANGED leadershipVars

\* Every step of the process is one of its main goroutine alone, of the gRPC
\* server or of the election, or the end of the process.
LEMMA ProcessSteps ==
    ASSUME [ProcessNext]_masterVars
    PROVE  \/ UNCHANGED grpcVars
           \/ ProcessEnds
           \/ ServerStep
           \/ ElectionStep /\ UNCHANGED <<sessionVars, serverVars>>
<1>1. CASE GrpcShutdown
  BY <1>1, ServerAssumption, Zenon DEF GrpcShutdown, ServerStep
<1>2. CASE ElectionCancels \/ ElectionClosesListeners \/ ElectionRuns \/ ElectionBroadcasts
  BY <1>2, Zenon DEF ElectionCancels, ElectionClosesListeners, ElectionRuns, ElectionBroadcasts,
              ElectionStep
<1>4. CASE StartRuns \/ ListenerRuns \/ \E s \in Stream : StreamRuns(s)
  BY <1>4, ServerAssumption, Zenon DEF StartRuns, ListenerRuns, StreamRuns, ServerStep
<1>5. CASE UNCHANGED masterVars
  BY <1>5, Zenon DEF masterVars
<1> QED
  BY <1>1, <1>2, <1>4, <1>5, MainSteps, Zenon DEF ProcessNext, MainStep

\* The gRPC server touches its sessions with the operations of WorkerSessions,
\* except that a forced stop cancels all streams at once.
LEMMA ServerUsesSessions ==
    ASSUME ServerStep
    PROVE  SessionsNext \/ UNCHANGED sessionVars \/ ShutdownForced
<1>1. CASE Start
  BY <1>1, Zenon DEF Start, StartChecks, registerLeadershipWatcher, Listen
<1>2. CASE ListenerStep
  BY <1>2, ServerAssumption, Zenon DEF ListenerStep, OnLeaderChange, handleLeaderEvent, SessionsNext
<1>3. CASE Shutdown
  BY <1>3, ServerAssumption, Zenon
  DEF Shutdown, ShutdownUnwatches, ShutdownCloses, ShutdownDrains, ShutdownGraceful,
      SessionsNext
<1>4. ASSUME NEW c \in Closer, SessionManagerClose(c) PROVE SessionsNext
  BY <1>4, Zenon DEF SessionManagerClose, SessionsNext
<1>5. ASSUME NEW s \in Stream, CoordinateWorker(s) \/ StreamStep(s) PROVE SessionsNext
  BY <1>5, Zenon DEF CoordinateWorker, StreamStep, SessionsNext
<1> QED
  BY <1>1, <1>2, <1>3, <1>4, <1>5, Zenon DEF ServerStep

-----------------------------------------------------------------------------
(* The sessions *)

\* What is proved of the sessions, together.
SessionsInv == EntryInv /\ OpenSessionsFound /\ CountAccounting

\* A new process has no sessions.
LEMMA SessionsInvInit == SessionsInit => SessionsInv
  BY EntryInit, FoundInit, CountInit, Zenon DEF SessionsInv

\* The same of the process that starts next.
LEMMA SessionsInvReset == SessionsInit' => SessionsInv'
  BY SessionsInvInit, PTL

\* A forced stop only closes sessions.
LEMMA ForcedStep ==
    ASSUME SessionsInv, ShutdownForced
    PROVE  SessionsInv'
<1>1. UNCHANGED <<pc, workerID, replaced, recv, sessions, sessionCnt, closerPC, toVisit>>
  BY Zenon DEF ShutdownForced, handlerVars, managerVars, closerVars
<1>2. closed' \in [Stream -> BOOLEAN] /\ \A s \in Stream : closed[s] => closed'[s]
  BY Zenon DEF ShutdownForced
<1>3. EntryInv'
  BY <1>1, <1>2, Zenon
  DEF SessionsInv, EntryInv, SessionsTypeOK, HandlerInv, LeftoverEntries, Entries
<1>4. OpenSessionsFound'
  BY <1>1, <1>2, Zenon DEF SessionsInv, OpenSessionsFound, NeverClosed
<1>5. CountAccounting'
  BY <1>1, Zenon DEF SessionsInv, CountAccounting, NeverClosed, Entries, At
<1> QED
  BY <1>3, <1>4, <1>5, Zenon DEF SessionsInv

\* Every step of the process keeps what is proved of the sessions.
LEMMA ProcessSessionsStep ==
    ASSUME SessionsInv, [ProcessNext]_masterVars
    PROVE  SessionsInv'
<1>1. CASE [SessionsNext]_sessionVars
  BY <1>1, EntryStep, FoundStep, CountStep, Zenon DEF SessionsInv
<1>2. CASE SessionsInit'
  BY <1>2, SessionsInvReset, Zenon
<1>3. CASE ShutdownForced
  BY <1>3, ForcedStep, Zenon
<1> QED
  BY <1>1, <1>2, <1>3, ProcessSteps, EndsClean, ServerUsesSessions, Zenon DEF grpcVars

-----------------------------------------------------------------------------
(* The types *)

\* The part of ServerTypeOK that is not about the sessions alone.
FrontTypeOK ==
    /\ LeadershipTypeOK
    /\ health \in BOOLEAN
    /\ srv \in {"new", "checked", "watching", "serving", "failed"}
    /\ handling \in Event \cup {"none"}
    /\ shut \in {"running", "unwatched", "closing", "draining", "stopped"}
    /\ watching => srv \in {"watching", "serving", "failed"}
    /\ closerPC["shutdown"] \in {"range", "zero"} => shut = "closing"

\* The steps of the gRPC server keep its types: the listener is registered by
\* Start alone, and Shutdown goes on only when its SessionManager.Close is over.
LEMMA FrontServerStep ==
    ASSUME SessionsTypeOK, FrontTypeOK, ServerStep
    PROVE  FrontTypeOK'
<1> USE DEF FrontTypeOK, LeadershipTypeOK, Event
<1>1. CASE StartChecks
  BY <1>1, Zenon DEF StartChecks, sessionVars, closerVars, leadershipVars
<1>2. CASE registerLeadershipWatcher
  BY <1>2 DEF registerLeadershipWatcher, StartWatching, sessionVars, closerVars
<1>3. CASE Listen
  BY <1>3 DEF Listen, sessionVars, closerVars, leadershipVars
<1>4. CASE OnLeaderChange
  BY <1>4 DEF OnLeaderChange, TakeEvent, sessionVars, closerVars
<1>5. CASE handleLeaderEvent
  BY <1>5, ServerAssumption
  DEF handleLeaderEvent, StartClose, SessionsTypeOK, sessionVars, closerVars, leadershipVars
<1>6. CASE ShutdownUnwatches
  BY <1>6, ZenonT(30) DEF ShutdownUnwatches, StopWatching, sessionVars, closerVars, leadershipVars
<1>7. CASE ShutdownCloses
  BY <1>7, Zenon DEF ShutdownCloses, leadershipVars
<1>8. CASE ShutdownDrains \/ ShutdownGraceful
  <2>1. UNCHANGED <<leadershipVars, health, srv, handling, closerPC>>
    BY <1>8, Zenon DEF ShutdownDrains, ShutdownGraceful, sessionVars, closerVars
  <2>2. closerPC["shutdown"] \notin {"range", "zero"} /\ shut' \in {"draining", "stopped"}
    BY <1>8, Zenon DEF ShutdownDrains, ShutdownGraceful
  <2> QED
    BY <2>1, <2>2 DEF leadershipVars
<1>9. CASE ShutdownForced
  BY <1>9 DEF ShutdownForced, closerVars, leadershipVars
<1>10. ASSUME NEW c \in Closer, SessionManagerClose(c) PROVE FrontTypeOK'
  <2>1. UNCHANGED <<leadershipVars, serverVars>> /\ CloseSteps(c)
    BY <1>10, Zenon DEF SessionManagerClose
  <2>2. closerPC'["shutdown"] \in {"range", "zero"} => shut' = "closing"
    BY <2>1, ServerAssumption, Zenon
    DEF CloseSteps, CloseVisit, CloseClear, CloseZero, SessionsTypeOK, serverVars
  <2> QED
    BY <2>1, <2>2 DEF leadershipVars, serverVars
<1>11. ASSUME NEW s \in Stream, CoordinateWorker(s) PROVE FrontTypeOK'
  BY <1>11 DEF CoordinateWorker, OpenStream, closerVars, leadershipVars, serverVars
<1>12. ASSUME NEW s \in Stream, StreamStep(s) PROVE FrontTypeOK'
  <2>1. UNCHANGED <<leadershipVars, serverVars, closerPC>>
    BY <1>12, Zenon DEF StreamStep, Receiver, Recv, ReceiverStops, Handler, Register, CloseReplaced,
                 CountSession, LoopEnds, Unregister, UncountSession, HandlerReturns,
                 SessionBreaks, closerVars
  <2> QED
    BY <2>1 DEF leadershipVars, serverVars
<1> QED
  BY <1>1, <1>2, <1>3, <1>4, <1>5, <1>6, <1>7, <1>8, <1>9, <1>10, <1>11, <1>12, Zenon
  DEF ServerStep, Start, ListenerStep, Shutdown

\* The types of the gRPC server and of its view of the leadership.
LEMMA FrontStep ==
    ASSUME SessionsTypeOK, FrontTypeOK, [ProcessNext]_masterVars
    PROVE  FrontTypeOK'
<1>1. CASE UNCHANGED grpcVars
  BY <1>1 DEF grpcVars, FrontTypeOK, LeadershipTypeOK, leadershipVars, serverVars, sessionVars,
              closerVars
<1>2. CASE ProcessEnds
  BY <1>2, EndsClean, ServerAssumption, Zenon
  DEF FrontTypeOK, LeadershipTypeOK, LeadershipInit, SessionsInit
<1>3. CASE ServerStep
  BY <1>3, FrontServerStep, Zenon
<1>4. CASE ElectionStep /\ UNCHANGED <<sessionVars, serverVars>>
  <2>1. LeadershipTypeOK' /\ (watching' = watching \/ watching' = FALSE)
    <3> USE DEF LeadershipTypeOK, FrontTypeOK, Event
    <3>1. CASE RoleChanges
      BY <3>1, Zenon DEF RoleChanges
    <3>2. CASE BroadcastObserved \/ BroadcastEnded
      BY <3>2, Zenon DEF BroadcastObserved, BroadcastEnded, Publish
    <3>3. CASE StopWatching \/ UNCHANGED leadershipVars
      BY <3>3, Zenon DEF StopWatching, leadershipVars
    <3> QED
      BY <1>4, <3>1, <3>2, <3>3, Zenon DEF ElectionStep
  <2>2. UNCHANGED <<health, srv, handling, shut, closerPC>>
    BY <1>4, Zenon DEF sessionVars, serverVars, closerVars
  <2>3. (watching => srv \in {"watching", "serving", "failed"})'
    <3>1. CASE watching' = watching
      BY <3>1, <2>2, Zenon DEF FrontTypeOK
    <3>2. CASE watching' = FALSE
      BY <3>2, Zenon
    <3> QED
      BY <2>1, <3>1, <3>2, Zenon
  <2> QED
    BY <2>1, <2>2, <2>3, Zenon DEF FrontTypeOK
<1> QED
  BY <1>1, <1>2, <1>3, <1>4, ProcessSteps, Zenon

\* Where main and the election are, and what they find of etcd.
MainTypeOK ==
    /\ NodeTypeOK
    /\ main \in MainPC
    /\ election \in {"none", "started", "stopping", "waiting", "closed"}

\* The steps that neither main nor the embedded etcd take.
LEMMA OtherSteps ==
    ASSUME \/ ElectionRuns \/ ElectionBroadcasts \/ StartRuns \/ ListenerRuns
           \/ \E s \in Stream : StreamRuns(s)
           \/ UNCHANGED masterVars
    PROVE  UNCHANGED <<nodeVars, processVars>>
  BY ZenonT(30) DEF ElectionRuns, ElectionBroadcasts, StartRuns, ListenerRuns, StreamRuns, masterVars

\* Main and the embedded etcd keep the invariant about the data directory.
LEMMA DiskStep ==
    ASSUME MainTypeOK, DiskInv, [ProcessNext]_masterVars
    PROVE  MainTypeOK' /\ DiskInv'
<1> USE DEF MainTypeOK, NodeTypeOK, DiskInv, MainPC, Starting, Disk, MainAt, nodeVars, processVars
<1>1. CASE StartEtcd
  BY <1>1 DEF StartEtcd, NodeStarts, detectClusterState
<1>2. CASE EtcdStarts
  <2>1. CASE NodeStarted /\ MainAt("election") /\ UNCHANGED election
    BY <2>1, Zenon DEF NodeStarted
  <2>2. CASE NodeStartFails /\ MainAt("undone") /\ UNCHANGED election
    BY <2>2, Zenon DEF NodeStartFails
  <2> QED
    BY <1>2, <2>1, <2>2, Zenon DEF EtcdStarts
<1>3. CASE EtcdStep
  BY <1>3 DEF EtcdStep, EtcdWrites, EtcdReady
<1>4. CASE StartElection
  BY <1>4 DEF StartElection
<1>5. CASE StartGrpc \/ HandleShutdown
  BY <1>5 DEF StartGrpc, HandleShutdown
<1>6. CASE UndoEtcd \/ EtcdStop
  BY <1>6 DEF UndoEtcd, EtcdStop, NodeStops
<1>7. CASE GrpcShutdown
  BY <1>7 DEF GrpcShutdown
<1>8. CASE ElectionCancels \/ ElectionClosesListeners
  BY <1>8 DEF ElectionCancels, ElectionClosesListeners
<1>9. CASE ElectionClosed
  BY <1>9 DEF ElectionClosed
<1>10. CASE Crash \/ MainReturns
  <2>1. main' = "exited" /\ election' = "none" /\ UNCHANGED nodeVars
    BY <1>10, EndsClean, Zenon DEF Crash, MainReturns
  <2> QED
    BY <2>1, Zenon
<1>11. CASE Restart
  BY <1>11, Zenon DEF Restart, NodeRestarts
<1>12. CASE UNCHANGED <<nodeVars, processVars>>
  BY <1>12
<1> QED
  BY <1>1, <1>2, <1>3, <1>4, <1>5, <1>6, <1>7, <1>8, <1>9, <1>10, <1>11, <1>12, OtherSteps, ZenonT(30)
  DEF ProcessNext, MainStep

\* The goroutines of the election and the listener that it has add nothing to
\* an election that is not there or closed.
LEMMA QuietStep ==
    ASSUME SessionsTypeOK, ElectionQuiet, ServerStep
    PROVE  ElectionQuiet'
<1>u. ASSUME UNCHANGED <<observed, ended, leaderCh, handling, closerPC>> PROVE ElectionQuiet'
  BY <1>u, Zenon DEF ElectionQuiet, NothingDue, ListenerBusy
<1>1. CASE Start
  <2>1. UNCHANGED <<observed, ended, leaderCh, handling, closerPC>>
    BY <1>1, Zenon
    DEF Start, StartChecks, registerLeadershipWatcher, Listen, StartWatching, sessionVars,
        closerVars, leadershipVars
  <2> QED
    BY <1>u, <2>1, Zenon
<1>2. CASE ListenerStep
  BY <1>2, Zenon DEF ElectionQuiet, NothingDue, ListenerBusy, ListenerStep, OnLeaderChange, handleLeaderEvent
<1>3. CASE Shutdown
  <2>1. CASE ShutdownUnwatches
    <3>1. UNCHANGED <<observed, ended, leaderCh, handling, closerPC>>
      BY <2>1, Zenon
      DEF ShutdownUnwatches, StopWatching, ElectionQuiet, sessionVars, closerVars, leadershipVars
    <3> QED
      BY <1>u, <3>1, Zenon
  <2>2. CASE ShutdownCloses
    <3>1. UNCHANGED <<observed, ended, leaderCh, handling>>
      BY <2>2, Zenon DEF ShutdownCloses, leadershipVars
    <3>2. closerPC'["listener"] = closerPC["listener"]
      BY <2>2, ServerAssumption, Zenon DEF ShutdownCloses, StartClose, SessionsTypeOK
    <3> QED
      BY <3>1, <3>2, Zenon DEF ElectionQuiet, NothingDue, ListenerBusy
  <2>3. CASE ShutdownDrains \/ ShutdownGraceful \/ ShutdownForced
    <3>1. UNCHANGED <<observed, ended, leaderCh, handling, closerPC>>
      BY <2>3, Zenon
      DEF ShutdownDrains, ShutdownGraceful, ShutdownForced, sessionVars, closerVars, leadershipVars
    <3> QED
      BY <1>u, <3>1, Zenon
  <2> QED
    BY <1>3, <2>1, <2>2, <2>3, Zenon DEF Shutdown
<1>4. ASSUME NEW c \in Closer, SessionManagerClose(c) PROVE ElectionQuiet'
  <2>1. UNCHANGED <<observed, ended, leaderCh, handling>> /\ CloseSteps(c)
    BY <1>4, Zenon DEF SessionManagerClose, leadershipVars, serverVars
  <2>2. closerPC["listener"] \notin {"range", "zero"}
    BY Zenon DEF ElectionQuiet, NothingDue, ListenerBusy
  <2>3. closerPC'["listener"] = closerPC["listener"]
    BY <2>1, <2>2, ServerAssumption, Zenon
    DEF CloseSteps, CloseVisit, CloseClear, CloseZero, SessionsTypeOK
  <2> QED
    BY <2>1, <2>3, Zenon DEF ElectionQuiet, NothingDue, ListenerBusy
<1>5. ASSUME NEW s \in Stream, CoordinateWorker(s) \/ StreamStep(s) PROVE ElectionQuiet'
  <2>1. UNCHANGED <<leadershipVars, serverVars, closerPC>>
    BY <1>5, Zenon
    DEF CoordinateWorker, OpenStream, StreamStep, Receiver, Recv, ReceiverStops, Handler, Register,
        CloseReplaced, CountSession, LoopEnds, Unregister, UncountSession, HandlerReturns,
        SessionBreaks, closerVars
  <2> QED
    BY <1>u, <2>1, Zenon DEF leadershipVars, serverVars
<1> QED
  BY <1>1, <1>2, <1>3, <1>4, <1>5, Zenon DEF ServerStep

\* Main keeps the order of the services.
LEMMA OrderStep ==
    ASSUME SessionsTypeOK, MainTypeOK, OrderInv, [ProcessNext]_masterVars
    PROVE  OrderInv'
<1> USE DEF OrderInv, MainAt
<1>u. ASSUME UNCHANGED grpcVars PROVE ElectionQuiet => ElectionQuiet'
  BY <1>u, Zenon
  DEF ElectionQuiet, NothingDue, ListenerBusy, grpcVars, leadershipVars, serverVars, sessionVars,
      closerVars
<1>e. ASSUME ProcessEnds PROVE ElectionQuiet' /\ main' = "exited" /\ election' = "none"
  BY <1>e, EndsClean, ServerAssumption, Zenon
  DEF ElectionQuiet, NothingDue, ListenerBusy, LeadershipInit, SessionsInit
<1>w. ASSUME ServerStep PROVE NothingDue => NothingDue'
  <2> SUFFICES UNCHANGED <<observed, ended>>
    BY Zenon DEF NothingDue
  <2>1. CASE Start \/ ListenerStep
    BY <2>1, Zenon
    DEF Start, StartChecks, registerLeadershipWatcher, Listen, StartWatching, ListenerStep,
        OnLeaderChange, TakeEvent, handleLeaderEvent, leadershipVars
  <2>2. CASE Shutdown
    BY <2>2, Zenon
    DEF Shutdown, ShutdownUnwatches, ShutdownCloses, ShutdownDrains, ShutdownGraceful,
        ShutdownForced, StopWatching, leadershipVars
  <2> QED
    BY <1>w, <2>1, <2>2, Zenon
    DEF ServerStep, SessionManagerClose, CoordinateWorker, StreamStep, leadershipVars
<1>v. ASSUME UNCHANGED grpcVars PROVE NothingDue => NothingDue'
  BY <1>v, Zenon DEF NothingDue, grpcVars, leadershipVars
<1>1. CASE StartEtcd
  BY <1>1, <1>u, <1>v, Zenon DEF StartEtcd, NodeStarts, nodeVars
<1>2. CASE EtcdStarts
  BY <1>2, <1>u, <1>v, Zenon DEF EtcdStarts, NodeStarted, NodeStartFails
<1>3. CASE EtcdStep
  BY <1>3, <1>u, <1>v, Zenon DEF EtcdStep, EtcdWrites, EtcdReady, processVars
<1>4. CASE StartElection
  BY <1>4, <1>u, <1>v, Zenon DEF StartElection, nodeVars
<1>5. CASE StartGrpc \/ HandleShutdown
  BY <1>5, <1>u, <1>v, Zenon DEF StartGrpc, HandleShutdown, nodeVars
<1>6. CASE UndoEtcd
  BY <1>6, <1>u, <1>v, Zenon DEF UndoEtcd, NodeStops, nodeVars
<1>7. CASE EtcdStop
  BY <1>7, <1>u, <1>v, Zenon DEF EtcdStop, NodeStops, nodeVars
<1>8. CASE GrpcShutdown
  <2>1. CASE shut = "stopped"
    BY <1>8, <2>1, <1>u, <1>v, Zenon DEF GrpcShutdown, nodeVars
  <2>2. CASE shut # "stopped"
    <3>1. ServerStep /\ UNCHANGED <<main, election, etcd>>
      BY <1>8, <2>2, ServerAssumption, Zenon DEF GrpcShutdown, ServerStep, nodeVars
    <3> QED
      BY <3>1, <1>w, QuietStep, Zenon
  <2> QED
    BY <2>1, <2>2, Zenon
<1>9. CASE ElectionCancels
  BY <1>9, Zenon DEF ElectionCancels, ClosingElection, nodeVars
<1>10. CASE ElectionClosesListeners
  BY <1>10, Zenon
  DEF ElectionClosesListeners, ClosingElection, NothingDue, StopWatching, leadershipVars, nodeVars
<1>11. CASE ElectionClosed
  <2>1. ElectionQuiet
    BY <1>11, Zenon DEF ElectionClosed, ElectionQuiet, ListenerBusy
  <2> QED
    BY <1>11, <1>u, <1>v, <2>1, Zenon DEF ElectionClosed, ClosingElection, nodeVars
<1>12. CASE Crash \/ MainReturns
  BY <1>12, <1>e, Zenon DEF Crash, MainReturns, nodeVars
<1>13. CASE Restart
  BY <1>13, <1>u, <1>v, Zenon DEF Restart, NodeRestarts
<1>14. CASE ElectionRuns \/ ElectionBroadcasts
  BY <1>14, Zenon DEF ElectionRuns, ElectionBroadcasts, nodeVars, processVars
<1>15. CASE StartRuns \/ ListenerRuns \/ \E s \in Stream : StreamRuns(s)
  <2>1. ServerStep
    BY <1>15, ServerAssumption, Zenon DEF StartRuns, ListenerRuns, StreamRuns, ServerStep
  <2> QED
    BY <1>15, <2>1, <1>w, QuietStep, OtherSteps, Zenon DEF nodeVars, processVars
<1>16. CASE UNCHANGED masterVars
  BY <1>16, <1>u, <1>v, Zenon DEF masterVars, nodeVars, processVars
<1> QED
  BY <1>1, <1>2, <1>3, <1>4, <1>5, <1>6, <1>7, <1>8, <1>9, <1>10, <1>11, <1>12, <1>13, <1>14,
     <1>15, <1>16, ZenonT(30)
  DEF ProcessNext, MainStep

-----------------------------------------------------------------------------
(* The theorems *)

ProcessInv == SessionsInv /\ FrontTypeOK /\ MainTypeOK /\ DiskInv /\ OrderInv

\* The parts put together.
LEMMA ProcessInvariance == ProcessSpec => []ProcessInv
<1>1. ProcessInit => ProcessInv
  <2> SUFFICES ASSUME ProcessInit PROVE ProcessInv
    BY Zenon
  <2>1. SessionsInv
    BY SessionsInvInit, Zenon DEF ProcessInit, ServerInit
  <2>2. FrontTypeOK
    BY ServerAssumption, Zenon
    DEF ProcessInit, ServerInit, SessionsInit, LeadershipInit, FrontTypeOK, LeadershipTypeOK
  <2>3. MainTypeOK /\ DiskInv /\ OrderInv
    BY ServerAssumption, Zenon
    DEF ProcessInit, ServerInit, SessionsInit, LeadershipInit, NodeInit, MainTypeOK, NodeTypeOK,
        MainPC, Starting, Disk, DiskInv, OrderInv, ElectionQuiet, NothingDue, ListenerBusy
  <2> QED
    BY <2>1, <2>2, <2>3, Zenon DEF ProcessInv
<1>2. ProcessInv /\ [ProcessNext]_masterVars => ProcessInv'
  BY ProcessSessionsStep, FrontStep, DiskStep, OrderStep, Zenon
  DEF ProcessInv, SessionsInv, EntryInv
<1> QED
  BY <1>1, <1>2, PTL DEF ProcessSpec

\* In the whole process too, with its restarts and its forced stop: no entry but
\* that of a given-up id outlives its stream, and up to the first loss of
\* leadership or shutdown no open session gets lost and the counter is exact.
THEOREM ProcessKeepsSessions ==
    ProcessSpec => [](LeftoverEntries /\ OpenSessionsFound /\ CountAccounting)
<1>1. ProcessInv => LeftoverEntries /\ OpenSessionsFound /\ CountAccounting
  BY Zenon DEF ProcessInv, SessionsInv, EntryInv
<1> QED
  BY <1>1, ProcessInvariance, PTL

\* The state of main and of the three services keeps its types; in particular a
\* listener exists only once Start has registered it, and Shutdown does not go on
\* before its SessionManager.Close is over.
THEOREM ProcessTypeCorrect == ProcessSpec => []ProcessTypeOK
<1>1. ProcessInv => ProcessTypeOK
  BY Zenon DEF ProcessInv, ProcessTypeOK, ServerTypeOK, SessionsInv, EntryInv, FrontTypeOK, MainTypeOK
<1> QED
  BY <1>1, ProcessInvariance, PTL

\* Once Start of the node server has returned nil, no later process of the node,
\* wherever the earlier ones crashed, starts etcd as a new cluster or panics on
\* what detectClusterState finds.
THEOREM NodeRejoinsCluster == ProcessSpec => []RejoinsCluster
<1>1. ProcessInv => RejoinsCluster
  BY Zenon DEF ProcessInv, DiskInv, RejoinsCluster
<1> QED
  BY <1>1, ProcessInvariance, PTL

\* While etcd stops, the election is closed and nothing of it is under way: main
\* has waited for its goroutines and for the callback of its listener, whatever
\* events were published, taken or lost meanwhile.
THEOREM ShutdownInReverseOrder == ProcessSpec => []EtcdStopsLast
<1>1. ProcessInv => EtcdStopsLast
  <2> SUFFICES ASSUME ProcessInv, etcd = "closed", main # "undoElection"
               PROVE  election \in {"none", "closed"} /\ ElectionQuiet
    BY Zenon DEF EtcdStopsLast, ElectionQuiet, NothingDue
  <2> QED
    BY Zenon DEF ProcessInv, OrderInv
<1> QED
  BY <1>1, ProcessInvariance, PTL
=============================================================================
