---------------------------- MODULE EventsProofs ----------------------------
(***************************************************************************)
(* Theorems about WorkerEvents, for any number of sessions, events,        *)
(* callers and any capacity of the outboxes: the types, that no outbox is  *)
(* closed twice, that the sessions implement OutboxChannel, and that what  *)
(* is acknowledged is recorded.                                            *)
(***************************************************************************)
EXTENDS WorkerEvents, TLAPS

-----------------------------------------------------------------------------
(* The kinds of steps *)

LooseStep(s) ==
    StreamStalls(s) \/ StreamBreaks(s) \/ ContextEnds(s) \/ HandlerLeaves(s) \/ HandlerReturns(s)

\* A step is one of an event, of a sender, of a caller, of Close, of a writer,
\* of a stream or its handler, or no step.
LEMMA StepKinds ==
    ASSUME [EventsNext]_workerVars
    PROVE  \/ \E e \in Event : ReceiveEvent(e) \/ handleEvent(e)
           \/ \E g \in Sender : SendStep(g) /\ UNCHANGED eventVars
           \/ \E g \in Caller, s \in Session : Visit(g, s)
           \/ \E s \in Session, c \in Closer : CloseStep(s, c) /\ UNCHANGED eventVars
           \/ \E s \in Session : WriterStep(s) /\ UNCHANGED eventVars
           \/ \E s \in Session : LooseStep(s) /\ UNCHANGED eventVars
           \/ UNCHANGED workerVars
<1>1. Event \subseteq Sender /\ Caller \subseteq Sender
  BY EventsAssumption, Zenon DEF Caller
<1>2. QED
  BY <1>1, Zenon DEF EventsNext, EventStep, CallerStep, SessionStep, LooseStep

-----------------------------------------------------------------------------
(* Types *)

LEMMA InitTypes == ASSUME EventsInit PROVE EventsTypeOK
<1>0. /\ (CHOOSE g \in Sender : TRUE) \in Sender
      /\ (CHOOSE s \in Session : TRUE) \in Session
  BY OutboxAssumption, Zenon
<1>1. OutboxTypeOK
  <2>1. <<>> \in Seq(Sender) /\ Len(<<>>) = 0
    OBVIOUS
  <2>2. ASSUME NEW s \in Session PROVE Len(outbox[s]) <= OutboxSize
    BY <2>1, OutboxAssumption DEF EventsInit, OutboxInit
  <2>3. QED
    BY <1>0, <2>1, <2>2, Zenon DEF EventsInit, OutboxInit, OutboxTypeOK
<1>2. QED
  BY <1>1, EventsAssumption, Zenon DEF EventsInit, EventsTypeOK

\* What an action leaves alone keeps its type.
LEMMA TypesUnchanged ==
    ASSUME OutboxTypeOK, UNCHANGED outboxVars PROVE OutboxTypeOK'
BY Zenon DEF OutboxTypeOK, outboxVars, closeVars, writerVars, senderVars, streamVars

LEMMA SendTypes ==
    ASSUME OutboxTypeOK, NEW g \in Sender, SendStep(g)
    PROVE  OutboxTypeOK'
<1>1. CASE SendEnqueues(g)
  <2>1. target[g] \in Session
    BY Zenon DEF OutboxTypeOK
  <2>2. outbox' \in [Session -> Seq(Sender)] /\ accepted' \in [Session -> Seq(Sender)]
    BY <1>1, <2>1, SMTT(20) DEF SendEnqueues, OutboxTypeOK
  <2>3. ASSUME NEW s \in Session PROVE Len(outbox'[s]) <= OutboxSize
    BY <1>1, <2>1, OutboxAssumption DEF SendEnqueues, OutboxTypeOK
  <2>4. QED
    BY <1>1, <2>2, <2>3, Zenon DEF SendEnqueues, SendAt, OutboxTypeOK, closeVars, writerVars, streamVars
<1>2. CASE SendFails(g)
  BY <1>2, Zenon DEF SendFails, SendAt, OutboxTypeOK, closeVars, writerVars, streamVars
<1>3. QED
  BY <1>1, <1>2, Zenon DEF SendStep

LEMMA CallTypes ==
    ASSUME OutboxTypeOK, NEW g \in Sender, NEW s \in Session, CallSend(g, s)
    PROVE  OutboxTypeOK'
BY Zenon DEF CallSend, SendAt, OutboxTypeOK, closeVars, writerVars, streamVars

LEMMA CloseTypes ==
    ASSUME OutboxTypeOK, NEW s \in Session, NEW c \in Closer, CloseStep(s, c)
    PROVE  OutboxTypeOK'
<1>1. ASSUME NEW label \in {"idle", "cancel", "close", "returned"}, CloseAt(s, c, label)
      PROVE  closePC' \in [Session -> [Closer -> {"idle", "cancel", "close", "returned"}]]
  BY <1>1, Zenon DEF CloseAt, OutboxTypeOK
<1>2. CASE CloseSwaps(s, c)
  BY <1>1, <1>2, Zenon DEF CloseSwaps, OutboxTypeOK, writerVars, senderVars, streamVars
<1>3. CASE CloseCancels(s, c)
  BY <1>1, <1>3, Zenon DEF CloseCancels, OutboxTypeOK, writerVars, senderVars, streamVars
<1>4. CASE CloseOutbox(s, c)
  BY <1>1, <1>4, Zenon DEF CloseOutbox, OutboxTypeOK, writerVars, senderVars, streamVars
<1>5. QED
  BY <1>2, <1>3, <1>4, Zenon DEF CloseStep

LEMMA WriterTypes ==
    ASSUME OutboxTypeOK, NEW s \in Session, WriterStep(s)
    PROVE  OutboxTypeOK'
<1>1. CASE WriterTakes(s)
  <2>1. outbox[s] \in Seq(Sender) /\ outbox[s] # <<>>
    BY <1>1, Zenon DEF WriterTakes, OutboxTypeOK
  <2>2. Head(outbox[s]) \in Sender /\ Tail(outbox[s]) \in Seq(Sender)
    BY <2>1
  <2>3. Len(outbox[s]) \in Nat /\ Len(Tail(outbox[s])) = Len(outbox[s]) - 1
    BY <2>1
  <2>4. Len(outbox[s]) <= OutboxSize
    BY Zenon DEF OutboxTypeOK
  <2>5. Len(Tail(outbox[s])) <= OutboxSize
    BY <2>3, <2>4, OutboxAssumption
  <2>6. QED
    BY <1>1, <2>2, <2>5, Zenon DEF WriterTakes, WriterAt, OutboxTypeOK, closeVars, senderVars, streamVars
<1>2. CASE WriterCancelled(s) \/ WriterEnds(s) \/ WriteFails(s)
  BY <1>2, Zenon DEF WriterCancelled, WriterEnds, WriteFails, WriterAt, OutboxTypeOK,
              closeVars, senderVars, streamVars
<1>3. CASE WriteSucceeds(s)
  <2>1. Append(delivered[s], writing[s]) \in Seq(Sender)
    BY DEF OutboxTypeOK
  <2>2. QED
    BY <1>3, <2>1, Zenon DEF WriteSucceeds, WriterAt, OutboxTypeOK, closeVars, senderVars, streamVars
<1>4. QED
  BY <1>1, <1>2, <1>3, Zenon DEF WriterStep

LEMMA LooseTypes ==
    ASSUME OutboxTypeOK, NEW s \in Session, LooseStep(s)
    PROVE  OutboxTypeOK'
BY ZenonT(30) DEF LooseStep, StreamStalls, StreamBreaks, ContextEnds, HandlerLeaves, HandlerReturns,
       OutboxTypeOK, closeVars, writerVars, senderVars, streamVars

LEMMA StepTypes ==
    ASSUME EventsTypeOK, [EventsNext]_workerVars
    PROVE  EventsTypeOK'
<1>0. OutboxTypeOK
  BY Zenon DEF EventsTypeOK
<1>1. ASSUME NEW e \in Event, ReceiveEvent(e) PROVE EventsTypeOK'
  BY <1>0, <1>1, TypesUnchanged, Zenon DEF ReceiveEvent, EventsTypeOK
<1>2. ASSUME NEW e \in Event, handleEvent(e) PROVE EventsTypeOK'
  <2>1. OutboxTypeOK'
    BY <1>0, <1>2, CallTypes, EventsAssumption, Zenon DEF handleEvent
  <2>2. Recorded(payload[e]) => StoreKey(payload[e]) \in Keys
    BY Zenon DEF Keys
  <2>3. store' \in [Keys -> Event \cup {NoEvent}]
    BY <1>2, <2>2, Zenon DEF handleEvent, EventsTypeOK
  <2>4. QED
    BY <1>2, <2>1, <2>3, Zenon DEF handleEvent, EventsTypeOK
<1>3. ASSUME NEW g \in Caller, NEW s \in Session, Visit(g, s) PROVE EventsTypeOK'
  <2>1. OutboxTypeOK'
    BY <1>0, <1>3, CallTypes, TypesUnchanged, Zenon DEF Visit, Caller
  <2>2. QED
    BY <1>3, <2>1, Zenon DEF Visit, EventsTypeOK
<1>4. ASSUME OutboxTypeOK', UNCHANGED eventVars PROVE EventsTypeOK'
  BY <1>4, Zenon DEF EventsTypeOK, eventVars
<1>5. ASSUME UNCHANGED workerVars PROVE EventsTypeOK'
  BY <1>0, <1>4, <1>5, TypesUnchanged, Zenon DEF workerVars
<1>6. QED
  BY <1>0, <1>1, <1>2, <1>3, <1>4, <1>5, StepKinds,
     SendTypes, CloseTypes, WriterTypes, LooseTypes, Zenon

\* The variables of WorkerEvents always have their types, and no outbox ever
\* holds more than its capacity: Session.Send waits.
THEOREM EventsTypeCorrect == EventsSpec => []EventsTypeOK
<1>1. QED
  BY InitTypes, StepTypes, PTL DEF EventsSpec

-----------------------------------------------------------------------------
(* Close *)

\* Only Close touches what ClosedOnce speaks of.
LEMMA CloseUntouched ==
    ASSUME ClosedOnce, UNCHANGED closeVars PROVE ClosedOnce'
BY Zenon DEF ClosedOnce, Closing, closeVars

LEMMA OnlyCloseCloses ==
    ASSUME [EventsNext]_workerVars
    PROVE  \/ \E s \in Session, c \in Closer : CloseStep(s, c)
           \/ UNCHANGED closeVars
<1>1. ASSUME NEW e \in Event, ReceiveEvent(e) \/ handleEvent(e) PROVE UNCHANGED closeVars
  BY <1>1, Zenon DEF ReceiveEvent, handleEvent, CallSend, outboxVars
<1>2. ASSUME NEW g \in Sender, SendStep(g) PROVE UNCHANGED closeVars
  BY <1>2, Zenon DEF SendStep, SendEnqueues, SendFails
<1>3. ASSUME NEW g \in Caller, NEW s \in Session, Visit(g, s) PROVE UNCHANGED closeVars
  BY <1>3, Zenon DEF Visit, CallSend, outboxVars
<1>4. ASSUME NEW s \in Session, WriterStep(s) PROVE UNCHANGED closeVars
  BY <1>4, Zenon DEF WriterStep, WriterTakes, WriterCancelled, WriterEnds, WriteSucceeds, WriteFails
<1>5. ASSUME NEW s \in Session, LooseStep(s) PROVE UNCHANGED closeVars
  BY <1>5, Zenon DEF LooseStep, StreamStalls, StreamBreaks, ContextEnds, HandlerLeaves, HandlerReturns
<1>6. ASSUME UNCHANGED workerVars PROVE UNCHANGED closeVars
  BY <1>6, Zenon DEF workerVars, outboxVars
<1>7. QED
  BY <1>1, <1>2, <1>3, <1>4, <1>5, <1>6, StepKinds, Zenon

ClosedOnceOf(s) ==
    /\ outboxClosed[s] => closed[s] /\ Closing(s) = {}
    /\ \A c \in Closing(s) : closed[s] /\ Closing(s) = {c}

LEMMA CloseKeeps ==
    ASSUME OutboxTypeOK, ClosedOnce, ~panicked,
           NEW s \in Session, NEW c \in Closer, CloseStep(s, c)
    PROVE  ClosedOnce' /\ ~panicked'
<1>0. /\ closePC \in [Session -> [Closer -> {"idle", "cancel", "close", "returned"}]]
      /\ closed \in [Session -> BOOLEAN] /\ outboxClosed \in [Session -> BOOLEAN]
  BY Zenon DEF OutboxTypeOK
<1>1. \A t \in Session : ClosedOnceOf(t)
  BY Zenon DEF ClosedOnce, ClosedOnceOf
<1>2. SUFFICES ~panicked' /\ \A t \in Session : ClosedOnceOf(t)'
  BY Zenon DEF ClosedOnce, ClosedOnceOf
<1>3. CASE CloseSwaps(s, c)
  <2>1. ASSUME NEW t \in Session \ {s} PROVE ClosedOnceOf(t)'
    <3>1. Closing(t)' = Closing(t)
      BY <1>0, <1>3, Zenon DEF CloseSwaps, CloseAt, Closing
    <3>2. closed'[t] = closed[t] /\ outboxClosed'[t] = outboxClosed[t]
      BY <1>0, <1>3, Zenon DEF CloseSwaps
    <3>3. QED
      BY <1>1, <3>1, <3>2, Zenon DEF ClosedOnceOf
  <2>2. Closing(s)' = IF closed[s] THEN Closing(s) ELSE {c}
    <3>1. ~closed[s] => Closing(s) = {}
      BY <1>1, Zenon DEF ClosedOnceOf
    <3>2. Closing(s)' = IF closed[s] THEN Closing(s) ELSE Closing(s) \cup {c}
      BY <1>0, <1>3 DEF CloseSwaps, CloseAt, Closing
    <3>3. QED
      BY <3>1, <3>2, Zenon
  <2>3. closed'[s] /\ outboxClosed'[s] = outboxClosed[s]
    BY <1>0, <1>3, Zenon DEF CloseSwaps
  <2>4. ClosedOnceOf(s)'
    BY <1>1, <2>2, <2>3, Zenon DEF ClosedOnceOf
  <2>5. QED
    BY <1>3, <2>1, <2>4, Zenon DEF CloseSwaps
<1>4. CASE CloseCancels(s, c)
  <2>1. \A t \in Session : Closing(t)' = Closing(t)
    BY <1>0, <1>4, Zenon DEF CloseCancels, CloseAt, Closing
  <2>2. UNCHANGED <<closed, outboxClosed, panicked>>
    BY <1>4, Zenon DEF CloseCancels
  <2>3. QED
    BY <1>1, <2>1, <2>2, Zenon DEF ClosedOnceOf
<1>5. CASE CloseOutbox(s, c)
  <2>1. c \in Closing(s)
    BY <1>5, Zenon DEF CloseOutbox, Closing
  <2>2. ~outboxClosed[s] /\ closed[s] /\ Closing(s) = {c}
    BY <1>1, <2>1, Zenon DEF ClosedOnceOf
  <2>3. ASSUME NEW t \in Session \ {s} PROVE ClosedOnceOf(t)'
    <3>1. Closing(t)' = Closing(t)
      BY <1>0, <1>5, Zenon DEF CloseOutbox, CloseAt, Closing
    <3>2. closed'[t] = closed[t] /\ outboxClosed'[t] = outboxClosed[t]
      BY <1>0, <1>5, Zenon DEF CloseOutbox
    <3>3. QED
      BY <1>1, <3>1, <3>2 DEF ClosedOnceOf
  <2>4. Closing(s)' = {}
    <3>1. Closing(s)' = Closing(s) \ {c}
      BY <1>0, <1>5, Zenon DEF CloseOutbox, CloseAt, Closing
    <3>2. QED
      BY <2>2, <3>1, Zenon
  <2>5. closed'[s]
    BY <1>5, <2>2, Zenon DEF CloseOutbox
  <2>6. ClosedOnceOf(s)'
    BY <2>4, <2>5, Zenon DEF ClosedOnceOf
  <2>7. QED
    BY <1>5, <2>2, <2>3, <2>6, Zenon DEF CloseOutbox
<1>6. QED
  BY <1>3, <1>4, <1>5, Zenon DEF CloseStep

\* Session.Close never closes an outbox twice, however many goroutines call it:
\* of the callers that win the compare-and-swap there is only ever one.
THEOREM NeverPanics == EventsSpec => []NoPanic
<1>1. ASSUME EventsInit PROVE ClosedOnce /\ ~panicked
  BY <1>1, Zenon DEF EventsInit, OutboxInit, ClosedOnce, Closing
<1>2. ASSUME EventsTypeOK, ClosedOnce, ~panicked, [EventsNext]_workerVars
      PROVE  ClosedOnce' /\ ~panicked'
  <2>1. CASE UNCHANGED closeVars
    BY <1>2, <2>1, CloseUntouched, Zenon DEF closeVars
  <2>2. ASSUME NEW s \in Session, NEW c \in Closer, CloseStep(s, c)
        PROVE  ClosedOnce' /\ ~panicked'
    BY <1>2, <2>2, CloseKeeps, Zenon DEF EventsTypeOK
  <2>3. QED
    BY <1>2, <2>1, <2>2, OnlyCloseCloses, Zenon
<1>3. QED
  BY <1>1, <1>2, EventsTypeCorrect, PTL DEF EventsSpec, NoPanic

-----------------------------------------------------------------------------
(* What a session delivers *)

LEMMA WindowGrows ==
    ASSUME NEW a \in Seq(Sender), NEW o \in Seq(Sender), NEW g \in Sender, NEW n \in Nat,
           Window(n, a, o)
    PROVE  /\ Window(n, Append(a, g), Append(o, g))
           /\ \A k \in 1..n : Append(a, g)[k] = a[k]
<1>1. /\ Len(Append(a, g)) = Len(a) + 1 /\ Len(Append(o, g)) = Len(o) + 1
      /\ Len(a) \in Nat /\ Len(o) \in Nat /\ Len(a) = n + Len(o)
  BY DEF Window
<1>2. /\ \A k \in 1..Len(a) : Append(a, g)[k] = a[k]
      /\ \A k \in 1..Len(o) : Append(o, g)[k] = o[k]
      /\ Append(a, g)[Len(a) + 1] = g /\ Append(o, g)[Len(o) + 1] = g
  OBVIOUS
<1>3. ASSUME NEW i \in 1..(Len(o) + 1) PROVE Append(o, g)[i] = Append(a, g)[n + i]
  <2>1. CASE i = Len(o) + 1
    <3>1. n + i = Len(a) + 1
      BY <1>1, <2>1
    <3>2. QED
      BY <1>2, <2>1, <3>1, Zenon
  <2>2. CASE i \in 1..Len(o)
    <3>1. n + i \in 1..Len(a)
      BY <1>1, <2>2
    <3>2. o[i] = a[n + i]
      BY <2>2, Zenon DEF Window
    <3>3. QED
      BY <1>2, <2>2, <3>1, <3>2, Zenon
  <2>3. QED
    BY <1>1, <2>1, <2>2
<1>4. ASSUME NEW k \in 1..n PROVE k \in 1..Len(a)
  BY <1>1
<1>5. QED
  BY <1>1, <1>2, <1>3, <1>4 DEF Window

LEMMA WindowMoves ==
    ASSUME NEW a \in Seq(Sender), NEW o \in Seq(Sender), NEW n \in Nat,
           Window(n, a, o), o # <<>>
    PROVE  Window(n + 1, a, Tail(o)) /\ Head(o) = a[n + 1]
<1>1. /\ Len(o) \in Nat /\ Len(o) >= 1 /\ Len(Tail(o)) = Len(o) - 1 /\ Head(o) = o[1]
      /\ Len(a) = n + Len(o)
  BY DEF Window
<1>2. \A i \in 1..Len(o) : o[i] = a[n + i]
  BY Zenon DEF Window
<1>3. ASSUME NEW i \in 1..Len(Tail(o)) PROVE Tail(o)[i] = a[(n + 1) + i]
  <2>1. Tail(o)[i] = o[i + 1]
    OBVIOUS
  <2>2. i \in Nat /\ i + 1 \in 1..Len(o)
    BY <1>1
  <2>3. n + (i + 1) = (n + 1) + i
    BY <2>2
  <2>4. QED
    BY <1>2, <2>1, <2>2, <2>3, Zenon
<1>4. Len(a) = (n + 1) + Len(Tail(o))
  BY <1>1
<1>5. 1 \in 1..Len(o)
  BY <1>1
<1>6. QED
  BY <1>1, <1>2, <1>3, <1>4, <1>5, Zenon DEF Window

\* A step that leaves the messages where they are, of every stream that is up.
Still ==
    /\ UNCHANGED <<accepted, delivered, outbox, writing>>
    /\ \A t \in Session :
         stream'[t] # "down" => stream[t] # "down" /\ Writing(t)' = Writing(t)

LEMMA MovingSteps ==
    ASSUME OutboxTypeOK, [EventsNext]_workerVars
    PROVE  \/ Still
           \/ \E g \in Sender : SendEnqueues(g)
           \/ \E s \in Session : WriterTakes(s) \/ WriteSucceeds(s)
<1>1. ASSUME NEW e \in Event, ReceiveEvent(e) \/ handleEvent(e) PROVE Still
  BY <1>1, Zenon DEF ReceiveEvent, handleEvent, CallSend, outboxVars, writerVars, senderVars,
              streamVars, Still, Writing
<1>2. ASSUME NEW g \in Sender, SendFails(g) PROVE Still
  BY <1>2, Zenon DEF SendFails, writerVars, streamVars, Still, Writing
<1>3. ASSUME NEW g \in Caller, NEW s \in Session, Visit(g, s) PROVE Still
  BY <1>3, Zenon DEF Visit, CallSend, outboxVars, writerVars, senderVars, streamVars, Still, Writing
<1>4. ASSUME NEW s \in Session, NEW c \in Closer, CloseStep(s, c) PROVE Still
  BY <1>4, Zenon DEF CloseStep, CloseSwaps, CloseCancels, CloseOutbox, writerVars, senderVars,
              streamVars, Still, Writing
<1>5. ASSUME NEW s \in Session, WriterCancelled(s) \/ WriterEnds(s) \/ WriteFails(s)
      PROVE Still
  <2>1. UNCHANGED <<accepted, delivered, outbox, writing, stream>>
    BY <1>5, Zenon DEF WriterCancelled, WriterEnds, WriteFails, senderVars, streamVars
  <2>2. \A t \in Session \ {s} : Writing(t)' = Writing(t)
    BY <1>5, Zenon DEF WriterCancelled, WriterEnds, WriteFails, WriterAt, OutboxTypeOK, Writing
  <2>3. stream[s] = "down" \/ Writing(s)' = Writing(s)
    BY <1>5 DEF WriterCancelled, WriterEnds, WriteFails, WriterAt, OutboxTypeOK, Writing
  <2>4. QED
    BY <2>1, <2>2, <2>3, Zenon DEF Still
<1>6. ASSUME NEW s \in Session, LooseStep(s) PROVE Still
  BY <1>6, ZenonT(30) DEF LooseStep, StreamStalls, StreamBreaks, ContextEnds, HandlerLeaves,
              HandlerReturns, writerVars, senderVars, streamVars, OutboxTypeOK, Still, Writing
<1>7. ASSUME UNCHANGED workerVars PROVE Still
  BY <1>7, Zenon DEF workerVars, outboxVars, writerVars, senderVars, streamVars, Still, Writing
<1>8. QED
  BY <1>1, <1>2, <1>3, <1>4, <1>5, <1>6, <1>7, StepKinds, Zenon DEF SendStep, WriterStep

LEMMA StillAligned == ASSUME OutboxAligned, Still PROVE OutboxAligned'
<1>1. SUFFICES ASSUME NEW t \in Session, stream'[t] # "down" PROVE Aligned(t)'
  BY Zenon DEF OutboxAligned
<1>2. Aligned(t) /\ Writing(t)' = Writing(t)
  BY <1>1, Zenon DEF OutboxAligned, Still
<1>3. Taken(t)' = Taken(t)
  BY <1>2, Zenon DEF Taken, Still
<1>4. QED
  BY <1>2, <1>3, Zenon DEF Aligned, Still

LEMMA TakenNat ==
    ASSUME OutboxTypeOK, NEW s \in Session
    PROVE  Taken(s) \in Nat /\ (Writing(s) => Taken(s) \in 1..Taken(s))
<1>1. Len(delivered[s]) \in Nat
  BY DEF OutboxTypeOK
<1>2. Writing(s) => Taken(s) = Len(delivered[s]) + 1
  BY Zenon DEF Taken
<1>3. ~Writing(s) => Taken(s) = Len(delivered[s])
  BY <1>1 DEF Taken
<1>4. CASE Writing(s)
  <2>1. Taken(s) \in Nat /\ Taken(s) >= 1
    BY <1>1, <1>2, <1>4
  <2>2. QED
    BY <2>1
<1>5. CASE ~Writing(s)
  BY <1>1, <1>3, <1>5, Zenon
<1>6. QED
  BY <1>4, <1>5, Zenon

LEMMA EnqueueAligned ==
    ASSUME OutboxTypeOK, OutboxAligned, NEW g \in Sender, SendEnqueues(g)
    PROVE  OutboxAligned' /\ Channel!Accept(target[g], g) /\ target[g] \in Session
<1> DEFINE s == target[g]
<1>1. s \in Session
  BY Zenon DEF OutboxTypeOK
<1>2. /\ accepted' = [accepted EXCEPT ![s] = Append(accepted[s], g)]
      /\ outbox' = [outbox EXCEPT ![s] = Append(outbox[s], g)]
      /\ UNCHANGED <<delivered, writing, writer, stream>>
  BY Zenon DEF SendEnqueues, writerVars, streamVars
<1>3. \A t \in Session : Writing(t)' = Writing(t) /\ Taken(t)' = Taken(t)
  BY <1>2, Zenon DEF Taken, Writing
<1>4. ASSUME NEW t \in Session, stream'[t] # "down" PROVE Aligned(t)'
  <2>1. Aligned(t)
    BY <1>2, <1>4, Zenon DEF OutboxAligned
  <2>2. CASE t # s
    <3>1. accepted'[t] = accepted[t] /\ outbox'[t] = outbox[t] /\ writing'[t] = writing[t]
      BY <1>2, <2>2, Zenon DEF OutboxTypeOK
    <3>2. QED
      BY <1>3, <2>1, <3>1, Zenon DEF Aligned
  <2>3. CASE t = s
    <3>1. /\ accepted'[t] = Append(accepted[t], g) /\ outbox'[t] = Append(outbox[t], g)
          /\ writing'[t] = writing[t]
      BY <1>1, <1>2, <2>3, Zenon DEF OutboxTypeOK
    <3>2. accepted[t] \in Seq(Sender) /\ outbox[t] \in Seq(Sender)
      BY Zenon DEF OutboxTypeOK
    <3>3. Taken(t) \in Nat /\ (Writing(t) => Taken(t) \in 1..Taken(t))
      BY TakenNat, Zenon
    <3>4. Window(Taken(t), accepted[t], outbox[t])
      BY <2>1, Zenon DEF Aligned
    <3>5. /\ Window(Taken(t), accepted'[t], outbox'[t])
          /\ \A k \in 1..Taken(t) : accepted'[t][k] = accepted[t][k]
      <4>1. /\ Window(Taken(t), Append(accepted[t], g), Append(outbox[t], g))
            /\ \A k \in 1..Taken(t) : Append(accepted[t], g)[k] = accepted[t][k]
        <5> HIDE DEF s
        <5>1. Taken(t) \in Nat
          BY <3>3, Zenon
        <5>2. QED
          BY <3>2, <3>4, <5>1, WindowGrows, Zenon
      <4>2. QED
        BY <3>1, <4>1, Zenon
    <3>6. Writing(t) => writing[t] = accepted[t][Taken(t)]
      BY <2>1, Zenon DEF Aligned
    <3>7. Writing(t) => writing'[t] = accepted'[t][Taken(t)]
      BY <3>1, <3>3, <3>5, <3>6, Zenon
    <3>8. QED
      BY <1>3, <3>5, <3>7, Zenon DEF Aligned
  <2>4. QED
    BY <2>2, <2>3, Zenon
<1>5. QED
  BY <1>1, <1>2, <1>4, Zenon DEF OutboxAligned, Channel!Accept

LEMMA TakeAligned ==
    ASSUME OutboxTypeOK, OutboxAligned, NEW s \in Session, WriterTakes(s)
    PROVE  OutboxAligned' /\ UNCHANGED <<accepted, delivered>>
<1>1. /\ writing' = [writing EXCEPT ![s] = Head(outbox[s])]
      /\ outbox' = [outbox EXCEPT ![s] = Tail(outbox[s])]
      /\ UNCHANGED <<accepted, delivered, stream>>
  BY Zenon DEF WriterTakes, senderVars, streamVars
<1>2. ASSUME NEW t \in Session, stream'[t] # "down" PROVE Aligned(t)'
  <2>1. Aligned(t)
    BY <1>1, <1>2, Zenon DEF OutboxAligned
  <2>2. CASE t # s
    <3>1. /\ outbox'[t] = outbox[t] /\ writing'[t] = writing[t]
          /\ Writing(t)' = Writing(t)
      BY <1>1, <2>2, ZenonT(30) DEF WriterTakes, WriterAt, OutboxTypeOK, Writing
    <3>2. Taken(t)' = Taken(t)
      BY <1>1, <3>1, Zenon DEF Taken
    <3>3. QED
      BY <1>1, <2>1, <3>1, <3>2, Zenon DEF Aligned
  <2>3. CASE t = s
    <3>1. ~Writing(t) /\ Writing(t)'
      BY <2>3, Zenon DEF WriterTakes, WriterAt, OutboxTypeOK, Writing
    <3>2. writing'[t] = Head(outbox[t]) /\ outbox'[t] = Tail(outbox[t])
      BY <1>1, <2>3, Zenon DEF OutboxTypeOK
    <3>3. accepted[t] \in Seq(Sender) /\ outbox[t] \in Seq(Sender) /\ outbox[t] # <<>>
      BY <2>3, Zenon DEF WriterTakes, OutboxTypeOK
    <3>4. Taken(t) \in Nat
      BY TakenNat, Zenon
    <3>5. Taken(t)' = Taken(t) + 1
      BY <1>1, <3>1, <3>4 DEF Taken
    <3>6. Window(Taken(t), accepted[t], outbox[t])
      BY <2>1, Zenon DEF Aligned
    <3>7. /\ Window(Taken(t) + 1, accepted[t], Tail(outbox[t]))
          /\ Head(outbox[t]) = accepted[t][Taken(t) + 1]
      BY <3>3, <3>4, <3>6, WindowMoves, Zenon
    <3>8. QED
      BY <1>1, <3>2, <3>5, <3>7, Zenon DEF Aligned
  <2>4. QED
    BY <2>2, <2>3, Zenon
<1>3. QED
  BY <1>1, <1>2, Zenon DEF OutboxAligned

LEMMA WriteAligned ==
    ASSUME OutboxTypeOK, OutboxAligned, NEW s \in Session, WriteSucceeds(s)
    PROVE  OutboxAligned' /\ Channel!Deliver(s)
<1>1. /\ delivered' = [delivered EXCEPT ![s] = Append(delivered[s], writing[s])]
      /\ UNCHANGED <<accepted, outbox, writing, stream>>
  BY Zenon DEF WriteSucceeds, senderVars, streamVars
<1>2. Writing(s) /\ ~Writing(s)' /\ stream[s] # "down"
  BY Zenon DEF WriteSucceeds, WriterAt, OutboxTypeOK, Writing
<1>3. delivered[s] \in Seq(Sender) /\ Len(delivered[s]) \in Nat /\ outbox[s] \in Seq(Sender)
  BY DEF OutboxTypeOK
<1>4. Taken(s) = Len(delivered[s]) + 1
  BY <1>2, Zenon DEF Taken
<1>5. Aligned(s)
  BY <1>2, Zenon DEF OutboxAligned
<1>6. delivered'[s] = Append(delivered[s], writing[s])
  BY <1>1, Zenon DEF OutboxTypeOK
<1>7. Taken(s)' = Taken(s)
  <2>1. Len(delivered'[s]) = Len(delivered[s]) + 1
    BY <1>3, <1>6 DEF OutboxTypeOK
  <2>2. Taken(s)' = Len(delivered'[s])
    BY <1>2, <1>3, <2>1 DEF Taken
  <2>3. QED
    BY <1>4, <2>1, <2>2, Zenon
<1>8. ASSUME NEW t \in Session, stream'[t] # "down" PROVE Aligned(t)'
  <2>1. CASE t = s
    BY <1>1, <1>2, <1>5, <1>7, <2>1, Zenon DEF Aligned
  <2>2. CASE t # s
    <3>1. delivered'[t] = delivered[t] /\ Writing(t)' = Writing(t)
      BY <1>1, <2>2 DEF WriteSucceeds, WriterAt, OutboxTypeOK, Writing
    <3>2. Taken(t)' = Taken(t)
      BY <3>1, Zenon DEF Taken
    <3>3. Aligned(t)
      BY <1>1, <1>8, Zenon DEF OutboxAligned
    <3>4. QED
      BY <1>1, <3>1, <3>2, <3>3, Zenon DEF Aligned
  <2>3. QED
    BY <2>1, <2>2, Zenon
<1>9. Channel!Deliver(s)
  <2>1. writing[s] = accepted[s][Len(delivered[s]) + 1]
    BY <1>2, <1>4, <1>5, Zenon DEF Aligned
  <2>2. Len(accepted[s]) = Taken(s) + Len(outbox[s]) /\ Len(outbox[s]) \in Nat
    BY <1>3, <1>5 DEF Aligned, Window
  <2>3. Len(delivered[s]) < Len(accepted[s])
    <3>1. Len(accepted[s]) = (Len(delivered[s]) + 1) + Len(outbox[s])
      BY <1>4, <2>2, Zenon
    <3>2. Len(delivered[s]) \in Nat /\ Len(outbox[s]) \in Nat
      BY <1>3, <2>2, Zenon
    <3>3. \A d, o \in Nat : d < (d + 1) + o
      OBVIOUS
    <3>4. QED
      BY <3>1, <3>2, <3>3, Zenon
  <2>4. QED
    BY <1>1, <2>1, <2>3, Zenon DEF Channel!Deliver
<1>10. QED
  BY <1>8, <1>9, Zenon DEF OutboxAligned

\* Sessions implement OutboxChannel: the worker receives a prefix of what
\* Session.Send has accepted, in that order, whatever interleaving of senders,
\* writer, Close and broken connections there is.
THEOREM OutboxImplementsChannel == EventsSpec => OutboxDelivers
<1>1. ASSUME EventsInit PROVE OutboxAligned /\ Channel!ChannelInit
  <2>1. ASSUME NEW s \in Session PROVE Aligned(s)
    <3>1. /\ accepted[s] = <<>> /\ delivered[s] = <<>> /\ outbox[s] = <<>> /\ ~Writing(s)
      BY <1>1, Zenon DEF EventsInit, OutboxInit, Writing
    <3>2. QED
      BY <3>1 DEF Aligned, Taken, Window
  <2>2. QED
    BY <1>1, <2>1, Zenon DEF OutboxAligned, EventsInit, OutboxInit, Channel!ChannelInit
<1>2. ASSUME EventsTypeOK, OutboxAligned, [EventsNext]_workerVars
      PROVE  OutboxAligned' /\ [Channel!ChannelNext]_(Channel!channelVars)
  <2>0. OutboxTypeOK
    BY <1>2, Zenon DEF EventsTypeOK
  <2>1. CASE Still
    BY <1>2, <2>1, StillAligned, Zenon DEF Still, Channel!channelVars
  <2>2. ASSUME NEW g \in Sender, SendEnqueues(g)
        PROVE  OutboxAligned' /\ Channel!ChannelNext
    BY <1>2, <2>0, <2>2, EnqueueAligned, Zenon DEF Channel!ChannelNext
  <2>3. ASSUME NEW s \in Session, WriterTakes(s)
        PROVE  OutboxAligned' /\ UNCHANGED Channel!channelVars
    BY <1>2, <2>0, <2>3, TakeAligned, Zenon DEF Channel!channelVars
  <2>4. ASSUME NEW s \in Session, WriteSucceeds(s)
        PROVE  OutboxAligned' /\ Channel!ChannelNext
    BY <1>2, <2>0, <2>4, WriteAligned, Zenon DEF Channel!ChannelNext
  <2>5. QED
    BY <1>2, <2>0, <2>1, <2>2, <2>3, <2>4, MovingSteps, Zenon
<1>3. QED
  BY <1>1, <1>2, EventsTypeCorrect, PTL DEF EventsSpec, OutboxDelivers, Channel!ChannelSpec

-----------------------------------------------------------------------------
(* What is acknowledged is recorded *)

LEMMA EventSteps ==
    ASSUME [EventsNext]_workerVars
    PROVE  (\E e \in Event : ReceiveEvent(e) \/ handleEvent(e)) \/ UNCHANGED <<event, store>>
<1>1. ASSUME NEW g \in Caller, NEW s \in Session, Visit(g, s) PROVE UNCHANGED <<event, store>>
  BY <1>1, Zenon DEF Visit
<1>2. ASSUME UNCHANGED eventVars PROVE UNCHANGED <<event, store>>
  BY <1>2, Zenon DEF eventVars
<1>3. UNCHANGED workerVars => UNCHANGED eventVars
  BY Zenon DEF workerVars
<1>4. QED
  BY <1>1, <1>2, <1>3, StepKinds, Zenon

LEMMA AnsweredStays ==
    ASSUME EventsTypeOK, [EventsNext]_workerVars, NEW g, Answered(g)
    PROVE  Answered(g)'
<1>1. ASSUME NEW e \in Event, ReceiveEvent(e) \/ handleEvent(e) PROVE Answered(g)'
  BY <1>1, Zenon DEF ReceiveEvent, handleEvent, Answered, EventsTypeOK
<1>2. CASE UNCHANGED <<event, store>>
  BY <1>2, Zenon DEF Answered
<1>3. QED
  BY <1>1, <1>2, EventSteps, Zenon

\* A step that adds no message, unless one of a recorded event to be sent.
Calm ==
    /\ UNCHANGED <<delivered, outbox, writing>>
    /\ \A t \in Session : Writing(t)' => Writing(t)
    /\ \A g \in Sender : send'[g] = "select" => send[g] = "select" \/ Answered(g)'

LEMMA CallCalm ==
    ASSUME OutboxTypeOK, NEW g \in Sender, NEW s \in Session, CallSend(g, s), Answered(g)'
    PROVE  Calm
BY Zenon DEF CallSend, SendAt, OutboxTypeOK, writerVars, Calm, Writing

LEMMA CalmSteps ==
    ASSUME EventsTypeOK, [EventsNext]_workerVars
    PROVE  \/ Calm
           \/ \E g \in Sender : SendEnqueues(g)
           \/ \E s \in Session : WriterTakes(s) \/ WriteSucceeds(s)
<1>0. OutboxTypeOK
  BY DEF EventsTypeOK
<1>1. ASSUME UNCHANGED outboxVars PROVE Calm
  BY <1>1, Zenon DEF outboxVars, writerVars, senderVars, Calm, Writing
<1>2. ASSUME NEW e \in Event, ReceiveEvent(e) \/ handleEvent(e) PROVE Calm
  <2>1. CASE ReceiveEvent(e)
    BY <1>1, <2>1, Zenon DEF ReceiveEvent
  <2>2. CASE handleEvent(e)
    <3>1. Answered(e)'
      BY <2>2, Zenon DEF handleEvent, Answered, EventsTypeOK
    <3>2. e \in Sender /\ sessionOf[e] \in Session /\ CallSend(e, sessionOf[e])
      BY <2>2, EventsAssumption, Zenon DEF handleEvent
    <3>3. QED
      BY <1>0, <3>1, <3>2, CallCalm, Zenon
  <2>3. QED
    BY <1>2, <2>1, <2>2, Zenon
<1>3. ASSUME NEW g \in Sender, SendFails(g) PROVE Calm
  BY <1>0, <1>3, Zenon DEF SendFails, SendAt, OutboxTypeOK, writerVars, Calm, Writing
<1>4. ASSUME NEW g \in Caller, NEW s \in Session, Visit(g, s) PROVE Calm
  <2>1. Answered(g)' /\ g \in Sender
    BY Zenon DEF Answered, Caller
  <2>2. CallSend(g, s) \/ UNCHANGED outboxVars
    BY <1>4, Zenon DEF Visit
  <2>3. QED
    BY <1>0, <1>1, <2>1, <2>2, CallCalm, Zenon
<1>5. ASSUME NEW s \in Session, NEW c \in Closer, CloseStep(s, c) PROVE Calm
  BY <1>5, Zenon DEF CloseStep, CloseSwaps, CloseCancels, CloseOutbox, writerVars, senderVars,
              Calm, Writing
<1>6. ASSUME NEW s \in Session, WriterCancelled(s) \/ WriterEnds(s) \/ WriteFails(s)
      PROVE Calm
  <2>1. UNCHANGED <<delivered, outbox, writing, send>>
    BY <1>6, Zenon DEF WriterCancelled, WriterEnds, WriteFails, senderVars
  <2>2. \A t \in Session : Writing(t)' => Writing(t)
    <3>1. PICK label \in {"drain", "done", "closing"} : WriterAt(s, label)
      BY <1>6, Zenon DEF WriterCancelled, WriterEnds, WriteFails
    <3>2. QED
      BY <1>0, <3>1, Zenon DEF WriterAt, OutboxTypeOK, Writing
  <2>3. QED
    BY <2>1, <2>2, Zenon DEF Calm
<1>7. ASSUME NEW s \in Session, LooseStep(s) PROVE Calm
  BY <1>7, Zenon DEF LooseStep, StreamStalls, StreamBreaks, ContextEnds, HandlerLeaves,
              HandlerReturns, writerVars, senderVars, Calm, Writing
<1>8. UNCHANGED workerVars => UNCHANGED outboxVars
  BY Zenon DEF workerVars
<1>9. QED
  BY <1>1, <1>2, <1>3, <1>4, <1>5, <1>6, <1>7, <1>8, StepKinds, Zenon DEF SendStep, WriterStep

\* A message in an outbox, or in what was delivered, that gains g at its end was there before or
\* is g.
LEMMA AppendedTo ==
    ASSUME NEW o \in Seq(Sender), NEW g \in Sender, NEW i \in 1..Len(Append(o, g))
    PROVE  Append(o, g)[i] = g \/ \E k \in 1..Len(o) : Append(o, g)[i] = o[k]
<1>1. CASE i = Len(o) + 1
  BY <1>1
<1>2. CASE i \in 1..Len(o)
  <2>1. Append(o, g)[i] = o[i]
    BY <1>2
  <2>2. QED
    BY <1>2, <2>1, Zenon
<1>3. QED
  BY <1>1, <1>2

LEMMA AnsweredKept ==
    ASSUME EventsTypeOK, MessagesAnswered, [EventsNext]_workerVars
    PROVE  MessagesAnswered'
<1>0. OutboxTypeOK
  BY Zenon DEF EventsTypeOK
<1>1. \A g : Answered(g) => Answered(g)'
  BY AnsweredStays, Zenon
<1>2. CASE Calm
  <2>1. ASSUME NEW g \in Sender, send'[g] = "select" PROVE Answered(g)'
    BY <1>1, <1>2, <2>1, Zenon DEF Calm, MessagesAnswered
  <2>2. ASSUME NEW s \in Session
        PROVE  /\ \A i \in 1..Len(outbox'[s]) : Answered(outbox[s][i])'
               /\ Writing(s)' => Answered(writing[s])'
               /\ \A i \in 1..Len(delivered'[s]) : Answered(delivered[s][i])'
    <3>1. UNCHANGED <<outbox, writing, delivered>> /\ (Writing(s)' => Writing(s))
      BY <1>2, Zenon DEF Calm
    <3>2. QED
      BY <1>1, <3>1, Zenon DEF MessagesAnswered, Answered
  <2>3. QED
    BY <2>1, <2>2, Zenon DEF MessagesAnswered
<1>3. ASSUME NEW g \in Sender, SendEnqueues(g) PROVE MessagesAnswered'
  <2>1. /\ UNCHANGED <<writing, delivered, writer>> /\ Answered(g) /\ target[g] \in Session
        /\ outbox' = [outbox EXCEPT ![target[g]] = Append(outbox[target[g]], g)]
    BY <1>0, <1>3, Zenon DEF SendEnqueues, writerVars, MessagesAnswered, OutboxTypeOK
  <2>2. ASSUME NEW h \in Sender, send'[h] = "select" PROVE Answered(h)'
    <3>1. send[h] = "select"
      BY <1>0, <1>3, <2>2, Zenon DEF SendEnqueues, SendAt, OutboxTypeOK
    <3>2. QED
      BY <1>1, <3>1, Zenon DEF MessagesAnswered
  <2>3. ASSUME NEW s \in Session, NEW i \in 1..Len(outbox'[s]) PROVE Answered(outbox[s][i])'
    <3>1. outbox'[s][i] = g \/ \E k \in 1..Len(outbox[s]) : outbox'[s][i] = outbox[s][k]
      <4>1. outbox[s] \in Seq(Sender)
        BY <1>0, Zenon DEF OutboxTypeOK
      <4>2. outbox'[s] = IF s = target[g] THEN Append(outbox[s], g) ELSE outbox[s]
        BY <1>0, <2>1, Zenon DEF OutboxTypeOK
      <4>3. CASE s = target[g]
        <5>1. outbox'[s] = Append(outbox[s], g)
          BY <4>2, <4>3, Zenon
        <5>2. i \in 1..Len(Append(outbox[s], g))
          BY <2>3, <5>1, Zenon
        <5>3. \/ Append(outbox[s], g)[i] = g
              \/ \E k \in 1..Len(outbox[s]) : Append(outbox[s], g)[i] = outbox[s][k]
          BY <4>1, <5>2, AppendedTo, Zenon
        <5>4. QED
          BY <5>1, <5>3, Zenon
      <4>4. CASE s # target[g]
        BY <2>3, <4>2, <4>4, Zenon
      <4>5. QED
        BY <4>3, <4>4, Zenon
    <3>2. \A k \in 1..Len(outbox[s]) : Answered(outbox[s][k])
      BY Zenon DEF MessagesAnswered
    <3>3. QED
      BY <1>1, <2>1, <3>1, <3>2, Zenon DEF Answered
  <2>4. ASSUME NEW s \in Session
        PROVE  /\ Writing(s)' => Answered(writing[s])'
               /\ \A i \in 1..Len(delivered'[s]) : Answered(delivered[s][i])'
    BY <1>1, <2>1, Zenon DEF MessagesAnswered, Answered, Writing
  <2>5. QED
    BY <2>2, <2>3, <2>4, Zenon DEF MessagesAnswered
<1>4. ASSUME NEW s \in Session, WriterTakes(s) PROVE MessagesAnswered'
  <2>1. /\ UNCHANGED <<send, delivered>> /\ outbox[s] \in Seq(Sender) /\ outbox[s] # <<>>
        /\ outbox' = [outbox EXCEPT ![s] = Tail(outbox[s])]
        /\ writing' = [writing EXCEPT ![s] = Head(outbox[s])]
    BY <1>0, <1>4, Zenon DEF WriterTakes, senderVars, OutboxTypeOK
  <2>2. ASSUME NEW t \in Session, NEW i \in 1..Len(outbox'[t]) PROVE Answered(outbox[t][i])'
    <3>1. PICK k \in 1..Len(outbox[t]) : outbox'[t][i] = outbox[t][k]
      <4>1. CASE t # s
        BY <1>0, <2>1, <2>2, <4>1, Zenon DEF OutboxTypeOK
      <4>2. CASE t = s
        <5>1. outbox'[t] = Tail(outbox[t]) /\ outbox[t] \in Seq(Sender) /\ outbox[t] # <<>>
          BY <1>0, <2>1, <4>2, Zenon DEF OutboxTypeOK
        <5>2. i + 1 \in 1..Len(outbox[t]) /\ outbox'[t][i] = outbox[t][i + 1]
          BY <2>2, <5>1
        <5>3. QED
          BY <5>2, Zenon
      <4>3. QED
        BY <4>1, <4>2, Zenon
    <3>2. Answered(outbox[t][k])
      BY Zenon DEF MessagesAnswered
    <3>3. QED
      BY <1>1, <3>1, <3>2, Zenon DEF Answered
  <2>3. ASSUME NEW t \in Session, Writing(t)' PROVE Answered(writing[t])'
    <3>1. CASE t = s
      <4>1. writing'[t] = outbox[s][1] /\ 1 \in 1..Len(outbox[s])
        BY <1>0, <2>1, <3>1 DEF OutboxTypeOK
      <4>2. Answered(outbox[s][1])
        BY <4>1, Zenon DEF MessagesAnswered
      <4>3. QED
        BY <1>1, <4>1, <4>2, Zenon DEF Answered
    <3>2. CASE t # s
      <4>1. writing'[t] = writing[t] /\ Writing(t)
        BY <1>0, <1>4, <2>1, <2>3, <3>2, ZenonT(30) DEF WriterTakes, WriterAt, OutboxTypeOK, Writing
      <4>2. QED
        BY <1>1, <4>1, Zenon DEF MessagesAnswered, Answered
    <3>3. QED
      BY <3>1, <3>2, Zenon
  <2>4. /\ \A g \in Sender : send'[g] = "select" => Answered(g)'
        /\ \A t \in Session : \A i \in 1..Len(delivered'[t]) : Answered(delivered[t][i])'
    BY <1>1, <2>1, Zenon DEF MessagesAnswered, Answered
  <2>5. QED
    BY <2>2, <2>3, <2>4, Zenon DEF MessagesAnswered
<1>5. ASSUME NEW s \in Session, WriteSucceeds(s) PROVE MessagesAnswered'
  <2>1. /\ UNCHANGED <<send, outbox, writing>> /\ delivered[s] \in Seq(Sender)
        /\ delivered' = [delivered EXCEPT ![s] = Append(delivered[s], writing[s])]
    BY <1>0, <1>5, Zenon DEF WriteSucceeds, senderVars, OutboxTypeOK
  <2>2. Answered(writing[s])
    BY <1>5, Zenon DEF WriteSucceeds, Writing, MessagesAnswered
  <2>3. ASSUME NEW t \in Session, NEW i \in 1..Len(delivered'[t]) PROVE Answered(delivered[t][i])'
    <3>1. \/ delivered'[t][i] = writing[s]
          \/ \E k \in 1..Len(delivered[t]) : delivered'[t][i] = delivered[t][k]
      <4>1. delivered \in [Session -> Seq(Sender)] /\ writing[s] \in Sender
        BY <1>0, Zenon DEF OutboxTypeOK
      <4>2. /\ delivered[t] \in Seq(Sender)
            /\ delivered'[t] = IF t = s THEN Append(delivered[t], writing[s]) ELSE delivered[t]
        BY <2>1, <4>1, Zenon
      <4>3. CASE t = s
        <5>1. delivered'[t] = Append(delivered[t], writing[s])
          BY <4>2, <4>3, Zenon
        <5>2. i \in 1..Len(Append(delivered[t], writing[s]))
          BY <2>3, <5>1, Zenon
        <5>3. \/ Append(delivered[t], writing[s])[i] = writing[s]
              \/ \E k \in 1..Len(delivered[t]) :
                   Append(delivered[t], writing[s])[i] = delivered[t][k]
          BY <4>1, <4>2, <5>2, AppendedTo, Zenon
        <5>4. QED
          BY <5>1, <5>3, Zenon
      <4>4. CASE t # s
        BY <2>3, <4>2, <4>4, Zenon
      <4>5. QED
        BY <4>3, <4>4, Zenon
    <3>2. \A k \in 1..Len(delivered[t]) : Answered(delivered[t][k])
      BY Zenon DEF MessagesAnswered
    <3>3. QED
      BY <1>1, <2>2, <3>1, <3>2, Zenon DEF Answered
  <2>4. ASSUME NEW t \in Session, Writing(t)' PROVE Answered(writing[t])'
    <3>1. Writing(t)
      BY <1>0, <1>5, <2>4, Zenon DEF WriteSucceeds, WriterAt, OutboxTypeOK, Writing
    <3>2. QED
      BY <1>1, <2>1, <3>1, Zenon DEF MessagesAnswered, Answered
  <2>5. /\ \A g \in Sender : send'[g] = "select" => Answered(g)'
        /\ \A t \in Session : \A i \in 1..Len(outbox'[t]) : Answered(outbox[t][i])'
    BY <1>1, <2>1, Zenon DEF MessagesAnswered, Answered
  <2>6. QED
    BY <2>3, <2>4, <2>5, Zenon DEF MessagesAnswered
<1>6. QED
  BY <1>2, <1>3, <1>4, <1>5, CalmSteps, Zenon

LEMMA PredecessorsKept ==
    ASSUME EventsTypeOK, MessagesAnswered, PredecessorsAnswered, [EventsNext]_workerVars
    PROVE  PredecessorsAnswered'
<1>1. ASSUME NEW f \in Event, ReceiveEvent(f) PROVE PredecessorsAnswered'
  <2>1. ASSUME NEW d \in Event, <<d, f>> \in Precedes PROVE Answered(d)
    <3>1. sessionOf[d] \in Session /\ Acked(d)
      BY <1>1, <2>1, EventsAssumption, Zenon DEF ReceiveEvent
    <3>2. PICK i \in DOMAIN delivered[sessionOf[d]] : delivered[sessionOf[d]][i] = d
      BY <3>1, Zenon DEF Acked
    <3>3. i \in 1..Len(delivered[sessionOf[d]])
      <4>1. delivered[sessionOf[d]] \in Seq(Sender)
        BY <3>1, Zenon DEF EventsTypeOK, OutboxTypeOK
      <4>2. QED
        BY <3>2, <4>1
    <3>4. QED
      BY <3>1, <3>2, <3>3, Zenon DEF MessagesAnswered
  <2>2. ASSUME NEW d \in Event, NEW e \in Event, <<d, e>> \in Precedes, event'[e] # "unsent"
        PROVE  Answered(d)'
    <3>1. Answered(d)
      <4>1. e # f => event[e] # "unsent"
        BY <1>1, <2>2, Zenon DEF ReceiveEvent, EventsTypeOK
      <4>2. QED
        BY <2>1, <2>2, <4>1, Zenon DEF PredecessorsAnswered
    <3>2. QED
      BY <3>1, AnsweredStays, Zenon
  <2>3. QED
    BY <2>2, Zenon DEF PredecessorsAnswered
<1>2. ASSUME NEW f \in Event, handleEvent(f) PROVE PredecessorsAnswered'
  <2>1. \A e \in Event : event'[e] # "unsent" => event[e] # "unsent"
    BY <1>2, Zenon DEF handleEvent, EventsTypeOK
  <2>2. QED
    BY <2>1, AnsweredStays, Zenon DEF PredecessorsAnswered
<1>3. CASE UNCHANGED <<event, store>>
  BY <1>3, Zenon DEF PredecessorsAnswered, Answered
<1>4. QED
  BY <1>1, <1>2, <1>3, EventSteps, Zenon

CurrentFor(e) ==
    LET f == store[StoreKey(payload[e])] IN
    /\ f \in Event
    /\ Recorded(payload[f])
    /\ StoreKey(payload[f]) = StoreKey(payload[e])
    /\ <<f, e>> \notin Precedes

LEMMA StoreKept ==
    ASSUME EventsTypeOK, PredecessorsAnswered, StoreCurrent, [EventsNext]_workerVars
    PROVE  StoreCurrent'
<1>1. \A e \in Event : event[e] = "answered" /\ Recorded(payload[e]) => CurrentFor(e)
  BY Zenon DEF StoreCurrent, CurrentFor
<1>2. SUFFICES ASSUME NEW e \in Event, event'[e] = "answered", Recorded(payload[e])
               PROVE  CurrentFor(e)'
  BY Zenon DEF StoreCurrent, CurrentFor
<1>3. ASSUME NEW f \in Event, ReceiveEvent(f) PROVE CurrentFor(e)'
  <2>1. event[e] = "answered" /\ store' = store
    BY <1>2, <1>3, Zenon DEF ReceiveEvent, EventsTypeOK
  <2>2. QED
    BY <1>1, <1>2, <2>1, Zenon DEF CurrentFor
<1>4. ASSUME NEW f \in Event, handleEvent(f) PROVE CurrentFor(e)'
  <2>1. e # f => event[e] = "answered"
    BY <1>2, <1>4, Zenon DEF handleEvent, EventsTypeOK
  <2>2. CASE Recorded(payload[f]) /\ StoreKey(payload[f]) = StoreKey(payload[e])
    <3>1. store'[StoreKey(payload[e])] = f
      <4>1. StoreKey(payload[e]) \in Keys
        BY <1>2, Zenon DEF Keys
      <4>2. store' = [store EXCEPT ![StoreKey(payload[e])] = f]
        BY <1>4, <2>2, Zenon DEF handleEvent
      <4>3. QED
        BY <4>1, <4>2, Zenon DEF EventsTypeOK
    <3>2. event[f] = "received"
      BY <1>4, Zenon DEF handleEvent
    <3>3. <<f, e>> \notin Precedes
      <4>1. event[e] # "unsent"
        BY <2>1, <3>2, Zenon
      <4>2. ~Answered(f)
        BY <3>2, Zenon DEF Answered
      <4>3. QED
        BY <4>1, <4>2, Zenon DEF PredecessorsAnswered
    <3>4. QED
      BY <2>2, <3>1, <3>3, Zenon DEF CurrentFor
  <2>3. CASE ~(Recorded(payload[f]) /\ StoreKey(payload[f]) = StoreKey(payload[e]))
    <3>1. e # f
      BY <1>2, <2>3, Zenon
    <3>2. store'[StoreKey(payload[e])] = store[StoreKey(payload[e])]
      <4>1. StoreKey(payload[e]) \in Keys /\ (Recorded(payload[f]) => StoreKey(payload[f]) \in Keys)
        BY <1>2, Zenon DEF Keys
      <4>2. QED
        BY <1>4, <2>3, <4>1, Zenon DEF handleEvent, EventsTypeOK
    <3>3. CurrentFor(e)
      BY <1>1, <1>2, <2>1, <3>1, Zenon
    <3>4. QED
      BY <3>2, <3>3, Zenon DEF CurrentFor
  <2>4. QED
    BY <2>2, <2>3, Zenon
<1>5. CASE UNCHANGED <<event, store>>
  BY <1>1, <1>2, <1>5, Zenon DEF CurrentFor
<1>6. QED
  BY <1>3, <1>4, <1>5, EventSteps, Zenon

\* handleEventAsync records an event before its acknowledgement can reach the
\* worker, and no later event undoes an update that its worker waited for.
THEOREM AckedEventsRecorded == EventsSpec => []AckedRecorded
<1>1. ASSUME EventsInit PROVE RecordInv
  <2>1. MessagesAnswered
    BY <1>1 DEF EventsInit, OutboxInit, MessagesAnswered, Writing
  <2>2. PredecessorsAnswered /\ StoreCurrent
    BY <1>1, Zenon DEF EventsInit, PredecessorsAnswered, StoreCurrent
  <2>3. QED
    BY <2>1, <2>2, Zenon DEF RecordInv
<1>2. ASSUME EventsTypeOK, RecordInv, [EventsNext]_workerVars PROVE RecordInv'
  BY <1>2, AnsweredKept, PredecessorsKept, StoreKept, Zenon DEF RecordInv
<1>3. ASSUME EventsTypeOK, RecordInv PROVE AckedRecorded
  <2>1. SUFFICES ASSUME NEW e \in Event, Recorded(payload[e]), Acked(e)
                 PROVE  LET f == store[StoreKey(payload[e])] IN
                        f \in Event /\ SameSubject(payload[f], payload[e]) /\ <<f, e>> \notin Precedes
    BY Zenon DEF AckedRecorded
  <2>2. sessionOf[e] \in Session
    BY EventsAssumption, Zenon
  <2>3. PICK i \in DOMAIN delivered[sessionOf[e]] : delivered[sessionOf[e]][i] = e
    BY <2>1, Zenon DEF Acked
  <2>4. i \in 1..Len(delivered[sessionOf[e]])
    <3>1. delivered[sessionOf[e]] \in Seq(Sender)
      BY <1>3, <2>2, Zenon DEF EventsTypeOK, OutboxTypeOK
    <3>2. QED
      BY <2>3, <3>1
  <2>5. event[e] = "answered"
    BY <1>3, <2>2, <2>3, <2>4, Zenon DEF RecordInv, MessagesAnswered, Answered
  <2>6. QED
    BY <1>3, <2>1, <2>5, KeysAssumption, Zenon DEF RecordInv, StoreCurrent
<1>4. QED
  BY <1>1, <1>2, <1>3, EventsTypeCorrect, PTL DEF EventsSpec
=============================================================================
