---------------------------- MODULE WorkerEvents ----------------------------
(***************************************************************************)
(* The events workers send on their streams and what the master does with  *)
(* them: CoordinateWorker starts one goroutine per event (handleEventAsync *)
(* of internal/api/grpc/control_plane_service.go), which dispatches it,    *)
(* records it in the ControlPlaneStateStore                                *)
(* (internal/api/grpc/events/state_handlers.go) and sends an               *)
(* acknowledgement through the session's outbox.  The master's own         *)
(* messages, SessionManager.ToWorker and Broadcast, go through the same    *)
(* outboxes.                                                               *)
(*                                                                         *)
(* An event is its goroutine: a Sender whose message is the                *)
(* acknowledgement.  Identifiers are sequences of symbols, for their       *)
(* concatenation into the keys of the store matters.  Registering the      *)
(* session is WorkerSessions' matter: a session is in the manager's map    *)
(* here until its handler leaves.                                          *)
(***************************************************************************)
EXTENDS SessionOutbox

CONSTANTS
    Event,        \* the senders that are goroutines of events
    sessionOf,    \* the session an event arrives on
    payload,      \* what the event carries
    Precedes,     \* the pairs of events <<d, e>> such that the worker waits
                  \* for the acknowledgement of d before it sends e
    addressees,   \* for every other sender, the sessions it sends to
    NoEvent

\* The messages of the master that answer no event.
Caller == Sender \ Event

ASSUME EventsAssumption ==
    /\ Event \subseteq Sender
    /\ NoEvent \notin Event
    /\ sessionOf \in [Event -> Session]
    /\ Precedes \subseteq Event \X Event
    /\ \A d, e \in Event : <<d, e>> \in Precedes => sessionOf[d] = sessionOf[e]
    /\ addressees \in [Caller -> SUBSET Session]

VARIABLES
    event,     \* where the goroutine of each event is
    store,     \* the maps of the ControlPlaneStateStore, as one
    todo       \* the sessions each caller has still to visit

eventVars == <<event, store, todo>>
workerVars == <<outboxVars, eventVars>>

-----------------------------------------------------------------------------
(* The handlers *)

\* The kinds RegisterAllEventHandlers installs a handler for.
Handled == {"register", "heartbeat", "pull", "common_ack"}

\* A heartbeat is always accepted; the others must name what they are about.
Valid(p) ==
    /\ p.kind \in Handled
    /\ p.kind # "heartbeat" => p.id # <<>>
    /\ p.kind = "pull" => p.name # <<>>

Recorded(p) == Valid(p) /\ p.kind # "heartbeat"

\* The map and the key that an event is stored under: the node's id, or
\* pullStatusKey or commonAckKey, two identifiers joined by a slash.
StoreKey(p) ==
    <<p.kind>> \o (IF p.kind = "register" THEN p.id ELSE p.id \o <<"/">> \o p.name)

Keys == {StoreKey(payload[e]) : e \in {d \in Event : Recorded(payload[d])}}

\* Two events are about the same thing.
SameSubject(p, q) ==
    p.kind = q.kind /\ p.id = q.id /\ (p.kind # "register" => p.name = q.name)

\* No epoch id and no event type contains a slash (the ids of
\* generateEpochID do not), which makes the keys unambiguous.
ASSUME KeysAssumption ==
    \A d, e \in Event :
        /\ Recorded(payload[d]) /\ Recorded(payload[e])
        /\ StoreKey(payload[d]) = StoreKey(payload[e])
        => SameSubject(payload[d], payload[e])

\* The types; the outboxes keep their capacity.
EventsTypeOK ==
    /\ OutboxTypeOK
    /\ event \in [Event -> {"unsent", "received", "answered"}]
    /\ store \in [Keys -> Event \cup {NoEvent}]
    /\ todo \in [Caller -> SUBSET Session]

EventsInit ==
    /\ OutboxInit
    /\ event = [e \in Event |-> "unsent"]
    /\ store = [k \in Keys |-> NoEvent]
    /\ todo = addressees

-----------------------------------------------------------------------------
(* The life of an event *)

\* The acknowledgement of the event has reached the worker.
Acked(e) == \E i \in DOMAIN delivered[sessionOf[e]] : delivered[sessionOf[e]][i] = e

\* The worker sends it, the handler of the stream receives it and starts a
\* goroutine for it.
ReceiveEvent(e) ==
    /\ event[e] = "unsent"
    /\ handler[sessionOf[e]] = "running"
    /\ \A d \in Event : <<d, e>> \in Precedes => Acked(d)
    /\ event' = [event EXCEPT ![e] = "received"]
    /\ UNCHANGED <<store, todo, outboxVars>>

\* Mutant: an event that fails is only logged.
handleEventSilently(e) ==
    /\ event[e] = "received"
    /\ event' = [event EXCEPT ![e] = "answered"]
    /\ IF Recorded(payload[e])
       THEN store' = [store EXCEPT ![StoreKey(payload[e])] = e]
       ELSE UNCHANGED store
    /\ IF Valid(payload[e]) THEN CallSend(e, sessionOf[e]) ELSE UNCHANGED outboxVars
    /\ UNCHANGED todo

\* Mutant: the handler acknowledges and records nothing.
handleEventUnrecorded(e) ==
    /\ event[e] = "received"
    /\ event' = [event EXCEPT ![e] = "answered"]
    /\ UNCHANGED store
    /\ CallSend(e, sessionOf[e])
    /\ UNCHANGED todo

\* handleEventAsync: the dispatcher finds the handler, which records the
\* event and makes the acknowledgement; the answer to an event that is not
\* Valid is an error_ack, and nothing is recorded.
handleEvent(e) ==
    /\ event[e] = "received"
    /\ event' = [event EXCEPT ![e] = "answered"]
    /\ IF Recorded(payload[e])
       THEN store' = [store EXCEPT ![StoreKey(payload[e])] = e]
       ELSE UNCHANGED store
    /\ CallSend(e, sessionOf[e])
    /\ UNCHANGED todo

EventStep(e) == handleEvent(e) \/ (SendStep(e) /\ UNCHANGED eventVars)

-----------------------------------------------------------------------------
(* Messages of the master *)

\* ToWorker, and each step of Broadcast's Range: the session is sent to when
\* it is still in the map, and Range goes on whatever Send returns.
Visit(g, s) ==
    /\ s \in todo[g]
    /\ todo' = [todo EXCEPT ![g] = @ \ {s}]
    /\ IF handler[s] = "running"
       THEN CallSend(g, s)
       ELSE send[g] = "idle" /\ UNCHANGED outboxVars
    /\ UNCHANGED <<event, store>>

CallerStep(g) ==
    \/ \E s \in Session : Visit(g, s)
    \/ SendStep(g) /\ UNCHANGED eventVars

-----------------------------------------------------------------------------
EventsNext ==
    \/ \E e \in Event : ReceiveEvent(e) \/ EventStep(e)
    \/ \E g \in Caller : CallerStep(g)
    \/ \E s \in Session : SessionStep(s) /\ UNCHANGED eventVars

EventsSpec == EventsInit /\ [][EventsNext]_workerVars

\* A step of the master's goroutines, each of which the scheduler runs, where
\* stream.Send returns unless the worker stopped reading.  Nothing is assumed
\* of the workers, of their connections, or of whoever closes the manager.
MasterStep ==
    \/ \E e \in Event : EventStep(e)
    \/ \E g \in Caller : CallerStep(g)
    \/ \E s \in Session :
        /\ \/ WriterStep(s)
           \/ cancelled[s] /\ HandlerLeaves(s)
           \/ HandlerReturns(s)
           \/ \E c \in Closer :
                (c = "manager" => closePC[s][c] # "idle") /\ CloseStep(s, c)
        /\ UNCHANGED eventVars

\* Every behaviour is finite up to stuttering, so that fairness of the master
\* as a whole is as much as fairness of each goroutine.
LiveEventsSpec == EventsSpec /\ WF_workerVars(MasterStep)

-----------------------------------------------------------------------------
(* Properties *)

\* Several callers of Session.Close, at once or one after the other, never
\* close the outbox twice, which would end the process.
NoPanic == ~panicked

\* Of the callers of Close at most one is past the compare-and-swap, and as long
\* as it is the outbox is open.
Closing(s) == {c \in Closer : closePC[s][c] \in {"cancel", "close"}}

ClosedOnce ==
    \A s \in Session :
      /\ outboxClosed[s] => closed[s] /\ Closing(s) = {}
      /\ \A c \in Closing(s) : closed[s] /\ Closing(s) = {c}

Channel == INSTANCE OutboxChannel WITH Message <- Sender

\* As long as the stream is not down, what was accepted is what was delivered,
\* what is being written and what waits in the outbox, in this order.
Writing(s) == writer[s] \in {"send", "drainSend"}

Taken(s) == Len(delivered[s]) + (IF Writing(s) THEN 1 ELSE 0)

Window(n, a, o) ==
    Len(a) = n + Len(o) /\ \A i \in 1..Len(o) : o[i] = a[n + i]

Aligned(s) ==
    /\ Window(Taken(s), accepted[s], outbox[s])
    /\ Writing(s) => writing[s] = accepted[s][Taken(s)]

OutboxAligned == \A s \in Session : stream[s] # "down" => Aligned(s)

\* What each session delivers is what OutboxChannel promises: Send, writerLoop
\* and drainOutbox neither reorder, repeat nor skip an accepted message, and
\* only the tail is lost when a session closes.
OutboxDelivers == Channel!ChannelSpec

\* Once a worker has the acknowledgement of an event that is to be recorded,
\* the store answers for its subject, with this event or with one that this
\* event did not wait for: handlers record before they acknowledge, and a
\* worker that waits for acknowledgements never sees its updates undone.
AckedRecorded ==
    \A e \in Event : Recorded(payload[e]) /\ Acked(e) =>
        LET f == store[StoreKey(payload[e])] IN
        /\ f \in Event
        /\ SameSubject(payload[f], payload[e])
        /\ <<f, e>> \notin Precedes

\* The three facts AckedRecorded rests on: a message that waits, travels or has
\* arrived was sent by a goroutine that has recorded its event; a worker that
\* waits does so for events that are recorded; and what the store holds is not
\* older than any recorded event with the same key.
Answered(g) == g \in Event => event[g] = "answered"

MessagesAnswered ==
    /\ \A g \in Sender : send[g] = "select" => Answered(g)
    /\ \A s \in Session :
         /\ \A i \in 1..Len(outbox[s]) : Answered(outbox[s][i])
         /\ Writing(s) => Answered(writing[s])
         /\ \A i \in 1..Len(delivered[s]) : Answered(delivered[s][i])

PredecessorsAnswered ==
    \A d, e \in Event : <<d, e>> \in Precedes /\ event[e] # "unsent" => Answered(d)

StoreCurrent ==
    \A e \in Event : event[e] = "answered" /\ Recorded(payload[e]) =>
        LET f == store[StoreKey(payload[e])] IN
        /\ f \in Event
        /\ Recorded(payload[f])
        /\ StoreKey(payload[f]) = StoreKey(payload[e])
        /\ <<f, e>> \notin Precedes

RecordInv == MessagesAnswered /\ PredecessorsAnswered /\ StoreCurrent

\* What makes NoPanic, OutboxDelivers and AckedRecorded inductive.
EventsInv == ClosedOnce /\ OutboxAligned /\ RecordInv

\* Every event received is answered, if only by an error, unless its session
\* ends or its worker stops reading.
EventsAnswered ==
    \A e \in Event :
        event[e] = "received" ~>
            Acked(e) \/ cancelled[sessionOf[e]] \/ stream[sessionOf[e]] = "stalled"

\* ToWorker and Broadcast return, unless a session whose worker stopped
\* reading stays open: Send is not left blocked on a session that is over.
CallsReturn ==
    \A g \in Caller :
        <>(todo[g] = {} /\ send[g] = "idle")
        \/ \E s \in Session : <>[](stream[s] = "stalled" /\ ~cancelled[s])

\* The writer of a session that is over ends, even when it is blocked on a
\* worker that does not read, because the handler returns without waiting
\* for it.
WritersEnd == \A s \in Session : cancelled[s] ~> writer[s] = "done"
=============================================================================
