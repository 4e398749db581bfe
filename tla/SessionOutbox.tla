---------------------------- MODULE SessionOutbox ----------------------------
(***************************************************************************)
(* The outgoing half of a worker stream, internal/api/grpc/events/         *)
(* session.go: any number of goroutines call Session.Send, a channel of    *)
(* bounded capacity carries the messages to the writer goroutine, and the  *)
(* handler of the stream, the SessionManager and the writer itself may     *)
(* call Session.Close, each at any moment.                                 *)
(*                                                                         *)
(* Go's rules for channels are part of the model: a select takes any case  *)
(* that is ready, a closed channel still yields what it holds, and a send  *)
(* to a closed channel, even one that was already waiting, panics.         *)
(*                                                                         *)
(* A message is named by the goroutine that sends it.  One message larger  *)
(* than the 128 MB a stream takes is left out: writing fails only once the *)
(* stream is down, and then for every message.                             *)
(***************************************************************************)
EXTENDS Naturals, Sequences

CONSTANTS
    Session,
    Sender,       \* the goroutines that call Send
    OutboxSize,   \* DefaultSessionOutboxSize
    Stalls,       \* the sessions whose worker may stop reading its stream
    Breaks        \* the sessions whose connection may break

ASSUME OutboxAssumption ==
    /\ OutboxSize \in Nat \ {0}
    /\ Session # {} /\ Sender # {}
    /\ Stalls \subseteq Session
    /\ Breaks \subseteq Session

VARIABLES
    closed,       \* s.closed = SessionClosed
    cancelled,    \* s.ctx.Done() is closed
    outboxClosed, \* close(s.outbox) has run
    outbox,       \* what s.outbox holds
    closePC,      \* where each caller of Close is
    writer,       \* where writerLoop is
    writing,      \* the message it passes to stream.Send
    stream,       \* whether stream.Send succeeds, blocks or fails
    handler,      \* where the stream's CoordinateWorker is
    send,         \* whether each sender waits in the select of Send
    target,       \* the session it sends to
    accepted,     \* per session, the messages Send returned nil for
    delivered,    \* per session, the messages stream.Send returned nil for
    panicked      \* a panic that nobody recovers ended the process

closeVars   == <<closed, outboxClosed, closePC, panicked>>
writerVars  == <<writer, writing, delivered>>
senderVars  == <<send, target, accepted>>
streamVars  == <<stream, handler>>

outboxVars == <<closeVars, cancelled, outbox, writerVars, senderVars, streamVars>>

Closer == {"handler", "manager", "writer"}

\* The types, and the capacity of the outbox.
OutboxTypeOK ==
    /\ closed \in [Session -> BOOLEAN]
    /\ cancelled \in [Session -> BOOLEAN]
    /\ outboxClosed \in [Session -> BOOLEAN]
    /\ outbox \in [Session -> Seq(Sender)]
    /\ \A s \in Session : Len(outbox[s]) <= OutboxSize
    /\ closePC \in [Session -> [Closer -> {"idle", "cancel", "close", "returned"}]]
    /\ writer \in [Session -> {"select", "send", "drain", "drainSend", "closing", "done"}]
    /\ writing \in [Session -> Sender]
    /\ stream \in [Session -> {"up", "stalled", "down"}]
    /\ handler \in [Session -> {"running", "closing", "returned"}]
    /\ send \in [Sender -> {"idle", "select"}]
    /\ target \in [Sender -> Session]
    /\ accepted \in [Session -> Seq(Sender)]
    /\ delivered \in [Session -> Seq(Sender)]
    /\ panicked \in BOOLEAN

\* Every session is started: NewSession and Start have run.
OutboxInit ==
    /\ closed = [s \in Session |-> FALSE]
    /\ cancelled = [s \in Session |-> FALSE]
    /\ outboxClosed = [s \in Session |-> FALSE]
    /\ outbox = [s \in Session |-> <<>>]
    /\ closePC = [s \in Session |-> [c \in Closer |-> "idle"]]
    /\ writer = [s \in Session |-> "select"]
    /\ writing = [s \in Session |-> CHOOSE g \in Sender : TRUE]
    /\ stream = [s \in Session |-> "up"]
    /\ handler = [s \in Session |-> "running"]
    /\ send = [g \in Sender |-> "idle"]
    /\ target = [g \in Sender |-> CHOOSE s \in Session : TRUE]
    /\ accepted = [s \in Session |-> <<>>]
    /\ delivered = [s \in Session |-> <<>>]
    /\ panicked = FALSE

-----------------------------------------------------------------------------
(* Close *)

CloseReturned(s, c) == closePC[s][c] = "returned"

CloseAt(s, c, label) == closePC' = [closePC EXCEPT ![s][c] = label]

\* Mutant: Close does not look whether the session is closed.
CloseAlways(s, c) ==
    /\ closePC[s][c] = "idle"
    /\ CloseAt(s, c, "cancel")
    /\ closed' = [closed EXCEPT ![s] = TRUE]
    /\ UNCHANGED <<outboxClosed, panicked, cancelled, outbox, writerVars, senderVars, streamVars>>

\* The compare-and-swap of closed, which only the first caller wins.
CloseSwaps(s, c) ==
    /\ closePC[s][c] = "idle"
    /\ CloseAt(s, c, IF closed[s] THEN "returned" ELSE "cancel")
    /\ closed' = [closed EXCEPT ![s] = TRUE]
    /\ UNCHANGED <<outboxClosed, panicked, cancelled, outbox, writerVars, senderVars, streamVars>>

CloseCancels(s, c) ==
    /\ closePC[s][c] = "cancel"
    /\ CloseAt(s, c, "close")
    /\ cancelled' = [cancelled EXCEPT ![s] = TRUE]
    /\ UNCHANGED <<closed, outboxClosed, panicked, outbox, writerVars, senderVars, streamVars>>

\* close(s.outbox), which panics when the channel is closed already.
CloseOutbox(s, c) ==
    /\ closePC[s][c] = "close"
    /\ CloseAt(s, c, "returned")
    /\ outboxClosed' = [outboxClosed EXCEPT ![s] = TRUE]
    /\ panicked' = (panicked \/ outboxClosed[s])
    /\ UNCHANGED <<closed, cancelled, outbox, writerVars, senderVars, streamVars>>

\* A call of Close is made by the manager at any time, by the handler and
\* by the writer when they are about to return.
CloseCalled(s, c) ==
    \/ c = "manager"
    \/ c = "handler" /\ handler[s] = "closing"
    \/ c = "writer" /\ writer[s] = "closing"

CloseStep(s, c) ==
    \/ CloseCalled(s, c) /\ CloseSwaps(s, c)
    \/ CloseCancels(s, c)
    \/ CloseOutbox(s, c)

-----------------------------------------------------------------------------
(* Send *)

SendAt(g, label) == send' = [send EXCEPT ![g] = label]

\* The goroutine calls Send on the session, which returns at once when the
\* session is closed.
CallSend(g, s) ==
    /\ send[g] = "idle"
    /\ SendAt(g, IF closed[s] THEN "idle" ELSE "select")
    /\ target' = [target EXCEPT ![g] = s]
    /\ UNCHANGED <<accepted, closeVars, cancelled, outbox, writerVars, streamVars>>

\* Mutant: a full outbox drops its oldest message.
SendReplacesOldest(g) ==
    /\ send[g] = "select"
    /\ ~outboxClosed[target[g]]
    /\ outbox' = [outbox EXCEPT ![target[g]] =
                    Append(IF Len(@) < OutboxSize THEN @ ELSE Tail(@), g)]
    /\ accepted' = [accepted EXCEPT ![target[g]] = Append(@, g)]
    /\ SendAt(g, "idle")
    /\ UNCHANGED <<target, closeVars, cancelled, writerVars, streamVars>>

\* Mutant: the outbox grows.
SendUnbounded(g) ==
    /\ send[g] = "select"
    /\ ~outboxClosed[target[g]]
    /\ outbox' = [outbox EXCEPT ![target[g]] = Append(@, g)]
    /\ accepted' = [accepted EXCEPT ![target[g]] = Append(@, g)]
    /\ SendAt(g, "idle")
    /\ UNCHANGED <<target, closeVars, cancelled, writerVars, streamVars>>

SendEnqueues(g) ==
    /\ send[g] = "select"
    /\ ~outboxClosed[target[g]]
    /\ Len(outbox[target[g]]) < OutboxSize
    /\ outbox' = [outbox EXCEPT ![target[g]] = Append(@, g)]
    /\ accepted' = [accepted EXCEPT ![target[g]] = Append(@, g)]
    /\ SendAt(g, "idle")
    /\ UNCHANGED <<target, closeVars, cancelled, writerVars, streamVars>>

\* The select sees ctx.Done, or panics on the closed channel and recovers:
\* either way Send returns an error.
SendFails(g) ==
    /\ send[g] = "select"
    /\ cancelled[target[g]] \/ outboxClosed[target[g]]
    /\ SendAt(g, "idle")
    /\ UNCHANGED <<target, accepted, closeVars, cancelled, outbox, writerVars, streamVars>>

SendStep(g) == SendEnqueues(g) \/ SendFails(g)

-----------------------------------------------------------------------------
(* The writer *)

WriterAt(s, label) == writer' = [writer EXCEPT ![s] = label]

\* A message is received from the outbox, by writerLoop or by drainOutbox.
WriterTakes(s) ==
    /\ outbox[s] # <<>>
    /\ \/ writer[s] = "select" /\ WriterAt(s, "send")
       \/ writer[s] = "drain" /\ WriterAt(s, "drainSend")
    /\ writing' = [writing EXCEPT ![s] = Head(outbox[s])]
    /\ outbox' = [outbox EXCEPT ![s] = Tail(@)]
    /\ UNCHANGED <<delivered, closeVars, cancelled, senderVars, streamVars>>

WriterCancelled(s) ==
    /\ writer[s] = "select"
    /\ cancelled[s]
    /\ WriterAt(s, "drain")
    /\ UNCHANGED <<writing, delivered, closeVars, cancelled, outbox, senderVars, streamVars>>

\* writerLoop receives !ok; drainOutbox finds the outbox empty, or its five
\* seconds are over.
WriterEnds(s) ==
    /\ \/ writer[s] = "select" /\ outbox[s] = <<>> /\ outboxClosed[s]
       \/ writer[s] = "drain"
       \/ writer[s] = "closing" /\ CloseReturned(s, "writer")
    /\ WriterAt(s, "done")
    /\ UNCHANGED <<writing, delivered, closeVars, cancelled, outbox, senderVars, streamVars>>

\* stream.Send returns nil.
WriteSucceeds(s) ==
    /\ writer[s] \in {"send", "drainSend"}
    /\ stream[s] = "up"
    /\ delivered' = [delivered EXCEPT ![s] = Append(@, writing[s])]
    /\ WriterAt(s, IF writer[s] = "send" THEN "select" ELSE "drain")
    /\ UNCHANGED <<writing, closeVars, cancelled, outbox, senderVars, streamVars>>

\* Mutant: the writer ends without closing the session.
WriteFailsQuietly(s) ==
    /\ writer[s] \in {"send", "drainSend"}
    /\ stream[s] = "down"
    /\ WriterAt(s, IF writer[s] = "send" THEN "done" ELSE "drain")
    /\ UNCHANGED <<writing, delivered, closeVars, cancelled, outbox, senderVars, streamVars>>

\* It returns an error, upon which writerLoop closes the session and
\* drainOutbox goes on.
WriteFails(s) ==
    /\ writer[s] \in {"send", "drainSend"}
    /\ stream[s] = "down"
    /\ WriterAt(s, IF writer[s] = "send" THEN "closing" ELSE "drain")
    /\ UNCHANGED <<writing, delivered, closeVars, cancelled, outbox, senderVars, streamVars>>

WriterStep(s) ==
    \/ WriterTakes(s)
    \/ WriterCancelled(s)
    \/ WriterEnds(s)
    \/ WriteSucceeds(s)
    \/ WriteFails(s)

-----------------------------------------------------------------------------
(* The stream and its handler *)

\* The worker stops reading for good, and stream.Send blocks.
StreamStalls(s) ==
    /\ s \in Stalls
    /\ stream[s] = "up"
    /\ stream' = [stream EXCEPT ![s] = "stalled"]
    /\ UNCHANGED <<handler, closeVars, cancelled, outbox, writerVars, senderVars>>

\* The connection breaks.
StreamBreaks(s) ==
    /\ s \in Breaks
    /\ stream[s] # "down"
    /\ stream' = [stream EXCEPT ![s] = "down"]
    /\ UNCHANGED <<handler, closeVars, cancelled, outbox, writerVars, senderVars>>

\* gRPC cancels the context of a broken stream, the parent of the session's.
ContextEnds(s) ==
    /\ stream[s] = "down"
    /\ ~cancelled[s]
    /\ cancelled' = [cancelled EXCEPT ![s] = TRUE]
    /\ UNCHANGED <<closeVars, outbox, writerVars, senderVars, streamVars>>

\* CoordinateWorker leaves its loop: session.Done is closed, or the worker
\* ended the stream, at any time.  Its deferred function calls Close.
HandlerLeaves(s) ==
    /\ handler[s] = "running"
    /\ handler' = [handler EXCEPT ![s] = "closing"]
    /\ UNCHANGED <<stream, closeVars, cancelled, outbox, writerVars, senderVars>>

\* Mutant: the handler waits for writerDone.
HandlerAwaitsWriter(s) ==
    /\ handler[s] = "closing"
    /\ CloseReturned(s, "handler")
    /\ writer[s] = "done"
    /\ handler' = [handler EXCEPT ![s] = "returned"]
    /\ stream' = [stream EXCEPT ![s] = "down"]
    /\ cancelled' = [cancelled EXCEPT ![s] = TRUE]
    /\ UNCHANGED <<closeVars, outbox, writerVars, senderVars>>

\* It returns, which ends the RPC, whatever the writer is doing.
HandlerReturns(s) ==
    /\ handler[s] = "closing"
    /\ CloseReturned(s, "handler")
    /\ handler' = [handler EXCEPT ![s] = "returned"]
    /\ stream' = [stream EXCEPT ![s] = "down"]
    /\ cancelled' = [cancelled EXCEPT ![s] = TRUE]
    /\ UNCHANGED <<closeVars, outbox, writerVars, senderVars>>

SessionStep(s) ==
    \/ \E c \in Closer : CloseStep(s, c)
    \/ WriterStep(s)
    \/ StreamStalls(s)
    \/ StreamBreaks(s)
    \/ ContextEnds(s)
    \/ HandlerLeaves(s)
    \/ HandlerReturns(s)
=============================================================================
