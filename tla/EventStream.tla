----------------------------- MODULE EventStream -----------------------------
(***************************************************************************)
(* The events of one run, from the stream of Hermes to the screens that    *)
(* follow the conversation.                                                *)
(*                                                                         *)
(* HermesEventNormalizer numbers the events of the run and holds back the  *)
(* deltas of text until an event that is not a delta arrives, a timer of   *)
(* 100 ms fires, or the stream ends.  Each batch it gives goes through     *)
(* persistEvents: one transaction that inserts its rows one by one, whose  *)
(* identities are the cursors, takes the row locks of the run and of the   *)
(* conversation, and commits; the batch is then published to the viewers   *)
(* of this process.  The loop waits for its batch, the timer for nothing:  *)
(* several transactions of one run are open at the same time, on the pool. *)
(*                                                                         *)
(* A viewer (createProductEventStream) subscribes, lists what is in the    *)
(* table after its cursor, and sends in one queue what it lists, what is   *)
(* published and what it lists again every two seconds.                    *)
(***************************************************************************)
EXTENDS Naturals, Sequences, FiniteSets, SequencesExt, FiniteSetsExt

CONSTANTS
    Loop,       \* the batches of consumeAgentStream
    Timers,     \* bound: batches of the timer open at the same time
    Viewers,    \* the connections that follow the conversation
    MaxDeltas,  \* bound: deltas of text Hermes sends
    MaxCalls,   \* bound: other events it sends before the end
    Nobody

ASSUME EventStreamAssumption ==
    /\ Loop \notin Timers
    /\ Nobody \notin Timers \union {Loop}
    /\ MaxDeltas \in Nat /\ MaxCalls \in Nat

Writers == Timers \union {Loop}

VARIABLES
    received,   \* history: deltas received from Hermes
    called,     \* history: other events, but the first end
    buffer,     \* normalizer.buffer: the deltas held back
    sequence,   \* normalizer.sequence
    ticking,    \* whether flushTimer is set
    loop,       \* where consumeAgentStream is between two batches
    writer,     \* the calls of persistEvents
    identity,   \* the last value of the identity run_events.id
    rows,       \* the rows of run_events that are committed
    rowLock,    \* the transaction that holds the lock of the row of the run
    listed,     \* the rows completeRun read to build the message
    message,    \* the rows the message of the assistant was built from
    viewer      \* the streams of createProductEventStream

normalizerVars == <<received, called, buffer, sequence, ticking, loop>>
tableVars      == <<identity, rows, rowLock>>
messageVars    == <<listed, message>>
streamVars     == <<normalizerVars, writer, tableVars, messageVars, viewer>>

Kinds == {"text", "call", "end"}
MaxSequence == MaxDeltas + MaxCalls + 1
Cursors     == 0..(MaxSequence + 1)

\* deltas: those an event of text carries; cursor: 0 until its row is inserted.
Event == [sequence : 0..MaxSequence, kind : Kinds, deltas : 0..MaxDeltas, cursor : Cursors]

WriterPCs == {"idle", "insert", "lock", "commit", "publish"}
\* once: the stream of POST ?stream=1, closed by the terminal event.
ViewerPCs == {"off", "listing", "backlog", "live", "closed"}
LoopPCs   == {"read", "complete", "message", "closing", "failing", "ended"}

StreamTypeOK ==
    /\ received \in 0..MaxDeltas /\ called \in 0..MaxCalls
    /\ buffer \in 0..MaxDeltas
    /\ sequence \in 0..(MaxSequence + 1)
    /\ ticking \in BOOLEAN
    /\ loop \in LoopPCs
    /\ writer \in [Writers -> [pc : WriterPCs, batch : Seq(Event), inserted : 0..3]]
    /\ identity \in Cursors
    /\ rows \subseteq Event
    /\ rowLock \in Writers \union {Nobody}
    /\ listed \subseteq rows /\ message \subseteq rows
    /\ viewer \in [Viewers -> [pc : ViewerPCs, once : BOOLEAN, start : Cursors, cursor : Cursors,
                               queue : Seq(Event), backlog : Seq(Event), ahead : Nat,
                               sent : Seq(Event)]]

IdleWriter == [pc |-> "idle", batch |-> << >>, inserted |-> 0]
NewViewer(once) ==
    [pc |-> "off", once |-> once, start |-> 0, cursor |-> 0, queue |-> << >>,
     backlog |-> << >>, ahead |-> 0, sent |-> << >>]

StreamInit ==
    /\ received = 0 /\ called = 0 /\ buffer = 0 /\ sequence = 0
    /\ ticking = TRUE /\ loop = "read"
    /\ writer = [w \in Writers |-> IdleWriter]
    /\ identity = 0 /\ rows = {} /\ rowLock = Nobody
    /\ listed = {} /\ message = {}
    /\ viewer \in [Viewers -> {NewViewer(once) : once \in BOOLEAN}]

-----------------------------------------------------------------------------
(* The normalizer and consumeAgentStream *)

Numbered(n, kind, deltas) == [sequence |-> n, kind |-> kind, deltas |-> deltas, cursor |-> 0]

\* flush(): the deltas held back become one event.
Flushed == IF buffer = 0 THEN << >> ELSE <<Numbered(sequence, "text", buffer)>>

\* Mutant: the text given is kept too.
PersistsAndKeeps(w, batch) ==
    /\ sequence' = sequence + Len(batch)
    /\ buffer' = buffer
    /\ writer' = IF batch = << >> THEN writer
                 ELSE [writer EXCEPT ![w] = [pc |-> "insert", batch |-> batch, inserted |-> 0]]

\* persistEvents takes a batch, which leaves `rest` in the buffer; an empty one is
\* not written.
Gives(w, batch, rest) ==
    /\ sequence' = sequence + Len(batch)
    /\ buffer' = rest
    /\ writer' = IF batch = << >> THEN writer
                 ELSE [writer EXCEPT ![w] = [pc |-> "insert", batch |-> batch, inserted |-> 0]]

Persists(w, batch) == Gives(w, batch, 0)

Waits(w) == writer[w].pc = "idle"

\* message.delta
ReceiveDelta ==
    /\ loop = "read" /\ Waits(Loop)
    /\ received < MaxDeltas
    /\ received' = received + 1
    /\ buffer' = buffer + 1
    /\ UNCHANGED <<called, sequence, ticking, loop, writer, tableVars, messageVars, viewer>>

\* tool.started, approval.request, approval.responded, an unknown event: the text
\* comes out first.
ReceiveCall ==
    /\ loop = "read" /\ Waits(Loop)
    /\ called < MaxCalls
    /\ called' = called + 1
    /\ Persists(Loop, Flushed \o <<Numbered(sequence + Len(Flushed), "call", 0)>>)
    /\ UNCHANGED <<received, ticking, loop, tableVars, messageVars, viewer>>

\* tool.completed does not bring the text out: what is held back gets its number
\* after the result's, although Hermes sent it before.
ReceiveResult ==
    /\ loop = "read" /\ Waits(Loop)
    /\ called < MaxCalls
    /\ called' = called + 1
    /\ Gives(Loop, <<Numbered(sequence, "call", 0)>>, buffer)
    /\ UNCHANGED <<received, ticking, loop, tableVars, messageVars, viewer>>

\* Mutant: the text held back does not come out before the end.
ReceiveCompletedDry ==
    /\ loop = "read" /\ Waits(Loop)
    /\ sequence' = sequence + 1
    /\ writer' = [writer EXCEPT ![Loop] = [pc |-> "insert", inserted |-> 0,
                                          batch |-> <<Numbered(sequence, "end", 0)>>]]
    /\ loop' = "complete"
    /\ UNCHANGED <<received, called, buffer, ticking, tableVars, messageVars, viewer>>

\* run.completed; run.failed and run.cancelled, which build no message.
ReceiveCompleted ==
    /\ loop = "read" /\ Waits(Loop)
    /\ Persists(Loop, Flushed \o <<Numbered(sequence + Len(Flushed), "end", 0)>>)
    /\ loop' \in {"complete", "closing"}
    /\ UNCHANGED <<received, called, ticking, tableVars, messageVars, viewer>>

\* completeRun reads the events of the run ...
CompleteRead ==
    /\ loop = "complete" /\ Waits(Loop)
    /\ listed' = rows
    /\ loop' = "message"
    /\ UNCHANGED <<received, called, buffer, sequence, ticking, writer, tableVars,
                   message, viewer>>

\* ... then writes the run, which waits for the lock of its row, and the message.
CompleteWrite ==
    /\ loop = "message"
    /\ rowLock = Nobody
    /\ message' = listed
    /\ loop' = "closing"
    /\ UNCHANGED <<received, called, buffer, sequence, ticking, writer, tableVars,
                   listed, viewer>>

\* setInterval: what is held back is written, and nobody waits for it.
TimerFires(t) ==
    /\ ticking /\ buffer > 0
    /\ Waits(t)
    /\ Persists(t, Flushed)
    /\ UNCHANGED <<received, called, ticking, loop, tableVars, messageVars, viewer>>

\* Mutant: the text held back at the end of the stream is forgotten.
StreamClosesDry ==
    /\ loop \in {"read", "closing"} /\ Waits(Loop)
    /\ ticking' = FALSE
    /\ loop' \in IF loop = "closing" THEN {"ended"} ELSE {"ended", "failing"}
    /\ UNCHANGED <<received, called, buffer, sequence, writer, tableVars, messageVars, viewer>>

\* The stream ends, with or without a terminal event: last flush.  A reader that was
\* aborted, or whose run waits for a human, is content with it.
StreamCloses ==
    /\ loop \in {"read", "closing"} /\ Waits(Loop)
    /\ ticking' = FALSE
    /\ Persists(Loop, Flushed)
    /\ loop' \in IF loop = "closing" THEN {"ended"} ELSE {"ended", "failing"}
    /\ UNCHANGED <<received, called, tableVars, messageVars, viewer>>

\* Otherwise, without a terminal event, the Console writes an error of its own.
PersistError ==
    /\ loop = "failing" /\ Waits(Loop)
    /\ Persists(Loop, <<Numbered(sequence, "end", 0)>>)
    /\ loop' = "ended"
    /\ UNCHANGED <<received, called, ticking, tableVars, messageVars, viewer>>

\* normalizer.error is called before the last flush: the error has the number before
\* the text's, which is written before it.
ErrorBatch ==
    IF buffer = 0 THEN <<Numbered(sequence, "end", 0)>>
    ELSE <<Numbered(sequence + 1, "text", buffer), Numbered(sequence, "end", 0)>>

\* handleAgentRunError: the reader throws.  A run that waits for a human keeps the
\* text only; an aborted reader adds its notice, any other the error.
StreamFails ==
    /\ loop = "read" /\ Waits(Loop)
    /\ ticking' = FALSE
    /\ \/ Persists(Loop, Flushed)
       \/ Persists(Loop, Flushed \o <<Numbered(sequence + Len(Flushed), "end", 0)>>)
       \/ Persists(Loop, ErrorBatch)
    /\ loop' = "ended"
    /\ UNCHANGED <<received, called, tableVars, messageVars, viewer>>

\* The same after a terminal event, when nothing is held back: the notice or the error
\* is a second end.  Bound: it counts among the calls.
FailsAfterEnd ==
    /\ loop = "closing" /\ Waits(Loop)
    /\ called < MaxCalls
    /\ called' = called + 1
    /\ ticking' = FALSE
    /\ Persists(Loop, ErrorBatch)
    /\ loop' = "ended"
    /\ UNCHANGED <<received, tableVars, messageVars, viewer>>

Consuming ==
    \/ ReceiveDelta \/ ReceiveCall \/ ReceiveResult \/ ReceiveCompleted
    \/ CompleteRead \/ CompleteWrite \/ StreamCloses \/ PersistError
    \/ StreamFails \/ FailsAfterEnd

-----------------------------------------------------------------------------
(* persistEvents: the transaction of appendRunEvents, then the publication *)

InsertRow(w) ==
    LET n == writer[w].inserted + 1 IN
    /\ writer[w].pc = "insert"
    /\ identity' = identity + 1
    /\ writer' = [writer EXCEPT
           ![w].batch[n].cursor = identity + 1,
           ![w].inserted = n,
           ![w].pc = IF n = Len(writer[w].batch) THEN "lock" ELSE "insert"]
    /\ UNCHANGED <<normalizerVars, rows, rowLock, messageVars, viewer>>

\* update runs set lastEventAt: the row stays locked until the commit.
LockRun(w) ==
    /\ writer[w].pc = "lock"
    /\ rowLock = Nobody
    /\ rowLock' = w
    /\ writer' = [writer EXCEPT ![w].pc = "commit"]
    /\ UNCHANGED <<normalizerVars, identity, rows, messageVars, viewer>>

Commit(w) ==
    /\ writer[w].pc = "commit"
    /\ rows' = rows \union ToSet(writer[w].batch)
    /\ rowLock' = Nobody
    /\ writer' = [writer EXCEPT ![w].pc = "publish"]
    /\ UNCHANGED <<normalizerVars, identity, messageVars, viewer>>

Open(v) == viewer[v].pc \in {"listing", "backlog", "live"}

\* Mutant: the stream listens once its list has been sent.
SubscribedLate(v) == viewer[v].pc = "live"

\* From subscribeToThread to the end of the stream.
Subscribed(v) == Open(v)

\* publishThreadEvent, for each event of the batch.
Publish(w) ==
    /\ writer[w].pc = "publish"
    /\ writer' = [writer EXCEPT ![w] = IdleWriter]
    /\ viewer' = [v \in Viewers |->
           IF Subscribed(v) THEN [viewer[v] EXCEPT !.queue = @ \o writer[w].batch] ELSE viewer[v]]
    /\ UNCHANGED <<normalizerVars, tableVars, messageVars>>

Persisting(w) == InsertRow(w) \/ LockRun(w) \/ Commit(w) \/ Publish(w)

-----------------------------------------------------------------------------
(* createProductEventStream *)

OnlyViewer == UNCHANGED <<normalizerVars, writer, tableVars, messageVars>>

\* listThreadEventsAfter: by increasing cursor.
After(cursor) == {e \in rows : e.cursor > cursor}
RowsAfter(cursor) ==
    CHOOSE list \in [1..Cardinality(After(cursor)) -> After(cursor)] :
        \A i, j \in DOMAIN list : i < j => list[i].cursor < list[j].cursor

\* A new connection, or one that comes back with last-event-id: it listens first,
\* and asks the table for what follows the cursor it has now.
Subscribe(v) ==
    /\ viewer[v].pc = "off"
    /\ viewer' = [viewer EXCEPT ![v].pc = "listing", ![v].start = viewer[v].cursor]
    /\ OnlyViewer

ListBacklog(v) ==
    /\ viewer[v].pc = "listing"
    /\ viewer' = [viewer EXCEPT ![v].pc = "backlog", ![v].start = 0,
                                ![v].backlog = RowsAfter(viewer[v].start)]
    /\ OnlyViewer

Queued(view) ==
    [view EXCEPT !.queue = Append(@, Head(view.backlog)),
                 !.ahead = Len(view.queue) + 1,
                 !.backlog = Tail(@)]

\* `await enqueue(event)`: the next event of the list is queued once the one
\* before it has gone through the queue, behind what was published meanwhile.
QueueBacklog(v) ==
    /\ viewer[v].pc = "backlog" /\ viewer[v].ahead = 0
    /\ viewer' = [viewer EXCEPT ![v] =
           IF viewer[v].backlog = << >> THEN [@ EXCEPT !.pc = "live"] ELSE Queued(@)]
    /\ OnlyViewer

Skipped(view) == [view EXCEPT !.queue = Tail(@), !.ahead = IF @ = 0 THEN 0 ELSE @ - 1]

Sent(view) ==
    LET e == Head(view.queue) IN
    [Skipped(view) EXCEPT !.cursor = e.cursor, !.sent = Append(@, e),
                          !.pc = IF view.once /\ e.kind = "end" THEN "closed" ELSE @]

\* Mutant: what was already sent is sent again.
SendAgain(v) ==
    /\ Open(v) /\ viewer[v].queue # << >>
    /\ viewer' = [viewer EXCEPT ![v] = Sent(@)]
    /\ OnlyViewer

\* sendAuthorized: an event at or below the cursor is dropped.
Send(v) ==
    /\ Open(v) /\ viewer[v].queue # << >>
    /\ viewer' = [viewer EXCEPT ![v] =
           IF Head(viewer[v].queue).cursor <= viewer[v].cursor THEN Skipped(@) ELSE Sent(@)]
    /\ OnlyViewer

\* Every two seconds the table is listed again.  Bound: only when the queue is
\* empty and the answer is not; otherwise what it adds is queued or dropped later.
Poll(v) ==
    /\ viewer[v].pc = "live" /\ viewer[v].queue = << >>
    /\ RowsAfter(viewer[v].cursor) # << >>
    /\ viewer' = [viewer EXCEPT ![v].queue = RowsAfter(viewer[v].cursor)]
    /\ OnlyViewer

\* The connection breaks, or the right to read was withdrawn.
Disconnect(v) ==
    /\ Open(v)
    /\ viewer' = [viewer EXCEPT ![v] =
           [@ EXCEPT !.pc = IF viewer[v].once THEN "closed" ELSE "off",
                     !.start = 0, !.queue = << >>, !.backlog = << >>, !.ahead = 0]]
    /\ OnlyViewer

Viewing(v) == Subscribe(v) \/ ListBacklog(v) \/ QueueBacklog(v) \/ Send(v) \/ Poll(v)
              \/ Disconnect(v)

-----------------------------------------------------------------------------

StreamNext ==
    \/ Consuming
    \/ \E t \in Timers : TimerFires(t)
    \/ \E w \in Writers : Persisting(w)
    \/ \E v \in Viewers : Viewing(v)

StreamSpec == StreamInit /\ [][StreamNext]_streamVars

\* The timer fires again and again while it is set, and the database ends every
\* transaction; nothing obliges Hermes to send anything.
StreamFairness ==
    /\ WF_streamVars(\E t \in Timers : TimerFires(t))
    /\ \A w \in Writers : WF_streamVars(Persisting(w))

FairStreamSpec == StreamSpec /\ StreamFairness

-----------------------------------------------------------------------------
(* Properties *)

Uncommitted(w) == IF writer[w].pc = "publish" THEN {} ELSE ToSet(writer[w].batch)
InFlight == UNION {Uncommitted(w) : w \in Writers}

TextOf(events) == MapThenSumSet(LAMBDA e : e.deltas, events)

\* No delta of text is lost or written twice between the loop, the timer and the
\* end of the stream, which all empty the same buffer.
TextIsConserved == received = buffer + TextOf(InFlight) + TextOf(rows)

\* The numbers of a run are never given twice, although the batches of the timer
\* and of the loop are written at the same time: the unique index of
\* (run_id, sequence) would refuse the transaction and the run would fail.
SequencesAreDistinct ==
    \A d, e \in InFlight \union rows : d.sequence = e.sequence => d = e

\* What the message of a completed run lacks was in a batch the timer had open when
\* completeRun listed the events: nothing is still held back by the normalizer.  A
\* message without any text is the output of the run (buildAssistantContent).
MessageLacksOnlyOpenBatches ==
    loop = "closing" /\ TextOf(message) # 0 =>
        received = TextOf(message) + TextOf((rows \union InFlight) \ message)

\* The numbers and the text of a run, in its events and in its message, with their types.
StreamInvariant ==
    StreamTypeOK /\ TextIsConserved /\ SequencesAreDistinct /\ MessageLacksOnlyOpenBatches

SentInOrder ==
    \A v \in Viewers : \A i, j \in DOMAIN viewer[v].sent :
        i < j => viewer[v].sent[i].cursor < viewer[v].sent[j].cursor

Quiet(v) ==
    /\ viewer[v].pc = "live" /\ viewer[v].queue = << >>
    /\ \A w \in Writers : writer[w].pc = "idle"

NewestIsSent ==
    \A v \in Viewers : Quiet(v) => \A e \in rows : e.cursor <= viewer[v].cursor

\* A viewer gets no event twice and none out of order, whether it comes from the
\* list, from a publication or from the poll, before or after a reconnection; and
\* without waiting for the poll, a stream that is up to date has the newest event:
\* nothing falls between its list and its subscription.
ViewersAreServed == SentInOrder /\ NewestIsSent

\* The text Hermes sent reaches the table, whatever it sends next.
TextIsStored == \A n \in 1..MaxDeltas : (received >= n) ~> (TextOf(rows) >= n)
=============================================================================
