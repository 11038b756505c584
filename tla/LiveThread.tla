------------------------------ MODULE LiveThread ------------------------------
(***************************************************************************)
(* One tab of the web client on one conversation (useLiveThread): the      *)
(* screen is a copy of the thread kept up to date by snapshots that are    *)
(* fetched (the first one, a poll every few seconds, a refresh after what  *)
(* the user does) and by the events that the answer to a message streams.  *)
(*                                                                         *)
(* A snapshot is read by the server in statements of their own and lands   *)
(* later, when the screen has changed; the polls stop while a stream is    *)
(* attached.  An event is its cursor; "closed" is any terminal status.     *)
(* The server is reduced to what it shows: the rows of the runs, the       *)
(* events, and who may read them.                                          *)
(***************************************************************************)
EXTENDS Integers, Sequences, FiniteSets, SequencesExt, FiniteSetsExt

CONSTANTS
    MaxRuns, MaxEvents,  \* bounds
    MaxActs, MaxFaults   \* bounds on what the user does, on what fails

VARIABLES
    thread,   \* server: the rows of the runs of the thread, oldest first
    log,      \* server: the events, the cursor of which is their index
    unwritten,\* server: the status the last event has announced, not yet in its row
    access,   \* server: whether the user may read the thread
    screen,   \* snapshotRef, and what React shows; "pending" is also "starting"
    complete, \* completeRef
    denied,   \* deniedThreadId
    stopped,  \* the polling cycle has been revoked
    chrome,   \* the header kept in sessionStorage
    fetch,    \* the snapshots in flight
    send,     \* sendMessage
    user,     \* the other request of the user in flight
    acts, faults

serverVars == <<thread, log, unwritten, access>>
screenVars == <<screen, complete, denied, stopped, chrome>>
liveVars == <<serverVars, screenVars, fetch, send, user, acts, faults>>

Refreshes == {"polled", "sent", "asked"}
Fetches == Refreshes \union {"first", "poll"}

\* The id of the run that sendMessage shows before the server has made one.
Optimistic == 0
LiveKinds == {"text", "ask", "end"}

Nothing == [known |-> FALSE, runs |-> <<>>, events |-> <<>>, cursor |-> 0]
NoFetch == [stage |-> "idle", runs |-> <<>>, upto |-> 0, live |-> TRUE]
NotSending == [pc |-> "idle", before |-> Nothing, run |-> 0, at |-> 0, meta |-> FALSE, barred |-> FALSE]

LiveInit ==
    /\ thread = <<[id |-> 1, status |-> "closed"]>> /\ log = <<[run |-> 1, kind |-> "end"]>>
    /\ unwritten = "none" /\ access = TRUE
    /\ screen = Nothing /\ complete = FALSE /\ denied = FALSE /\ stopped = FALSE /\ chrome = Nothing
    /\ fetch = [f \in Fetches |-> IF f = "first" THEN [NoFetch EXCEPT !.stage = "asked"] ELSE NoFetch]
    /\ send = NotSending /\ user = "idle" /\ acts = 0 /\ faults = 0

-----------------------------------------------------------------------------
(* The snapshot and what is done with it *)

Active(runs) == runs # <<>> /\ Last(runs).status # "closed"

Sets(runs, id, status) ==
    [i \in DOMAIN runs |-> IF runs[i].id = id THEN [runs[i] EXCEPT !.status = status] ELSE runs[i]]

\* statusFromEvent, and the first event of a run that had not begun.
StatusAfter(status, kind) ==
    CASE kind = "ask" -> "awaiting_approval"
      [] kind = "end" -> "closed"
      [] status = "pending" -> "running"
      [] OTHER -> status

\* Mutant: an event that the snapshot has brought already is applied again.
applyTwice(s, c) ==
    [s EXCEPT !.cursor = c, !.events = Append(@, c),
              !.runs = Sets(@, log[c].run, StatusAfter("running", log[c].kind))]

\* The run that an event is about takes the status the event announces.
Applied(runs, event) ==
    [i \in DOMAIN runs |->
        IF runs[i].id = event.run
        THEN [runs[i] EXCEPT !.status = StatusAfter(runs[i].status, event.kind)] ELSE runs[i]]

applyProductEventToSnapshot(s, c) ==
    IF c <= s.cursor THEN s
    ELSE [s EXCEPT !.cursor = c, !.events = Append(@, c), !.runs = Applied(@, log[c])]

Increasing(s) == \A i, j \in DOMAIN s : i < j => s[i] < s[j]

\* Sorted by cursor.
ByCursor(cursors) == CHOOSE list \in [1 .. Cardinality(cursors) -> cursors] : Increasing(list)

mergeThreadSnapshots(local, server) ==
    [server EXCEPT !.events = ByCursor(Range(local.events) \union Range(server.events)),
                   !.cursor = Max({local.cursor, server.cursor})]

Fetched(f) ==
    [known |-> TRUE, runs |-> fetch[f].runs,
     events |-> [i \in 1 .. fetch[f].upto |-> i], cursor |-> fetch[f].upto]

\* writeStoredChrome keeps neither messages nor events.
Header(s) == [s EXCEPT !.events = <<>>]

\* The answers to fs are no longer those of the effect that is set up.
Over(fs, fetches) ==
    [f \in Fetches |-> IF f \in fs /\ fetches[f].stage # "idle"
                       THEN [fetches[f] EXCEPT !.live = FALSE] ELSE fetches[f]]

\* applySnapshot.  The effect of the polls is set up anew when the last run
\* becomes active or ends: an answer to its previous self is ignored.
Shows(s, fetches) ==
    /\ screen' = s
    /\ fetch' = IF Active(s.runs) = Active(screen.runs) THEN fetches
                ELSE Over({"poll", "polled"}, fetches)

Settled(f) == [fetch EXCEPT ![f] = NoFetch]
Asks(f, fetches) == [fetches EXCEPT ![f] = [NoFetch EXCEPT !.stage = "asked"]]

\* Mutant: the effect of the first snapshot does not depend on accessDenied.
clearAndAwaitFirst(fetches) ==
    /\ Shows(Nothing, fetches)
    /\ complete' = FALSE /\ denied' = TRUE /\ stopped' = TRUE /\ chrome' = Nothing

\* The effect of the first snapshot is over once the conversation is denied.
clearLocalThread(fetches) ==
    /\ Shows(Nothing, Over({"first"}, fetches))
    /\ complete' = FALSE /\ denied' = TRUE /\ stopped' = TRUE /\ chrome' = Nothing

-----------------------------------------------------------------------------
(* The server, as far as a client sees it *)

KeepsClient == UNCHANGED <<screenVars, fetch, send, user, acts, faults>>

Opens == Append(thread, [id |-> Len(thread) + 1, status |-> "pending"])
MayOpen == ~Active(thread) /\ Len(thread) < MaxRuns

\* Another window sends a message, or this one before it was closed.
SendElsewhere ==
    /\ MayOpen /\ thread' = Opens
    /\ UNCHANGED <<log, unwritten, access>> /\ KeepsClient

RunStarts ==
    /\ Active(thread) /\ Last(thread).status = "pending"
    /\ thread' = Sets(thread, Len(thread), "running")
    /\ UNCHANGED <<log, unwritten, access>> /\ KeepsClient

\* persistEvents; the status follows in a statement of its own.  A run may be
\* cancelled or fail at any time; the terminal event has always its place.
RunEmits(kind) ==
    /\ Active(thread) /\ unwritten = "none"
    /\ kind = "end" \/ (Last(thread).status = "running" /\ Len(log) < MaxEvents)
    /\ log' = Append(log, [run |-> Len(thread), kind |-> kind])
    /\ unwritten' = IF kind = "text" THEN "none" ELSE kind
    /\ UNCHANGED <<thread, access>> /\ KeepsClient

StatusFollows ==
    /\ unwritten # "none" /\ unwritten' = "none"
    /\ thread' = Sets(thread, Len(thread), StatusAfter("running", unwritten))
    /\ UNCHANGED <<log, access>> /\ KeepsClient

AnsweredElsewhere ==
    /\ Active(thread) /\ Last(thread).status = "awaiting_approval" /\ unwritten = "none"
    /\ thread' = Sets(thread, Len(thread), "running")
    /\ UNCHANGED <<log, unwritten, access>> /\ KeepsClient

\* handleAgentRunError and reconcileOne close a run from what Hermes answers
\* about it, and write no event.
RunClosesSilently ==
    /\ Active(thread) /\ unwritten = "none"
    /\ thread' = Sets(thread, Len(thread), "closed")
    /\ UNCHANGED <<log, unwritten, access>> /\ KeepsClient

AccessEnds ==
    /\ faults < MaxFaults /\ faults' = faults + 1
    /\ access /\ access' = FALSE
    /\ UNCHANGED <<thread, log, unwritten, screenVars, fetch, send, user, acts>>

ServerStep ==
    \/ SendElsewhere \/ RunStarts \/ StatusFollows \/ AnsweredElsewhere \/ RunClosesSilently
    \/ AccessEnds \/ \E kind \in LiveKinds : RunEmits(kind)

-----------------------------------------------------------------------------
(* Snapshots: getThreadSnapshot reads the runs and the events at the same time *)
(* in two statements                                                           *)

Reads(f, from, to, runs, upto) ==
    /\ fetch[f].stage = from
    /\ fetch' = [fetch EXCEPT ![f] = [fetch[f] EXCEPT !.stage = to, !.runs = runs, !.upto = upto]]
    /\ UNCHANGED <<serverVars, screenVars, send, user, acts, faults>>

getThreadSnapshot(f) ==
    \/ access /\ Reads(f, "asked", "runs", thread, 0)
    \/ access /\ Reads(f, "asked", "events", <<>>, Len(log))
    \/ Reads(f, "runs", "answered", fetch[f].runs, Len(log))
    \/ Reads(f, "events", "answered", thread, fetch[f].upto)
    \/ ~access /\ Reads(f, "asked", "refused", <<>>, 0)

Landing(f, stage) == fetch[f].stage = stage /\ UNCHANGED <<serverVars, user, acts, faults>>

\* The refresh that ends sendMessage lets the polls go again.
SendAfter(f) == send' = IF f = "sent" THEN NotSending ELSE send

\* The first snapshot replaces whatever the screen shows; its header is kept
\* even when the screen does not take it any more.
FirstLands ==
    /\ Landing("first", "answered")
    /\ chrome' = Header(Fetched("first"))
    /\ IF fetch["first"].live
       THEN Shows(Fetched("first"), Settled("first")) /\ complete' = TRUE
       ELSE fetch' = Settled("first") /\ UNCHANGED <<screen, complete>>
    /\ UNCHANGED <<denied, stopped, send>>

refresh(f) ==
    /\ f \in Refreshes /\ Landing(f, "answered")
    /\ Shows(IF screen.known THEN mergeThreadSnapshots(screen, Fetched(f)) ELSE Fetched(f), Settled(f))
    /\ complete' = TRUE /\ chrome' = Header(Fetched(f))
    /\ SendAfter(f) /\ UNCHANGED <<denied, stopped>>

IsRefused(f) ==
    /\ f # "poll" /\ Landing(f, "refused") /\ SendAfter(f)
    /\ IF f # "first" \/ fetch[f].live THEN clearLocalThread(Settled(f))
       ELSE /\ fetch' = Settled(f) /\ chrome' = Nothing
            /\ UNCHANGED <<screen, complete, denied, stopped>>

FetchFails(f) ==
    /\ faults < MaxFaults /\ faults' = faults + 1
    /\ fetch[f].stage = "asked" /\ fetch' = Settled(f) /\ SendAfter(f)
    /\ UNCHANGED <<serverVars, screenVars, user, acts>>

-----------------------------------------------------------------------------
(* The polls *)

\* reconcile: not while a stream is attached, nor before the previous one ended.
PollStarts ==
    /\ ~denied /\ send.pc \notin {"streaming", "refreshing"}
    /\ fetch["poll"].stage = "idle"
    /\ fetch["polled"].stage = "idle" \/ ~fetch["polled"].live
    /\ IF stopped THEN UNCHANGED fetch ELSE fetch' = Asks("poll", fetch)
    /\ UNCHANGED <<serverVars, screenVars, send, user, acts, faults>>

Ignored == stopped \/ ~fetch["poll"].live \/ ~screen.known

PollIgnored ==
    /\ Landing("poll", "answered") /\ Ignored
    /\ fetch' = Settled("poll")
    /\ UNCHANGED <<screenVars, send>>

PollLands ==
    LET merged == mergeThreadSnapshots(screen, Fetched("poll"))
        ended == \E c \in screen.cursor + 1 .. merged.cursor : log[c].kind = "end"
    IN  /\ Landing("poll", "answered") /\ ~Ignored
        /\ Shows(merged, IF ended /\ fetch["polled"].stage = "idle"
                         THEN Asks("polled", Settled("poll")) ELSE Settled("poll"))
        /\ UNCHANGED <<complete, denied, stopped, chrome, send>>

\* The cycle remembers a refusal even if the effect it belongs to is over.
PollRefused ==
    /\ Landing("poll", "refused")
    /\ IF fetch["poll"].live THEN clearLocalThread(Settled("poll"))
       ELSE /\ stopped' = TRUE /\ fetch' = Settled("poll") /\ chrome' = Nothing
            /\ UNCHANGED <<screen, complete, denied>>
    /\ UNCHANGED send

-----------------------------------------------------------------------------
(* sendMessage *)

Acts == acts < MaxActs /\ acts' = acts + 1

\* The composer takes a message as soon as the last run is not active.
SendMessage ==
    /\ Acts /\ send.pc = "idle" /\ ~Active(screen.runs)
    /\ send' = [send EXCEPT !.pc = "waiting"]
    /\ UNCHANGED <<serverVars, screenVars, fetch, user, faults>>

Sending == UNCHANGED <<serverVars, complete, denied, stopped, chrome, user, acts>>

PostMessage ==
    /\ send.pc = "waiting" /\ (complete \/ fetch["first"].stage = "idle")
    /\ IF screen.known
       THEN /\ send' = [send EXCEPT !.pc = "posting", !.before = screen]
            /\ Shows([screen EXCEPT !.runs = Append(@, [id |-> Optimistic, status |-> "pending"])], fetch)
       ELSE send' = NotSending /\ UNCHANGED <<screen, fetch>>
    /\ Sending /\ UNCHANGED faults

\* The route creates the run; its answer is on its way.
MessageAccepted ==
    /\ send.pc = "posting" /\ send.run = 0 /\ access /\ MayOpen
    /\ thread' = Opens /\ send' = [send EXCEPT !.run = Len(thread) + 1]
    /\ UNCHANGED <<log, unwritten, access, screenVars, fetch, user, acts, faults>>

\* A conversation that is busy, a runtime that is not ready, a thread out of reach:
\* the screen is as it was before, while the body of the answer is read.
MessageRefused ==
    /\ send.pc = "posting" /\ send.run = 0
    /\ \E barred \in {FALSE, ~access} : send' = [send EXCEPT !.pc = "refused", !.barred = barred]
    /\ Shows(send.before, fetch) /\ Sending /\ UNCHANGED faults

\* The body is read: a conversation out of reach is cleared (clearLocalThread), and
\* the catch puts the former screen back in both cases, in the same step.
RefusalRead ==
    /\ send.pc = "refused"
    /\ send' = NotSending
    /\ UNCHANGED <<serverVars, user, acts, faults>>
    /\ IF send.barred
       THEN /\ Shows(send.before, Over({"first"}, fetch))
            /\ complete' = FALSE /\ denied' = TRUE /\ stopped' = TRUE /\ chrome' = Nothing
       ELSE /\ Shows(send.before, fetch)
            /\ UNCHANGED <<complete, denied, stopped, chrome>>

AnswerLost ==
    /\ faults < MaxFaults /\ faults' = faults + 1
    /\ send.pc = "posting" /\ send' = NotSending
    /\ Shows(send.before, fetch) /\ Sending

StreamOpens ==
    /\ send.pc = "posting" /\ send.run # 0
    /\ send' = [send EXCEPT !.pc = "streaming", !.before = Nothing]
    /\ UNCHANGED <<screen, fetch, faults>> /\ Sending

\* The run that was shown at once takes the identity the server gave it.
Adopted(runs, run) ==
    [i \in DOMAIN runs |->
        IF runs[i].id = Optimistic THEN [id |-> run, status |-> "pending"] ELSE runs[i]]

onMeta ==
    /\ send.pc = "streaming" /\ ~send.meta
    /\ send' = [send EXCEPT !.meta = TRUE]
    /\ Shows([screen EXCEPT !.runs = Adopted(screen.runs, send.run)], fetch)
    /\ Sending /\ UNCHANGED faults

\* The stream carries the events of the run, in order.
Streamable == {c \in send.at + 1 .. Len(log) : log[c].run = send.run}

onEvent ==
    /\ send.pc = "streaming" /\ send.meta /\ access /\ Streamable # {}
    /\ send' = [send EXCEPT !.at = Min(Streamable)]
    /\ Shows(IF screen.known THEN applyProductEventToSnapshot(screen, Min(Streamable)) ELSE screen, fetch)
    /\ Sending /\ UNCHANGED faults

\* The server closes the stream after the terminal event, or when access ended.
StreamDone ==
    /\ send.pc = "streaming" /\ send.meta
    /\ ~access \/ (send.at > 0 /\ log[send.at].kind = "end")
    /\ send' = [NotSending EXCEPT !.pc = "refreshing"]
    /\ fetch' = Asks("sent", fetch)
    /\ UNCHANGED <<screen, faults>> /\ Sending

\* Mutant: a stream that breaks is not released (no finally).
StreamBreaksAndHolds ==
    /\ faults < MaxFaults /\ faults' = faults + 1
    /\ send.pc = "streaming" /\ send' = [NotSending EXCEPT !.pc = "refreshing"]
    /\ UNCHANGED <<screen, fetch>> /\ Sending

StreamBreaks ==
    /\ faults < MaxFaults /\ faults' = faults + 1
    /\ send.pc = "streaming" /\ send' = NotSending
    /\ UNCHANGED <<screen, fetch>> /\ Sending

SendStep ==
    \/ PostMessage \/ MessageAccepted \/ MessageRefused \/ RefusalRead \/ AnswerLost \/ StreamOpens
    \/ onMeta \/ onEvent \/ StreamDone \/ StreamBreaks

-----------------------------------------------------------------------------
(* The other requests: retry and respondApproval *)

UserAsks(request) ==
    /\ Acts /\ user = "idle" /\ fetch["asked"].stage = "idle" /\ user' = request
    /\ UNCHANGED <<serverVars, screenVars, fetch, send, faults>>

retry == screen.known /\ screen.runs # <<>> /\ ~Active(screen.runs) /\ UserAsks("retry")

\* latestOpenApproval: the request on the card is one the screen has seen.
respondApproval ==
    /\ Active(screen.runs) /\ Last(screen.runs).status = "awaiting_approval"
    /\ \E c \in Range(screen.events) : log[c] = [run |-> Last(screen.runs).id, kind |-> "ask"]
    /\ UserAsks("approve")

RequestServed ==
    /\ \/ user = "retry" /\ access /\ MayOpen /\ thread' = Opens /\ user' = "retried"
       \/ /\ user = "approve" /\ access /\ unwritten = "none"
          /\ Active(thread) /\ Last(thread).status = "awaiting_approval"
          /\ thread' = Sets(thread, Len(thread), "running") /\ user' = "approved"
    /\ UNCHANGED <<log, unwritten, access, screenVars, fetch, send, acts, faults>>

RequestRefused ==
    /\ user \in {"retry", "approve"} /\ user' = "idle"
    /\ UNCHANGED <<serverVars, screenVars, fetch, send, acts, faults>>

RequestAnswered ==
    /\ user \in {"retried", "approved"} /\ user' = "idle"
    /\ Shows(IF user = "approved" /\ screen.runs # <<>>
             THEN [screen EXCEPT !.runs = Sets(@, Last(@).id, "running")] ELSE screen,
             Asks("asked", fetch))
    /\ UNCHANGED <<serverVars, complete, denied, stopped, chrome, send, acts, faults>>

UserStep == retry \/ respondApproval

-----------------------------------------------------------------------------
(* The user leaves the conversation and comes back, from the cache of the tab *)
(* (which may have let it go) or, after a reload, from the stored header       *)

Reopen ==
    /\ Acts
    /\ \/ screen.known /\ screen' = screen /\ complete' = TRUE
       \/ screen' \in {Nothing, chrome} /\ complete' = FALSE
    /\ denied' = FALSE /\ stopped' = FALSE
    /\ fetch' = Asks("first", [f \in Fetches |-> NoFetch])
    /\ send' = NotSending /\ user' = "idle"
    /\ UNCHANGED <<serverVars, chrome, faults>>

-----------------------------------------------------------------------------

PollAnswers == PollIgnored \/ PollLands \/ PollRefused

Answers(f) ==
    \/ getThreadSnapshot(f) \/ refresh(f) \/ IsRefused(f)
    \/ f = "first" /\ FirstLands
    \/ f = "poll" /\ PollAnswers

LiveNext ==
    \/ ServerStep
    \/ \E f \in Fetches : Answers(f) \/ FetchFails(f)
    \/ PollStarts \/ SendMessage \/ SendStep
    \/ UserStep \/ RequestServed \/ RequestRefused \/ RequestAnswered
    \/ Reopen

\* The server writes what it has announced, requests are answered, an open
\* stream delivers, and the timer of the polls goes on.
LiveFairness ==
    /\ WF_liveVars(StatusFollows)
    /\ \A f \in Fetches : WF_liveVars(Answers(f))
    /\ WF_liveVars(PollStarts)
    /\ WF_liveVars(PostMessage \/ MessageAccepted \/ MessageRefused \/ RefusalRead \/ StreamOpens)
    /\ WF_liveVars(onMeta \/ onEvent \/ StreamDone)
    /\ WF_liveVars(RequestServed \/ RequestRefused \/ RequestAnswered)

LiveSpec == LiveInit /\ [][LiveNext]_liveVars /\ LiveFairness

-----------------------------------------------------------------------------
(* Properties *)

\* No run and no event is shown twice, whatever arrives in whatever order: a
\* message that was shown before it was sent, a snapshot that has what the
\* stream has brought, an event that comes again.
ShownOnce ==
    /\ \A i, j \in DOMAIN screen.runs : screen.runs[i].id = screen.runs[j].id => i = j
    /\ Increasing(screen.events)
    /\ screen.events # <<>> => Last(screen.events) <= screen.cursor

\* A refusal leaves nothing of the conversation on the screen, and no poll, no first
\* snapshot and no event that was in flight brings it back (createThreadPollingCycle:
\* "une révocation ou une navigation invalide aussi les réponses déjà en vol").  Two
\* answers do: that of a refresh that was in flight, and that of a message that fails,
\* the message whose own refusal bars the conversation included; its catch puts back
\* the screen as it was when the message was sent.
RefusalStays ==
    [][denied' /\ screen'.known /\ ~(denied /\ screen.known)
        => \/ \E f \in Refreshes : fetch[f].stage = "answered" /\ fetch'[f].stage = "idle"
           \/ send.pc \in {"posting", "refused"} /\ screen' = send.before]_liveVars

Faithful ==
    /\ screen.runs = thread
    /\ screen.events = [i \in 1 .. Len(log) |-> i]

AtRest == screen.known /\ access /\ ~Active(thread)

\* A stream attached to a run that was closed without a terminal event.
AttachedForNothing ==
    /\ send.pc = "streaming" /\ thread[send.run].status = "closed"
    /\ [run |-> send.run, kind |-> "end"] \notin Range(log)

\* Once the runs are over, a screen that shows the conversation ends up showing
\* it as it is, after streams that break, answers that cross and lost requests,
\* unless it is attached to a stream that nothing will end.
ScreenCatchesUp == <>[](AtRest => Faithful \/ AttachedForNothing)
=============================================================================
