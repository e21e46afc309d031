------------------------------ MODULE TuiRuns ------------------------------
(***************************************************************************)
(* The terminal UI over one workspace: one UI loop (tui/terminal.rs), the  *)
(* sessions it shows and switches (tui/app.rs, tui/ui/controller.rs), and  *)
(* the background threads that execute requests (tui/runtime.rs).          *)
(*                                                                         *)
(* A worker is RunLoop seen from outside: it reads the workspace's active  *)
(* session, resumes or creates a run there, streams text, records it and   *)
(* settles the run; which writes that takes is RunLoop's subject.  A key   *)
(* or mouse event of the user, with the store operations it causes, is one *)
(* step.  Requests are numbered, and the worker of request w is w.         *)
(***************************************************************************)
EXTENDS SessionStore

CONSTANTS
    MaxRequests,    \* bound: requests the user sends
    MaxDeltas,      \* bound: pieces of text one worker streams
    MaxEvents,      \* AGENT_EVENT_CHANNEL_CAPACITY
    WhileRunning,   \* the session commands the user gives during a run, of
                    \* those that the UI does not refuse then
    RevisingAnytime,    \* whether the user asks for a revision of a proposed change
                    \* not only after a run that completed: the UI does not refuse it
    MaxChanges,     \* bound: the first workers propose a change each, no others
    Quitting        \* whether the user may quit and start the UI again

ASSUME TuiRunsAssumption ==
    /\ MaxRequests \in Nat \ {0}
    /\ MaxDeltas \in Nat
    /\ MaxEvents \in Nat \ {0}
    /\ MaxChanges \in Nat
    /\ WhileRunning \subseteq {"switch", "delete", "archive", "like"}
    /\ RevisingAnytime \in BOOLEAN /\ Quitting \in BOOLEAN

VARIABLES
    db,         \* the store
    ui,         \* the UI's model, and the loop's handle on the active run
    worker      \* worker[w]: the thread of request w

vars == <<db, ui, worker>>

Workers == 1..MaxRequests
Feedback(w) == MaxRequests + w      \* what the user typed for a revision
Requests == 1..(2 * MaxRequests)
NoRun == <<0, 0>>

-----------------------------------------------------------------------------
(***************************************************************************)
(* Steps and messages.  A user message is named by the request it repeats  *)
(* or the feedback it holds, an assistant message by the workers whose     *)
(* text it holds.  Steps that are no messages, tool results and responses  *)
(* that hold calls and no text, are left out.                              *)
(***************************************************************************)
Message == [role : {"User", "Assistant", "Error"}, of : SUBSET Requests]
Msg(role, of) == [role |-> role, of |-> of]

Step == [kind : {"UserMessage", "AssistantResponse", "AssistantOutputCheckpoint", "Error"},
         by : Requests]

RoleOf == [UserMessage |-> "User", AssistantResponse |-> "Assistant",
           AssistantOutputCheckpoint |-> "Assistant", Error |-> "Error"]

\* messages_from_steps
MessagesOf(log) == [i \in DOMAIN log |-> Msg(RoleOf[log[i].kind], {log[i].by})]

Record(d, run, kind, w) == WithStep(d, run, [kind |-> kind, by |-> w])

-----------------------------------------------------------------------------
(***************************************************************************)
(* The UI.  stream is the place of the message that streamed text goes to, *)
(* 0 when there is none; runs are the requests of the runs that the last   *)
(* load of the session found; handle is the worker the loop listens to;    *)
(* review is whether a proposed change waits for the user's decision.      *)
(***************************************************************************)
TuiRunStatus == RunStatus \union {"Idle"}

OffUi == [state |-> "off", status |-> "Idle", session |-> 0, pending |-> FALSE,
          messages |-> <<>>, stream |-> 0, lastSeq |-> 0, runs |-> <<>>,
          handle |-> 0, drained |-> FALSE, review |-> FALSE]

On == ui.state = "on"
Busy == ui.status = "Running"
Sent == {w \in Workers : worker[w].pc # "unused"}
NextRequest == Cardinality(Sent) + 1

\* load_active_session_history and restore_latest_run: what was streamed and
\* the events seen so far are not touched.
Loaded(u, d) ==
    LET runs == ActiveRuns(d)
    IN  [u EXCEPT !.session = d.active,
                  !.pending = FALSE,
                  !.messages = MessagesOf(SessionSteps(d, d.active)),
                  !.runs = [n \in DOMAIN runs |-> runs[n].request],
                  !.status = IF runs = <<>> THEN "Idle" ELSE Last(runs).status]

Unused == [pc |-> "unused", request |-> 0, run |-> NoRun, canceled |-> FALSE,
           partial |-> FALSE, fresh |-> FALSE, deltas |-> 0, proposed |-> FALSE, seq |-> 0,
           events |-> <<>>, outcome |-> "None", result |-> <<>>]

\* The process ends, and with it every thread.
Killed == [w \in Workers |->
              IF worker[w].pc = "unused" THEN Unused
              ELSE [Unused EXCEPT !.pc = "gone", !.request = worker[w].request]]

Exit(d) == db' = d /\ ui' = OffUi /\ worker' = Killed

\* A session command ends with a reload; an error on the way ends the UI.
Reload(d) ==
    IF ActiveExists(d)
      THEN db' = d /\ ui' = Loaded([ui EXCEPT !.drained = FALSE], d) /\ UNCHANGED worker
      ELSE Exit(d)

Init ==
    /\ db = InitialStore
    /\ ui = Loaded([OffUi EXCEPT !.state = "on"], InitialStore)
    /\ worker = [w \in Workers |-> Unused]

-----------------------------------------------------------------------------
(***************************************************************************)
(* Requests.  begin_token_estimate, then StartRun: a pending new session   *)
(* is created first, and the handle of an earlier run is dropped.          *)
(***************************************************************************)
BegunStillStreaming(request) ==     \* mutant: the place of streamed text is kept
    [ui EXCEPT !.status = "Running", !.lastSeq = 0,
               !.messages = Append(@, Msg("User", {request})), !.drained = FALSE]

BegunStillCounting(request) ==      \* mutant: the last event number is kept
    [ui EXCEPT !.status = "Running", !.stream = 0,
               !.messages = Append(@, Msg("User", {request})), !.drained = FALSE]

Begun(request) ==
    [ui EXCEPT !.status = "Running", !.stream = 0, !.lastSeq = 0,
               !.messages = Append(@, Msg("User", {request})), !.drained = FALSE]

Start(w, request) ==
    worker' = [worker EXCEPT ![w] = [Unused EXCEPT !.pc = "begin", !.request = request]]

StartRunBesideAnother(request) ==   \* mutant: a running run is no obstacle
    /\ On /\ ~ui.pending
    /\ NextRequest \in Workers
    /\ ui' = [Begun(request) EXCEPT !.handle = NextRequest]
    /\ Start(NextRequest, request)
    /\ UNCHANGED db

StartRun(request) ==
    LET w == NextRequest
        d == WithActive(WithNewSession(db), NextSession(db))
    IN  /\ On /\ ~Busy
        /\ w \in Workers
        /\ \/ /\ ~ui.pending
              /\ ui' = [Begun(request) EXCEPT !.handle = w]
              /\ Start(w, request)
              /\ UNCHANGED db
           \/ /\ ui.pending /\ NextSessionIsFree(db)
              /\ NextSession(db) <= MaxSessions
              /\ ui' = [Loaded(Begun(request), d) EXCEPT
                           !.messages = Append(@, Msg("User", {request})),
                           !.status = "Running",
                           !.handle = w]
              /\ Start(w, request)
              /\ db' = d
           \/ /\ ui.pending /\ ~NextSessionIsFree(db)
              /\ Exit(db)

Submit == StartRun(NextRequest)

\* /retry and /continue: the last run that the last load found, or else the
\* last user message
RetryTargets ==
    LET asked == {i \in DOMAIN ui.messages : ui.messages[i].role = "User"}
    IN  IF ui.runs # <<>> THEN {Last(ui.runs)}
        ELSE UNION {ui.messages[i].of : i \in {k \in asked : \A j \in asked : k >= j}}

Restart ==
    /\ ui.status \in {"Failed", "Canceled"}
    /\ \E request \in RetryTargets : StartRun(request)

\* /review changes: the request names the feedback, the conversation shows the
\* feedback itself, and nothing of the run before is reset.
RequestChanges ==
    LET w == NextRequest
    IN  /\ On /\ ui.review
        /\ RevisingAnytime \/ (ui.status = "Completed" /\ ui.stream = 0)
        /\ w \in Workers
        /\ ui' = [ui EXCEPT !.review = FALSE, !.status = "Running",
                            !.messages = Append(@, Msg("User", {Feedback(w)})),
                            !.handle = w, !.drained = FALSE]
        /\ Start(w, w)
        /\ UNCHANGED db

\* Escape twice: only the worker the loop listens to hears of it.
CancelRun ==
    /\ On /\ Busy
    /\ ui.handle # 0
    /\ ~worker[ui.handle].canceled
    /\ worker' = [worker EXCEPT ![ui.handle].canceled = TRUE]
    /\ ui' = [ui EXCEPT !.drained = FALSE]
    /\ UNCHANGED db

-----------------------------------------------------------------------------
(***************************************************************************)
(* Sessions.  Only /new, /session new and switching by key look at the run *)
(* status; the list shows the sessions that are not archived.              *)
(***************************************************************************)
Listed == db.sessions \ db.archived
Allowed(command) == On /\ (Busy => command \in WhileRunning)

\* begin_new_session: the session is created when the first request is sent.
NewSession ==
    /\ On /\ ~Busy /\ ~ui.pending
    /\ ui' = [ui EXCEPT !.pending = TRUE, !.session = 0, !.messages = <<>>,
                        !.status = "Idle", !.drained = FALSE]
    /\ UNCHANGED <<db, worker>>

CreateSessionDuringRun ==           \* mutant: the run status is not looked at
    /\ On /\ NextSessionIsFree(db)
    /\ NextSession(db) <= MaxSessions
    /\ Reload(WithActive(WithNewSession(db), NextSession(db)))

\* execute_session_command
CreateSession ==
    /\ On /\ ~Busy
    /\ IF NextSessionIsFree(db)
         THEN /\ NextSession(db) <= MaxSessions
              /\ Reload(WithActive(WithNewSession(db), NextSession(db)))
         ELSE Exit(db)

\* An id that is typed may be that of an archived session, or of none.
SwitchSession(s) ==
    /\ Allowed("switch")
    /\ \/ /\ s \in IF Busy THEN Listed ELSE db.sessions
          /\ Reload(WithActive(db, s))
       \/ /\ s \notin db.sessions /\ ~Busy
          /\ Exit(db)

LikeSession ==
    /\ Allowed("like")
    /\ Reload(db)

\* The session shown gets a replacement, before it goes.
Replaced(d) == WithActive(WithNewSession(d), NextSession(d))

DeleteSession(s) ==
    /\ Allowed("delete")
    /\ s \in Listed
    /\ \/ /\ s # ui.session
          /\ Reload(WithoutSession(db, s))
       \/ /\ s = ui.session /\ NextSessionIsFree(db)
          /\ NextSession(db) <= MaxSessions
          /\ Reload(WithoutSession(Replaced(db), s))
       \/ /\ s = ui.session /\ ~NextSessionIsFree(db)
          /\ Exit(db)

ArchiveSession(s) ==
    /\ Allowed("archive")
    /\ s \in Listed
    /\ \/ /\ s # ui.session
          /\ Reload(WithArchived(db, s))
       \/ /\ s = ui.session /\ NextSessionIsFree(db)
          /\ NextSession(db) <= MaxSessions
          /\ Reload(Replaced(WithArchived(db, s)))
       \/ /\ s = ui.session /\ ~NextSessionIsFree(db)
          /\ Exit(WithArchived(db, s))

\* Quitting the UI kills the worker; starting it needs the active session.
Quit == Quitting /\ On /\ Exit(db)

StartUi ==
    /\ ui.state = "off"
    /\ ActiveExists(db)
    /\ ui' = Loaded([OffUi EXCEPT !.state = "on"], db)
    /\ UNCHANGED <<db, worker>>

-----------------------------------------------------------------------------
(***************************************************************************)
(* A worker.  An event goes to the channel while the loop listens to this  *)
(* worker and there is room, and nowhere once its handle is dropped.       *)
(***************************************************************************)
At(w, pc) == worker[w].pc = pc
CanEmit(w) == ui.handle # w \/ Len(worker[w].events) < MaxEvents

Emitting(r, w, kind) ==
    [r EXCEPT !.seq = @ + 1,
              !.events = IF ui.handle = w
                         THEN Append(@, [kind |-> kind, seq |-> r.seq + 1]) ELSE @]

Becomes(w, r) == worker' = [worker EXCEPT ![w] = r]
Ends(w, outcome, result) ==
    Becomes(w, [worker[w] EXCEPT !.pc = IF ui.handle = w THEN "done" ELSE "gone",
                                 !.outcome = outcome, !.result = result])

\* run_with_sequenced_events: the newest run of the active session may wait.
ResumeRun(w) ==
    LET run == NewestRun(db)
    IN  /\ At(w, "begin") /\ ~worker[w].canceled
        /\ NewestHas(db, "WaitingForHumanInput")
        /\ \/ /\ db' = WithStatus(db, run, "Running")
              /\ Becomes(w, [worker[w] EXCEPT !.pc = "serve", !.run = run])
           \/ /\ Ends(w, "Error", <<>>)     \* the answer is refused
              /\ UNCHANGED db
        /\ UNCHANGED ui

FindNoWaitingRun(w) ==
    /\ At(w, "begin") /\ ~worker[w].canceled
    /\ ~NewestHas(db, "WaitingForHumanInput")
    /\ Becomes(w, [worker[w] EXCEPT !.pc = "create"])
    /\ UNCHANGED <<db, ui>>

\* start_run: create_run, which reads the active session again
CreateRun(w) ==
    /\ At(w, "create")
    /\ Len(ActiveRuns(db)) < MaxRuns
    /\ db' = WithRun(db, worker[w].request)
    /\ Becomes(w, [worker[w] EXCEPT !.pc = "open", !.run = NewRun(db)])
    /\ UNCHANGED ui

\* start_run: the request becomes the first step, in a transaction of its own.
\* There is no await between the two: a cancellation is not heard, a quit kills.
RecordRequest(w) ==
    /\ At(w, "open")
    /\ db' = Record(db, worker[w].run, "UserMessage", worker[w].request)
    /\ Becomes(w, [Emitting(worker[w], w, "RunStarted") EXCEPT !.pc = "serve"])
    /\ UNCHANGED ui

\* Sending blocks the thread: until there is room it hears no cancellation.
ReceiveText(w) ==
    /\ At(w, "serve")
    /\ worker[w].deltas < MaxDeltas
    /\ Becomes(w, [worker[w] EXCEPT !.pc = "send", !.deltas = @ + 1])
    /\ UNCHANGED <<db, ui>>

StreamText(w) ==
    /\ At(w, "send") /\ CanEmit(w)
    /\ Becomes(w, [Emitting(worker[w], w, "AssistantTextDelta") EXCEPT
                      !.pc = "serve", !.partial = TRUE, !.fresh = TRUE])
    /\ UNCHANGED <<db, ui>>

\* The response is a step, with or without text.
Responded(w) ==
    IF worker[w].fresh THEN Record(db, worker[w].run, "AssistantResponse", w) ELSE db

\* A response that calls propose_code_change, and the tool's output
ProposeChange(w) ==
    /\ At(w, "serve") /\ CanEmit(w)
    /\ w <= MaxChanges /\ ~worker[w].proposed
    /\ db' = Responded(w)
    /\ Becomes(w, [Emitting(worker[w], w, "ToolOutput") EXCEPT
                      !.fresh = FALSE, !.proposed = TRUE])
    /\ UNCHANGED ui

\* A response with calls: its text is persisted, and the loop goes on.
RecordResponse(w) ==
    /\ At(w, "serve") /\ worker[w].fresh
    /\ db' = Responded(w)
    /\ Becomes(w, [worker[w] EXCEPT !.fresh = FALSE])
    /\ UNCHANGED ui

\* The response that ends the request, the steps sent with the result, and the
\* error when the run or its session is gone
Settle(w, d, v) ==
    LET run == worker[w].run
    IN  IF RunExists(d, run)
          THEN /\ db' = WithStatus(d, run, v)
               /\ IF v = "Failed" THEN Ends(w, "Error", <<>>)
                  ELSE Ends(w, v, MessagesOf(d.steps[run]))
          ELSE db' = d /\ Ends(w, "Error", <<>>)

CompleteRun(w) ==
    /\ At(w, "serve") /\ worker[w].fresh
    /\ Settle(w, Responded(w), "Completed")
    /\ UNCHANGED ui

\* A question may come with text or without.
WaitForHumanInput(w) ==
    /\ At(w, "serve")
    /\ Settle(w, Responded(w), "WaitingForHumanInput")
    /\ UNCHANGED ui

FailRun(w) ==
    /\ At(w, "serve")
    /\ Settle(w, Record(db, worker[w].run, "Error", w), "Failed")
    /\ UNCHANGED ui

StopCanceledAnyRun(w) ==            \* mutant: the newest run, whatever its status
    /\ At(w, "begin") \/ At(w, "serve")
    /\ worker[w].canceled
    /\ db' = IF ActiveRuns(db) = <<>> THEN db
             ELSE WithStatus(db, NewestRun(db), "Canceled")
    /\ Ends(w, "Error", <<>>)
    /\ UNCHANGED ui

\* cancel_latest_running_run: the newest run of the active session, if Running
StopCanceled(w) ==
    LET run == NewestRun(db)
        d   == WithStatus(db, run, "Canceled")
    IN  /\ At(w, "begin") \/ At(w, "serve")
        /\ worker[w].canceled
        /\ IF NewestHas(db, "Running")
             THEN db' = IF worker[w].partial
                        THEN Record(d, run, "AssistantOutputCheckpoint", w) ELSE d
             ELSE UNCHANGED db
        /\ Ends(w, "Error", <<>>)
        /\ UNCHANGED ui

-----------------------------------------------------------------------------
(***************************************************************************)
(* The UI loop: it takes events until there is none, then looks for the    *)
(* result; what arrives in between is dropped with the handle.             *)
(***************************************************************************)
\* apply_agent_event: a delta goes to the streaming message, wherever that is.
Shown(event) ==
    LET seen == IF event.kind = "RunStarted" THEN 0 ELSE ui.lastSeq
        u    == [ui EXCEPT !.lastSeq = event.seq, !.drained = FALSE]
    IN  IF event.seq <= seen \/ event.kind = "RunStarted"
          THEN [u EXCEPT !.lastSeq = IF event.seq > seen THEN event.seq ELSE seen]
        ELSE IF event.kind = "ToolOutput"
          THEN [u EXCEPT !.review = TRUE]
        ELSE IF ui.stream = 0
          THEN [u EXCEPT !.messages = Append(@, Msg("Assistant", {ui.handle})),
                         !.stream = Len(ui.messages) + 1]
        ELSE [u EXCEPT !.messages[ui.stream].of = @ \union {ui.handle}]

Panics(event) ==
    /\ event.kind = "AssistantTextDelta"
    /\ event.seq > ui.lastSeq
    /\ ui.stream > Len(ui.messages)

TakeEventAtEnd ==                   \* mutant: events are read once the run is over
    /\ On /\ ui.handle # 0
    /\ At(ui.handle, "done")
    /\ worker[ui.handle].events # <<>>
    /\ ui' = Shown(Head(worker[ui.handle].events))
    /\ worker' = [worker EXCEPT ![ui.handle].events = Tail(@)]
    /\ UNCHANGED db

TakeEvent ==
    /\ On /\ ui.handle # 0
    /\ worker[ui.handle].events # <<>>
    /\ LET event == Head(worker[ui.handle].events)
       IN  IF Panics(event)
             THEN ui' = [OffUi EXCEPT !.state = "panicked"] /\ worker' = Killed
             ELSE /\ ui' = Shown(event)
                  /\ worker' = [worker EXCEPT ![ui.handle].events = Tail(@)]
    /\ UNCHANGED db

FindNoEvent ==
    /\ On /\ ui.handle # 0 /\ ~ui.drained
    /\ worker[ui.handle].events = <<>>
    /\ ui' = [ui EXCEPT !.drained = TRUE]
    /\ UNCHANGED <<db, worker>>

MergedAtEnd(messages, run) ==       \* mutant: what was shown of the run stays
    messages \o run

\* merge_run_messages: from the last message that equals the run's request on,
\* the messages are those of the run.
Merged(messages, run) ==
    LET asked == {i \in DOMAIN run : run[i].role = "User"}
        first == run[CHOOSE i \in asked : \A j \in asked : i <= j]
        same  == {i \in DOMAIN messages : asked # {} /\ messages[i] = first}
        base  == IF same = {} THEN Len(messages)
                 ELSE (CHOOSE i \in same : \A j \in same : i >= j) - 1
    IN  SubSeq(messages, 1, base) \o run

\* apply_run_finished
Finished(w) ==
    LET kept == IF ui.stream \in DOMAIN ui.messages
                THEN RemoveAt(ui.messages, ui.stream) ELSE ui.messages
    IN  [ui EXCEPT !.status = worker[w].outcome,
                   !.session = worker[w].run[1],
                   !.stream = 0,
                   !.messages = Merged(kept, worker[w].result)]

TakeResult ==
    LET w == ui.handle
        u == IF worker[w].canceled THEN [ui EXCEPT !.status = "Canceled"]
             ELSE IF worker[w].outcome = "Error"
               THEN [ui EXCEPT !.status = "Failed",
                               !.messages = Append(@, Msg("Error", {w}))]
             ELSE Finished(w)
    IN  /\ On /\ w # 0 /\ ui.drained
        /\ At(w, "done")
        /\ ui' = [u EXCEPT !.handle = 0, !.drained = FALSE]
        /\ worker' = [worker EXCEPT ![w] = [Unused EXCEPT !.pc = "gone",
                                            !.request = worker[w].request]]
        /\ UNCHANGED db

-----------------------------------------------------------------------------
User ==
    \/ Submit \/ Restart \/ RequestChanges \/ CancelRun
    \/ NewSession \/ CreateSession \/ LikeSession
    \/ \E s \in SessionIds : SwitchSession(s) \/ DeleteSession(s) \/ ArchiveSession(s)
    \/ Quit \/ StartUi

Work(w) ==
    \/ ResumeRun(w) \/ FindNoWaitingRun(w) \/ CreateRun(w) \/ RecordRequest(w)
    \/ ReceiveText(w) \/ StreamText(w) \/ ProposeChange(w) \/ RecordResponse(w)
    \/ CompleteRun(w) \/ WaitForHumanInput(w) \/ FailRun(w)
    \/ StopCanceled(w)

Loop == TakeEvent \/ FindNoEvent \/ TakeResult

Next == User \/ Loop \/ \E w \in Workers : Work(w)

Spec == Init /\ [][Next]_vars

\* The threads run, and the UI loop comes around.
FairSpec == Spec /\ WF_vars(Loop) /\ \A w \in Workers : WF_vars(Work(w))
-----------------------------------------------------------------------------
(***************************************************************************)
(* Properties.                                                             *)
(***************************************************************************)
Store == [sessions : SUBSET SessionIds, archived : SUBSET SessionIds,
          active : SessionIds,
          runs : [SessionIds -> Seq([request : Requests, status : RunStatus])],
          steps : [RunIds -> Seq(Step)]]

Ui == [state : {"on", "off", "panicked"}, status : TuiRunStatus,
       session : {0} \union SessionIds, pending : BOOLEAN,
       messages : Seq(Message), stream : Nat, lastSeq : Nat,
       runs : Seq(Requests), handle : {0} \union Workers, drained : BOOLEAN,
       review : BOOLEAN]

Event == [kind : {"RunStarted", "AssistantTextDelta", "ToolOutput"}, seq : Nat]

Worker == [pc : {"unused", "begin", "create", "open", "serve", "send", "done", "gone"},
           request : {0} \union Requests, run : {NoRun} \union RunIds,
           canceled : BOOLEAN, partial : BOOLEAN, fresh : BOOLEAN,
           deltas : 0..MaxDeltas, proposed : BOOLEAN, seq : Nat, events : Seq(Event),
           outcome : {"None", "Error", "Completed", "WaitingForHumanInput"},
           result : Seq(Message)]

\* Every variable has its type.
TypeOK ==
    /\ db \in Store
    /\ ui \in Ui
    /\ worker \in [Workers -> Worker]

Live == {w \in Workers : worker[w].pc \in {"begin", "create", "open", "serve", "send"}}

\* At most one background run executes, and it is the one the loop listens to,
\* so that the user can see it and cancel it.
OneWorker == \A w \in Live : ui.handle = w

\* The session on the screen is the one the next request goes to.
ShownSessionIsActive == On /\ ~ui.pending => ui.session = db.active

\* The text of the run that is listened to goes to a message of its own, also
\* after cancellations and reloads that left the place of an earlier one behind.
StreamHasItsPlace ==
    On /\ ui.handle # 0 /\ ui.stream # 0 =>
        /\ ui.stream \in DOMAIN ui.messages
        /\ ui.messages[ui.stream] = Msg("Assistant", {ui.handle})

\* Dropping events by sequence number never drops one of the run listened to,
\* although every request, a resuming one too, counts from one again.
NoEventIsDropped ==
    On /\ ui.handle # 0 =>
        LET events == worker[ui.handle].events
        IN  events # <<>> => \/ Head(events).kind = "RunStarted"
                             \/ Head(events).seq > ui.lastSeq

\* What the user wrote is repeated by nobody: no request and no feedback is sent
\* again.
NothingIsRepeated == \A w \in Sent : worker[w].request = w

\* When the UI says that the run ended or asks, the conversation ends with that
\* run as it is stored: nothing of it is missing or out of place.  Nothing of it is
\* shown a second time either, with two exceptions, in which merge_run_messages
\* finds an earlier place or none for the run: the user repeated a request, or the
\* run was asked for with feedback, which the conversation shows in the place of
\* the request.
FinishedRunIsShown ==
    /\ On /\ ui.handle = 0 /\ ~ui.pending
    /\ ui.status \in {"Completed", "WaitingForHumanInput"}
    => LET run      == MessagesOf(db.steps[NewestRun(db)])
           asked    == Last(ActiveRuns(db)).request
           shown(m) == Cardinality({i \in DOMAIN ui.messages : ui.messages[i] = m})
           told(m)  == Cardinality({i \in DOMAIN run : run[i] = m})
       IN  /\ NewestHas(db, ui.status)
           /\ IsSuffix(run, ui.messages)
           /\ NothingIsRepeated /\ Msg("User", {Feedback(asked)}) \notin ToSet(ui.messages) =>
                 \A m \in ToSet(run) : shown(m) = told(m)

\* Every run begins with the request it was created for, and nothing of an
\* earlier run that had the same id is in it.  A run without steps is still being
\* opened by its worker, or that worker was killed between the two transactions:
\* the run is Running for good, and no worker goes on with it or settles it.
RunBeginsWithItsRequest ==
    \A run \in RunIds : RunExists(db, run) =>
        LET log == db.steps[run]
            row == db.runs[run[1]][run[2]]
        IN  \/ /\ log # <<>>
               /\ log[1] = [kind |-> "UserMessage", by |-> row.request]
               /\ \A i \in 2..Len(log) : log[i].kind # "UserMessage"
            \/ /\ log = <<>>
               /\ row.status = "Running"
               /\ \A w \in Live : worker[w].run = run => At(w, "open")

\* A run's status is changed by a worker that executes that run, never by one
\* that was asked to do or to cancel something else.
OnlyItsWorkerChangesARun ==
    [][\A run \in RunIds :
          /\ RunExists(db, run) /\ RunExists(db', run)
          /\ db'.runs[run[1]][run[2]] # db.runs[run[1]][run[2]]
          => \E w \in Live : worker'[w].run = run \/ worker[w].run = run]_vars

\* The loop takes the result of every run it listens to, and listens no more.
ResultIsTaken ==
    \A w \in Workers : ui.handle = w ~> ui.handle # w

-----------------------------------------------------------------------------
(***************************************************************************)
(* What the UI's own texts and tests say, and the code does not keep.      *)
(***************************************************************************)
\* "points to the active Session used by commands that do not select a session
\* explicitly" (state/mod.rs)
ActiveSessionRemains == ActiveExists(db)

\* "/new", "Start a new session" (tui/ui/state.rs)
SessionCanBeCreated == On => NextSessionIsFree(db)

\* "/retry", "Retry the failed request" (tui/ui/state.rs)
RetryRepeatsFailedRequest ==
    On /\ ui.status = "Failed" /\ NewestHas(db, "Failed") =>
        RetryTargets = {Last(ActiveRuns(db)).request}

\* "tui_appends_streamed_assistant_text_deltas" (test_tui.rs): a piece of text
\* always has a message to go to; without one the UI panics.
UiDoesNotPanic == ui.state # "panicked"
=============================================================================
