# Verification of Jux

Jux is a terminal coding agent: a user sends requests to a language model, which answers with text or with calls of
tools and skills that run on the user's files. This directory holds TLA+ models of the parts of Jux that keep state
across steps of several actors, TLC configurations that check them on small instances, and theorems that the TLAPS
proof system checks for every value of the constants; a component's theorems are in the module `...Proofs`. Paths are
relative to the repository; `core/` is `crates/jux-core/src/` and `cli/` is `crates/jux-cli/src/`.

    tlc -config TuiRuns.cfg TuiRuns.tla       # model-check one run of the table below
    tlapm CodeChangeProofs.tla                # check the proofs

## 1. Inventory

### Components that are modelled

| component | state | operations | modules |
|---|---|---|---|
| agent run loop, `core/main_loop/mod.rs` | the place in a request, the calls still to serve, the iteration counts, the streamed text kept for a checkpoint | submit, resume, model call, tool and skill calls, suspend, complete, fail, cancel | `RunLoop`, `RunLifecycle` |
| human input tool, `core/tools/human_input.rs` | none of its own: the pending question is found in the steps | which question is pending, accept or refuse an answer | `RunLoop` |
| workspace store, `core/state/store.rs` | SQLite tables: workspace (active session), sessions, runs, steps, context items | create, activate, archive, delete sessions; create runs, set statuses, append and load steps | `SessionStore`, the run and step tables also in `RunLoop` |
| terminal UI: run control, `cli/tui/{terminal,runtime,app}.rs`, `cli/tui/ui/controller.rs` | the status shown, the conversation, the place of streamed text, the last event number, the runs last loaded, the handle on the worker | send, `/retry`, `/continue`, ask for a revision, cancel, session commands, quit, start, take events and results | `TuiRuns` |
| agent events, `core/main_loop/event.rs` | sequence number of a request, bounded channel | emit, take, drop by number | `TuiRuns` |
| code change review, `core/code_change/mod.rs`, `core/tools/code_change.rs` | the proposal in the tool, the review in the UI, the place in `apply` | prepare, decide, compare and write file by file | `CodeChange`, `ReviewPromise` |
| update check, `core/update.rs`, `cli/tui/terminal.rs` | the cache file, the temporary file, what each process has read | check, save, mark and draw the startup message, `jux update` | `UpdateCache` |
| file index, `cli/tui/file_index.rs` | the last list, the watches, the debounce, the channel | walk, watch, reconcile, refresh, take, join | `FileIndex` |
| terminal input, `cli/tui/events.rs` | the scroll that a burst adds up, the channel, one event put back | read, add up, send, coalesce drags | `InputEvents` |
| prompt editor, `cli/tui/ui/controller.rs` | text, cursor, undo, history with its draft, popup of file references | insert, delete, move, undo, browse, complete | `PromptEditor` |
| keys, focus and panels, `cli/tui/ui/{mod,focus,controller}.rs` | focus, overlay, panels, session picker, pending Esc, popup of commands | every key and click | `UiKeys` |
| policy, `core/policy/` | none: rules in an order | decide a path access, decide a request | `Policy`, asked in `Startup` |
| configuration, `core/config/mod.rs`; skills and instructions, `core/skills`, `core/instructions`; what `cli/main.rs` does with them | files of the home directory and of the workspace, the catalog and the policy that the UI keeps | find, read, merge, resolve, translate; discover, override, select | `Startup`, `Policy` |

### Components that are not modelled

| component | why |
|---|---|
| package session and download of assets, `core/tools/wasm/{runtime,assets}.rs` | One lock around a load, and the pattern of one temporary file that `UpdateCache` has. Running a guest is the work of the wasmer crates. `Policy` has what a guest may reach. |
| lua tool, distribution metadata | One call into an interpreter, one embedded constant: no state of their own. |
| rendering, layout, Markdown, the conversation's drawing and selection, the mouse's hit tests | Functions from the UI's state to the screen with their caches. Nothing in the modelled state depends on them but the rows of the picker, which `UiKeys` has. |
| decoder of terminal bytes in `cli/tui/terminal.rs` | Used by tests only; the program reads events through crossterm. |
| argument parsing, model providers, prompts | Wording, or code of other crates. |

### How the components interact

The UI loop is one thread. A request starts a background thread (`BackgroundRun::start`), which runs the agent loop
to its end on its own connection to the store, sends events through a channel of 256 places and its result through
a second channel, and hears of a cancellation only where it awaits. The loop of the UI drains the events, looks for a
result, and handles one input event; a session command writes to the same store directly and then reloads the UI's
model from it. The worker never gets a session or a run from the UI: it looks up the workspace's *active session* and
the *newest run* of it, each time anew. That lookup, the run's status column and the steps of a run are all that
connects the UI, the worker, and the next process after a crash. There is no foreign key in the schema: only the
prefix of an id ties steps to a run and a run to a session.

Three more threads live beside the loop: the reader of the terminal (`InputEvents`), the file index (`FileIndex`) and
the checker of updates (`UpdateCache`). Each talks to the loop through one channel that the loop polls; only the file
index is joined at the end. The checker shares its cache with every other Jux process of the user. A proposed code
change comes to the UI as an event of the run; the decision is carried out in the UI loop itself, against files that
anybody may save. What the UI read at its start (skill catalog, configuration, policy) it keeps, while each run
reads instructions and skills again.

## 2. Modules

### RunLifecycle — what a session promises about its runs

Abstract specification: runs are created one after another, `Running`; only the newest changes; it may be suspended
for a human answer and resumed; `Completed`, `Failed` and `Canceled` are final; none is created while one waits.

### RunLoop — the agent loop, write by write

`status` and `steps` are the columns and rows of the runs of one session, `latest` its newest run, `worker` the
process that executes a request (its program counter, the calls left to serve, the iteration counts, the streamed
text), `answers` only a bound. Each write to the store is an action, since the process may die between any two
(`Crash`); each await of the model is a program counter at which a requested cancellation can take effect.

| code | actions |
|---|---|
| `run_with_sequenced_events`, `start_run` | `Submit`, `StartRun`, `RecordUserMessage`, `RecordSkillsRequested` |
| `resume_waiting_run` | `AcceptAnswer`, `RefuseAnswer`, `ResumeMain`, `ResumeSkill` |
| `continue_requested_skills` | `CallRequestedSkill`, `FinishRequestedSkills` |
| `continue_run`, `complete_llm_call`, `stream_completion` | `StreamText`, `ReceiveAnswer`, `ReceiveQuestion`, `ReceiveToolCalls`, `LlmFails` |
| `execute_skill_call`, `run_skill_subflow`, `continue_resumed_skill` | `ExecuteTool`, `StartSkill`, `SkillReceives...`, `SkillExecutesTool`, `SkillFails`, `FinishSkill` |
| `wait_for_human_input`, `complete_run`, `fail_completion_call`, `fail_runtime` | `SuspendRun`, `CompleteRun`, `RecordError`, `FailRun` |
| `run_with_events_cancellable`, `cancel_latest_running_run` | `RequestCancel`, `CancelRun`, `CancelNothing`, `RecordCheckpoint` |

The model's answers are sequences of tools out of the constant `Responses`. A call is named by the position of the
step that holds it, since providers do not repeat call ids. `unanswerable_input` is a question that refuses every
answer, `malformed_input` one whose arguments do not parse. `AskedBeside` says which question a skill has put beside
another call: it is the only call that can be answered again. The last section has two properties that one would
expect and that do not hold, `CallsAreAnsweredOnce` and `SkillCallsAreBounded`, with configurations of their own.
Prompts, wording, usage, reasoning and the session context items are left out; so is what a tool does, except that it
answers.

### SessionStore — the tables as a value

A library of operators on a database value, each one transaction: sessions numbered by counting the rows, runs and
steps by the largest number plus one, deletion by prefix, the workspace's pointer that deletion does not look at.
It has no variables, so that `TuiRuns` and later modules can hold one store and several writers.

### TuiRuns — the UI loop, its workers and the store

`db` is the store, `ui` the UI's model together with the loop's handle on the active run, `worker[w]` the thread that
serves request `w`. A worker is `RunLoop` seen from outside: it resumes or creates a run, streams, records and
settles. The lookup of the waiting run and the creation of a new one are two steps, each reading the active session
again, and the new run's first step is a third, since quitting may kill the worker between the transactions
(`mod.rs:467-481`). The two writes of an end are one step here, because `RunLoop` has them apart. A session command with
its two or three transactions and the reload is one step, since only a second process could come between them.

| code | actions |
|---|---|
| Enter, `begin_token_estimate`, `materialize_pending_new_session`, `BackgroundRun::start` | `Submit` |
| `/retry`, `/continue` | `Restart` |
| `propose_code_change` of the run, `/review changes`, `feedback_prompt` | `ProposeChange`, `RequestChanges` |
| `handle_escape` | `CancelRun` |
| `begin_new_session`, `execute_session_command`, `load_active_session_history` | `NewSession`, `CreateSession`, `SwitchSession`, `LikeSession`, `DeleteSession`, `ArchiveSession` |
| `is_quit_shortcut`, `run_tui` | `Quit`, `StartUi` |
| the worker | `FindNoWaitingRun`, `ResumeRun`, `CreateRun`, `RecordRequest`, `ReceiveText`, `StreamText`, `RecordResponse`, `CompleteRun`, `WaitForHumanInput`, `FailRun`, `StopCanceled` |
| `run_app_loop`: `try_recv_event`, `try_recv` | `TakeEvent`, `FindNoEvent`, `TakeResult` |

Between the last look at the events and the look for the result the worker may send more; `drained` keeps that
window. An error of a session command ends the UI (`Exit`), and with the process every thread.

A step that is no message of the conversation (a tool's result, a response without text) is left out: the loop only
shows it in the timeline.

`WhileRunning` names the session commands that the user gives during a run. The code refuses switching with Enter and
creating sessions then, but not a click on the list and not Ctrl+A, Ctrl+D, Ctrl+L. `RevisingAnytime` says whether the
user asks for a revision at any time, which the code allows, or only when the run has ended and its text is on screen.
The passing run has `WhileRunning = {}` and `RevisingAnytime = FALSE`: it shows that the design is right as long as
nobody does either. With any one of the four commands, TLC finds every other invariant and action property but `TypeOK`
and `NoEventIsDropped` violated. With a revision at any time, it finds `NoEventIsDropped`, `OneWorker`,
`StreamHasItsPlace`, `FinishedRunIsShown` and `RunBeginsWithItsRequest` violated: a revision that answers a waiting run
resumes it without `RunStarted`, so that its events are dropped for their old numbers; one during a run starts a second
worker, and a cancellation of the first may then settle the run of the second, which has no step yet; one after a
cancellation sends its text to the message of the canceled run.

`RunBeginsWithItsRequest` has a case for the run without steps: its worker is between the two transactions, or was killed
there, and then the run is `Running` with an empty history for good. The context items of the session, which are
written between the two, are no part of the model.

`FinishedRunIsShown` says that the conversation ends with the run as it is stored, and that nothing of the run is shown
twice. The second part has two exceptions, both where `merge_run_messages` (`controller.rs:1612-1640`) finds the wrong
place for a run or none. A repeated request stands in the conversation twice. And after a request for a revision the
conversation shows the feedback, while the run's first step holds the request made of it: if the revision is canceled
too late, its run waits and the UI says Canceled; the next input resumes the run, no message of the conversation is its
request, and all of its text is shown again. The second exception came out of the proof; TLC needs `MaxRequests` = 3
to find it, and with three requests the property as it is now holds.

### ReviewPromise — what the review of a change promises

Abstract specification, four variables: the verdict, whether the policy forbids the change, the files it is about, the
files it has touched. Files are touched only while an approved change is carried out; a conflict touches none; an
applied change has touched all; the end of the program forgets the review.

### CodeChange — preparing, deciding and carrying out a change

`disk` is what every program writes, `agent` the tool call that prepares a proposal, `review` the one in the UI's
model, `ui` the place in `apply`. `late` is a history variable: the files saved since `apply` compared them.

| code | actions |
|---|---|
| `ProposeCodeChangeTool`, `CodeChangeProposal::prepare` | `Call`, `PrepareFile`, `FinishProposal` |
| `apply_agent_event` (tool output of a proposal) | `TakeProposal` |
| `apply_code_change_review`, `CodeChangeReview::{approve, reject, request_changes}` | `Accept`, `Reject`, `RequestChanges`, `DecideAgain` |
| `CodeChangeReview::apply`: the loop of comparisons, the loop of writes | `CompareFile`, `Compared`, `WriteFile`, `FailToWrite`, `FinishWriting` |
| another program; the end and the start of the UI | `Edit`, `Die`, `Start` |

A content is one of seven values. Missing and empty are told apart because the code does not: it compares a missing file
as an empty one. `"binary"` is what is not UTF-8, an error when it is read. An error of a decision ends the UI, which
forgets the review; files written by then stay.

### UpdateCache — one cache and one temporary file for all processes

Every operation on a file is a step: opening truncates, writing goes to wherever the file has been renamed to
meanwhile, renaming replaces. A process is a terminal UI (startup message, then a check, then an hour of sleep) or
`jux update`.

| code | actions |
|---|---|
| `run_tui` (`load_cache`, `mark_startup_notified`, first frame) | `StartLoad`, `MarkLoad`, `Draw` |
| `start_update_checks`, `check_if_due`, `check_now_at`, `jux update` | `Check`, `RequestSucceeds`, `RequestFails`, `LoadPrevious`, `Wake` |
| `save_cache` | `OpenTemporary`, `WriteTemporary`, `WriteFails`, `Rename`, `RenameFails` |
| the user, the calendar, the server | `Start`, `Quit`, `Day`, `Upgrade`, `Release` |

`disturbed` is a history variable: two processes have run at once, or a write has failed. The server's answer, time
(`Day` makes every result stale) and versions are numbers or flags.

### FileIndex — a list that follows the disk

The walk reads one directory per step. Edits are events only where a registered watch covers them.

| code | actions |
|---|---|
| `build_file_index` | `Build`, `VisitDirectory` |
| `run_index_thread`: first list, both watches, reconciliation | `SendFirst`, `CreateWatcher`, `WatchRoot`, `WatchGit`, `Refresh` |
| `run_index_thread`: `recv_timeout`, the debounce with its deadline | `Loop`, `Wait`, `Debounce`, `Swallow`, `Deadline` |
| `try_recv_latest`, `Drop for FileIndexService` | `TakeLatest`, `Drop`, `Join` |
| files, `git add`, `git init`, events that change no list | `Edit`, `Track`, `CreateRepository`, `Noise` |

Git's list is read in one step, since one git command makes it. Symbolic links, ignored directories and the limit on
files are left out.

### InputEvents — from the terminal to the loop

An event is a number in the order of input, of one of five kinds. The reader adds up wheel reports in
`pending_scroll`; the loop, given a drag, drains the channel as long as it holds drags and puts the next event back.
`Way` is what the program was given followed by what is on its way to it, `Drags(n)` the drags up to event `n`. What may
be lost on this way is stated by positions: no key, no release; of two events the earlier comes first; the rows
scrolled, pending and on the way add up to those read; and before a key or a release comes the last drag before it.

| code | actions |
|---|---|
| `EventHandler::new`, the thread | `ReadEvent`, `ReadBurst`, `BurstEnds`, `LookAgain`, `ReadFails` |
| `recv_timeout`, `coalesce_drag_events` | `Receive`, `Coalesce` |
| the user | `Input`, `Quit` |

### PromptEditor — text, cursor, history and completion

`prompt` is `PromptState`. A text is a sequence of characters with widths, the cursor counts bytes: `MovedTo` and
`Offsets` go from one to the other, and `SlicePanics` is a slice inside of a character. Each event ends with
`refresh_file_reference_cache` (`Handled`), as in the code. The keys are actions of their own (`Type`, `Paste`,
`KeyLeft` ... `KeyEnter`), and so are `SwitchSession`, `NewSession`, `EditMessage` and `IndexFiles`
(`AppMsg::FileIndexUpdated`). The fuzzy score is only its condition: which paths match, not their order. The characters
of a reference have names (`"at"`, `"open"`, `"close"`, `"space"`), since the provers cannot read the signs themselves. A
pasted text goes in at once, with the undo of its last character, as inserting one after the other leaves it.

### UiKeys — what a key means

A line is typed in one step, out of a few lines that the handlers tell apart. `out` is the action that the controller
gives the loop; whether a command may happen at all depends on the focus (`Synced`), the overlay, the picker, the
popup, the panels and the run's status, in the order of the handlers. `Offered(i)` is the i-th command of the popup:
what is not excluded and fits the line, counted.

| code | actions |
|---|---|
| `handle_escape`, `PendingEscapeAction` | `KeyEscape`, `EscapeExpires` |
| `handle_enter`, `execute_selected_slash_command`, local, review and session commands | `KeyEnter` (with `Executes`, `PickerEnter`, `LocalCommand`, `ReviewCommand`, `SessionCommand`, `Sends`) |
| the other keys | `Type`, `Paste`, `TypeInPicker`, `Space`, `PickerKey`, `KeyUp`, `KeyDown`, `KeyTab`, `KeyLeftRight` |
| clicks | `ClickSession`, `ClickSuggestion`, `ClickSkill`, `ClickDivider` |
| the run | `RunEnds`, `Propose` |

`Says("StartRun")` is every action with which the loop starts a run: a sent line, `/retry`, and `/review changes x`, whose
text is the program's own (`terminal.rs:298-309`). A sent line is compared with the question that is open, the feedback
of a review is not (`controller.rs:1329-1336`), so `OnlyAnswersAreSent` names it as its exception (`Revises`), and
`UiRevises.cfg` shows the property without it to be false. In the store the feedback then is an answer as any other, and
the agent loop refuses it if the question has options only (`RefuseAnswer` of `RunLoop`).

Commands change `status` and `question` only to what the reload may find; `TuiRuns` has the exact effect.

### Policy and Startup — what a run is made of

`Policy` has no variables: `WildcardMatches`, `Normalize`, `DecidePathAccess`, `DecideHttpRequest`, `Merge` of a
configuration with the defaults and `IntoRuntimePolicy`. A path is a sequence of components; what a valid regular
expression matches is left out, that a broken pattern is an error when it is reached is not. Recursion is written as
recursive functions. The last section has the types, which the proofs need: `RuntimePolicy` is what `IntoRuntimePolicy`
makes of any `ConfigOK`. What a file may contain is a `ConfigOK` by the assumption of `Startup`, since serde refuses
everything else with a parse error.

What the rules say and what a command of the sandbox gets are two things. `MapsHostDirectory` is what
`apply_runner_capabilities` does: with any rule at all, the workspace's directory itself is mapped, whatever the rules
say of writing. `Summary` is what the UI shows, made of the rules alone. `PolicyIsWhole` therefore speaks of where the
policy comes from, not of what it keeps a command from doing; that the word "read-only" is true is
`ReadOnlyIsNotWritten`, which is false (`StartupReadOnly.cfg`).

`Startup` has the files, the terminal UI, one run and one question to its policy. The UI reads each directory in a step of
its own, and so does the run, while the user edits.

| code | actions |
|---|---|
| `load_skill_catalog`, `find_config_path`, `load_tui_configuration` | `StartTui`, `LoadCatalog`, `FindConfig`, `ReadConfig`, `Quit` |
| `run_with_model`, `InstructionResolver`, `SkillResolver`, `select_explicit_skills` | `SubmitInTui`, `SubmitByCommand`, `RunDocs`, `RunSkills`, `Select`, `FinishRun` |
| `decide_path_access`, the HTTP client of the sandbox | `AskForPath`, `AskForUrl` |
| the user | `EditConfig`, `EditInstructions`, `EditSkill` |

## 3. Runs

| run | instance | what it shows |
|---|---|---|
| `RunLoopQuestions` | two runs, two answers, crashes, cancellation, streaming | worker and store agree, the loop asks and resumes at the right question, every result answers a call made before it, no call is answered twice but one case, every outcome is explained by the history, ended runs are frozen, `RunLifecycle` is implemented |
| `RunLoopLimits` | one run, two iterations, two requested skills that may ask, cancellation, fairness | requested skills all come first and in order, also across suspension; the iteration limits of a run and of a skill hold across resumption, only a suspension drops calls, `Running` ends |
| `TuiRuns` | two requests, two sessions of two runs, one proposed change, restarts of the UI, fairness | one worker at a time; the conversation is that of the active session and of the stored run; streamed text and event numbers never mix between runs; run ids that are used again bring nothing back; results arrive |
| `CodeChange` | three files, five kinds of change, two proposals, two saves | a file is overwritten only as it was shown, *applied* means written, `ReviewPromise` is implemented |
| `UpdateCache` | a terminal UI and `jux update`, two releases, fairness | what is announced is an update, once, and in the end |
| `FileIndex` | two directories, two edits, git inside, outside or absent, fairness | the list becomes that of the disk; quitting ends the thread |
| `InputEvents` | four events of five kinds, fairness | keys and releases arrive once and in order, no row of the wheel is lost |
| `PromptEditor` | short texts of characters of one and three bytes, lists of files that change, histories of two sessions | the popup completes what it shows, the draft survives the history, references are deleted whole |
| `UiKeys` | fourteen lines, two sessions, one skill, a question with two options | keys go to what is on screen, no single Esc cancels a run, nothing typed is lost, a question gets only answers it accepts or the feedback of a review |
| `Startup` | six configurations, one skill name, two edits, one run | a run has the skills it asked for, each once, its policy is that of one file as a whole, the first rule that matches decides |

Violations, each a `findings` entry with the text it contradicts:

| run | what the code does |
|---|---|
| `RunLoopCheckpoint` | after a cancellation in a later iteration, text that was persisted in a response is persisted again in the checkpoint |
| `TuiSwitch` | a click on the session list during a run lets the user start a second worker; the first can no longer be canceled |

Configurations that reproduce other disagreements between the code and its text; TLC finds each violated:

| configuration | property | what the code does |
|---|---|---|
| `RunLoopDroppedCalls` | `TurnIsAnsweredBeforeNext` | a response with a question beside other calls leaves those calls without a result, and the model is called again |
| `RunLoopTwice` | `CallsAreAnsweredOnce` | after such a question is answered and the skill has ended, a crash before the status is set lets the next input answer the other, stale question of that skill, and once more for each such crash (`mod.rs:277-320`, `707-713`) |
| `RunLoopSkillLimit` | `SkillCallsAreBounded` | that stale question resumes a skill that had ended, which then calls the model more often than its limit |
| `RunLoopCrash` | `WaitingRunHasQuestion` | a crash between the answer and the status leaves a run that waits with no question open, and the session refuses every request |
| `TuiStream` | `UiDoesNotPanic` | a reload during streaming leaves the place of the streamed text behind; the next piece of text makes the UI panic |
| `TuiDelete` | `ActiveSessionRemains` | `/new` and then deleting the old session leaves the workspace pointing to nothing; Jux does not start there any more |
| `TuiNew` | `SessionCanBeCreated` | after a deletion the next session's number is taken; creating a session ends the UI with an error |
| `TuiRetry` | `RetryRepeatsFailedRequest` | `/retry` repeats the last run of the last reload, not the one that failed |
| `TuiRevise` | `NoEventIsDropped` | asking for a revision while the run waits resumes it with the old event count, and the UI drops its events |
| `UiRevises` | `OnlyOptionsAreSent` | while a question with options is open, `/review changes x` sends its feedback to the waiting run, unlike any other text, although without free text "the user must reply with one of the option ids" (`core/tools/human_input.rs:84`) |
| `StartupReadOnly` | `ReadOnlyIsNotWritten` | the UI says read-only, as does `README.md:37` ("exposed to sandboxed commands as read-only"), yet a policy with any rule, the default one too, maps the workspace's directory itself (`core/tools/wasm/capability.rs:133-140`) and nothing asks `decide_path_access` |
| `UpdateLoses` | `ResultsStayCached` | two processes that save at once: the rename of the second fails, and it removes the cache before it tries again (`update.rs:213-218`), although results "are cached for 24 hours" (`update.rs:3`) |
| `InputScrolls` | `ScrollArrives` | a key between the reader's two looks leaves the wheel's rows pending until the wheel turns again (`events.rs:72-75`) |

The modules state more than the runs check, for use in a configuration: the other `TypeOK`s and
`UpdateCache!CacheIsWhole`, which but for those of `FileIndex` and `UiKeys` are proved;
`CodeChange!ResultBelongsToReview` and `Startup!ProjectOverridesUser`, which are proved too; `PromptEditor!MotionsLand`
and `CompletionIsAReference`, which hold on the instances above, and `OnlyWideSpacesPanic`, which is proved too; and
`UiKeys!ClickSelectsItsRow`, which does not, because the rows of the screen have group headings and the controller
counts sessions.

### What the models brought to light besides

No document says otherwise, so these have no findings of their own:

- Runs. After the crash of `RunLoopCrash`, a question that an ended skill had put beside another call, and that was
  refused, is taken for the pending one. A cancellation that comes too late shows Canceled for a run that is stored as
  Completed or waiting, and `/continue` then sends the original request again, in the second case as the human's
  answer. Quitting during a run leaves it `Running`, and the next start refuses every request in that session.
  The request of a revision is not merged with the stored one as other requests are.
- Changes. A file listed twice is compared per entry with the content from before the change. Deleting files is not
  possible: a missing file counts as an empty one.
- Keys. Tab and then Enter on a slash command sends the line as a command that is unknown. The help and audit panels have
  no key that closes them. `/new` keeps the pending question and the review. Ctrl+R and then moving in the list renames
  another session than the one chosen. Esc, a paste and Esc clear what was pasted. Undo after a paste takes back its
  last character only. A white space of several bytes before the cursor makes
  `refresh_file_reference_cache` (`controller.rs:372-412`) slice inside of a character and panic.
- Index and cache. A watch that is refused is ignored; `git init` outside of the root is not watched; with git, only
  tracked files are listed. If the mark of the startup message cannot be saved there is no message; a clock that was
  set back suppresses checks until it has caught up. Downloads of assets share one temporary name.
- Configuration. One malformed skill keeps the UI from starting. If the workspace is the home directory its
  instructions are read twice. `jux run` does not read the user's configuration. A rule that matches and does not list
  the access is an answer too, whatever its effect. A rule that denies only reading is translated to one that allows
  writing (`config/mod.rs:378-386`), although its `permissions` are called the operations it affects (`:341-342`, `:353`);
  `FirstRuleDecides` speaks of the translated rules. The path rules are not consulted by the modelled runs: nothing in
  the runtime calls `decide_path_access` yet, nor the list of native programs.

### Bounds

- `RunLoop`. `MaxRuns`, `MaxAnswers`: two runs are the least with an older and a newest run; two answers let a question
  be answered again after a crash or be followed by a second question. `MaxIterations` stands for
  `MAX_LOOP_ITERATIONS`: 1 or 2 are enough to reach the limit, to reach it again after a resumption, and to have a
  response after tool results. `MaxRequestedSkills` = 2: one skill suspends the run and another one is left.
- `TuiRuns`. `MaxSessions` = 2 has every case of deletion and archiving: of the session shown, of another one, with the
  next number free and taken. `MaxRuns` is at least `MaxRequests`, so that the bound never blocks a worker.
  `MaxRequests` = 2: a request after one that ended in any way, and its late effects. `MaxEvents` = 1 stands for 256:
  the channel is full after every event. `MaxDeltas` and `MaxChanges` bound the pieces of streamed text and the
  proposals. Without proposals, the safety properties were also checked with three sessions, and with one session and
  three requests (789 246 and 716 293 states).
- `CodeChange`. `MaxProposals` = 2: a proposal that takes another's place; `MaxEdits` = 2: two files, or one file
  twice, saved around the comparison. Also checked with one proposal and three saves. Three files: two of one change
  and a sensitive one.
- `UpdateCache`. `MaxVersion` = 2: a release and an upgrade while a process of the old version runs. Two processes are
  the least that collide, and one after the other they are any number.
- `FileIndex`. Two directories let a file move behind the walk; a second edit comes within the debounce that the first
  began. `InputEvents`. `MaxInput` = 4: a burst, its end, and an event between the two looks.
- `PromptEditor`. `MaxLength` = 2 bounds the text *before* something is typed, pasted or completed, so texts are
  longer; `MaxHistory` = 2 lets the user go back further than the last input. Widths 1 and 3.
- `UiKeys` needs no bound: it counts nothing. Also checked with `/audit` among the lines (1.1 million states).
- `Startup`. `MaxEdits` = 2: a skill that changes twice, or one in each scope; `MaxRuns` = 1: a run keeps nothing for
  the next.

### Deadlock and fairness

Runs, requests, input and edits are bounded, and what is settled with nothing asked of it stops: all configurations
say `CHECK_DEADLOCK FALSE`.

- `RunLoop!FairSpec`: weak fairness of the worker's steps taken together. The thread runs, and a model or tool call
  returns or fails (requests have timeouts). It does not include `Submit`, `RequestCancel` or `Crash`.
- `TuiRuns!FairSpec`: weak fairness of the UI loop, which comes around every few milliseconds, and of each worker.
- `UpdateCache!FairSpec`: time passes, a running process goes on, and the server answers now and then (strong fairness of
  `RequestSucceeds`). Nobody has to start, quit or upgrade anything.
- `FileIndex!FairSpec`: both threads run, and the debounce's deadline passes however many events there are (strong
  fairness of `Deadline`, since swallowing an event disables it only for a moment). No edit is fair.
- `InputEvents!FairSpec`: weak fairness of the reader and of the loop. No input is fair.

## 4. Proofs

`RunLoopProofs` proves, for every number of runs, answers and iterations, any set of model responses, with and without
streaming, crashes and cancellation:

| theorem | statement |
|---|---|
| `TypeCorrect` | `Spec => []TypeOK` |
| `WorkerAgrees` | `Spec => []WorkerMatchesStore` |
| `LoopRefinesLifecycle` | `Spec => RefinesLifecycle` |
| `EndedRunsAreFrozen` | `Spec => EndedRunIsFrozen` |
| `OutcomesAreRecorded` | `Spec => []OutcomeIsRecorded` |

The only assumption is `RunLoopAssumption` on the constants.

*Types.* `TypeOK` is not inductive: serving a call takes the head of the worker's queue, and that the queue is not
empty there is not a type. `TypeInv` adds `QueuesOK`: at the points that serve a call there is one. There is one lemma
per group of actions (`BeginType`, `OpenType`, `CallModelType`, `ExecuteType`, `LeaveType`).

*Statuses.* Every step is a `StatusStep`: it keeps the statuses and the worker's claim on them, or creates, resumes,
suspends or settles the newest run (`EveryStatusStep`). `WorkerMatchesStore` is inductive relative to `TypeInv` over these
five kinds, and each kind is a step of `RunLifecycle` or a stutter. So twenty-odd actions are looked at once and
not once per theorem.

*Histories.* In the same way every step is a `HistoryStep`: it leaves the store alone, appends a step to the newest run
while that is not settled, appends the checkpoint to the canceled run, or sets a status. `EndedRunIsFrozen` follows
directly. `OutcomeIsRecorded` needs the strengthening `OutcomeInv`: when the worker is about to complete or fail a
run, the step that explains it is already the last one.

The second half of the module proves, as generally and from the same assumption, what the history holds that is sent to
the model again and again:

| theorem | statement |
|---|---|
| `HistoriesAreGood` | `Spec => []HistoryInv`, from which the next four follow |
| `ResultsAnswerCalls` | `Spec => []ResultsMatchCalls` |
| `RequestedSkillsAreFirst` | `Spec => []RequestedSkillsComeFirst` |
| `OnlySuspensionsDropCalls` | `Spec => []OnlySuspensionDropsCalls` |
| `RunsPauseAtQuestions` | `Spec => []PausedAtQuestion` |
| `IterationsStayBounded` | `Spec => []IterationsAreBounded` |

*What fits.* None of these is inductive, since nothing in a history says what comes next. `HistoryInv` says of each step
that it fits the steps before it (`Fits`, `GoodHistory`: calls are named by their position, a result is of a call that
was made, a second one only of `AskedBeside`, a response drops calls only where the human was asked), which appending a
step that fits preserves. Why the next one fits is in the worker, `WorkerFits`: its queue holds calls of one response,
each once and without a result (`QueueFits`, `SkillQueueFits`), and all other calls are served or excused (`Served`). A
run that waits has no worker to say so; `Paused` is what it leaves behind and what `ResumeMain` and `ResumeSkill`
take up again. The proof showed that two properties, as first stated, are false in a state TLC had not been given
the responses to reach: the two configurations about stale questions above.

*Limits.* The counters are lost with the worker. `LimitInv` says how many turns of the history they stand for:
`TurnsWithin(log, worker.iter)` since the last answer of a human, `SkillWithin` for the skill that runs; a suspension
ends the count, and a resumed skill counts its turns in the history again.

`CodeChangeProofs` proves, for any files, any changes, also such as list a file twice, any number of proposals and of
saves by others:

| theorem | statement |
|---|---|
| `TypeCorrect` | `Spec => []TypeOK` |
| `NothingUnseenIsOverwritten` | `Spec => []OverwritesOnlyWhatWasShown` |
| `AppliedChangeIsOnDisk` | `Spec => []AppliedIsOnDisk` |
| `ResultsAreOfTheirReview` | `Spec => []ResultBelongsToReview` |
| `ReviewKeepsPromise` | `Spec => KeepsPromise` |

The only assumption is `CodeChangeAssumption` on the constants.

*Files.* Neither safety property is inductive. `SafetyInv` adds three facts: `UnderWay` (a review is approved exactly
while the UI is inside of `apply`), `ComparedSoFar` (while files are compared without a conflict so far, each one that
was compared reads as it was shown or was saved since) and `WrittenSoFar` (each file written so far has the last
content written to it or was saved since; `AppliedIsOnDisk` is this when all are written). `Compared` turns the second
into `OverwritesOnlyWhatWasShown`, and each `WriteFile` keeps that for the files that remain, which is where a file
listed twice needs the disjunct about an earlier entry. Steps that leave `disk`, the review and the place in `apply`
alone are dealt with once (`NothingTouched`), and so are those after which no change is under way (`NothingToShow`).

*Result.* `ResultBelongsToReview` is inductive relative to `SafetyInv`, which says that no review outlives the program.

*Promise.* Each step of the review is one step of `ReviewPromise` or a stutter; the invariant supplies that nothing is
touched before the comparison ends, and that all files are when `FinishWriting` is reached.

`TuiRunsProofs` proves, for every number of sessions, runs, requests, pieces of text and places of the channel:

| theorem | statement |
|---|---|
| `TypeCorrect` | `Spec => []TypeOK` |
| `RunsDoNotOverlap` | `Spec => []OneWorker`, if `Orderly` |
| `ShownSessionStaysActive` | `Spec => []ShownSessionIsActive`, if `Orderly` |
| `TextHasItsPlace` | `Spec => []StreamHasItsPlace`, if `Orderly` |
| `EventsAreSeen` | `Spec => []NoEventIsDropped`, if `Orderly` |
| `RunsBeginWithTheirRequest` | `Spec => []RunBeginsWithItsRequest`, if `Orderly` |
| `RunsAreTheirWorkers` | `Spec => OnlyItsWorkerChangesARun`, if `Orderly` |
| `TextStopsNothing` | `Spec => []UiDoesNotPanic`, if `Orderly` |
| `FinishedRunsAreShown` | `Spec => []FinishedRunIsShown`, if `Orderly` |

`Orderly` is `WhileRunning = {} /\ ~RevisingAnytime`: it restricts what the user does, not what the code does, and it is
the instance of the passing run. It cannot be dropped: `TuiSwitch`, `TuiStream` and `TuiRevise` are
the counterexamples. The theorems say that nothing else is needed, for any number of anything, whatever the user
does between runs, and with any crash of a model call, cancellation and restart. Besides there is
`TuiRunsAssumption` on the constants.

*Types.* `TypeInv` adds that no session has more runs than it has ids and what a worker's program counter says of its
other fields; a counting argument on the identifiers shows that a flattened store stays within its tables.

*Safety.* `OneWorker` depends on nearly everything else, since nothing but the agreement of three views keeps a second
worker away: the status on screen, the newest run of the active session in the store, and the worker the loop
listens to. `SafeInv` has one part for each pair. `ListenedInv`: where the worker is decides whether the newest run
of the active session is `Running` and is the worker's (`Listened`), and the events in the channel are its last ones
and continue the numbers the UI has seen (`EventsFit`). `IdleInv`: between runs a run that is `Running` in the store is
one on screen, so that no request is made beside it. `UiInv`: there is an active session and it is the one shown.
`StoreInv`: an id that has no run has no steps, also after deletions; one that has a run has its request first, or no
step yet while the run is `Running` (`RunFits`, `JustCreated`). Only a worker at `open` may write a first step, and no
other worker has that run, since a run that waits or is settled is not just created.

*Conversation.* `FinishedRunIsShown` relates the conversation to the stored run at the end of it only, so `ToldInv`, on
top of `SafeInv`, carries more. `EndsInv`: a result on its way is the run as stored, and while the UI says that the run
ended the conversation ends with that run. That nothing is shown twice rests on who wrote what, `OnceInv`, which holds
while nobody repeats anything (`NothingIsRepeated`): each request has one run and each worker writes to one
(`AuthorsInv`, `WritesToItsRun`); the conversation shows each request once, and everything else in it is of a worker
that had a run (`ConversationInv`); and the newest run's request comes before all that its workers said (`AskedInv`). So
the place at which `merge_run_messages` finds the request is before everything of the run that the events have shown,
and the merge replaces it all. A reload shows the runs of a session one after the other; `Follows` says where each one's
messages lie in that sequence.

`UiKeysProofs`, for any lines, sessions, skills and options of a question:

| theorem | statement |
|---|---|
| `KeysGoToWhatIsShown` | `Spec => []FocusIsShown` |
| `CancelingIsConfirmed` | `Spec => InterruptIsConfirmed` |
| `TypedLinesGoSomewhere` | `Spec => NothingTypedIsLost` |
| `AnswersAreAccepted` | `Spec => OnlyAnswersAreSent` |

The last has the exception of the feedback of a review, as above.

These need little strengthening (`FocusInv`; `EscapeInv`: an armed Esc belongs to this run and no rename is open;
`PopupInv`) but all of the handlers, which the proofs go through by what each gives the loop (`SendsSays`,
`SessionCommandSays`, and so on). The assumption is `UiKeysAssumption`.

`UpdateCacheProofs`, for any number of processes of both kinds, any releases, and errors at every write:

| theorem | statement |
|---|---|
| `TypeCorrect` | `Spec => []TypeOK` |
| `NoticesAreUpdates` | `Spec => []NoticeIsAnUpdate` |
| `StartupMessagesAreDrawnOnce` | `Spec => []StartupMessageOnce` |
| `CacheStaysWhole` | `Spec => []CacheIsWhole` |

`NoticeInv` follows the result from the cache through a process' memory to its notice, in files that other processes
truncate meanwhile. `StartupMessageOnce` speaks of shown messages only; `Undisturbed` says why they do not repeat: the
cache has the mark of everything that was shown (`Marks`), the one process that runs saves nothing that has less
(`Saving`), and its message is newer than the mark until it is drawn (`Telling`). The hypothesis, no two processes at
once and no failed write, is the state variable `disturbed` inside the properties, and `UpdateLoses` shows what happens
without it. The assumption is `UpdateAssumption`.

`StartupProofs`, for any files and edits, configurations, rules, skills and questions to a policy:

| theorem | statement |
|---|---|
| `TypeCorrect` | `Spec => []TypeOK` |
| `PoliciesAreWhole` | `Spec => []PolicyIsWhole` |
| `FirstRulesDecide` | `Spec => []FirstRuleDecides` |
| `WorkdirsAreNotLeft` | `Spec => []WorkdirRulesStayInside` |
| `RunsHaveTheirSkills` | `Spec => []RunHasItsSkills` |
| `ProjectsOverrideUsers` | `Spec => []ProjectOverridesUser` |

*Configuration.* `PolicyIsWhole` follows what `ReadConfig` leaves behind: either all settings of a file that parses and
resolves, or those of the defaults; a run takes the policy once. It says nothing of what a command may write.

*Policy.* The answers are recursive functions over the rules. `Normalize`, `DecidePathAccess` and `DecideHttpRequest` are
characterised by lemmas (`NormalizeIsLocation`, `PathDecision`, `HttpDecision`): such a function exists, and its value is
that of the first rule that says anything. The induction over the rules is carried out by taking the least
counterexample. `DecisionInv` adds to the properties that the decision in the state was made for the run's policy.

*Skills.* `SkillInv`: what a run has in its catalog has been on disk since it was submitted, and what is selected is in
the catalog, each name once (`SelectedFacts`). A user's skill that is left in the catalog after the project's were read
was missing there at that moment (`LaterScopeWins`), which `seen` remembers. The assumption is `StartupAssumption`; it
includes that a file's contents, if they are read without a parse error, merge to a `ConfigOK`.

`PromptEditorProofs`, for any characters and widths, texts of any length, histories and lists of files:

| theorem | statement |
|---|---|
| `TypeCorrect` | `Spec => []TypeOK` |
| `PopupIsCurrent` | `Spec => []SuggestionsAreCurrent` |
| `DraftReturns` | `Spec => DraftComesBack` |
| `ReferencesGoWhole` | `Spec => ReferencesStayWhole` |
| `PanicsAreAtWideSpaces` | `Spec => []OnlyWideSpacesPanic` |

*Cursor.* That a cursor in bytes is the offset of a character is what `TypeOK` says of the text, of the undo state and
of the history's place. It rests on `Offsets` growing strictly, since every character has at least one byte
(`OffsetsGrow`, `CharsToFacts`), so that `Before` is the one position with the cursor's offset. Each handler then
`Continues` the prompt: it keeps the types, and it says what it does to the text and to the history's place. The types
hold also where the program panics. That it does so only at a white space of several bytes is `PanicsAreAtWideSpaces`:
the text up to such a space ends inside of it exactly when it is wider than one byte (`PanicIsWide`), and every other
slice is at the cursor.

*Popup and draft.* `EditorInv` adds to the types that the cached matches are those of the cached query in the list of the
cached revision (`PopupInv`), which is why a refresh that skips the search is right, and that the draft is the text
that was left while the history is on screen (`DraftInv`).

*References.* The scan of `reference_ranges` goes on behind each reference it has found, so two ranges of a text are
never in each other (`ReferencesApart`); the range that Backspace or Delete takes is then apart from all the others, and
where there is none the one character is in no reference to a file. The assumption is `PromptAssumption`.

`InputEventsProofs`, for any kinds of input, any size of a wheel report and any amount of input:

| theorem | statement |
|---|---|
| `TypeCorrect` | `Spec => []TypeOK` |
| `InputIsReducedRightly` | `Spec => []NothingElseIsReduced` |

*Way.* The threads share nothing but the channel, so the invariant is about `Way` as a whole and not about either of
them. `Good`: no key or release that was read is missing, events are in order, and a drag that is missing is followed by
one that is there with no key or release between. `Carries` adds the rows. The reader makes the way longer at
its end (`SentJoins`), the loop moves its head from one part to the next or drops a drag in front of a drag. Sums are
recursive functions; that the sum of a longer sequence is what one expects is shown by the least counterexample. The
assumption is `InputAssumption`.

All properties of a state that the passing runs check are proved, and all of their action properties. Only
model-checked, on the instances above:

- `FileIndex`, whose properties but `TypeOK` are liveness, and `TypeOK` of `UiKeys`, which rests on `SelectSeq` (the list
  of the picker), an operator that the provers do not expand.
- `PromptEditor!MotionsLand` and `CompletionIsAReference`: they hold on the instances and have no theorem yet.
- The liveness properties (`RunningEnds`, `ResultIsTaken`, `NewReleaseIsNoticed`, `IndexFollowsDisk`, `QuitEnds`,
  `KeysArrive`), which need fairness and are out of the prover's reach.

## 5. Plan

1. *(done)* `RunLifecycle`, `RunLoop` and their theorems; `SessionStore` and `TuiRuns`, now with requests for a revision.
2. *(done)* `CodeChange` with `ReviewPromise` and their theorems.
3. *(done)* `UpdateCache`, `FileIndex`, `InputEvents`, with liveness; `PromptEditor`, `UiKeys`; `Policy`, `Startup`.
4. *(done)* The invariants of `RunLoop`'s histories and limits, of `TuiRuns` for an orderly user, of `PromptEditor`,
   `UiKeys`, `UpdateCache`, `InputEvents` and `Startup` with `Policy`: everything that the runs check and that a proof
   can reach. Left to prove: the types of `UiKeys` and `FileIndex`, and the two properties of the prompt editor that no
   run checks.
5. Possible extensions: a store with two processes (`init_workspace`, lost likes, statuses overwritten) on top of
   `SessionStore`; the package session and its downloads.

The order follows what a user loses when it goes wrong: first the conversation and its runs, then the user's files, then
caches and keys.

## 6. What the models leave out

Two processes on one database, the write-ahead log and SQLite's own locking (each transaction is atomic), the wording of
prompts and messages, token counts, names, likes and timestamps in the store, the terminal, the network. Nothing in the
code coordinates two processes on one database, and nothing says what they may expect of each other. A store error other
than a missing row (a full disk, a locked database) is not modelled. `ResumeSkill` therefore has no error path:
`skill_completion_context` (`mod.rs:839-844`) fails only if the call that began the skill is not in the history, where
it always is, or if a response of the skill is empty, which ends the skill when it comes, so that only a stale question
after a crash could meet one; the run then stays `Running` without a worker, as `Crash` leaves it. In `RunLoop` one
process at a time executes a request; its instance with limits has no response with a question beside other calls, which
`RunLoopDroppedCalls` and the proofs have. In `TuiRuns` two requests have the same text only when one repeats the other,
and a final answer without any text (the UI would show an empty message for it) is left out.

`CodeChange` takes symbolic links and directories for granted; `UpdateCache` has no file system that loses what was
renamed; `FileIndex` takes each directory's listing for atomic. `PromptEditor` ranks no matches and has no selection;
its properties about the popup and about references end with the program, so the panic is seen by `OnlyWideSpacesPanic`
alone. `UiKeys` leaves out editing within a line, scrolling, the selection of text, the dragging of the divider and
quitting; `NothingTypedIsLost` there is about lines that become empty, and Ctrl+E, which puts an old request in the
place of the line, is in `PromptEditor`. `Startup` has one skill name and one question per run; providers, shortcuts and
the other scalar fields of a configuration are one representative each.
