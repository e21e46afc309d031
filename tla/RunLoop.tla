------------------------------ MODULE RunLoop ------------------------------
(***************************************************************************)
(* The agent run loop of jux-core (main_loop/mod.rs) over the runs and the *)
(* steps of one session.                                                   *)
(*                                                                         *)
(* One worker at a time executes a request.  Every write to the store is   *)
(* an action of its own, because the worker may die between two of them,   *)
(* and every await of the model is a control point, because cancellation   *)
(* takes effect only there.  A step keeps its kind, the tool calls it      *)
(* makes or answers, and which streamed text it carries; wording, usage    *)
(* and reasoning are left out.                                             *)
(***************************************************************************)
EXTENDS Naturals, Sequences, FiniteSets

CONSTANTS
    MaxRuns,            \* bound: runs the session may hold
    MaxAnswers,         \* bound: human answers the session may accept
    MaxIterations,      \* MAX_LOOP_ITERATIONS
    MaxRequestedSkills, \* skills one request may ask for explicitly
    Responses,          \* the model's answers: sequences of called tools
    Streaming,          \* stream_model_output
    Faults              \* which of "crash" and "cancel" may happen

HumanTools == {"human_input", "unanswerable_input", "malformed_input"}
Tools == {"exec", "call_skill"} \union HumanTools

ASSUME RunLoopAssumption ==
    /\ MaxRuns \in Nat \ {0}
    /\ MaxAnswers \in Nat
    /\ MaxIterations \in Nat \ {0}
    /\ MaxRequestedSkills \in Nat
    /\ Responses \subseteq Seq(Tools)
    /\ Streaming \in BOOLEAN
    /\ Faults \subseteq {"crash", "cancel"}

VARIABLES
    status,     \* status[r]: the status column of run r, "None" before it exists
    steps,      \* steps[r]: the persisted steps of run r, in order
    latest,     \* the newest run of the session, 0 when there is none
    worker,     \* the process that executes a request, or Idle
    answers     \* human answers accepted so far; only a bound

vars == <<status, steps, latest, worker, answers>>

Runs == 1..MaxRuns
Settled == {"Completed", "Failed", "Canceled"}
RunStatus == {"Running", "WaitingForHumanInput"} \union Settled

-----------------------------------------------------------------------------
(***************************************************************************)
(* Tool calls and steps.  The i-th call of the response persisted as step  *)
(* p of its run has the id <<p, i>>: the provider never repeats an id.     *)
(* The loop itself names the call for the k-th requested skill <<0, k>>.   *)
(* `inv' is the call whose skill a step belongs to, NoId outside skills.   *)
(* Text is named by the position of the response that it streams.          *)
(***************************************************************************)
Ids == Nat \X Nat
NoId == <<0, 0>>
Call == [id : Ids, tool : Tools]

StepKinds ==
    {"UserMessage", "SkillsRequested", "AssistantResponse", "ToolResult",
     "SkillStarted", "SkillAssistantResponse", "SkillToolResult",
     "AssistantOutputCheckpoint", "Error"}

TurnKinds == {"AssistantResponse", "SkillAssistantResponse"}
Results == {"ToolResult", "SkillToolResult"}

Step == [kind : StepKinds, inv : Ids, id : Ids, calls : Seq(Call),
         text : SUBSET Nat]

NewStep(kind, inv, id, calls, text) ==
    [kind |-> kind, inv |-> inv, id |-> id, calls |-> calls, text |-> text]

CallsAt(p, shape) ==
    [i \in DOMAIN shape |-> [id |-> <<p, i>>, tool |-> shape[i]]]

RequestedCalls(n) ==
    [k \in 1..n |-> [id |-> <<0, k>>, tool |-> "call_skill"]]

AsksHuman(calls) == \E i \in DOMAIN calls : calls[i].tool \in HumanTools

\* What the latest run has persisted, and where its next step goes.
History == steps[latest]
NextPosition == Len(History) + 1

\* has_tool_result, and its counterpart for a call made inside a skill
HasResult(log, inv, id) ==
    \E q \in DOMAIN log : /\ log[q].kind \in Results
                          /\ log[q].inv = inv
                          /\ log[q].id = id

(***************************************************************************)
(* latest_pending_human_input: the last call, by step and then by place in *)
(* the step, that asks the human and has no result in the run.             *)
(***************************************************************************)
Positions(log) ==
    LET responses == {p \in DOMAIN log : log[p].kind \in TurnKinds}
    IN  UNION {{<<p, i>> : i \in DOMAIN log[p].calls} : p \in responses}

\* Mutant of OpenQuestions: does not look for the result of the question.
OpenQuestionsAnsweredToo(log) ==
    {at \in Positions(log) : log[at[1]].calls[at[2]].tool \in HumanTools}

OpenQuestions(log) ==
    {at \in Positions(log) :
        LET asked == log[at[1]].calls[at[2]]
        IN  /\ asked.tool \in HumanTools
            /\ ~HasResult(log, log[at[1]].inv, asked.id)}

\* The position at comes last among those in `all'.
IsLast(at, all) ==
    \A other \in all : \/ other[1] < at[1]
                       \/ other[1] = at[1] /\ other[2] <= at[2]

\* latest_human_input_request: the question the user interface shows is the
\* last one whose arguments parse, answered or not.
ShownQuestions(log) ==
    {at \in Positions(log) :
        log[at[1]].calls[at[2]].tool \in HumanTools \ {"malformed_input"}}

\* skill_iteration_count
SkillIterationCount(log, inv) ==
    Cardinality({p \in DOMAIN log : /\ log[p].kind = "SkillAssistantResponse"
                                    /\ log[p].inv = inv})

\* requested_skill_names, as the calls the loop will make for them
RequestedIn(log) ==
    LET asking == {p \in DOMAIN log : log[p].kind = "SkillsRequested"}
    IN  IF asking = {} THEN <<>> ELSE log[CHOOSE p \in asking : TRUE].calls

-----------------------------------------------------------------------------
(***************************************************************************)
(* The worker.  iter is 0 while the loop serves explicitly requested or    *)
(* resumed skills and counts the iterations of continue_run after that;    *)
(* calls are the calls of the response being served, the current one       *)
(* first; skillIter and skillCalls are the same for the running skill.     *)
(***************************************************************************)
PCs == {"idle", "begin", "created", "requesting", "explicit", "llm", "exec",
        "skillLlm", "skillExec", "skillDone", "suspend", "complete", "error",
        "fail", "resume", "checkpoint"}

Idle == [pc |-> "idle", iter |-> 0, calls |-> <<>>, skillIter |-> 0,
         skillCalls |-> <<>>, partial |-> {}, requested |-> 0,
         canceled |-> FALSE]

At(pc) == worker.pc = pc
Goto(pc) == worker' = [worker EXCEPT !.pc = pc]
Finish == worker' = Idle

Append1(s) == steps' = [steps EXCEPT ![latest] = Append(@, s)]
SetStatus(v) == status' = [status EXCEPT ![latest] = v]
StoreUnchanged == UNCHANGED <<status, steps, latest, answers>>

WaitingForHuman == latest > 0 /\ status[latest] = "WaitingForHumanInput"

\* The invocation being run is the call at the head of the queue.
Invocation == Head(worker.calls).id

\* Mutant of AfterCall: one iteration too many.
AfterCallOffByOne ==
    IF Len(worker.calls) > 1
      THEN [worker EXCEPT !.pc = "exec", !.calls = Tail(@)]
    ELSE IF worker.iter = 0
      THEN [worker EXCEPT !.pc = "explicit", !.calls = <<>>]
    ELSE IF worker.iter <= MaxIterations
      THEN [worker EXCEPT !.pc = "llm", !.calls = <<>>, !.iter = @ + 1]
    ELSE [worker EXCEPT !.pc = "error", !.calls = <<>>]

\* Mutant of AfterCall: a served call ends the whole response.
AfterCallDropsRest ==
    IF worker.iter = 0
      THEN [worker EXCEPT !.pc = "explicit", !.calls = <<>>]
    ELSE IF worker.iter < MaxIterations
      THEN [worker EXCEPT !.pc = "llm", !.calls = <<>>, !.iter = @ + 1]
    ELSE [worker EXCEPT !.pc = "error", !.calls = <<>>]

\* Mutant of AfterCall: after a requested or resumed skill, straight to the
\* main loop.
AfterCallForgetsRequests ==
    IF Len(worker.calls) > 1
      THEN [worker EXCEPT !.pc = "exec", !.calls = Tail(@)]
    ELSE IF worker.iter < MaxIterations
      THEN [worker EXCEPT !.pc = "llm", !.calls = <<>>, !.iter = @ + 1]
    ELSE [worker EXCEPT !.pc = "error", !.calls = <<>>]

\* Where the worker goes once the head of its queue is served.
AfterCall ==
    IF Len(worker.calls) > 1
      THEN [worker EXCEPT !.pc = "exec", !.calls = Tail(@)]
    ELSE IF worker.iter = 0
      THEN [worker EXCEPT !.pc = "explicit", !.calls = <<>>]
    ELSE IF worker.iter < MaxIterations
      THEN [worker EXCEPT !.pc = "llm", !.calls = <<>>, !.iter = @ + 1]
    ELSE [worker EXCEPT !.pc = "error", !.calls = <<>>]

Init ==
    /\ status = [r \in Runs |-> "None"]
    /\ steps = [r \in Runs |-> <<>>]
    /\ latest = 0
    /\ worker = Idle
    /\ answers = 0

-----------------------------------------------------------------------------
(***************************************************************************)
(* The user.  A request starts a worker; cancelling raises the abort flag. *)
(***************************************************************************)
Submit ==
    /\ At("idle")
    /\ latest < MaxRuns \/ WaitingForHuman
    /\ Goto("begin")
    /\ StoreUnchanged

RequestCancel ==
    /\ "cancel" \in Faults
    /\ ~At("idle")
    /\ ~worker.canceled
    /\ worker' = [worker EXCEPT !.canceled = TRUE]
    /\ StoreUnchanged

-----------------------------------------------------------------------------
\* Mutant of StartRun: a request never answers a waiting run.
StartRunBesideWaiting ==
    /\ At("begin") /\ ~worker.canceled
    /\ latest < MaxRuns
    /\ latest' = latest + 1
    /\ status' = [status EXCEPT ![latest + 1] = "Running"]
    /\ \E n \in 0..MaxRequestedSkills :
          worker' = [worker EXCEPT !.pc = "created", !.requested = n]
    /\ UNCHANGED <<steps, answers>>

(***************************************************************************)
(* A request when no run waits: create_run, then the opening steps.        *)
(***************************************************************************)
StartRun ==
    /\ At("begin") /\ ~worker.canceled
    /\ ~WaitingForHuman
    /\ latest < MaxRuns
    /\ latest' = latest + 1
    /\ status' = [status EXCEPT ![latest + 1] = "Running"]
    /\ \E n \in 0..MaxRequestedSkills :
          worker' = [worker EXCEPT !.pc = "created", !.requested = n]
    /\ UNCHANGED <<steps, answers>>

RecordUserMessage ==
    /\ At("created")
    /\ Append1(NewStep("UserMessage", NoId, NoId, <<>>, {}))
    /\ Goto(IF worker.requested > 0 THEN "requesting" ELSE "explicit")
    /\ UNCHANGED <<status, latest, answers>>

RecordSkillsRequested ==
    /\ At("requesting")
    /\ Append1(NewStep("SkillsRequested", NoId, NoId,
                       RequestedCalls(worker.requested), {}))
    /\ Goto("explicit")
    /\ UNCHANGED <<status, latest, answers>>

(***************************************************************************)
(* A request when the newest run waits: the input answers the pending      *)
(* question, or is refused and changes nothing.                            *)
(***************************************************************************)
Answer(at) ==
    LET asked == History[at[1]]
        main  == asked.kind = "AssistantResponse"
    IN  /\ asked.calls[at[2]].tool = "human_input"
        /\ Append1(NewStep(IF main THEN "ToolResult" ELSE "SkillToolResult",
                           asked.inv, asked.calls[at[2]].id, <<>>, {}))
        /\ worker' = [worker EXCEPT
              !.pc = "resume",
              !.calls = IF main THEN <<>>
                        ELSE <<[id |-> asked.inv, tool |-> "call_skill"]>>]

AcceptAnswer ==
    /\ At("begin") /\ ~worker.canceled
    /\ WaitingForHuman
    /\ answers < MaxAnswers
    /\ \E at \in OpenQuestions(History) :
          IsLast(at, OpenQuestions(History)) /\ Answer(at)
    /\ answers' = answers + 1
    /\ UNCHANGED <<status, latest>>

\* No pending question, arguments that do not parse, or not one of the options.
RefuseAnswer ==
    /\ At("begin") /\ ~worker.canceled
    /\ WaitingForHuman
    /\ Finish
    /\ StoreUnchanged

\* Mutant of ResumeMain: the run goes on without being Running again.
ResumeMainStillWaiting ==
    /\ At("resume") /\ worker.calls = <<>>
    /\ worker' = [worker EXCEPT !.pc = "llm", !.iter = 1]
    /\ StoreUnchanged

ResumeMain ==
    /\ At("resume") /\ worker.calls = <<>>
    /\ SetStatus("Running")
    /\ worker' = [worker EXCEPT !.pc = "llm", !.iter = 1]
    /\ UNCHANGED <<steps, latest, answers>>

\* Mutant of ResumeSkill: the run goes on without being Running again.
ResumeSkillStillWaiting ==
    /\ At("resume") /\ worker.calls # <<>>
    /\ LET done == SkillIterationCount(History, Invocation)
       IN  \E pc \in {"skillDone"} \union
                     (IF done < MaxIterations THEN {"skillLlm"} ELSE {}) :
              worker' = [worker EXCEPT !.pc = pc, !.skillIter = done]
    /\ StoreUnchanged

\* Mutant of ResumeSkill: the resumed skill starts counting again.
ResumeSkillFromZero ==
    /\ At("resume") /\ worker.calls # <<>>
    /\ SetStatus("Running")
    /\ \E pc \in {"skillDone", "skillLlm"} :
          worker' = [worker EXCEPT !.pc = pc, !.skillIter = 0]
    /\ UNCHANGED <<steps, latest, answers>>

\* The skill may be gone from the new process's skills, or out of iterations.
ResumeSkill ==
    /\ At("resume") /\ worker.calls # <<>>
    /\ SetStatus("Running")
    /\ LET done == SkillIterationCount(History, Invocation)
       IN  \E pc \in {"skillDone"} \union
                     (IF done < MaxIterations THEN {"skillLlm"} ELSE {}) :
              worker' = [worker EXCEPT !.pc = pc, !.skillIter = done]
    /\ UNCHANGED <<steps, latest, answers>>

-----------------------------------------------------------------------------
(***************************************************************************)
(* continue_requested_skills: each requested skill without a result, in    *)
(* order; then the main loop.                                              *)
(***************************************************************************)
OpenRequests(log) ==
    {k \in DOMAIN RequestedIn(log) :
        ~HasResult(log, NoId, RequestedIn(log)[k].id)}

CallRequestedSkill ==
    /\ At("explicit")
    /\ \E k \in OpenRequests(History) :
          /\ \A j \in OpenRequests(History) : k <= j
          /\ LET call == RequestedIn(History)[k]
             IN  /\ Append1(NewStep("AssistantResponse", NoId, NoId, <<call>>, {}))
                 /\ worker' = [worker EXCEPT !.pc = "exec", !.calls = <<call>>]
    /\ UNCHANGED <<status, latest, answers>>

FinishRequestedSkills ==
    /\ At("explicit")
    /\ OpenRequests(History) = {}
    /\ worker' = [worker EXCEPT !.pc = "llm", !.iter = 1]
    /\ StoreUnchanged

-----------------------------------------------------------------------------
(***************************************************************************)
(* continue_run: one call of the model, and what its answer asks for.      *)
(***************************************************************************)
\* A text delta reaches the client; only the first one of a call matters.
StreamText ==
    /\ Streaming
    /\ At("llm") /\ ~worker.canceled
    /\ NextPosition \notin worker.partial
    /\ worker' = [worker EXCEPT !.partial = @ \union {NextPosition}]
    /\ StoreUnchanged

RecordResponse(calls) ==
    Append1(NewStep("AssistantResponse", NoId, NoId, calls,
                    worker.partial \intersect {NextPosition}))

ReceiveAnswer ==
    /\ At("llm") /\ ~worker.canceled
    /\ <<>> \in Responses
    /\ RecordResponse(<<>>)
    /\ Goto("complete")
    /\ UNCHANGED <<status, latest, answers>>

ReceiveQuestion ==
    /\ At("llm") /\ ~worker.canceled
    /\ \E shape \in Responses :
          LET calls == CallsAt(NextPosition, shape)
          IN  AsksHuman(calls) /\ RecordResponse(calls)
    /\ Goto("suspend")
    /\ UNCHANGED <<status, latest, answers>>

ReceiveToolCalls ==
    /\ At("llm") /\ ~worker.canceled
    /\ \E shape \in Responses \ {<<>>} :
          LET calls == CallsAt(NextPosition, shape)
          IN  /\ ~AsksHuman(calls)
              /\ RecordResponse(calls)
              /\ worker' = [worker EXCEPT !.pc = "exec", !.calls = calls]
    /\ UNCHANGED <<status, latest, answers>>

\* Mutant of LlmFails: the error is not recorded.
LlmFailsSilently ==
    /\ At("llm") /\ ~worker.canceled
    /\ Goto("fail")
    /\ StoreUnchanged

\* The provider fails, the response is not supported, or no prompt is built.
LlmFails ==
    /\ At("llm") /\ ~worker.canceled
    /\ Goto("error")
    /\ StoreUnchanged

-----------------------------------------------------------------------------
(***************************************************************************)
(* execute_tool_call for the call at the head of the queue.                *)
(***************************************************************************)
RecordToolResult ==
    /\ Append1(NewStep("ToolResult", NoId, Invocation, <<>>, {}))
    /\ worker' = AfterCall
    /\ UNCHANGED <<status, latest, answers>>

\* An ordinary tool, which succeeds or fails, or a skill that cannot start:
\* arguments that do not parse, or a skill nobody knows.
ExecuteTool == At("exec") /\ RecordToolResult

StartSkill ==
    /\ At("exec")
    /\ Head(worker.calls).tool = "call_skill"
    /\ Append1(NewStep("SkillStarted", Invocation, NoId, <<>>, {}))
    /\ worker' = [worker EXCEPT !.pc = "skillLlm", !.skillIter = 0]
    /\ UNCHANGED <<status, latest, answers>>

(***************************************************************************)
(* run_skill_subflow.  Whatever ends a skill other than a question for the *)
(* human becomes the result of the call that started it.                   *)
(***************************************************************************)
SkillReceives(shape, pc) ==
    LET calls == CallsAt(NextPosition, shape)
    IN  /\ Append1(NewStep("SkillAssistantResponse", Invocation, NoId, calls, {}))
        /\ worker' = [worker EXCEPT !.pc = pc, !.skillIter = @ + 1,
                                    !.skillCalls = calls]
        /\ UNCHANGED <<status, latest, answers>>

SkillReceivesAnswer ==
    /\ At("skillLlm") /\ ~worker.canceled
    /\ <<>> \in Responses
    /\ SkillReceives(<<>>, "skillDone")

\* A question has to be the only call of its response.
SkillReceivesQuestion ==
    /\ At("skillLlm") /\ ~worker.canceled
    /\ \E shape \in Responses :
          /\ \E i \in DOMAIN shape : shape[i] \in HumanTools
          /\ SkillReceives(shape, IF Len(shape) = 1 THEN "suspend" ELSE "skillDone")

SkillReceivesToolCalls ==
    /\ At("skillLlm") /\ ~worker.canceled
    /\ \E shape \in Responses \ {<<>>} :
          /\ \A i \in DOMAIN shape : shape[i] \notin HumanTools
          /\ SkillReceives(shape, "skillExec")

AfterSkillCall ==
    IF Len(worker.skillCalls) > 1
      THEN [worker EXCEPT !.skillCalls = Tail(@)]
    ELSE IF worker.skillIter < MaxIterations
      THEN [worker EXCEPT !.pc = "skillLlm", !.skillCalls = <<>>]
    ELSE [worker EXCEPT !.pc = "skillDone", !.skillCalls = <<>>]

SkillExecutesTool ==
    /\ At("skillExec")
    /\ Head(worker.skillCalls).tool # "call_skill"
    /\ Append1(NewStep("SkillToolResult", Invocation,
                       Head(worker.skillCalls).id, <<>>, {}))
    /\ worker' = AfterSkillCall
    /\ UNCHANGED <<status, latest, answers>>

\* A nested skill, a failed completion, or a store error inside the skill.
SkillFails ==
    /\ \/ At("skillLlm") /\ ~worker.canceled
       \/ At("skillExec")
    /\ Goto("skillDone")
    /\ StoreUnchanged

FinishSkill ==
    /\ At("skillDone")
    /\ Append1(NewStep("ToolResult", NoId, Invocation, <<>>, {}))
    /\ worker' = [AfterCall EXCEPT !.skillCalls = <<>>, !.skillIter = 0]
    /\ UNCHANGED <<status, latest, answers>>

-----------------------------------------------------------------------------
\* Mutant of FailRun: the worker ends and leaves the status.
FailRunKeepsStatus ==
    /\ At("fail")
    /\ Finish
    /\ StoreUnchanged

(***************************************************************************)
(* How the worker leaves a run.                                            *)
(***************************************************************************)
SuspendRun ==
    /\ At("suspend")
    /\ SetStatus("WaitingForHumanInput")
    /\ Finish
    /\ UNCHANGED <<steps, latest, answers>>

CompleteRun ==
    /\ At("complete")
    /\ SetStatus("Completed")
    /\ Finish
    /\ UNCHANGED <<steps, latest, answers>>

RecordError ==
    /\ At("error")
    /\ Append1(NewStep("Error", NoId, NoId, <<>>, {}))
    /\ Goto("fail")
    /\ UNCHANGED <<status, latest, answers>>

FailRun ==
    /\ At("fail")
    /\ SetStatus("Failed")
    /\ Finish
    /\ UNCHANGED <<steps, latest, answers>>

\* Mutant of CancelRun: whatever the newest run's status is.
CancelAnyRun ==
    /\ worker.canceled
    /\ worker.pc \in {"begin", "llm", "skillLlm"}
    /\ latest > 0
    /\ SetStatus("Canceled")
    /\ IF worker.partial = {} THEN Finish ELSE Goto("checkpoint")
    /\ UNCHANGED <<steps, latest, answers>>

(***************************************************************************)
(* The abort flag is seen before the first step and at the awaits of the   *)
(* model.  cancel_latest_running_run marks the session's newest run, if it *)
(* is Running; the streamed text is saved only then.                       *)
(***************************************************************************)
CancelRun ==
    /\ worker.canceled
    /\ worker.pc \in {"begin", "llm", "skillLlm"}
    /\ latest > 0 /\ status[latest] = "Running"
    /\ SetStatus("Canceled")
    /\ IF worker.partial = {} THEN Finish ELSE Goto("checkpoint")
    /\ UNCHANGED <<steps, latest, answers>>

CancelNothing ==
    /\ worker.canceled
    /\ worker.pc \in {"begin", "llm", "skillLlm"}
    /\ ~(latest > 0 /\ status[latest] = "Running")
    /\ Finish
    /\ StoreUnchanged

RecordCheckpoint ==
    /\ At("checkpoint")
    /\ Append1(NewStep("AssistantOutputCheckpoint", NoId, NoId, <<>>, worker.partial))
    /\ Finish
    /\ UNCHANGED <<status, latest, answers>>

(***************************************************************************)
(* The process dies, or a store error ends the worker: nothing it still    *)
(* had to write is written.                                                *)
(***************************************************************************)
Crash ==
    /\ "crash" \in Faults
    /\ ~At("idle")
    /\ Finish
    /\ StoreUnchanged

-----------------------------------------------------------------------------
Begin == StartRun \/ AcceptAnswer \/ RefuseAnswer \/ ResumeMain \/ ResumeSkill

Open == RecordUserMessage \/ RecordSkillsRequested
            \/ CallRequestedSkill \/ FinishRequestedSkills

CallModel == StreamText \/ ReceiveAnswer \/ ReceiveQuestion
                 \/ ReceiveToolCalls \/ LlmFails

Execute == ExecuteTool \/ StartSkill \/ SkillReceivesAnswer
               \/ SkillReceivesQuestion \/ SkillReceivesToolCalls
               \/ SkillExecutesTool \/ SkillFails \/ FinishSkill

Leave == SuspendRun \/ CompleteRun \/ RecordError \/ FailRun
             \/ CancelRun \/ CancelNothing \/ RecordCheckpoint

Work == Begin \/ Open \/ CallModel \/ Execute \/ Leave

Next == Submit \/ RequestCancel \/ Work \/ Crash

Spec == Init /\ [][Next]_vars

\* The thread of the worker runs, and the provider answers or fails.
FairSpec == Spec /\ WF_vars(Work)

-----------------------------------------------------------------------------
(***************************************************************************)
(* Properties.                                                             *)
(***************************************************************************)
Worker == [pc : PCs, iter : 0..MaxIterations, calls : Seq(Call),
           skillIter : Nat, skillCalls : Seq(Call),
           partial : SUBSET Nat, requested : 0..MaxRequestedSkills,
           canceled : BOOLEAN]

\* Every variable has its type.
TypeOK ==
    /\ status \in [Runs -> RunStatus \union {"None"}]
    /\ steps \in [Runs -> Seq(Step)]
    /\ latest \in 0..MaxRuns
    /\ worker \in Worker
    /\ answers \in 0..MaxAnswers

\* The points at which the worker serves the newest run as a Running one.
Serving == PCs \ {"idle", "begin", "resume", "checkpoint"}

\* The worker and the store agree: runs exist up to the newest, only the newest
\* may wait, and what the worker is about to write fits the status it finds.
WorkerMatchesStore ==
    /\ \A r \in Runs : status[r] = "None" <=> r > latest
    /\ \A r \in Runs : status[r] = "WaitingForHumanInput" => r = latest
    /\ worker.pc \notin {"idle", "begin"} => latest > 0
    /\ worker.pc \in Serving => status[latest] = "Running"
    /\ worker.pc = "resume" => status[latest] = "WaitingForHumanInput"
    /\ worker.pc = "checkpoint" => status[latest] = "Canceled"

Ends(log, kind) == log # <<>> /\ log[Len(log)].kind = kind

\* A status that ended a run is explained by the last thing the run recorded:
\* an answer without tool calls for Completed, an error step for Failed; and
\* only a Canceled run carries a checkpoint of interrupted output.
OutcomeIsRecorded ==
    \A r \in Runs :
        /\ status[r] = "Completed" =>
              /\ Ends(steps[r], "AssistantResponse")
              /\ steps[r][Len(steps[r])].calls = <<>>
        /\ status[r] = "Failed" => Ends(steps[r], "Error")
        /\ \A p \in DOMAIN steps[r] :
              steps[r][p].kind = "AssistantOutputCheckpoint" =>
                  status[r] = "Canceled" /\ p = Len(steps[r])

\* A run that ended stays as it is, whatever later requests, answers, late
\* cancellations or crashes do; only the canceled run still gets its checkpoint.
EndedRunIsFrozen ==
    [][\A r \in Runs : status[r] \in Settled =>
          /\ status'[r] = status[r]
          /\ \/ steps'[r] = steps[r]
             \/ /\ status[r] = "Canceled"
                /\ Ends(steps'[r], "AssistantOutputCheckpoint")
                /\ \A p \in DOMAIN steps[r] : steps'[r][p] = steps[r][p]
      ]_vars

\* A question that a skill asks beside another call ends the skill with an error
\* but stays open, and an answer that comes later resumes the finished skill.
AskedBeside(log, inv) ==
    \E s \in DOMAIN log : /\ log[s].kind = "SkillAssistantResponse"
                          /\ log[s].inv = inv
                          /\ AsksHuman(log[s].calls)
                          /\ Len(log[s].calls) > 1

\* Every result in the history the model is sent answers a call that was made
\* before it, and no call is answered twice, also when the process dies between
\* recording an answer and resuming the run and the user answers again: except
\* the call of a skill that had asked beside another call.
ResultsMatchCalls ==
    \A r \in Runs : \A q \in DOMAIN steps[r] :
        LET log == steps[r]
        IN  log[q].kind \in Results =>
              /\ \E p \in 1..(q - 1) :
                    /\ log[p].kind \in TurnKinds
                    /\ log[p].inv = log[q].inv
                    /\ \E i \in DOMAIN log[p].calls : log[p].calls[i].id = log[q].id
              /\ HasResult(SubSeq(log, 1, q - 1), log[q].inv, log[q].id) =>
                    /\ log[q].kind = "ToolResult"
                    /\ AskedBeside(SubSeq(log, 1, q - 1), log[q].id)

\* A run waits either right after it asked, and then the question it will take
\* the answer for is in that last step and is the one the user is shown, or,
\* after a crash, right after the answer was recorded.  Nothing comes between.
PausedAtQuestion ==
    \A r \in Runs : status[r] = "WaitingForHumanInput" =>
        LET log == steps[r]
        IN  /\ log # <<>>
            /\ \/ \E at \in OpenQuestions(log) :
                     /\ at[1] = Len(log)
                     /\ IsLast(at, OpenQuestions(log))
                     /\ log[at[1]].calls[at[2]].tool # "malformed_input" =>
                            at \in ShownQuestions(log) /\ IsLast(at, ShownQuestions(log))
               \/ log[Len(log)].kind \in Results

\* A main response of the loop itself, not a call it records for a requested skill.
IsTurn(step) ==
    /\ step.kind = "AssistantResponse"
    /\ \A i \in DOMAIN step.calls : step.calls[i].id[1] # 0

\* The steps that answer a question for the human.
HumanAnswers(log) ==
    {q \in DOMAIN log :
        /\ log[q].kind \in Results
        /\ \E p \in 1..(q - 1) : \E i \in DOMAIN log[p].calls :
              /\ log[p].calls[i].id = log[q].id
              /\ log[p].calls[i].tool \in HumanTools}

\* What a skill received of the model since it was started at `from'.
SkillTurnsSince(log, from) ==
    {t \in (from + 1)..Len(log) :
        /\ log[t].kind = "SkillAssistantResponse"
        /\ log[t].inv = log[from].inv
        /\ \A p \in (from + 1)..t :
              ~(log[p].kind = "SkillStarted" /\ log[p].inv = log[from].inv)}

\* What a skill receives once it is started, and the main calls since the human
\* last answered, never exceed the iteration limit, however often a skill waits
\* and is resumed by another process.
IterationsAreBounded ==
    \A r \in Runs :
        LET log == steps[r]
        IN  /\ \A p \in DOMAIN log : log[p].kind = "SkillStarted" =>
                  Cardinality(SkillTurnsSince(log, p)) <= MaxIterations
            /\ \A from \in {0} \union DOMAIN log :
                  (\A q \in HumanAnswers(log) : q <= from) =>
                      Cardinality({p \in (from + 1)..Len(log) : IsTurn(log[p])})
                        <= MaxIterations

\* Each skill the user asked for by name has its result, in the order asked,
\* before the model is called for the first time, also when a skill suspends
\* the run and another process finishes the rest.
RequestedSkillsComeFirst ==
    \A r \in Runs : \A p \in DOMAIN steps[r] :
        LET before == SubSeq(steps[r], 1, p - 1)
        IN  /\ IsTurn(steps[r][p]) => OpenRequests(before) = {}
            /\ steps[r][p].kind = "AssistantResponse" /\ ~IsTurn(steps[r][p]) =>
                  \A k \in DOMAIN RequestedIn(before) :
                      k < steps[r][p].calls[1].id[2] => k \notin OpenRequests(before)

\* A call that the loop leaves unanswered for good was made next to a question
\* for the human, or next to a skill that asked one: nothing else drops calls.
OnlySuspensionDropsCalls ==
    \A r \in Runs : \A q \in DOMAIN steps[r] : IsTurn(steps[r][q]) =>
        LET before == SubSeq(steps[r], 1, q - 1)
        IN  \A p \in DOMAIN before : before[p].kind = "AssistantResponse" =>
              \/ \A i \in DOMAIN before[p].calls :
                    HasResult(before, NoId, before[p].calls[i].id)
              \/ AsksHuman(before[p].calls)
              \/ \E s \in DOMAIN before :
                    /\ before[s].kind = "SkillAssistantResponse"
                    /\ AsksHuman(before[s].calls)
                    /\ \E i \in DOMAIN before[p].calls :
                          before[p].calls[i].id = before[s].inv

\* A run that is Running stops being so as long as its process lives: the
\* limits, the error paths and cancellation leave no way to go on forever.
RunningEnds ==
    \A r \in Runs : (status[r] = "Running") ~> (status[r] # "Running")

\* The statuses follow the session's promise about its runs.
Lifecycle == INSTANCE RunLifecycle
RefinesLifecycle == Lifecycle!Spec

-----------------------------------------------------------------------------
(***************************************************************************)
(* What the code's own documentation says, and the code does not keep.     *)
(***************************************************************************)
\* "it records one assistant response and, when requested, one or more tool
\* results before the next LLM call" (state/mod.rs)
TurnIsAnsweredBeforeNext ==
    \A r \in Runs : \A q \in DOMAIN steps[r] : IsTurn(steps[r][q]) =>
        LET before == SubSeq(steps[r], 1, q - 1)
        IN  \A p \in DOMAIN before : before[p].kind = "AssistantResponse" =>
              \A i \in DOMAIN before[p].calls :
                  HasResult(before, NoId, before[p].calls[i].id)

\* "Cancellation writes the accumulated text once as a recovery checkpoint;
\* normal completion persists the authoritative assistant response instead"
\* (main_loop/mod.rs): no text is in both.
TextIsPersistedOnce ==
    \A r \in Runs : \A p, q \in DOMAIN steps[r] :
        p # q => steps[r][p].text \intersect steps[r][q].text = {}

\* "waiting for a human-provided tool result" (state/model.rs)
WaitingRunHasQuestion ==
    \A r \in Runs : status[r] = "WaitingForHumanInput" /\ At("idle") =>
        OpenQuestions(steps[r]) # {}

-----------------------------------------------------------------------------
(***************************************************************************)
(* What the code aims at, and loses when the process dies between the      *)
(* record of an answer and the status of the run.  The run still waits,    *)
(* and the next input answers a question that a skill, finished since, had *)
(* asked beside another call.                                              *)
(***************************************************************************)
\* No call is answered twice: has_tool_result keeps what already has a result
\* from being called or asked again.
CallsAreAnsweredOnce ==
    \A r \in Runs : \A p, q \in DOMAIN steps[r] :
        /\ steps[r][p].kind \in Results /\ steps[r][q].kind \in Results
        /\ steps[r][p].inv = steps[r][q].inv /\ steps[r][p].id = steps[r][q].id
        => p = q

\* One call of a skill never makes more calls of the model than the limit:
\* skill_iteration_count counts over every resumption.
SkillCallsAreBounded ==
    \A r \in Runs : \A p \in DOMAIN steps[r] : steps[r][p].kind = "SkillStarted" =>
        SkillIterationCount(steps[r], steps[r][p].inv) <= MaxIterations
=============================================================================
