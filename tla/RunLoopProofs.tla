--------------------------- MODULE RunLoopProofs ---------------------------
(***************************************************************************)
(* Theorems about RunLoop, for any number of runs, answers, iterations and *)
(* requested skills, any set of model answers, with crashes, cancellation  *)
(* and streaming.                                                          *)
(***************************************************************************)
EXTENDS RunLoop, FiniteSetTheorems, SequenceTheorems, WellFoundedInduction, TLAPS

-----------------------------------------------------------------------------
(***************************************************************************)
(* What the operators of the model build.                                  *)
(***************************************************************************)

\* A built step is a step.
LEMMA NewStepType ==
    ASSUME NEW kind \in StepKinds, NEW inv \in Ids, NEW id \in Ids,
           NEW calls \in Seq(Call), NEW text \in SUBSET Nat
    PROVE  NewStep(kind, inv, id, calls, text) \in Step
  BY DEF NewStep, Step

\* The calls of a response are calls, as many as the model asked for.
LEMMA CallsAtType ==
    ASSUME NEW p \in Nat, NEW shape \in Seq(Tools)
    PROVE  /\ CallsAt(p, shape) \in Seq(Call)
           /\ DOMAIN CallsAt(p, shape) = DOMAIN shape
           /\ shape # <<>> => CallsAt(p, shape) # <<>>
  <1>1. Len(shape) \in Nat /\ DOMAIN shape = 1..Len(shape)
    OBVIOUS
  <1>2. \A i \in 1..Len(shape) : [id |-> <<p, i>>, tool |-> shape[i]] \in Call
    BY DEF Call, Ids
  <1>3. CallsAt(p, shape) \in [1..Len(shape) -> Call]
    BY <1>1, <1>2 DEF CallsAt
  <1>4. CallsAt(p, shape) \in Seq(Call)
    BY <1>1, <1>3
  <1>5. DOMAIN CallsAt(p, shape) = DOMAIN shape
    BY DEF CallsAt
  <1>6. ASSUME shape # <<>> PROVE CallsAt(p, shape) # <<>>
    <2>1. Len(shape) # 0
      BY <1>6, EmptySeq
    <2>2. 1 \in DOMAIN CallsAt(p, shape)
      BY <1>1, <1>5, <2>1
    <2> QED BY <2>2
  <1> QED BY <1>4, <1>5, <1>6

\* The calls for requested skills are calls.
LEMMA RequestedCallsType ==
    ASSUME NEW n \in Nat
    PROVE  RequestedCalls(n) \in Seq(Call)
  <1>1. \A k \in 1..n : [id |-> <<0, k>>, tool |-> "call_skill"] \in Call
    BY DEF Call, Ids, Tools
  <1>2. RequestedCalls(n) \in [1..n -> Call]
    BY <1>1 DEF RequestedCalls
  <1> QED BY <1>2

\* Every position is the place of a call in a step that makes calls.
LEMMA PositionsAreCalls ==
    ASSUME NEW log \in Seq(Step), NEW at \in Positions(log)
    PROVE  /\ at[1] \in DOMAIN log
           /\ at[2] \in DOMAIN log[at[1]].calls
           /\ log[at[1]].kind \in TurnKinds
  BY DEF Positions

\* What was requested, as calls.
LEMMA RequestedInType ==
    ASSUME NEW log \in Seq(Step)
    PROVE  RequestedIn(log) \in Seq(Call)
  <1> DEFINE asking == {p \in DOMAIN log : log[p].kind = "SkillsRequested"}
  <1>1. CASE asking = {}
    BY <1>1 DEF RequestedIn
  <1>2. CASE asking # {}
    <2>1. (CHOOSE p \in asking : TRUE) \in DOMAIN log
      BY <1>2
    <2>2. log[CHOOSE p \in asking : TRUE] \in Step
      BY <2>1
    <2> QED BY <1>2, <2>2 DEF RequestedIn, Step
  <1> QED BY <1>1, <1>2

\* The number of iterations a skill has recorded is a number.
LEMMA SkillIterationCountType ==
    ASSUME NEW log \in Seq(Step), NEW inv
    PROVE  SkillIterationCount(log, inv) \in Nat
  <1>1. IsFiniteSet(1..Len(log))
    BY FS_Interval
  <1>2. DOMAIN log = 1..Len(log)
    OBVIOUS
  <1>3. {p \in DOMAIN log : log[p].kind = "SkillAssistantResponse" /\ log[p].inv = inv}
           \subseteq 1..Len(log)
    BY <1>2
  <1> QED BY <1>1, <1>3, FS_Subset, FS_CardinalityType DEF SkillIterationCount

-----------------------------------------------------------------------------
(***************************************************************************)
(* Types.  A queue is typed only while its head is, so the type invariant  *)
(* needs to know that the worker serves a call only when there is one.     *)
(***************************************************************************)
QueuesOK ==
    /\ worker.pc \in {"exec", "skillLlm", "skillExec", "skillDone"} => worker.calls # <<>>
    /\ worker.pc = "skillExec" => worker.skillCalls # <<>>
    /\ worker.pc \notin {"idle", "begin"} => latest > 0

TypeInv == TypeOK /\ QueuesOK

\* The absent worker is well typed.
LEMMA IdleType == Idle \in Worker
  BY RunLoopAssumption, EmptySeq DEF Idle, Worker, PCs

\* Moving the worker to another control point keeps it well typed.
LEMMA GotoType ==
    ASSUME TypeOK, NEW pc \in PCs
    PROVE  /\ [worker EXCEPT !.pc = pc] \in Worker
           /\ [worker EXCEPT !.pc = pc].pc = pc
  BY DEF TypeOK, Worker

\* Appending a step to the newest run keeps the steps well typed.
LEMMA AppendType ==
    ASSUME TypeOK, latest > 0, NEW s \in Step, Append1(s)
    PROVE  steps' \in [Runs -> Seq(Step)]
  <1>1. latest \in Runs
    BY RunLoopAssumption DEF TypeOK, Runs
  <1>2. Append(steps[latest], s) \in Seq(Step)
    BY <1>1 DEF TypeOK
  <1> QED BY <1>1, <1>2 DEF TypeOK, Append1

\* The history of the newest run, and the position of its next step.
LEMMA HistoryType ==
    ASSUME TypeOK, latest > 0
    PROVE  History \in Seq(Step) /\ NextPosition \in Nat
  <1>1. latest \in Runs
    BY RunLoopAssumption DEF TypeOK, Runs
  <1> QED BY <1>1 DEF TypeOK, History, NextPosition

\* The rest of a sequence of two or more elements is not empty.
LEMMA TailNonEmpty ==
    ASSUME NEW S, NEW s \in Seq(S), Len(s) > 1
    PROVE  Tail(s) # <<>>
  <1>1. Tail(s) \in Seq(S) /\ Len(Tail(s)) = Len(s) - 1
    OBVIOUS
  <1>2. Len(s) \in Nat /\ Len(Tail(s)) # 0
    BY <1>1
  <1>3. Len(<<>>) = 0
    OBVIOUS
  <1> QED BY <1>2, <1>3

\* Serving the head of the queue leaves a well typed worker.
LEMMA AfterCallType ==
    ASSUME TypeOK, worker.calls # <<>>
    PROVE  /\ AfterCall \in Worker
           /\ AfterCall.pc \in {"exec", "explicit", "llm", "error"}
           /\ AfterCall.pc = "exec" => AfterCall.calls # <<>>
  <1>1. worker \in Worker /\ worker.calls \in Seq(Call)
    BY DEF TypeOK, Worker
  <1>2. Len(worker.calls) \in Nat
    BY <1>1
  <1>3. CASE Len(worker.calls) > 1
    <2>1. Tail(worker.calls) \in Seq(Call)
      BY <1>1
    <2>2. Len(Tail(worker.calls)) = Len(worker.calls) - 1
      BY <1>1
    <2>3. Tail(worker.calls) # <<>>
      BY <1>1, <1>3, TailNonEmpty
    <2> QED BY <1>1, <1>3, <2>1, <2>3 DEF AfterCall, Worker, PCs
  <1>4. CASE ~(Len(worker.calls) > 1) /\ worker.iter = 0
    BY <1>1, <1>2, <1>4, <<>> \in Seq(Call) DEF AfterCall, Worker, PCs
  <1>5. worker.iter \in 0..MaxIterations
    BY <1>1 DEF Worker
  <1>6. CASE ~(Len(worker.calls) > 1) /\ worker.iter # 0 /\ worker.iter < MaxIterations
    <2>1. AfterCall = [worker EXCEPT !.pc = "llm", !.calls = <<>>, !.iter = @ + 1]
      BY <1>2, <1>6 DEF AfterCall
    <2>2. worker.iter + 1 \in 0..MaxIterations
      BY <1>5, <1>6, RunLoopAssumption
    <2> QED BY <1>1, <2>1, <2>2, <<>> \in Seq(Call) DEF Worker, PCs
  <1>7. CASE ~(Len(worker.calls) > 1) /\ worker.iter # 0 /\ ~(worker.iter < MaxIterations)
    <2>1. AfterCall = [worker EXCEPT !.pc = "error", !.calls = <<>>]
      BY <1>2, <1>7 DEF AfterCall
    <2> QED BY <1>1, <2>1, <<>> \in Seq(Call) DEF Worker, PCs
  <1> QED BY <1>3, <1>4, <1>6, <1>7

\* The invocation being served is a call id.
LEMMA InvocationType ==
    ASSUME TypeOK, worker.calls # <<>>
    PROVE  Invocation \in Ids
  <1>1. worker.calls \in Seq(Call)
    BY DEF TypeOK, Worker
  <1>2. Head(worker.calls) \in Call
    BY <1>1
  <1> QED BY <1>2 DEF Invocation, Call

-----------------------------------------------------------------------------
(***************************************************************************)
(* Each group of actions keeps the types.                                  *)
(***************************************************************************)

\* Starting, answering and resuming a run keep the types.
LEMMA BeginType == TypeInv /\ Begin => TypeInv'
  <1> SUFFICES ASSUME TypeInv, Begin PROVE TypeInv'
    OBVIOUS
  <1> USE DEF TypeInv
  <1>1. CASE StartRun
    <2>1. latest + 1 \in Runs /\ latest' \in 0..MaxRuns /\ latest' > 0
      BY <1>1, RunLoopAssumption DEF TypeOK, StartRun, Runs
    <2>2. status' \in [Runs -> RunStatus \union {"None"}]
      BY <1>1, <2>1 DEF TypeOK, StartRun, RunStatus
    <2>3. worker' \in Worker /\ worker'.pc = "created"
      BY <1>1 DEF TypeOK, StartRun, Worker, PCs
    <2> QED BY <1>1, <2>1, <2>2, <2>3 DEF TypeOK, StartRun, QueuesOK
  <1>2. CASE AcceptAnswer
    <2>1. latest > 0 /\ latest \in Runs
      BY <1>2, RunLoopAssumption DEF TypeOK, AcceptAnswer, WaitingForHuman, Runs
    <2>2. PICK at \in OpenQuestions(History) : Answer(at)
      BY <1>2 DEF AcceptAnswer
    <2>3. History \in Seq(Step)
      BY <2>1, HistoryType
    <2>4. at[1] \in DOMAIN History /\ at[2] \in DOMAIN History[at[1]].calls
      BY <2>2, <2>3, PositionsAreCalls DEF OpenQuestions
    <2> DEFINE asked == History[at[1]]
    <2>5. asked \in Step /\ asked.calls \in Seq(Call) /\ asked.inv \in Ids
      <3>1. asked \in Step
        BY <2>3, <2>4
      <3> QED BY <3>1 DEF Step
    <2>6. asked.calls[at[2]].id \in Ids
      <3>1. asked.calls[at[2]] \in Call
        BY <2>4, <2>5
      <3> QED BY <3>1 DEF Call
    <2>7. <<[id |-> asked.inv, tool |-> "call_skill"]>> \in Seq(Call)
      BY <2>5 DEF Call, Tools
    <2>8. worker' \in Worker /\ worker'.pc = "resume"
      BY <2>2, <2>7, EmptySeq DEF TypeOK, Answer, Worker, PCs
    <2>9. <<>> \in Seq(Call) /\ {} \in SUBSET Nat
      BY EmptySeq
    <2>10. \A kind \in StepKinds :
             NewStep(kind, asked.inv, asked.calls[at[2]].id, <<>>, {}) \in Step
      BY <2>5, <2>6, <2>9, NewStepType
    <2>11. \E s \in Step : Append1(s)
      BY <2>2, <2>10 DEF Answer, StepKinds
    <2>12. steps' \in [Runs -> Seq(Step)]
      BY <2>1, <2>11, AppendType
    <2>13. answers' \in 0..MaxAnswers
      BY <1>2, RunLoopAssumption DEF TypeOK, AcceptAnswer
    <2> QED BY <1>2, <2>1, <2>8, <2>12, <2>13 DEF TypeOK, AcceptAnswer, QueuesOK
  <1>3. CASE RefuseAnswer
    BY <1>3, IdleType DEF TypeOK, RefuseAnswer, Finish, StoreUnchanged, QueuesOK, Idle
  <1>4. CASE ResumeMain
    <2>1. status' \in [Runs -> RunStatus \union {"None"}]
      BY <1>4 DEF TypeOK, ResumeMain, SetStatus, RunStatus
    <2>2. worker' \in Worker /\ worker'.pc = "llm"
      <3>1. worker \in Worker /\ 1 \in 0..MaxIterations /\ "llm" \in PCs
        BY RunLoopAssumption DEF TypeOK, PCs
      <3>2. worker' = [worker EXCEPT !.pc = "llm", !.iter = 1]
        BY <1>4 DEF ResumeMain
      <3> QED BY <3>1, <3>2 DEF Worker
    <2> QED BY <1>4, <2>1, <2>2 DEF TypeOK, ResumeMain, QueuesOK, At
  <1>5. CASE ResumeSkill
    <2>1. status' \in [Runs -> RunStatus \union {"None"}]
      BY <1>5 DEF TypeOK, ResumeSkill, SetStatus, RunStatus
    <2>2. latest > 0 /\ History \in Seq(Step)
      BY <1>5, HistoryType DEF ResumeSkill, QueuesOK, At
    <2>3. SkillIterationCount(History, Invocation) \in Nat
      BY <2>2, SkillIterationCountType
    <2>4. /\ worker' \in Worker
          /\ worker'.pc \in {"skillDone", "skillLlm"}
          /\ worker'.calls = worker.calls
      <3>1. worker \in Worker /\ "skillDone" \in PCs /\ "skillLlm" \in PCs
        BY DEF TypeOK, PCs
      <3>2. \E pc \in {"skillDone", "skillLlm"} :
               worker' = [worker EXCEPT !.pc = pc,
                             !.skillIter = SkillIterationCount(History, Invocation)]
        BY <1>5 DEF ResumeSkill
      <3> QED BY <2>3, <3>1, <3>2 DEF Worker
    <2> QED BY <1>5, <2>1, <2>2, <2>4 DEF TypeOK, ResumeSkill, QueuesOK
  <1> QED BY <1>1, <1>2, <1>3, <1>4, <1>5 DEF Begin

\* Recording the request and what it asks for keep the types.
LEMMA OpenType == TypeInv /\ Open => TypeInv'
  <1> SUFFICES ASSUME TypeInv, Open PROVE TypeInv'
    OBVIOUS
  <1> USE DEF TypeInv
  <1>1. latest > 0 /\ History \in Seq(Step)
    BY HistoryType DEF Open, RecordUserMessage, RecordSkillsRequested,
       CallRequestedSkill, FinishRequestedSkills, QueuesOK, At
  <1>2. NoId \in Ids /\ <<>> \in Seq(Call) /\ {} \in SUBSET Nat
    BY EmptySeq DEF NoId, Ids
  <1>3. CASE RecordUserMessage
    <2>1. steps' \in [Runs -> Seq(Step)]
      BY <1>1, <1>2, <1>3, NewStepType, AppendType DEF RecordUserMessage, StepKinds
    <2>2. /\ worker' \in Worker
          /\ worker'.pc \in {"requesting", "explicit"}
      BY <1>3, GotoType DEF RecordUserMessage, Goto, PCs
    <2> QED BY <1>1, <1>3, <2>1, <2>2 DEF TypeOK, RecordUserMessage, QueuesOK
  <1>4. CASE RecordSkillsRequested
    <2>1. RequestedCalls(worker.requested) \in Seq(Call)
      BY RequestedCallsType, RunLoopAssumption DEF TypeOK, Worker
    <2>2. steps' \in [Runs -> Seq(Step)]
      BY <1>1, <1>2, <1>4, <2>1, NewStepType, AppendType DEF RecordSkillsRequested, StepKinds
    <2>3. worker' \in Worker /\ worker'.pc = "explicit"
      BY <1>4, GotoType DEF RecordSkillsRequested, Goto, PCs
    <2> QED BY <1>1, <1>4, <2>2, <2>3 DEF TypeOK, RecordSkillsRequested, QueuesOK
  <1>5. CASE CallRequestedSkill
    <2>1. PICK k \in OpenRequests(History) :
             LET call == RequestedIn(History)[k]
             IN  /\ Append1(NewStep("AssistantResponse", NoId, NoId, <<call>>, {}))
                 /\ worker' = [worker EXCEPT !.pc = "exec", !.calls = <<call>>]
      BY <1>5 DEF CallRequestedSkill
    <2>2. RequestedIn(History)[k] \in Call
      BY <1>1, <2>1, RequestedInType DEF OpenRequests
    <2>3. <<RequestedIn(History)[k]>> \in Seq(Call) /\ <<RequestedIn(History)[k]>> # <<>>
      BY <2>2
    <2>4. steps' \in [Runs -> Seq(Step)]
      BY <1>1, <1>2, <2>1, <2>3, NewStepType, AppendType DEF StepKinds
    <2>5. worker' \in Worker /\ worker'.pc = "exec" /\ worker'.calls # <<>>
      BY <2>1, <2>3 DEF TypeOK, Worker, PCs
    <2> QED BY <1>1, <1>5, <2>4, <2>5 DEF TypeOK, CallRequestedSkill, QueuesOK
  <1>6. CASE FinishRequestedSkills
    <2>1. worker' \in Worker /\ worker'.pc = "llm"
      <3>1. worker \in Worker /\ 1 \in 0..MaxIterations /\ "llm" \in PCs
        BY RunLoopAssumption DEF TypeOK, PCs
      <3>2. worker' = [worker EXCEPT !.pc = "llm", !.iter = 1]
        BY <1>6 DEF FinishRequestedSkills
      <3> QED BY <3>1, <3>2 DEF Worker
    <2> QED BY <1>1, <1>6, <2>1 DEF TypeOK, FinishRequestedSkills, StoreUnchanged, QueuesOK
  <1> QED BY <1>3, <1>4, <1>5, <1>6 DEF Open

\* Recording a response of the model appends a step.
LEMMA RecordResponseType ==
    ASSUME TypeOK, latest > 0, NEW calls \in Seq(Call), RecordResponse(calls)
    PROVE  steps' \in [Runs -> Seq(Step)]
  <1>1. worker.partial \intersect {NextPosition} \in SUBSET Nat
    BY DEF TypeOK, Worker
  <1>2. NoId \in Ids /\ "AssistantResponse" \in StepKinds
    BY DEF NoId, Ids, StepKinds
  <1> QED BY <1>1, <1>2, NewStepType, AppendType DEF RecordResponse

\* Calling the model keeps the types.
LEMMA CallModelType == TypeInv /\ CallModel => TypeInv'
  <1> SUFFICES ASSUME TypeInv, CallModel PROVE TypeInv'
    OBVIOUS
  <1> USE DEF TypeInv
  <1>1. latest > 0 /\ NextPosition \in Nat
    BY HistoryType DEF CallModel, StreamText, ReceiveAnswer, ReceiveQuestion,
       ReceiveToolCalls, LlmFails, QueuesOK, At
  <1>2. \A shape \in Responses : /\ CallsAt(NextPosition, shape) \in Seq(Call)
                                 /\ shape # <<>> => CallsAt(NextPosition, shape) # <<>>
    BY <1>1, CallsAtType, RunLoopAssumption
  <1>3. CASE StreamText
    <2>1. worker' \in Worker /\ worker'.pc = "llm"
      BY <1>1, <1>3 DEF TypeOK, StreamText, Worker, At
    <2> QED BY <1>1, <1>3, <2>1 DEF TypeOK, StreamText, StoreUnchanged, QueuesOK
  <1>4. CASE ReceiveAnswer
    <2>1. steps' \in [Runs -> Seq(Step)]
      BY <1>1, <1>4, RecordResponseType, EmptySeq DEF ReceiveAnswer
    <2>2. worker' \in Worker /\ worker'.pc = "complete"
      BY <1>4, GotoType DEF ReceiveAnswer, Goto, PCs
    <2> QED BY <1>1, <1>4, <2>1, <2>2 DEF TypeOK, ReceiveAnswer, QueuesOK
  <1>5. CASE ReceiveQuestion
    <2>1. steps' \in [Runs -> Seq(Step)]
      BY <1>1, <1>2, <1>5, RecordResponseType DEF ReceiveQuestion
    <2>2. worker' \in Worker /\ worker'.pc = "suspend"
      BY <1>5, GotoType DEF ReceiveQuestion, Goto, PCs
    <2> QED BY <1>1, <1>5, <2>1, <2>2 DEF TypeOK, ReceiveQuestion, QueuesOK
  <1>6. CASE ReceiveToolCalls
    <2>1. PICK shape \in Responses \ {<<>>} :
             LET calls == CallsAt(NextPosition, shape)
             IN  /\ RecordResponse(calls)
                 /\ worker' = [worker EXCEPT !.pc = "exec", !.calls = calls]
      BY <1>6 DEF ReceiveToolCalls
    <2>2. steps' \in [Runs -> Seq(Step)]
      BY <1>1, <1>2, <2>1, RecordResponseType
    <2>3. worker' \in Worker /\ worker'.pc = "exec" /\ worker'.calls # <<>>
      BY <1>2, <2>1 DEF TypeOK, Worker, PCs
    <2> QED BY <1>1, <1>6, <2>2, <2>3 DEF TypeOK, ReceiveToolCalls, QueuesOK
  <1>7. CASE LlmFails
    <2>1. worker' \in Worker /\ worker'.pc = "error"
      BY <1>7, GotoType DEF LlmFails, Goto, PCs
    <2> QED BY <1>1, <1>7, <2>1 DEF TypeOK, LlmFails, StoreUnchanged, QueuesOK
  <1> QED BY <1>3, <1>4, <1>5, <1>6, <1>7 DEF CallModel

\* A response inside a skill keeps the types, whatever it leads to.
LEMMA SkillReceivesType ==
    ASSUME TypeInv, worker.pc = "skillLlm", NEW shape \in Responses,
           NEW pc \in {"skillDone", "suspend", "skillExec"},
           pc = "skillExec" => shape # <<>>,
           SkillReceives(shape, pc)
    PROVE  TypeInv'
  <1> USE DEF TypeInv
  <1> DEFINE calls == CallsAt(NextPosition, shape)
  <1>1. latest > 0 /\ worker.calls # <<>>
    BY DEF QueuesOK
  <1>2. NextPosition \in Nat
    BY <1>1, HistoryType
  <1>3. calls \in Seq(Call) /\ (shape # <<>> => calls # <<>>)
    BY <1>2, CallsAtType, RunLoopAssumption
  <1>4. Invocation \in Ids /\ NoId \in Ids /\ {} \in SUBSET Nat
    BY <1>1, InvocationType DEF NoId, Ids
  <1>5. NewStep("SkillAssistantResponse", Invocation, NoId, calls, {}) \in Step
    BY <1>3, <1>4, NewStepType DEF StepKinds
  <1>6. steps' \in [Runs -> Seq(Step)]
    BY <1>1, <1>5, AppendType DEF SkillReceives
  <1>7. worker' = [worker EXCEPT !.pc = pc, !.skillIter = @ + 1, !.skillCalls = calls]
    BY DEF SkillReceives
  <1>8. worker \in Worker /\ worker.skillIter + 1 \in Nat /\ pc \in PCs
    BY DEF TypeOK, Worker, PCs
  <1>9. /\ worker' \in Worker
        /\ worker'.pc = pc /\ worker'.calls = worker.calls /\ worker'.skillCalls = calls
    BY <1>3, <1>7, <1>8 DEF Worker
  <1>10. UNCHANGED <<status, latest, answers>>
    BY DEF SkillReceives
  <1>11. TypeOK'
    BY <1>6, <1>9, <1>10 DEF TypeOK
  <1> QED BY <1>1, <1>3, <1>9, <1>10, <1>11 DEF QueuesOK

\* A tool result inside a skill leaves a well typed worker.
LEMMA AfterSkillCallType ==
    ASSUME TypeOK, worker.pc = "skillExec", worker.skillCalls # <<>>
    PROVE  /\ AfterSkillCall \in Worker
           /\ AfterSkillCall.pc \in {"skillExec", "skillLlm", "skillDone"}
           /\ AfterSkillCall.calls = worker.calls
           /\ AfterSkillCall.pc = "skillExec" => AfterSkillCall.skillCalls # <<>>
  <1>1. worker \in Worker /\ worker.skillCalls \in Seq(Call) /\ <<>> \in Seq(Call)
    BY EmptySeq DEF TypeOK, Worker
  <1>2. CASE Len(worker.skillCalls) > 1
    <2>1. Tail(worker.skillCalls) \in Seq(Call) /\ Tail(worker.skillCalls) # <<>>
      BY <1>1, <1>2, TailNonEmpty
    <2> QED BY <1>1, <1>2, <2>1 DEF AfterSkillCall, Worker
  <1>3. CASE ~(Len(worker.skillCalls) > 1) /\ worker.skillIter < MaxIterations
    BY <1>1, <1>3 DEF AfterSkillCall, Worker, PCs
  <1>4. CASE ~(Len(worker.skillCalls) > 1) /\ ~(worker.skillIter < MaxIterations)
    BY <1>1, <1>4 DEF AfterSkillCall, Worker, PCs
  <1> QED BY <1>2, <1>3, <1>4

\* Serving the calls keeps the types.
LEMMA ExecuteType == TypeInv /\ Execute => TypeInv'
  <1> SUFFICES ASSUME TypeInv, Execute PROVE TypeInv'
    OBVIOUS
  <1> USE DEF TypeInv
  <1>1. latest > 0 /\ worker.calls # <<>> /\ Invocation \in Ids
    BY InvocationType DEF Execute, ExecuteTool, StartSkill, SkillReceivesAnswer,
       SkillReceivesQuestion, SkillReceivesToolCalls, SkillExecutesTool, SkillFails,
       FinishSkill, QueuesOK, At
  <1>2. NoId \in Ids /\ <<>> \in Seq(Call) /\ {} \in SUBSET Nat
    BY EmptySeq DEF NoId, Ids
  <1>3. CASE ExecuteTool
    <2>1. steps' \in [Runs -> Seq(Step)]
      BY <1>1, <1>2, <1>3, NewStepType, AppendType DEF ExecuteTool, RecordToolResult, StepKinds
    <2>2. worker' = AfterCall
      BY <1>3 DEF ExecuteTool, RecordToolResult
    <2>3. TypeOK'
      BY <1>1, <1>3, <2>1, <2>2, AfterCallType DEF TypeOK, ExecuteTool, RecordToolResult
    <2>4. QueuesOK'
      BY <1>1, <1>3, <2>2, AfterCallType DEF QueuesOK, ExecuteTool, RecordToolResult
    <2> QED BY <2>3, <2>4
  <1>4. CASE StartSkill
    <2>1. steps' \in [Runs -> Seq(Step)]
      BY <1>1, <1>2, <1>4, NewStepType, AppendType DEF StartSkill, StepKinds
    <2>2. /\ worker' \in Worker
          /\ worker'.pc = "skillLlm" /\ worker'.calls = worker.calls
      BY <1>4 DEF TypeOK, StartSkill, Worker, PCs
    <2> QED BY <1>1, <1>4, <2>1, <2>2 DEF TypeOK, StartSkill, QueuesOK
  <1>5. CASE SkillReceivesAnswer
    BY <1>5, SkillReceivesType DEF SkillReceivesAnswer, At
  <1>6. CASE SkillReceivesQuestion
    BY <1>6, SkillReceivesType DEF SkillReceivesQuestion, At
  <1>7. CASE SkillReceivesToolCalls
    BY <1>7, SkillReceivesType DEF SkillReceivesToolCalls, At
  <1>8. CASE SkillExecutesTool
    <2>1. worker.pc = "skillExec" /\ worker.skillCalls # <<>>
      BY <1>8 DEF SkillExecutesTool, At, QueuesOK
    <2>2. Head(worker.skillCalls) \in Call
      BY <2>1 DEF TypeOK, Worker
    <2>3. NewStep("SkillToolResult", Invocation, Head(worker.skillCalls).id, <<>>, {}) \in Step
      BY <1>1, <1>2, <2>2, NewStepType DEF StepKinds, Call
    <2>4. steps' \in [Runs -> Seq(Step)]
      BY <1>1, <1>8, <2>3, AppendType DEF SkillExecutesTool
    <2>5. worker' = AfterSkillCall
      BY <1>8 DEF SkillExecutesTool
    <2>6. TypeOK'
      BY <1>8, <2>1, <2>4, <2>5, AfterSkillCallType DEF TypeOK, SkillExecutesTool
    <2> QED BY <1>1, <1>8, <2>1, <2>5, <2>6, AfterSkillCallType DEF SkillExecutesTool, QueuesOK
  <1>9. CASE SkillFails
    <2>1. /\ worker' \in Worker
          /\ worker'.pc = "skillDone" /\ worker'.calls = worker.calls
      BY <1>9 DEF TypeOK, SkillFails, Goto, Worker, PCs
    <2> QED BY <1>1, <1>9, <2>1 DEF TypeOK, SkillFails, StoreUnchanged, QueuesOK
  <1>10. CASE FinishSkill
    <2>1. steps' \in [Runs -> Seq(Step)]
      BY <1>1, <1>2, <1>10, NewStepType, AppendType DEF FinishSkill, StepKinds
    <2>2. AfterCall \in Worker /\ AfterCall.pc \in {"exec", "explicit", "llm", "error"}
          /\ (AfterCall.pc = "exec" => AfterCall.calls # <<>>)
      BY <1>1, AfterCallType
    <2>3. worker' = [AfterCall EXCEPT !.skillCalls = <<>>, !.skillIter = 0]
      BY <1>10 DEF FinishSkill
    <2>4. /\ worker' \in Worker
          /\ worker'.pc = AfterCall.pc /\ worker'.calls = AfterCall.calls
      BY <1>2, <2>2, <2>3 DEF Worker
    <2> QED BY <1>1, <1>10, <2>1, <2>2, <2>4 DEF TypeOK, FinishSkill, QueuesOK
  <1> QED BY <1>3, <1>4, <1>5, <1>6, <1>7, <1>8, <1>9, <1>10 DEF Execute

\* Leaving the run keeps the types.
LEMMA LeaveType == TypeInv /\ Leave => TypeInv'
  <1> SUFFICES ASSUME TypeInv, Leave PROVE TypeInv'
    OBVIOUS
  <1> USE DEF TypeInv
  <1>1. \A v \in Settled \union {"WaitingForHumanInput"} :
           SetStatus(v) => status' \in [Runs -> RunStatus \union {"None"}]
    BY DEF TypeOK, SetStatus, RunStatus
  <1>2. Finish => worker' \in Worker /\ worker'.pc = "idle"
    BY IdleType DEF Finish, Idle
  <1>3. \A pc \in {"fail", "checkpoint"} :
           Goto(pc) => worker' \in Worker /\ worker'.pc = pc
    BY GotoType DEF Goto, PCs
  <1>4. NoId \in Ids /\ <<>> \in Seq(Call) /\ {} \in SUBSET Nat
    BY EmptySeq DEF NoId, Ids
  <1>5. CASE SuspendRun
    BY <1>1, <1>2, <1>5 DEF TypeOK, SuspendRun, QueuesOK
  <1>6. CASE CompleteRun
    BY <1>1, <1>2, <1>6 DEF TypeOK, CompleteRun, QueuesOK, Settled
  <1>7. CASE RecordError
    <2>1. latest > 0
      BY <1>7 DEF RecordError, At, QueuesOK
    <2>2. steps' \in [Runs -> Seq(Step)]
      BY <1>4, <1>7, <2>1, NewStepType, AppendType DEF RecordError, StepKinds
    <2> QED BY <1>3, <1>7, <2>1, <2>2 DEF TypeOK, RecordError, QueuesOK
  <1>8. CASE FailRun
    BY <1>1, <1>2, <1>8 DEF TypeOK, FailRun, QueuesOK, Settled
  <1>9. CASE CancelRun
    <2>1. status' \in [Runs -> RunStatus \union {"None"}]
      BY <1>1, <1>9 DEF CancelRun, Settled
    <2>2. Finish \/ Goto("checkpoint")
      BY <1>9 DEF CancelRun
    <2>3. worker' \in Worker /\ worker'.pc \in {"idle", "checkpoint"}
      BY <1>2, <1>3, <2>2
    <2> QED BY <1>9, <2>1, <2>3 DEF TypeOK, CancelRun, QueuesOK
  <1>10. CASE CancelNothing
    BY <1>2, <1>10 DEF TypeOK, CancelNothing, StoreUnchanged, QueuesOK
  <1>11. CASE RecordCheckpoint
    <2>1. latest > 0 /\ worker.partial \in SUBSET Nat
      BY <1>11 DEF RecordCheckpoint, At, QueuesOK, TypeOK, Worker
    <2>2. steps' \in [Runs -> Seq(Step)]
      BY <1>4, <1>11, <2>1, NewStepType, AppendType DEF RecordCheckpoint, StepKinds
    <2> QED BY <1>2, <1>11, <2>2 DEF TypeOK, RecordCheckpoint, QueuesOK
  <1> QED BY <1>5, <1>6, <1>7, <1>8, <1>9, <1>10, <1>11 DEF Leave

\* The user's requests and a crash keep the types, and so does every step.
LEMMA NextType == TypeInv /\ [Next]_vars => TypeInv'
  <1> SUFFICES ASSUME TypeInv, [Next]_vars PROVE TypeInv'
    OBVIOUS
  <1> USE DEF TypeInv
  <1>1. CASE Submit
    <2>1. worker' \in Worker /\ worker'.pc = "begin"
      BY <1>1, GotoType DEF Submit, Goto, PCs
    <2> QED BY <1>1, <2>1 DEF Submit, StoreUnchanged, TypeOK, QueuesOK
  <1>2. CASE RequestCancel
    <2>1. /\ worker' \in Worker /\ worker'.pc = worker.pc
          /\ worker'.calls = worker.calls /\ worker'.skillCalls = worker.skillCalls
      BY <1>2 DEF RequestCancel, TypeOK, Worker
    <2> QED BY <1>2, <2>1 DEF RequestCancel, StoreUnchanged, TypeOK, QueuesOK
  <1>3. CASE Work
    BY <1>3, BeginType, OpenType, CallModelType, ExecuteType, LeaveType DEF Work
  <1>4. CASE Crash
    BY <1>4, IdleType DEF Crash, Finish, StoreUnchanged, TypeOK, QueuesOK, Idle
  <1>5. CASE UNCHANGED vars
    BY <1>5 DEF vars, TypeOK, QueuesOK
  <1> QED BY <1>1, <1>2, <1>3, <1>4, <1>5 DEF Next

\* The type invariant of the run loop, and that the queues are served only
\* while there is something to serve.
THEOREM TypeInvariant == Spec => []TypeInv
  <1>1. Init => TypeInv
    BY RunLoopAssumption, IdleType, EmptySeq
       DEF Init, TypeInv, TypeOK, QueuesOK, Idle, Runs
  <1>2. TypeInv /\ [Next]_vars => TypeInv'
    BY NextType
  <1> QED BY <1>1, <1>2, PTL DEF Spec

\* Every variable of the run loop keeps its type.
THEOREM TypeCorrect == Spec => []TypeOK
  <1>1. TypeInv => TypeOK
    BY DEF TypeInv
  <1> QED BY <1>1, TypeInvariant, PTL

-----------------------------------------------------------------------------
(***************************************************************************)
(* Statuses.  Every step does one of five things to the newest run and to  *)
(* the worker's place; the agreement of the worker and the store and the   *)
(* refinement both follow from these five alone.                           *)
(***************************************************************************)
KeepsStatus ==
    /\ UNCHANGED <<status, latest>>
    /\ \/ worker'.pc = worker.pc
       \/ worker'.pc \in {"idle", "begin"}
       \/ worker.pc \in Serving /\ worker'.pc \in Serving
       \/ WaitingForHuman /\ worker'.pc = "resume"

Creates ==
    /\ ~WaitingForHuman
    /\ latest < MaxRuns
    /\ latest' = latest + 1
    /\ status' = [status EXCEPT ![latest + 1] = "Running"]
    /\ worker'.pc = "created"

Resumes ==
    /\ worker.pc = "resume"
    /\ SetStatus("Running") /\ UNCHANGED latest
    /\ worker'.pc \in Serving

Suspends ==
    /\ worker.pc \in Serving
    /\ SetStatus("WaitingForHumanInput") /\ UNCHANGED latest
    /\ worker'.pc = "idle"

Settles ==
    /\ \/ worker.pc \in Serving
       \/ latest > 0 /\ status[latest] = "Running"
    /\ UNCHANGED latest
    /\ \E v \in Settled :
          /\ SetStatus(v)
          /\ \/ worker'.pc = "idle"
             \/ v = "Canceled" /\ worker'.pc = "checkpoint"

StatusStep == KeepsStatus \/ Creates \/ Resumes \/ Suspends \/ Settles

\* Beginning or resuming a run is one of the five.
LEMMA BeginStatusStep == TypeInv /\ Begin => StatusStep
  <1> SUFFICES ASSUME TypeInv, Begin PROVE StatusStep
    OBVIOUS
  <1>1. worker \in Worker
    BY DEF TypeInv, TypeOK
  <1>2. CASE StartRun
    BY <1>1, <1>2 DEF StartRun, Worker, StatusStep, Creates
  <1>3. CASE AcceptAnswer
    BY <1>1, <1>3 DEF AcceptAnswer, Answer, Worker, StatusStep, KeepsStatus
  <1>4. CASE RefuseAnswer
    BY <1>4 DEF RefuseAnswer, Finish, Idle, StoreUnchanged, StatusStep, KeepsStatus
  <1>5. CASE ResumeMain
    BY <1>1, <1>5 DEF ResumeMain, At, Worker, StatusStep, Resumes, Serving, PCs
  <1>6. CASE ResumeSkill
    <2>1. worker'.pc \in {"skillDone", "skillLlm"}
      BY <1>1, <1>6 DEF ResumeSkill, Worker
    <2> QED BY <1>6, <2>1 DEF ResumeSkill, At, StatusStep, Resumes, Serving, PCs
  <1> QED BY <1>2, <1>3, <1>4, <1>5, <1>6 DEF Begin

\* Opening a run and calling the model keep its status.
LEMMA OpenKeepsStatus == TypeInv /\ (Open \/ CallModel) => KeepsStatus
  <1> SUFFICES ASSUME TypeInv, Open \/ CallModel PROVE KeepsStatus
    OBVIOUS
  <1>1. worker \in Worker
    BY DEF TypeInv, TypeOK
  <1>2. UNCHANGED <<status, latest>> /\ worker.pc \in Serving
    BY DEF Open, RecordUserMessage, RecordSkillsRequested, CallRequestedSkill,
       FinishRequestedSkills, CallModel, StreamText, ReceiveAnswer, ReceiveQuestion,
       ReceiveToolCalls, LlmFails, StoreUnchanged, At, Serving, PCs
  <1>3. worker'.pc \in {"requesting", "explicit", "exec", "llm", "complete", "suspend", "error"}
    BY <1>1 DEF Open, RecordUserMessage, RecordSkillsRequested, CallRequestedSkill,
       FinishRequestedSkills, CallModel, StreamText, ReceiveAnswer, ReceiveQuestion,
       ReceiveToolCalls, LlmFails, At, Goto, Worker
  <1> QED BY <1>2, <1>3 DEF KeepsStatus, Serving, PCs

\* Tools and skills keep the status.
LEMMA ExecuteKeepsStatus == TypeInv /\ Execute => KeepsStatus
  <1> SUFFICES ASSUME TypeInv, Execute PROVE KeepsStatus
    OBVIOUS
  <1>1. worker \in Worker /\ TypeOK
    BY DEF TypeInv, TypeOK
  <1>2. /\ UNCHANGED <<status, latest>>
        /\ worker.pc \in {"exec", "skillLlm", "skillExec", "skillDone"}
    BY DEF Execute, ExecuteTool, RecordToolResult, StartSkill, SkillReceivesAnswer,
       SkillReceivesQuestion, SkillReceivesToolCalls, SkillReceives, SkillExecutesTool,
       SkillFails, FinishSkill, StoreUnchanged, At
  <1>3. worker.calls # <<>>
    BY <1>2 DEF TypeInv, QueuesOK
  <1>4. AfterCall.pc \in Serving /\ AfterCall \in Worker
    BY <1>1, <1>3, AfterCallType DEF Serving, PCs
  <1>5. ASSUME ExecuteTool
       PROVE  worker'.pc \in Serving
    BY <1>4, <1>5 DEF ExecuteTool, RecordToolResult
  <1>6. ASSUME SkillExecutesTool
       PROVE  worker'.pc \in Serving
    BY <1>1, <1>6, AfterSkillCallType DEF TypeInv, QueuesOK, SkillExecutesTool, At, Serving, PCs
  <1>7. ASSUME FinishSkill
       PROVE  worker'.pc \in Serving
    BY <1>4, <1>7 DEF FinishSkill, Worker
  <1>8. ASSUME StartSkill \/ SkillFails
       PROVE  worker'.pc \in Serving
    BY <1>1, <1>8 DEF StartSkill, SkillFails, Goto, Worker, Serving, PCs
  <1>9. ASSUME SkillReceivesAnswer \/ SkillReceivesQuestion \/ SkillReceivesToolCalls
       PROVE  worker'.pc \in Serving
    BY <1>1, <1>9 DEF SkillReceivesAnswer, SkillReceivesQuestion, SkillReceivesToolCalls,
       SkillReceives, Worker, Serving, PCs
  <1>10. worker'.pc \in Serving
    BY <1>5, <1>6, <1>7, <1>8, <1>9 DEF Execute
  <1> QED BY <1>2, <1>10 DEF KeepsStatus, Serving, PCs

\* Leaving a run suspends it, settles it, or writes one more step.
LEMMA LeaveStatusStep == TypeInv /\ Leave => StatusStep
  <1> SUFFICES ASSUME TypeInv, Leave PROVE StatusStep
    OBVIOUS
  <1>1. worker \in Worker
    BY DEF TypeInv, TypeOK
  <1>2. Finish => worker'.pc = "idle"
    BY DEF Finish, Idle
  <1>3. \A pc \in {"fail", "checkpoint"} : Goto(pc) => worker'.pc = pc
    BY <1>1 DEF Goto, Worker
  <1>4. CASE SuspendRun
    BY <1>2, <1>4 DEF SuspendRun, At, StatusStep, Suspends, Serving, PCs
  <1>5. CASE CompleteRun
    BY <1>2, <1>5 DEF CompleteRun, At, StatusStep, Settles, Settled, Serving, PCs
  <1>6. CASE RecordError
    BY <1>3, <1>6 DEF RecordError, At, StatusStep, KeepsStatus, Serving, PCs
  <1>7. CASE FailRun
    BY <1>2, <1>7 DEF FailRun, At, StatusStep, Settles, Settled, Serving, PCs
  <1>8. CASE CancelRun
    <2>1. worker'.pc \in {"idle", "checkpoint"}
      BY <1>2, <1>3, <1>8 DEF CancelRun
    <2>2. Settles
      BY <1>8, <2>1 DEF CancelRun, Settles, Settled
    <2> QED BY <2>2 DEF StatusStep
  <1>9. CASE CancelNothing \/ RecordCheckpoint
    BY <1>2, <1>9 DEF CancelNothing, RecordCheckpoint, StoreUnchanged, StatusStep, KeepsStatus
  <1> QED BY <1>4, <1>5, <1>6, <1>7, <1>8, <1>9 DEF Leave

\* Every step of the run loop is one of the five.
LEMMA EveryStatusStep == TypeInv /\ [Next]_vars => StatusStep
  <1> SUFFICES ASSUME TypeInv, [Next]_vars PROVE StatusStep
    OBVIOUS
  <1>1. worker \in Worker
    BY DEF TypeInv, TypeOK
  <1>2. CASE Submit
    BY <1>1, <1>2 DEF Submit, Goto, StoreUnchanged, Worker, StatusStep, KeepsStatus
  <1>3. CASE RequestCancel
    BY <1>1, <1>3 DEF RequestCancel, StoreUnchanged, Worker, StatusStep, KeepsStatus
  <1>4. CASE Work
    BY <1>4, BeginStatusStep, OpenKeepsStatus, ExecuteKeepsStatus, LeaveStatusStep
       DEF Work, StatusStep
  <1>5. CASE Crash
    BY <1>5 DEF Crash, Finish, Idle, StoreUnchanged, StatusStep, KeepsStatus
  <1>6. CASE UNCHANGED vars
    BY <1>6 DEF vars, StatusStep, KeepsStatus
  <1> QED BY <1>2, <1>3, <1>4, <1>5, <1>6 DEF Next

\* The agreement of the worker and the store is kept by each of the five.
LEMMA WorkerMatchesStoreStep ==
    ASSUME TypeInv, WorkerMatchesStore, StatusStep, TypeInv'
    PROVE  WorkerMatchesStore'
  <1>1. /\ status \in [Runs -> RunStatus \union {"None"}]
        /\ latest \in 0..MaxRuns /\ MaxRuns \in Nat
        /\ latest > 0 => latest \in Runs
        /\ worker'.pc \in PCs
    <2>1. worker' \in Worker
      BY DEF TypeInv, TypeOK
    <2>2. worker'.pc \in PCs
      BY <2>1 DEF Worker
    <2>3. status \in [Runs -> RunStatus \union {"None"}] /\ latest \in 0..MaxRuns
      BY DEF TypeInv, TypeOK
    <2> QED BY <2>2, <2>3, RunLoopAssumption DEF Runs
  <1>2. CASE KeepsStatus
    BY <1>1, <1>2 DEF KeepsStatus, WorkerMatchesStore, WaitingForHuman, Serving, PCs
  <1>3. CASE Creates
    <2>1. latest + 1 \in Runs
      BY <1>1, <1>3 DEF Creates, Runs
    <2>2. latest' > 0 /\ status'[latest'] = "Running"
      BY <1>1, <1>3, <2>1 DEF Creates
    <2>3. \A r \in Runs : r # latest + 1 => status'[r] = status[r]
      BY <1>1, <1>3 DEF Creates
    <2>4. \A r \in Runs : status'[r] = "None" <=> r > latest'
      BY <1>1, <1>3, <2>1, <2>2, <2>3 DEF Creates, WorkerMatchesStore, Runs
    <2>5. \A r \in Runs : status'[r] # "WaitingForHumanInput"
      <3>1. \A r \in Runs : status[r] # "WaitingForHumanInput"
        BY <1>1, <1>3 DEF Creates, WorkerMatchesStore, WaitingForHuman, Runs
      <3> QED BY <1>3, <2>2, <2>3, <3>1 DEF Creates
    <2> QED BY <1>3, <2>2, <2>4, <2>5 DEF Creates, WorkerMatchesStore
  <1>4. CASE Resumes \/ Suspends \/ Settles
    <2>1. latest > 0 /\ latest \in Runs /\ latest' = latest
      BY <1>1, <1>4 DEF Resumes, Suspends, Settles, WorkerMatchesStore, Serving
    <2>2. \E v \in RunStatus :
            /\ status' = [status EXCEPT ![latest] = v]
            /\ v = "WaitingForHumanInput" => worker'.pc = "idle"
            /\ worker'.pc # "idle" =>
                  \/ v = "Running" /\ worker'.pc \in Serving
                  \/ v = "Canceled" /\ worker'.pc = "checkpoint"
      BY <1>4 DEF Resumes, Suspends, Settles, SetStatus, RunStatus, Settled
    <2>3. PICK v \in RunStatus :
            /\ status' = [status EXCEPT ![latest] = v]
            /\ worker'.pc # "idle" =>
                  \/ v = "Running" /\ worker'.pc \in Serving
                  \/ v = "Canceled" /\ worker'.pc = "checkpoint"
      BY <2>2
    <2>4. status'[latest] = v /\ \A r \in Runs : r # latest => status'[r] = status[r]
      BY <1>1, <2>1, <2>3
    <2>5. v # "None" /\ status[latest] # "None"
      BY <1>1, <2>1 DEF RunStatus, Settled, WorkerMatchesStore, Runs
    <2>6. \A r \in Runs : status'[r] = "None" <=> r > latest'
      BY <2>1, <2>4, <2>5 DEF WorkerMatchesStore, Runs
    <2>7. \A r \in Runs : status'[r] = "WaitingForHumanInput" => r = latest'
      BY <2>1, <2>4 DEF WorkerMatchesStore
    <2> QED BY <2>1, <2>3, <2>4, <2>6, <2>7 DEF WorkerMatchesStore, Serving
  <1> QED BY <1>2, <1>3, <1>4 DEF StatusStep

\* The worker and the store agree at every step, so a request never writes to
\* a run that is not the one it serves.
THEOREM WorkerAgrees == Spec => []WorkerMatchesStore
  <1>1. Init => WorkerMatchesStore
    BY RunLoopAssumption DEF Init, WorkerMatchesStore, Idle, Runs, Serving
  <1>2. TypeInv /\ WorkerMatchesStore /\ [Next]_vars => WorkerMatchesStore'
    BY EveryStatusStep, NextType, WorkerMatchesStoreStep
  <1> QED BY <1>1, <1>2, TypeInvariant, PTL DEF Spec

-----------------------------------------------------------------------------
\* Each step of the run loop is a step of the lifecycle or leaves it unchanged.
LEMMA LifecycleStep ==
    ASSUME TypeInv, WorkerMatchesStore, StatusStep
    PROVE  [Lifecycle!Next]_(Lifecycle!vars)
  <1>1. CASE KeepsStatus
    BY <1>1 DEF KeepsStatus, Lifecycle!vars
  <1>2. CASE Creates
    BY <1>2 DEF Creates, WaitingForHuman, Lifecycle!Create, Lifecycle!Next
  <1>3. CASE Resumes
    BY <1>3 DEF Resumes, SetStatus, WorkerMatchesStore, Lifecycle!Resume, Lifecycle!Move,
       Lifecycle!Next
  <1>4. CASE Suspends
    BY <1>4 DEF Suspends, SetStatus, WorkerMatchesStore, Serving, Lifecycle!Suspend,
       Lifecycle!Move, Lifecycle!Next
  <1>5. CASE Settles
    <2>1. latest > 0 /\ status[latest] = "Running"
      BY <1>5 DEF Settles, WorkerMatchesStore, Serving
    <2> QED BY <1>5, <2>1 DEF Settles, SetStatus, Settled, Lifecycle!Settled,
       Lifecycle!Settle, Lifecycle!Move, Lifecycle!Next
  <1> QED BY <1>1, <1>2, <1>3, <1>4, <1>5 DEF StatusStep

\* The agent loop keeps the session's promise about its runs.
THEOREM LoopRefinesLifecycle == Spec => RefinesLifecycle
  <1>1. Init => Lifecycle!Init
    BY DEF Init, Lifecycle!Init, Runs, Lifecycle!Runs
  <1>2. TypeInv /\ WorkerMatchesStore /\ [Next]_vars => [Lifecycle!Next]_(Lifecycle!vars)
    BY EveryStatusStep, LifecycleStep
  <1> QED BY <1>1, <1>2, TypeInvariant, WorkerAgrees, PTL
       DEF Spec, RefinesLifecycle, Lifecycle!Spec

-----------------------------------------------------------------------------
(***************************************************************************)
(* Histories.  Every step of the loop does one of five things to the       *)
(* status and the history of the newest run; what an ended run recorded,   *)
(* and that it never changes, both follow from these five.                 *)
(***************************************************************************)
Unsettled == {"Running", "WaitingForHumanInput"}

KeepsStore ==
    /\ UNCHANGED <<status, steps, latest>>
    /\ worker'.pc \in {"complete", "fail", "checkpoint"} => worker'.pc = worker.pc

Appends ==
    /\ latest > 0 /\ status[latest] \in Unsettled
    /\ UNCHANGED <<status, latest>>
    /\ worker'.pc # "checkpoint"
    /\ \E kind \in StepKinds \ {"AssistantOutputCheckpoint"} :
       \E inv, id, calls, text :
          /\ Append1(NewStep(kind, inv, id, calls, text))
          /\ worker'.pc = "complete" => kind = "AssistantResponse" /\ calls = <<>>
          /\ worker'.pc = "fail" => kind = "Error"

AppendsCheckpoint ==
    /\ worker.pc = "checkpoint" /\ worker'.pc = "idle"
    /\ UNCHANGED <<status, latest>>
    /\ Append1(NewStep("AssistantOutputCheckpoint", NoId, NoId, <<>>, worker.partial))

SetsStatus ==
    /\ latest > 0 /\ status[latest] \in Unsettled
    /\ UNCHANGED <<steps, latest>>
    /\ worker'.pc \notin {"complete", "fail"}
    /\ \E v \in RunStatus :
          /\ SetStatus(v)
          /\ v = "Completed" => worker.pc = "complete"
          /\ v = "Failed" => worker.pc = "fail"
          /\ worker'.pc = "checkpoint" => v = "Canceled"

HistoryStep ==
    \/ KeepsStore
    \/ Appends
    \/ AppendsCheckpoint
    \/ SetsStatus
    \/ Creates /\ UNCHANGED steps

\* Adding an element to a sequence, whatever the element is.
LEMMA AppendFacts ==
    ASSUME NEW log \in Seq(Step), NEW s
    PROVE  /\ Len(Append(log, s)) = Len(log) + 1
           /\ DOMAIN Append(log, s) = 1..(Len(log) + 1)
           /\ Append(log, s)[Len(log) + 1] = s
           /\ \A p \in 1..Len(log) : Append(log, s)[p] = log[p]
           /\ Append(log, s) # <<>>
  <1> DEFINE S == Step \union {s}
  <1>1. log \in Seq(S)
    BY SeqMonotonic
  <1>2. s \in S
    OBVIOUS
  <1> HIDE DEF S
  <1>3. /\ Append(log, s) \in Seq(S)
        /\ Len(Append(log, s)) = Len(log) + 1
        /\ \A p \in 1..Len(log) : Append(log, s)[p] = log[p]
        /\ Append(log, s)[Len(log) + 1] = s
    BY <1>1, <1>2, AppendProperties
  <1>4. Len(log) \in Nat
    OBVIOUS
  <1>5. DOMAIN Append(log, s) = 1..(Len(log) + 1)
    BY <1>3
  <1>6. Append(log, s) # <<>>
    BY <1>1, <1>2, AppendProperties
  <1> QED BY <1>3, <1>5, <1>6

\* Beginning or resuming a run, as a history step.
LEMMA BeginHistoryStep == TypeInv /\ WorkerMatchesStore /\ Begin => HistoryStep
  <1> SUFFICES ASSUME TypeInv, WorkerMatchesStore, Begin PROVE HistoryStep
    OBVIOUS
  <1>1. worker \in Worker
    BY DEF TypeInv, TypeOK
  <1>2. CASE StartRun
    BY <1>1, <1>2 DEF StartRun, Worker, HistoryStep, Creates
  <1>3. CASE AcceptAnswer
    <2>1. PICK at \in OpenQuestions(History) : Answer(at)
      BY <1>3 DEF AcceptAnswer
    <2>2. worker'.pc = "resume"
      BY <1>1, <2>1 DEF Answer, Worker
    <2>3. \E kind \in Results : \E inv, id :
             Append1(NewStep(kind, inv, id, <<>>, {}))
      BY <2>1 DEF Answer, Results
    <2> QED BY <1>3, <2>2, <2>3 DEF AcceptAnswer, WaitingForHuman, HistoryStep, Appends,
       Unsettled, Results, StepKinds
  <1>4. CASE RefuseAnswer
    BY <1>4 DEF RefuseAnswer, Finish, Idle, StoreUnchanged, HistoryStep, KeepsStore
  <1>5. CASE ResumeMain \/ ResumeSkill
    <2>1. worker.pc = "resume" /\ SetStatus("Running") /\ UNCHANGED <<steps, latest>>
      BY <1>5 DEF ResumeMain, ResumeSkill, At
    <2>2. worker'.pc \in {"llm", "skillDone", "skillLlm"}
      BY <1>1, <1>5 DEF ResumeMain, ResumeSkill, Worker
    <2>3. latest > 0 /\ status[latest] \in Unsettled
      BY <2>1 DEF WorkerMatchesStore, Unsettled
    <2> QED BY <2>1, <2>2, <2>3 DEF HistoryStep, SetsStatus, RunStatus
  <1> QED BY <1>2, <1>3, <1>4, <1>5 DEF Begin

\* What serving the run appends to it.
LEMMA ServeHistoryStep ==
    TypeInv /\ WorkerMatchesStore /\ (Open \/ CallModel \/ Execute) => HistoryStep
  <1> SUFFICES ASSUME TypeInv, WorkerMatchesStore, Open \/ CallModel \/ Execute
               PROVE  HistoryStep
    OBVIOUS
  <1>1. worker \in Worker /\ TypeOK
    BY DEF TypeInv, TypeOK
  <1>2. KeepsStatus
    BY OpenKeepsStatus, ExecuteKeepsStatus
  <1>3. worker.pc \in Serving
    BY DEF Open, RecordUserMessage, RecordSkillsRequested, CallRequestedSkill,
       FinishRequestedSkills, CallModel, StreamText, ReceiveAnswer, ReceiveQuestion,
       ReceiveToolCalls, LlmFails, Execute, ExecuteTool, StartSkill, SkillReceivesAnswer,
       SkillReceivesQuestion, SkillReceivesToolCalls, SkillExecutesTool, SkillFails,
       FinishSkill, At, Serving, PCs
  <1>4. /\ latest > 0 /\ status[latest] \in Unsettled
        /\ UNCHANGED <<status, latest>>
    BY <1>2, <1>3 DEF KeepsStatus, WorkerMatchesStore, Serving, PCs, Unsettled
  <1>5. CASE FinishRequestedSkills \/ StreamText \/ LlmFails \/ SkillFails
    <2>1. UNCHANGED steps /\ worker'.pc \in {"llm", "error", "skillDone"}
      BY <1>1, <1>5 DEF FinishRequestedSkills, StreamText, LlmFails, SkillFails, At, Goto,
         StoreUnchanged, Worker
    <2> QED BY <1>4, <2>1 DEF HistoryStep, KeepsStore
  <1>6. CASE ReceiveAnswer
    <2>1. worker'.pc = "complete"
      BY <1>1, <1>6 DEF ReceiveAnswer, Goto, Worker
    <2>2. Append1(NewStep("AssistantResponse", NoId, NoId, <<>>,
                          worker.partial \intersect {NextPosition}))
      BY <1>6 DEF ReceiveAnswer, RecordResponse
    <2> QED BY <1>4, <2>1, <2>2 DEF HistoryStep, Appends, StepKinds
  <1>7. CASE \/ RecordUserMessage \/ RecordSkillsRequested \/ CallRequestedSkill
             \/ ReceiveQuestion \/ ReceiveToolCalls
    <2>1. worker'.pc \notin {"complete", "fail", "checkpoint"}
      BY <1>1, <1>7 DEF RecordUserMessage, RecordSkillsRequested, CallRequestedSkill,
         ReceiveQuestion, ReceiveToolCalls, Goto, Worker
    <2>2. \E kind \in StepKinds \ {"AssistantOutputCheckpoint"} :
          \E inv, id, calls, text : Append1(NewStep(kind, inv, id, calls, text))
      BY <1>7 DEF RecordUserMessage, RecordSkillsRequested, CallRequestedSkill,
         ReceiveQuestion, ReceiveToolCalls, RecordResponse, StepKinds
    <2> QED BY <1>4, <2>1, <2>2 DEF HistoryStep, Appends
  <1>8. CASE \/ ExecuteTool \/ StartSkill \/ SkillExecutesTool \/ FinishSkill
             \/ SkillReceivesAnswer \/ SkillReceivesQuestion \/ SkillReceivesToolCalls
    <2>1. worker'.pc \notin {"complete", "fail", "checkpoint"}
      <3>1. worker.pc \in {"exec", "skillLlm", "skillExec", "skillDone"}
        BY <1>8 DEF ExecuteTool, StartSkill, SkillExecutesTool, FinishSkill,
           SkillReceivesAnswer, SkillReceivesQuestion, SkillReceivesToolCalls, At
      <3>2. worker.calls # <<>>
        BY <3>1 DEF TypeInv, QueuesOK
      <3>3. AfterCall.pc \in {"exec", "explicit", "llm", "error"} /\ AfterCall \in Worker
        BY <1>1, <3>2, AfterCallType
      <3>4. CASE ExecuteTool \/ FinishSkill
        BY <3>3, <3>4 DEF ExecuteTool, RecordToolResult, FinishSkill, Worker
      <3>5. CASE SkillExecutesTool
        BY <1>1, <3>5, AfterSkillCallType DEF TypeInv, QueuesOK, SkillExecutesTool, At
      <3>6. CASE \/ StartSkill \/ SkillReceivesAnswer \/ SkillReceivesQuestion
                 \/ SkillReceivesToolCalls
        BY <1>1, <3>6 DEF StartSkill, SkillReceivesAnswer, SkillReceivesQuestion,
           SkillReceivesToolCalls, SkillReceives, Worker
      <3> QED BY <1>8, <3>4, <3>5, <3>6
    <2>2. \E kind \in StepKinds \ {"AssistantOutputCheckpoint"} :
          \E inv, id, calls, text : Append1(NewStep(kind, inv, id, calls, text))
      BY <1>8 DEF ExecuteTool, RecordToolResult, StartSkill, SkillExecutesTool, FinishSkill,
         SkillReceivesAnswer, SkillReceivesQuestion, SkillReceivesToolCalls, SkillReceives,
         StepKinds
    <2> QED BY <1>4, <2>1, <2>2 DEF HistoryStep, Appends
  <1> QED BY <1>5, <1>6, <1>7, <1>8 DEF Open, CallModel, Execute

\* How leaving a run writes its outcome.
LEMMA LeaveHistoryStep == TypeInv /\ WorkerMatchesStore /\ Leave => HistoryStep
  <1> SUFFICES ASSUME TypeInv, WorkerMatchesStore, Leave PROVE HistoryStep
    OBVIOUS
  <1>1. worker \in Worker
    BY DEF TypeInv, TypeOK
  <1>2. Finish => worker'.pc = "idle"
    BY DEF Finish, Idle
  <1>3. \A pc \in {"fail", "checkpoint"} : Goto(pc) => worker'.pc = pc
    BY <1>1 DEF Goto, Worker
  <1>4. worker.pc \in Serving => latest > 0 /\ status[latest] \in Unsettled
    BY DEF WorkerMatchesStore, Serving, Unsettled
  <1>5. CASE SuspendRun
    BY <1>2, <1>4, <1>5 DEF SuspendRun, At, HistoryStep, SetsStatus, Serving, PCs, RunStatus
  <1>6. CASE CompleteRun
    BY <1>2, <1>4, <1>6 DEF CompleteRun, At, HistoryStep, SetsStatus, Serving, PCs,
       RunStatus, Settled
  <1>7. CASE RecordError
    <2>1. "Error" \in StepKinds \ {"AssistantOutputCheckpoint"}
      BY DEF StepKinds
    <2>2. Append1(NewStep("Error", NoId, NoId, <<>>, {})) /\ worker'.pc = "fail"
      BY <1>3, <1>7 DEF RecordError
    <2>3. /\ latest > 0 /\ status[latest] \in Unsettled
          /\ UNCHANGED <<status, latest>>
      BY <1>4, <1>7 DEF RecordError, At, Serving, PCs
    <2> QED BY <2>1, <2>2, <2>3 DEF HistoryStep, Appends
  <1>8. CASE FailRun
    BY <1>2, <1>4, <1>8 DEF FailRun, At, HistoryStep, SetsStatus, Serving, PCs,
       RunStatus, Settled
  <1>9. CASE CancelRun
    <2>1. worker'.pc \in {"idle", "checkpoint"}
      BY <1>2, <1>3, <1>9 DEF CancelRun
    <2> QED BY <1>9, <2>1 DEF CancelRun, HistoryStep, SetsStatus, Unsettled, RunStatus, Settled
  <1>10. CASE CancelNothing
    BY <1>2, <1>10 DEF CancelNothing, StoreUnchanged, HistoryStep, KeepsStore
  <1>11. CASE RecordCheckpoint
    BY <1>2, <1>11 DEF RecordCheckpoint, At, HistoryStep, AppendsCheckpoint
  <1> QED BY <1>5, <1>6, <1>7, <1>8, <1>9, <1>10, <1>11 DEF Leave

\* Every step of the run loop is one of the five.
LEMMA EveryHistoryStep == TypeInv /\ WorkerMatchesStore /\ [Next]_vars => HistoryStep
  <1> SUFFICES ASSUME TypeInv, WorkerMatchesStore, [Next]_vars PROVE HistoryStep
    OBVIOUS
  <1>1. worker \in Worker
    BY DEF TypeInv, TypeOK
  <1>2. CASE Submit
    BY <1>1, <1>2 DEF Submit, Goto, StoreUnchanged, Worker, HistoryStep, KeepsStore
  <1>3. CASE RequestCancel
    BY <1>1, <1>3 DEF RequestCancel, StoreUnchanged, Worker, HistoryStep, KeepsStore
  <1>4. CASE Work
    BY <1>4, BeginHistoryStep, ServeHistoryStep, LeaveHistoryStep DEF Work
  <1>5. CASE Crash
    BY <1>5 DEF Crash, Finish, Idle, StoreUnchanged, HistoryStep, KeepsStore
  <1>6. CASE UNCHANGED vars
    BY <1>6 DEF vars, HistoryStep, KeepsStore
  <1> QED BY <1>2, <1>3, <1>4, <1>5, <1>6 DEF Next

\* A history step changes one run only, and how.
LEMMA AppendedHistory ==
    ASSUME TypeOK, latest > 0, NEW s, Append1(s)
    PROVE  /\ latest \in Runs
           /\ steps'[latest] = Append(steps[latest], s)
           /\ steps[latest] \in Seq(Step)
           /\ \A r \in Runs : r # latest => steps'[r] = steps[r]
  <1>1. latest \in Runs
    BY RunLoopAssumption DEF TypeOK, Runs
  <1> QED BY <1>1 DEF TypeOK, Append1

\* Whatever happens later, an ended run keeps its status and its history.
THEOREM EndedRunsAreFrozen == Spec => EndedRunIsFrozen
  <1> DEFINE Frozen(r) ==
        status[r] \in Settled =>
          /\ status'[r] = status[r]
          /\ \/ steps'[r] = steps[r]
             \/ /\ status[r] = "Canceled"
                /\ Ends(steps'[r], "AssistantOutputCheckpoint")
                /\ \A p \in DOMAIN steps[r] : steps'[r][p] = steps[r][p]
  <1>1. ASSUME TypeInv, WorkerMatchesStore, HistoryStep, NEW r \in Runs
        PROVE  Frozen(r)
    <2>1. TypeOK /\ status \in [Runs -> RunStatus \union {"None"}]
      BY <1>1 DEF TypeInv, TypeOK
    <2>2. CASE KeepsStore
      BY <2>2 DEF KeepsStore
    <2>3. CASE Appends
      <3>1. PICK s : Append1(s)
        BY <2>3 DEF Appends
      <3>2. r # latest => steps'[r] = steps[r]
        BY <1>1, <2>1, <2>3, <3>1, AppendedHistory DEF Appends
      <3> QED BY <2>3, <3>2 DEF Appends, Unsettled, Settled
    <2>4. CASE AppendsCheckpoint
      <3> DEFINE s == NewStep("AssistantOutputCheckpoint", NoId, NoId, <<>>, worker.partial)
      <3>1. latest > 0 /\ status[latest] = "Canceled" /\ Append1(s)
        BY <1>1, <2>4 DEF AppendsCheckpoint, WorkerMatchesStore
      <3>2. s.kind = "AssistantOutputCheckpoint"
        BY DEF NewStep
      <3> HIDE DEF s
      <3>3. /\ steps'[latest] = Append(steps[latest], s)
            /\ steps[latest] \in Seq(Step)
            /\ r # latest => steps'[r] = steps[r]
        BY <1>1, <2>1, <3>1, AppendedHistory
      <3>4. CASE r # latest
        BY <2>4, <3>3, <3>4 DEF AppendsCheckpoint
      <3>5. CASE r = latest
        <4>1. Ends(steps'[r], "AssistantOutputCheckpoint")
          BY <3>2, <3>3, <3>5, AppendFacts DEF Ends
        <4>2. DOMAIN steps[r] = 1..Len(steps[r])
          BY <3>3, <3>5
        <4>3. \A p \in DOMAIN steps[r] : steps'[r][p] = steps[r][p]
          BY <3>3, <3>5, <4>2, AppendFacts
        <4> QED BY <2>4, <3>1, <3>5, <4>1, <4>3 DEF AppendsCheckpoint
      <3> QED BY <3>4, <3>5
    <2>5. CASE SetsStatus
      BY <2>1, <2>5 DEF SetsStatus, SetStatus, Unsettled, Settled
    <2>6. CASE Creates /\ UNCHANGED steps
      <3>1. r = latest + 1 => status[r] = "None"
        BY <1>1 DEF WorkerMatchesStore, TypeInv, TypeOK
      <3> QED BY <2>1, <2>6, <3>1 DEF Creates, Settled
    <2> QED BY <1>1, <2>2, <2>3, <2>4, <2>5, <2>6 DEF HistoryStep
  <1>2. TypeInv /\ WorkerMatchesStore /\ [Next]_vars =>
          [\A r \in Runs : Frozen(r)]_vars
    BY <1>1, EveryHistoryStep
  <1> QED BY <1>2, TypeInvariant, WorkerAgrees, PTL DEF Spec, EndedRunIsFrozen

-----------------------------------------------------------------------------
(***************************************************************************)
(* Outcomes.  A status is written one step after what explains it, so the  *)
(* inductive invariant also says what the history holds in between, and    *)
(* that a run which is not created yet has no history.                     *)
(***************************************************************************)
Explains(log, v) ==
    /\ v = "Completed" => /\ Ends(log, "AssistantResponse")
                          /\ log[Len(log)].calls = <<>>
    /\ v = "Failed" => Ends(log, "Error")

Checkpoints(log) == {p \in DOMAIN log : log[p].kind = "AssistantOutputCheckpoint"}

OutcomeOf(r) ==
    /\ Explains(steps[r], status[r])
    /\ status[r] # "Canceled" => Checkpoints(steps[r]) = {}
    /\ Checkpoints(steps[r]) \subseteq {Len(steps[r])}
    /\ status[r] = "None" => steps[r] = <<>>

OutcomeInv ==
    /\ \A r \in Runs : OutcomeOf(r)
    /\ worker.pc = "complete" => Explains(History, "Completed")
    /\ worker.pc = "fail" => Explains(History, "Failed")
    /\ worker.pc = "checkpoint" => Checkpoints(History) = {}

\* What appending one step does to the outcome a history explains.
LEMMA AppendExplains ==
    ASSUME NEW log \in Seq(Step), NEW kind, NEW inv, NEW id, NEW calls, NEW text
    PROVE  LET longer == Append(log, NewStep(kind, inv, id, calls, text))
           IN  /\ kind = "AssistantResponse" /\ calls = <<>> => Explains(longer, "Completed")
               /\ kind = "Error" => Explains(longer, "Failed")
               /\ kind # "AssistantOutputCheckpoint" => Checkpoints(longer) = Checkpoints(log)
               /\ Checkpoints(log) = {} => Checkpoints(longer) \subseteq {Len(longer)}
  <1> DEFINE s == NewStep(kind, inv, id, calls, text)
             longer == Append(log, s)
  <1>1. s.kind = kind /\ s.calls = calls
    BY DEF NewStep
  <1> HIDE DEF s
  <1>2. /\ Len(longer) = Len(log) + 1 /\ Len(log) \in Nat
        /\ DOMAIN longer = 1..(Len(log) + 1) /\ DOMAIN log = 1..Len(log)
        /\ longer[Len(log) + 1] = s
        /\ \A p \in 1..Len(log) : longer[p] = log[p]
        /\ longer # <<>>
    BY AppendFacts
  <1> HIDE DEF longer
  <1>3. kind = "AssistantResponse" /\ calls = <<>> => Explains(longer, "Completed")
    BY <1>1, <1>2 DEF Explains, Ends
  <1>4. kind = "Error" => Explains(longer, "Failed")
    BY <1>1, <1>2 DEF Explains, Ends
  <1>5. kind # "AssistantOutputCheckpoint" => Checkpoints(longer) = Checkpoints(log)
    BY <1>1, <1>2 DEF Checkpoints
  <1>6. Checkpoints(log) = {} => Checkpoints(longer) \subseteq {Len(longer)}
    BY <1>1, <1>2 DEF Checkpoints
  <1> QED BY <1>3, <1>4, <1>5, <1>6 DEF longer, s

\* Each of the five history steps keeps the outcome invariant.
LEMMA OutcomeStep ==
    ASSUME TypeInv, WorkerMatchesStore, OutcomeInv, HistoryStep
    PROVE  OutcomeInv'
  <1>1. TypeOK /\ status \in [Runs -> RunStatus \union {"None"}]
    BY DEF TypeInv, TypeOK
  <1>2. latest > 0 => latest \in Runs
    BY <1>1, RunLoopAssumption DEF TypeOK, Runs
  <1>3. CASE KeepsStore
    BY <1>3 DEF KeepsStore, OutcomeInv, OutcomeOf, History
  <1>4. CASE Appends
    <2>1. PICK kind \in StepKinds \ {"AssistantOutputCheckpoint"} : \E inv, id, calls, text :
             /\ Append1(NewStep(kind, inv, id, calls, text))
             /\ worker'.pc = "complete" => kind = "AssistantResponse" /\ calls = <<>>
             /\ worker'.pc = "fail" => kind = "Error"
      BY <1>4 DEF Appends
    <2>2. PICK inv, id, calls, text :
             /\ Append1(NewStep(kind, inv, id, calls, text))
             /\ worker'.pc = "complete" => kind = "AssistantResponse" /\ calls = <<>>
             /\ worker'.pc = "fail" => kind = "Error"
      BY <2>1
    <2> DEFINE s == NewStep(kind, inv, id, calls, text)
    <2>3. /\ latest \in Runs /\ latest' = latest /\ status' = status
          /\ steps'[latest] = Append(steps[latest], s)
          /\ steps[latest] \in Seq(Step)
          /\ \A r \in Runs : r # latest => steps'[r] = steps[r]
      BY <1>1, <1>4, <2>2, AppendedHistory DEF Appends
    <2>4. status[latest] \in Unsettled /\ worker'.pc # "checkpoint"
      BY <1>4 DEF Appends
    <2>5. Checkpoints(steps[latest]) = {}
      BY <2>3, <2>4 DEF OutcomeInv, OutcomeOf, Unsettled
    <2>6. /\ kind = "AssistantResponse" /\ calls = <<>> => Explains(steps'[latest], "Completed")
          /\ kind = "Error" => Explains(steps'[latest], "Failed")
          /\ Checkpoints(steps'[latest]) = {}
      BY <2>1, <2>3, <2>5, AppendExplains
    <2>7. Explains(steps'[latest], status[latest])
      BY <2>4 DEF Unsettled, Explains
    <2>8. \A r \in Runs : OutcomeOf(r)'
      BY <2>3, <2>4, <2>6, <2>7 DEF OutcomeInv, OutcomeOf, Unsettled
    <2> QED BY <2>2, <2>3, <2>4, <2>6, <2>8 DEF OutcomeInv, History
  <1>5. CASE AppendsCheckpoint
    <2> DEFINE s == NewStep("AssistantOutputCheckpoint", NoId, NoId, <<>>, worker.partial)
    <2>1. latest > 0 /\ status[latest] = "Canceled" /\ Checkpoints(History) = {}
      BY <1>5 DEF AppendsCheckpoint, WorkerMatchesStore, OutcomeInv
    <2>2. /\ latest \in Runs /\ latest' = latest /\ status' = status
          /\ steps'[latest] = Append(steps[latest], s)
          /\ steps[latest] \in Seq(Step)
          /\ \A r \in Runs : r # latest => steps'[r] = steps[r]
      BY <1>1, <1>5, <2>1, AppendedHistory DEF AppendsCheckpoint
    <2>3. Checkpoints(steps'[latest]) \subseteq {Len(steps'[latest])}
      BY <2>1, <2>2, AppendExplains DEF History
    <2>4. \A r \in Runs : OutcomeOf(r)'
      BY <2>1, <2>2, <2>3 DEF OutcomeInv, OutcomeOf, Explains
    <2> QED BY <1>5, <2>4 DEF AppendsCheckpoint, OutcomeInv
  <1>6. CASE SetsStatus
    <2>1. PICK v \in RunStatus :
             /\ SetStatus(v)
             /\ v = "Completed" => worker.pc = "complete"
             /\ v = "Failed" => worker.pc = "fail"
             /\ worker'.pc = "checkpoint" => v = "Canceled"
      BY <1>6 DEF SetsStatus
    <2>2. /\ latest \in Runs /\ latest' = latest /\ steps' = steps
          /\ status[latest] \in Unsettled /\ worker'.pc \notin {"complete", "fail"}
      BY <1>2, <1>6 DEF SetsStatus
    <2>3. status'[latest] = v /\ \A r \in Runs : r # latest => status'[r] = status[r]
      BY <1>1, <2>1, <2>2 DEF SetStatus
    <2>4. Checkpoints(steps[latest]) = {}
      BY <2>2 DEF OutcomeInv, OutcomeOf, Unsettled
    <2>5. Explains(steps[latest], v)
      BY <2>1 DEF OutcomeInv, Explains, History
    <2>6. v # "None"
      BY DEF RunStatus, Settled
    <2>7. \A r \in Runs : OutcomeOf(r)'
      BY <2>2, <2>3, <2>4, <2>5, <2>6 DEF OutcomeInv, OutcomeOf
    <2> QED BY <2>2, <2>4, <2>7 DEF OutcomeInv, History
  <1>7. CASE Creates /\ UNCHANGED steps
    <2>1. latest + 1 \in Runs
      BY <1>1, <1>7, RunLoopAssumption DEF Creates, TypeOK, Runs
    <2>2. status[latest + 1] = "None"
      BY <1>1, <2>1 DEF WorkerMatchesStore, TypeOK
    <2>3. /\ status'[latest + 1] = "Running"
          /\ \A r \in Runs : r # latest + 1 => status'[r] = status[r]
      BY <1>1, <1>7, <2>1 DEF Creates
    <2>4. \A r \in Runs : OutcomeOf(r)'
      BY <1>7, <2>1, <2>2, <2>3 DEF OutcomeInv, OutcomeOf, Explains
    <2> QED BY <1>7, <2>4 DEF Creates, OutcomeInv
  <1> QED BY <1>3, <1>4, <1>5, <1>6, <1>7 DEF HistoryStep

\* A Completed or Failed run ends with the step that explains it, and only a
\* Canceled run holds a checkpoint of interrupted output.
THEOREM OutcomesAreRecorded == Spec => []OutcomeIsRecorded
  <1>1. Init => OutcomeInv
    BY DEF Init, OutcomeInv, OutcomeOf, Explains, Checkpoints, Idle
  <1>2. TypeInv /\ WorkerMatchesStore /\ OutcomeInv /\ [Next]_vars => OutcomeInv'
    BY EveryHistoryStep, OutcomeStep
  <1>3. OutcomeInv => OutcomeIsRecorded
    BY DEF OutcomeInv, OutcomeOf, OutcomeIsRecorded, Explains, Checkpoints
  <1> QED BY <1>1, <1>2, <1>3, TypeInvariant, WorkerAgrees, PTL DEF Spec

-----------------------------------------------------------------------------
(***************************************************************************)
(* The history that RunLoop records, and that it sends to the model again  *)
(* with every call: which results, questions and turns it holds, in which  *)
(* order, however often a run waits, is resumed, crashes or is canceled.   *)
(*                                                                         *)
(* A history is good when every step fits the steps before it.  What makes *)
(* the next step fit is in the worker: the calls it has still to serve.    *)
(***************************************************************************)
\* The steps before position p.
Before(log, p) == SubSeq(log, 1, p - 1)

\* A response in the history made this call, in the main loop or in a skill.
Makes(log, inv, id) ==
    \E p \in DOMAIN log : /\ log[p].kind \in TurnKinds
                          /\ log[p].inv = inv
                          /\ \E i \in DOMAIN log[p].calls : log[p].calls[i].id = id

\* The calls of the response at position p are named after it, or are the one
\* call that the loop makes for a requested skill.
IsRequest(step) ==
    /\ step.kind = "AssistantResponse"
    /\ DOMAIN step.calls = {1}
    /\ step.calls[1].tool = "call_skill"
    /\ step.calls[1].id[1] = 0
    /\ step.calls[1].id # NoId

Named(p, step) ==
    \/ \A i \in DOMAIN step.calls : step.calls[i].id = <<p, i>>
    \/ IsRequest(step)

\* A skill asked the human.
AskedIn(log, inv) ==
    \E s \in DOMAIN log : /\ log[s].kind = "SkillAssistantResponse"
                          /\ log[s].inv = inv
                          /\ AsksHuman(log[s].calls)

\* The response at p may lose calls: it asks the human, or a skill of its asked.
Excused(log, p) ==
    \/ AsksHuman(log[p].calls)
    \/ \E i \in DOMAIN log[p].calls : AskedIn(log, log[p].calls[i].id)

\* Each call of a main response has its result or is among ids, unless the
\* response is excused.
Served(log, ids) ==
    \A p \in DOMAIN log : log[p].kind = "AssistantResponse" =>
        \/ \A i \in DOMAIN log[p].calls :
              HasResult(log, NoId, log[p].calls[i].id) \/ log[p].calls[i].id \in ids
        \/ Excused(log, p)

ResultFits(before, step) ==
    /\ Makes(before, step.inv, step.id)
    /\ HasResult(before, step.inv, step.id) =>
          step.kind = "ToolResult" /\ AskedBeside(before, step.id)

ResponseFits(before, step) ==
    /\ IsTurn(step) => OpenRequests(before) = {} /\ Served(before, {})
    /\ ~IsTurn(step) => \A k \in DOMAIN RequestedIn(before) :
                            k < step.calls[1].id[2] => k \notin OpenRequests(before)

RequestFits(before, step) ==
    /\ Len(before) = 1 /\ before[1].kind = "UserMessage"
    /\ \A k \in DOMAIN step.calls : step.calls[k] = [id |-> <<0, k>>, tool |-> "call_skill"]

\* How a step fits the steps before it.
Fits(before, step) ==
    /\ step.kind \in TurnKinds => Named(Len(before) + 1, step)
    /\ step.kind \in {"AssistantResponse", "ToolResult"} => step.inv = NoId
    /\ step.kind \in {"SkillAssistantResponse", "SkillToolResult"} => step.inv # NoId
    /\ step.kind = "SkillAssistantResponse" => Makes(before, NoId, step.inv)
    /\ step.kind \in Results => ResultFits(before, step)
    /\ step.kind = "AssistantResponse" => ResponseFits(before, step)
    /\ step.kind = "SkillsRequested" => RequestFits(before, step)

GoodHistory(log) == \A p \in DOMAIN log : Fits(Before(log, p), log[p])

\* Once there is a turn, nothing that was requested is open.
RequestsPrecedeTurns(log) ==
    (\E p \in DOMAIN log : IsTurn(log[p])) => OpenRequests(log) = {}

\* A skill waits for the answer to the only call of this response.
SoleQuestions(log) ==
    {s \in DOMAIN log : /\ log[s].kind = "SkillAssistantResponse"
                        /\ DOMAIN log[s].calls = {1}
                        /\ log[s].calls[1].tool \in HumanTools
                        /\ ~HasResult(log, log[s].inv, log[s].calls[1].id)}

\* What a run that waits has recorded.
Paused(log) ==
    /\ log # <<>>
    /\ \/ log[Len(log)].kind \in TurnKinds /\ AsksHuman(log[Len(log)].calls)
       \/ log[Len(log)].kind \in Results
    /\ SoleQuestions(log) \subseteq {Len(log)}
    /\ \A s \in SoleQuestions(log) :
          HasResult(log, NoId, log[s].inv) => AskedBeside(log, log[s].inv)
    /\ Served(log, {})

-----------------------------------------------------------------------------
(***************************************************************************)
(* The worker w over the history log of the run it serves.                 *)
(***************************************************************************)
SkillPCs == {"skillLlm", "skillExec", "skillDone"}
QueuePCs == SkillPCs \union {"exec", "resume"}

Queued(w) ==
    IF w.pc \in QueuePCs THEN {w.calls[j].id : j \in DOMAIN w.calls} ELSE {}

\* What has been recorded of the request.
RequestRecorded(w, log) ==
    /\ w.pc = "created" => log = <<>>
    /\ w.pc = "requesting" => Len(log) = 1 /\ log[1].kind = "UserMessage"
    /\ w.pc \in {"idle", "begin", "created", "requesting"} => w.iter = 0
    /\ w.pc = "llm" => w.iter # 0
    /\ w.iter # 0 => OpenRequests(log) = {}
    /\ w.pc = "resume" /\ w.calls = <<>> => OpenRequests(log) = {}

\* The queue holds calls of one main response, each once, without results:
\* except that the skill at its head may have been finished before.
QueueFits(log, calls) ==
    /\ \A j \in DOMAIN calls : Makes(log, NoId, calls[j].id)
    /\ \A j, k \in DOMAIN calls : calls[j].id = calls[k].id => j = k
    /\ \A j \in DOMAIN calls :
          HasResult(log, NoId, calls[j].id) => j = 1 /\ AskedBeside(log, calls[j].id)
    /\ \A p \in DOMAIN log : log[p].kind = "AssistantResponse" =>
          \A i \in DOMAIN log[p].calls, j \in DOMAIN calls :
              log[p].calls[i].id = calls[j].id =>
                  \A k \in DOMAIN calls : \E m \in DOMAIN log[p].calls :
                      log[p].calls[m].id = calls[k].id

SkillQueueFits(log, inv, calls) ==
    /\ \A j \in DOMAIN calls : Makes(log, inv, calls[j].id)
    /\ \A j, k \in DOMAIN calls : calls[j].id = calls[k].id => j = k
    /\ \A j \in DOMAIN calls : ~HasResult(log, inv, calls[j].id)

WorkerFits(w, log) ==
    /\ RequestRecorded(w, log)
    /\ w.pc \in QueuePCs => QueueFits(log, w.calls)
    /\ w.pc = "skillExec" => SkillQueueFits(log, w.calls[1].id, w.skillCalls)
    /\ w.pc \in (Serving \ {"suspend"}) \union {"resume"} => SoleQuestions(log) = {}
    /\ w.pc = "suspend" => Paused(log)
    /\ w.pc \in Serving \union {"resume"} => Served(log, Queued(w))

HistoryInv ==
    /\ \A r \in Runs : GoodHistory(steps[r]) /\ RequestsPrecedeTurns(steps[r])
    /\ \A r \in Runs : r > latest => steps[r] = <<>>
    /\ WaitingForHuman => Paused(History)
    /\ latest > 0 => WorkerFits(worker, History)
    /\ latest = 0 => worker.iter = 0

-----------------------------------------------------------------------------
(***************************************************************************)
(* What one more step does to a history.                                   *)
(***************************************************************************)

\* The steps before a position stay the same.
LEMMA BeforeAppend ==
    ASSUME NEW log \in Seq(Step), NEW s \in Step
    PROVE  /\ \A p \in 1..Len(log) : Before(Append(log, s), p) = Before(log, p)
           /\ Before(Append(log, s), Len(log) + 1) = log
  <1> DEFINE longer == Append(log, s)
  <1>1. /\ Len(longer) = Len(log) + 1 /\ Len(log) \in Nat
        /\ longer \in Seq(Step)
        /\ \A p \in 1..Len(log) : longer[p] = log[p]
    BY AppendFacts
  <1> HIDE DEF longer
  <1>2. ASSUME NEW p \in 1..Len(log) PROVE Before(longer, p) = Before(log, p)
    BY <1>1, <1>2 DEF Before
  <1>3. Before(longer, Len(log) + 1) = log
    BY <1>1 DEF Before
  <1> QED BY <1>2, <1>3 DEF longer

\* A good history stays good when the next step fits.
LEMMA GoodAppend ==
    ASSUME NEW log \in Seq(Step), NEW s \in Step, GoodHistory(log), Fits(log, s)
    PROVE  GoodHistory(Append(log, s))
  <1>1. /\ DOMAIN Append(log, s) = 1..(Len(log) + 1) /\ DOMAIN log = 1..Len(log)
        /\ Append(log, s)[Len(log) + 1] = s
        /\ \A p \in 1..Len(log) : Append(log, s)[p] = log[p]
        /\ Len(log) \in Nat
    BY AppendFacts
  <1>2. ASSUME NEW p \in DOMAIN Append(log, s)
        PROVE  Fits(Before(Append(log, s), p), Append(log, s)[p])
    <2>1. CASE p \in 1..Len(log)
      BY <1>1, <2>1, BeforeAppend DEF GoodHistory
    <2>2. CASE p = Len(log) + 1
      BY <1>1, <2>2, BeforeAppend
    <2> QED BY <1>1, <2>1, <2>2
  <1> QED BY <1>2 DEF GoodHistory

\* A step is a result of one call, or it changes no results.
LEMMA ResultAppend ==
    ASSUME NEW log \in Seq(Step), NEW s \in Step
    PROVE  \A inv, id : HasResult(Append(log, s), inv, id) <=>
              \/ HasResult(log, inv, id)
              \/ s.kind \in Results /\ s.inv = inv /\ s.id = id
  <1>1. /\ DOMAIN Append(log, s) = 1..(Len(log) + 1) /\ DOMAIN log = 1..Len(log)
        /\ Append(log, s)[Len(log) + 1] = s
        /\ \A p \in 1..Len(log) : Append(log, s)[p] = log[p]
        /\ Len(log) \in Nat
    BY AppendFacts
  <1> QED BY <1>1 DEF HasResult

\* What a history says of calls and questions, a longer one says too.
LEMMA HistoryGrows ==
    ASSUME NEW log \in Seq(Step), NEW s \in Step
    PROVE  /\ \A inv, id : Makes(log, inv, id) => Makes(Append(log, s), inv, id)
           /\ \A inv : AskedBeside(log, inv) => AskedBeside(Append(log, s), inv)
           /\ \A inv : AskedIn(log, inv) => AskedIn(Append(log, s), inv)
           /\ \A p \in DOMAIN log : Excused(log, p) => Excused(Append(log, s), p)
  <1>1. /\ DOMAIN Append(log, s) = 1..(Len(log) + 1) /\ DOMAIN log = 1..Len(log)
        /\ Append(log, s)[Len(log) + 1] = s
        /\ \A p \in 1..Len(log) : Append(log, s)[p] = log[p]
        /\ Len(log) \in Nat
    BY AppendFacts
  <1>2. \A inv, id : Makes(log, inv, id) => Makes(Append(log, s), inv, id)
    BY <1>1 DEF Makes
  <1>3. \A inv : AskedBeside(log, inv) => AskedBeside(Append(log, s), inv)
    BY <1>1 DEF AskedBeside
  <1>4. \A inv : AskedIn(log, inv) => AskedIn(Append(log, s), inv)
    BY <1>1 DEF AskedIn
  <1>5. \A p \in DOMAIN log : Excused(log, p) => Excused(Append(log, s), p)
    BY <1>1, <1>4 DEF Excused
  <1> QED BY <1>2, <1>3, <1>4, <1>5

\* A response makes its calls.
LEMMA ResponseMakes ==
    ASSUME NEW log \in Seq(Step), NEW s \in Step, s.kind \in TurnKinds,
           NEW i \in DOMAIN s.calls
    PROVE  Makes(Append(log, s), s.inv, s.calls[i].id)
  <1>1. /\ DOMAIN Append(log, s) = 1..(Len(log) + 1)
        /\ Append(log, s)[Len(log) + 1] = s
        /\ Len(log) \in Nat
    BY AppendFacts
  <1> QED BY <1>1 DEF Makes

\* Only the step that records a request changes what is requested; every other
\* step can but answer it.
LEMMA RequestsAppend ==
    ASSUME NEW log \in Seq(Step), NEW s \in Step, s.kind # "SkillsRequested"
    PROVE  /\ RequestedIn(Append(log, s)) = RequestedIn(log)
           /\ OpenRequests(Append(log, s)) \subseteq OpenRequests(log)
  <1> DEFINE longer == Append(log, s)
  <1>1. /\ DOMAIN longer = 1..(Len(log) + 1) /\ DOMAIN log = 1..Len(log)
        /\ longer[Len(log) + 1] = s
        /\ \A p \in 1..Len(log) : longer[p] = log[p]
        /\ Len(log) \in Nat
    BY AppendFacts
  <1>2. \A inv, id : HasResult(log, inv, id) => HasResult(longer, inv, id)
    BY ResultAppend
  <1> HIDE DEF longer
  <1> DEFINE asking  == {p \in DOMAIN log : log[p].kind = "SkillsRequested"}
             asking2 == {p \in DOMAIN longer : longer[p].kind = "SkillsRequested"}
  <1>3. asking2 = asking
    BY <1>1
  <1> DEFINE asked  == CHOOSE p \in asking : TRUE
             asked2 == CHOOSE p \in asking2 : TRUE
  <1>4. asking # {} => asked \in 1..Len(log)
    BY <1>1
  <1>5. RequestedIn(longer) = RequestedIn(log)
    <2>1. RequestedIn(longer) = IF asking2 = {} THEN <<>> ELSE longer[asked2].calls
      BY DEF RequestedIn
    <2>2. RequestedIn(log) = IF asking = {} THEN <<>> ELSE log[asked].calls
      BY DEF RequestedIn
    <2>3. asked2 = asked
      BY <1>3, Zenon
    <2> HIDE DEF asked, asked2, asking, asking2
    <2> QED BY <1>1, <1>3, <1>4, <2>1, <2>2, <2>3
  <1>6. OpenRequests(longer) \subseteq OpenRequests(log)
    BY <1>2, <1>5 DEF OpenRequests
  <1> QED BY <1>5, <1>6 DEF longer

\* Turns come after what was requested also in the longer history.
LEMMA PrecedenceAppend ==
    ASSUME NEW log \in Seq(Step), NEW s \in Step, RequestsPrecedeTurns(log),
           IsTurn(s) => OpenRequests(log) = {},
           s.kind = "SkillsRequested" => Len(log) = 1 /\ log[1].kind = "UserMessage"
    PROVE  RequestsPrecedeTurns(Append(log, s))
  <1>1. /\ DOMAIN Append(log, s) = 1..(Len(log) + 1) /\ DOMAIN log = 1..Len(log)
        /\ Append(log, s)[Len(log) + 1] = s
        /\ \A p \in 1..Len(log) : Append(log, s)[p] = log[p]
        /\ Len(log) \in Nat
    BY AppendFacts
  <1>2. CASE s.kind # "SkillsRequested"
    <2>1. (\E p \in DOMAIN Append(log, s) : IsTurn(Append(log, s)[p])) => OpenRequests(log) = {}
      BY <1>1 DEF RequestsPrecedeTurns
    <2> QED BY <1>2, <2>1, RequestsAppend DEF RequestsPrecedeTurns
  <1>3. CASE s.kind = "SkillsRequested"
    <2>1. \A p \in DOMAIN Append(log, s) : ~IsTurn(Append(log, s)[p])
      BY <1>1, <1>3 DEF IsTurn
    <2> QED BY <2>1 DEF RequestsPrecedeTurns
  <1> QED BY <1>2, <1>3

\* Only a skill's response can be a new open question, and only the last one.
LEMMA QuestionsAppend ==
    ASSUME NEW log \in Seq(Step), NEW s \in Step
    PROVE  /\ \A t \in SoleQuestions(Append(log, s)) :
                 \/ /\ t \in SoleQuestions(log)
                    /\ Append(log, s)[t] = log[t]
                    /\ ~(s.kind \in Results /\ s.inv = log[t].inv /\ s.id = log[t].calls[1].id)
                 \/ /\ t = Len(log) + 1 /\ Append(log, s)[t] = s
                    /\ s.kind = "SkillAssistantResponse"
                    /\ DOMAIN s.calls = {1} /\ s.calls[1].tool \in HumanTools
  <1> DEFINE longer == Append(log, s)
  <1>1. /\ DOMAIN longer = 1..(Len(log) + 1) /\ DOMAIN log = 1..Len(log)
        /\ longer[Len(log) + 1] = s
        /\ \A p \in 1..Len(log) : longer[p] = log[p]
        /\ Len(log) \in Nat
    BY AppendFacts
  <1>2. \A inv, id : HasResult(longer, inv, id) <=>
              \/ HasResult(log, inv, id)
              \/ s.kind \in Results /\ s.inv = inv /\ s.id = id
    BY ResultAppend
  <1> HIDE DEF longer
  <1>3. ASSUME NEW t \in SoleQuestions(longer), t \in 1..Len(log)
        PROVE  /\ t \in SoleQuestions(log)
               /\ longer[t] = log[t]
               /\ ~(s.kind \in Results /\ s.inv = log[t].inv /\ s.id = log[t].calls[1].id)
    BY <1>1, <1>2, <1>3 DEF SoleQuestions
  <1>4. ASSUME NEW t \in SoleQuestions(longer), t \notin 1..Len(log)
        PROVE  /\ t = Len(log) + 1 /\ longer[t] = s
               /\ s.kind = "SkillAssistantResponse"
               /\ DOMAIN s.calls = {1} /\ s.calls[1].tool \in HumanTools
    BY <1>1, <1>4 DEF SoleQuestions
  <1> QED BY <1>3, <1>4 DEF longer

\* What was served stays so, and a result serves one more call.
LEMMA ServedAppend ==
    ASSUME NEW log \in Seq(Step), NEW s \in Step, NEW ids, NEW left, Served(log, ids),
           \A id \in ids : id \in left \/ (s.kind = "ToolResult" /\ s.inv = NoId /\ s.id = id),
           s.kind = "AssistantResponse" =>
              AsksHuman(s.calls) \/ \A i \in DOMAIN s.calls : s.calls[i].id \in left
    PROVE  Served(Append(log, s), left)
  <1> DEFINE longer == Append(log, s)
  <1>1. /\ DOMAIN longer = 1..(Len(log) + 1) /\ DOMAIN log = 1..Len(log)
        /\ longer[Len(log) + 1] = s
        /\ \A p \in 1..Len(log) : longer[p] = log[p]
        /\ Len(log) \in Nat
    BY AppendFacts
  <1>2. \A inv, id : HasResult(longer, inv, id) <=>
              \/ HasResult(log, inv, id)
              \/ s.kind \in Results /\ s.inv = inv /\ s.id = id
    BY ResultAppend
  <1>3. \A p \in DOMAIN log : Excused(log, p) => Excused(longer, p)
    BY HistoryGrows
  <1> HIDE DEF longer
  <1>4. ASSUME NEW p \in 1..Len(log), log[p].kind = "AssistantResponse"
        PROVE  \/ \A i \in DOMAIN longer[p].calls :
                     \/ HasResult(longer, NoId, longer[p].calls[i].id)
                     \/ longer[p].calls[i].id \in left
               \/ Excused(longer, p)
    BY <1>1, <1>2, <1>3, <1>4 DEF Served, Results
  <1>5. s.kind = "AssistantResponse" =>
          (\A i \in DOMAIN s.calls : s.calls[i].id \in left) \/ Excused(longer, Len(log) + 1)
    BY <1>1 DEF Excused
  <1>6. Served(longer, left)
    BY <1>1, <1>4, <1>5 DEF Served
  <1> QED BY <1>6 DEF longer

\* The steps before a position, one by one.
LEMMA BeforeFacts ==
    ASSUME NEW log \in Seq(Step), NEW p \in DOMAIN log
    PROVE  /\ Before(log, p) \in Seq(Step)
           /\ Len(Before(log, p)) = p - 1
           /\ DOMAIN Before(log, p) = 1..(p - 1)
           /\ \A j \in 1..(p - 1) : Before(log, p)[j] = log[j]
           /\ p \in 1..Len(log) /\ DOMAIN log = 1..Len(log) /\ Len(log) \in Nat
  BY DEF Before

\* What the steps before a position say of calls and results, all steps say.
LEMMA BeforeGrows ==
    ASSUME NEW log \in Seq(Step), NEW p \in DOMAIN log
    PROVE  /\ \A inv, id : Makes(Before(log, p), inv, id) => Makes(log, inv, id)
           /\ \A inv, id : HasResult(Before(log, p), inv, id) => HasResult(log, inv, id)
  <1>1. /\ DOMAIN Before(log, p) = 1..(p - 1)
        /\ \A j \in 1..(p - 1) : Before(log, p)[j] = log[j] /\ j \in DOMAIN log
    BY BeforeFacts
  <1>2. \A inv, id : Makes(Before(log, p), inv, id) => Makes(log, inv, id)
    BY <1>1 DEF Makes
  <1>3. \A inv, id : HasResult(Before(log, p), inv, id) => HasResult(log, inv, id)
    BY <1>1 DEF HasResult
  <1> QED BY <1>2, <1>3

\* The step at a position of a good history.
LEMMA GoodStep ==
    ASSUME NEW log \in Seq(Step), GoodHistory(log), NEW p \in DOMAIN log
    PROVE  /\ log[p] \in Step /\ log[p].calls \in Seq(Call)
           /\ p \in 1..Len(log) /\ Len(log) \in Nat
           /\ log[p].kind \in TurnKinds => Named(p, log[p])
           /\ log[p].kind \in {"AssistantResponse", "ToolResult"} => log[p].inv = NoId
           /\ log[p].kind \in {"SkillAssistantResponse", "SkillToolResult"} => log[p].inv # NoId
           /\ log[p].kind = "SkillAssistantResponse" => Makes(log, NoId, log[p].inv)
           /\ log[p].kind \in Results => Makes(log, log[p].inv, log[p].id)
  <1>1. Fits(Before(log, p), log[p])
    BY DEF GoodHistory
  <1>2. /\ Len(Before(log, p)) + 1 = p
        /\ p \in 1..Len(log) /\ DOMAIN log = 1..Len(log) /\ Len(log) \in Nat
    BY BeforeFacts
  <1>3. \A inv, id : Makes(Before(log, p), inv, id) => Makes(log, inv, id)
    BY BeforeGrows
  <1>4. log[p] \in Step
    BY <1>2
  <1>5. log[p].calls \in Seq(Call)
    BY <1>4 DEF Step
  <1> QED BY <1>1, <1>2, <1>3, <1>4, <1>5 DEF Fits, ResultFits

\* The id of a call tells a position of the history, and is never NoId; a call
\* outside skills was made by the main loop.
LEMMA MadeIsNamed ==
    ASSUME NEW log \in Seq(Step), GoodHistory(log), NEW inv, NEW id, Makes(log, inv, id)
    PROVE  /\ id # NoId
           /\ id[1] \in 0..Len(log)
           /\ inv = NoId => \E p \in DOMAIN log :
                 /\ log[p].kind = "AssistantResponse"
                 /\ \E i \in DOMAIN log[p].calls : log[p].calls[i].id = id
  <1>1. PICK p \in DOMAIN log : /\ log[p].kind \in TurnKinds
                                /\ log[p].inv = inv
                                /\ \E i \in DOMAIN log[p].calls : log[p].calls[i].id = id
    BY DEF Makes
  <1>2. PICK i \in DOMAIN log[p].calls : log[p].calls[i].id = id
    BY <1>1
  <1>3. /\ Named(p, log[p]) /\ p \in 1..Len(log) /\ Len(log) \in Nat
        /\ log[p].kind = "SkillAssistantResponse" => log[p].inv # NoId
    BY <1>1, GoodStep
  <1>4. CASE IsRequest(log[p])
    <2>1. i = 1
      BY <1>2, <1>4 DEF IsRequest
    <2> QED BY <1>1, <1>2, <1>3, <1>4, <2>1 DEF IsRequest, TurnKinds
  <1>5. CASE ~IsRequest(log[p])
    <2>1. id = <<p, i>>
      BY <1>2, <1>3, <1>5 DEF Named
    <2>2. id[1] = p
      BY <2>1
    <2>3. id # NoId
      BY <1>3, <2>2 DEF NoId
    <2> QED BY <1>1, <1>2, <1>3, <2>2, <2>3 DEF TurnKinds
  <1> QED BY <1>4, <1>5

\* What has a result was called.
LEMMA ResultsAreMade ==
    ASSUME NEW log \in Seq(Step), GoodHistory(log), NEW inv, NEW id, HasResult(log, inv, id)
    PROVE  Makes(log, inv, id)
  <1>1. PICK q \in DOMAIN log : log[q].kind \in Results /\ log[q].inv = inv /\ log[q].id = id
    BY DEF HasResult
  <1> QED BY <1>1, GoodStep

\* The calls of the next response have no results yet.
LEMMA NextCallsAreFresh ==
    ASSUME NEW log \in Seq(Step), GoodHistory(log), NEW inv, NEW i
    PROVE  /\ ~HasResult(log, inv, <<Len(log) + 1, i>>)
           /\ ~Makes(log, inv, <<Len(log) + 1, i>>)
  <1>1. Len(log) \in Nat
    OBVIOUS
  <1>2. ~Makes(log, inv, <<Len(log) + 1, i>>)
    <2>1. SUFFICES ASSUME Makes(log, inv, <<Len(log) + 1, i>>) PROVE FALSE
      OBVIOUS
    <2>2. <<Len(log) + 1, i>>[1] \in 0..Len(log)
      BY <2>1, MadeIsNamed
    <2> QED BY <1>1, <2>2
  <1> QED BY <1>2, ResultsAreMade

-----------------------------------------------------------------------------
(***************************************************************************)
(* What one more step does to the calls that wait in a queue.              *)
(***************************************************************************)

\* A step that is neither a main response nor a main result leaves the queue.
LEMMA QueueStays ==
    ASSUME NEW log \in Seq(Step), NEW s \in Step, NEW calls, QueueFits(log, calls),
           s.kind # "AssistantResponse", ~(s.kind \in Results /\ s.inv = NoId)
    PROVE  QueueFits(Append(log, s), calls)
  <1> DEFINE longer == Append(log, s)
  <1>1. /\ DOMAIN longer = 1..(Len(log) + 1) /\ DOMAIN log = 1..Len(log)
        /\ longer[Len(log) + 1] = s
        /\ \A p \in 1..Len(log) : longer[p] = log[p]
        /\ Len(log) \in Nat
    BY AppendFacts
  <1>2. \A id : HasResult(longer, NoId, id) => HasResult(log, NoId, id)
    BY ResultAppend
  <1>3. /\ \A id : Makes(log, NoId, id) => Makes(longer, NoId, id)
        /\ \A inv : AskedBeside(log, inv) => AskedBeside(longer, inv)
    BY HistoryGrows
  <1> HIDE DEF longer
  <1>4. \A j \in DOMAIN calls : Makes(longer, NoId, calls[j].id)
    BY <1>3 DEF QueueFits
  <1>5. \A j \in DOMAIN calls :
          HasResult(longer, NoId, calls[j].id) => j = 1 /\ AskedBeside(longer, calls[j].id)
    BY <1>2, <1>3 DEF QueueFits
  <1>6. \A p \in DOMAIN longer : longer[p].kind = "AssistantResponse" =>
          p \in DOMAIN log /\ longer[p] = log[p]
    BY <1>1
  <1>7. QueueFits(longer, calls)
    BY <1>4, <1>5, <1>6 DEF QueueFits
  <1> QED BY <1>7 DEF longer

\* The result of the call at the head leaves the rest of the queue.
LEMMA QueueShrinks ==
    ASSUME NEW log \in Seq(Step), NEW s \in Step, NEW calls \in Seq(Call), Len(calls) > 1,
           QueueFits(log, calls), s.kind = "ToolResult", s.id = calls[1].id
    PROVE  QueueFits(Append(log, s), Tail(calls))
  <1> DEFINE longer == Append(log, s)
             rest == Tail(calls)
  <1>1. /\ DOMAIN longer = 1..(Len(log) + 1) /\ DOMAIN log = 1..Len(log)
        /\ longer[Len(log) + 1] = s
        /\ \A p \in 1..Len(log) : longer[p] = log[p]
        /\ Len(log) \in Nat
    BY AppendFacts
  <1>2. \A id : HasResult(longer, NoId, id) => HasResult(log, NoId, id) \/ id = calls[1].id
    BY ResultAppend
  <1>3. \A id : Makes(log, NoId, id) => Makes(longer, NoId, id)
    BY HistoryGrows
  <1>4. /\ DOMAIN calls = 1..Len(calls) /\ Len(calls) \in Nat
        /\ DOMAIN rest = 1..(Len(calls) - 1)
        /\ \A j \in DOMAIN rest : rest[j] = calls[j + 1] /\ j + 1 \in DOMAIN calls /\ j + 1 # 1
    OBVIOUS
  <1> HIDE DEF longer, rest
  <1>5. \A j \in DOMAIN rest : Makes(longer, NoId, rest[j].id)
    BY <1>3, <1>4 DEF QueueFits
  <1>6. \A j, k \in DOMAIN rest : rest[j].id = rest[k].id => j = k
    <2>1. SUFFICES ASSUME NEW j \in DOMAIN rest, NEW k \in DOMAIN rest, rest[j].id = rest[k].id
                   PROVE  j = k
      OBVIOUS
    <2>2. j + 1 = k + 1
      BY <1>4, <2>1 DEF QueueFits
    <2> QED BY <1>4, <2>2
  <1>7. \A j \in DOMAIN rest : ~HasResult(longer, NoId, rest[j].id)
    <2>1. SUFFICES ASSUME NEW j \in DOMAIN rest, HasResult(longer, NoId, rest[j].id)
                   PROVE  FALSE
      OBVIOUS
    <2>2. j + 1 \in DOMAIN calls /\ j + 1 # 1 /\ 1 \in DOMAIN calls
      BY <1>4
    <2>3. calls[j + 1].id # calls[1].id
      BY <2>2 DEF QueueFits
    <2>4. HasResult(log, NoId, calls[j + 1].id)
      BY <1>2, <1>4, <2>1, <2>3
    <2> QED BY <2>2, <2>4 DEF QueueFits
  <1>8. \A p \in DOMAIN longer : longer[p].kind = "AssistantResponse" =>
          p \in DOMAIN log /\ longer[p] = log[p]
    BY <1>1
  <1>9. ASSUME NEW p \in DOMAIN longer, longer[p].kind = "AssistantResponse",
               NEW i \in DOMAIN longer[p].calls, NEW j \in DOMAIN rest,
               longer[p].calls[i].id = rest[j].id, NEW k \in DOMAIN rest
        PROVE  \E m \in DOMAIN longer[p].calls : longer[p].calls[m].id = rest[k].id
    <2>1. p \in DOMAIN log /\ longer[p] = log[p]
      BY <1>8, <1>9
    <2>2. log[p].calls[i].id = calls[j + 1].id /\ j + 1 \in DOMAIN calls /\ k + 1 \in DOMAIN calls
      BY <1>4, <1>9, <2>1
    <2>3. \E m \in DOMAIN log[p].calls : log[p].calls[m].id = calls[k + 1].id
      BY <1>9, <2>1, <2>2 DEF QueueFits
    <2> QED BY <1>4, <2>1, <2>3
  <1>10. QueueFits(longer, rest)
    BY <1>5, <1>6, <1>7, <1>9 DEF QueueFits
  <1> QED BY <1>10 DEF longer, rest

\* The calls of a new response of the model make a queue.
LEMMA QueueOfTurn ==
    ASSUME NEW log \in Seq(Step), GoodHistory(log), NEW s \in Step,
           s.kind = "AssistantResponse", s.inv = NoId,
           \A i \in DOMAIN s.calls : s.calls[i].id = <<Len(log) + 1, i>>
    PROVE  QueueFits(Append(log, s), s.calls)
  <1> DEFINE longer == Append(log, s)
  <1>1. /\ DOMAIN longer = 1..(Len(log) + 1) /\ DOMAIN log = 1..Len(log)
        /\ longer[Len(log) + 1] = s
        /\ \A p \in 1..Len(log) : longer[p] = log[p]
        /\ Len(log) \in Nat
    BY AppendFacts
  <1>2. \A id : HasResult(longer, NoId, id) => HasResult(log, NoId, id)
    BY ResultAppend DEF Results
  <1>3. \A j \in DOMAIN s.calls : Makes(longer, NoId, s.calls[j].id)
    BY ResponseMakes DEF TurnKinds
  <1> HIDE DEF longer
  <1>4. \A j, k \in DOMAIN s.calls : s.calls[j].id = s.calls[k].id => j = k
    <2>1. SUFFICES ASSUME NEW j \in DOMAIN s.calls, NEW k \in DOMAIN s.calls,
                          s.calls[j].id = s.calls[k].id
                   PROVE  j = k
      OBVIOUS
    <2>2. <<Len(log) + 1, j>> = <<Len(log) + 1, k>>
      BY <2>1
    <2> QED BY <2>2
  <1>5. \A j \in DOMAIN s.calls : ~HasResult(longer, NoId, s.calls[j].id)
    BY <1>2, NextCallsAreFresh
  <1>6. ASSUME NEW p \in DOMAIN longer, longer[p].kind = "AssistantResponse",
               NEW i \in DOMAIN longer[p].calls, NEW j \in DOMAIN s.calls,
               longer[p].calls[i].id = s.calls[j].id, NEW k \in DOMAIN s.calls
        PROVE  \E m \in DOMAIN longer[p].calls : longer[p].calls[m].id = s.calls[k].id
    <2>1. CASE p = Len(log) + 1
      BY <1>1, <2>1
    <2>2. CASE p \in 1..Len(log)
      <3>1. p \in DOMAIN log /\ log[p] = longer[p]
        BY <1>1, <2>2
      <3>2. Makes(log, log[p].inv, <<Len(log) + 1, j>>)
        BY <1>6, <3>1 DEF Makes, TurnKinds
      <3> QED BY <3>2, NextCallsAreFresh
    <2> QED BY <1>1, <2>1, <2>2
  <1>7. QueueFits(longer, s.calls)
    BY <1>3, <1>4, <1>5, <1>6 DEF QueueFits
  <1> QED BY <1>7 DEF longer

\* One call that was made is a queue, when it has no result or may have two.
LEMMA QueueOfOne ==
    ASSUME NEW log \in Seq(Step), NEW call \in Call, Makes(log, NoId, call.id),
           HasResult(log, NoId, call.id) => AskedBeside(log, call.id)
    PROVE  QueueFits(log, <<call>>)
  <1>1. DOMAIN <<call>> = {1} /\ <<call>>[1] = call
    OBVIOUS
  <1> QED BY <1>1 DEF QueueFits

-----------------------------------------------------------------------------
(***************************************************************************)
(* The same for the calls of a skill.                                      *)
(***************************************************************************)

\* The calls of a skill's new response make its queue.
LEMMA SkillQueueOfTurn ==
    ASSUME NEW log \in Seq(Step), GoodHistory(log), NEW s \in Step,
           s.kind = "SkillAssistantResponse",
           \A i \in DOMAIN s.calls : s.calls[i].id = <<Len(log) + 1, i>>
    PROVE  SkillQueueFits(Append(log, s), s.inv, s.calls)
  <1> DEFINE longer == Append(log, s)
  <1>1. \A id : HasResult(longer, s.inv, id) => HasResult(log, s.inv, id)
    BY ResultAppend DEF Results
  <1>2. \A j \in DOMAIN s.calls : Makes(longer, s.inv, s.calls[j].id)
    BY ResponseMakes DEF TurnKinds
  <1> HIDE DEF longer
  <1>3. \A j, k \in DOMAIN s.calls : s.calls[j].id = s.calls[k].id => j = k
    <2>1. SUFFICES ASSUME NEW j \in DOMAIN s.calls, NEW k \in DOMAIN s.calls,
                          s.calls[j].id = s.calls[k].id
                   PROVE  j = k
      OBVIOUS
    <2>2. <<Len(log) + 1, j>> = <<Len(log) + 1, k>>
      BY <2>1
    <2> QED BY <2>2
  <1>4. \A j \in DOMAIN s.calls : ~HasResult(longer, s.inv, s.calls[j].id)
    BY <1>1, NextCallsAreFresh
  <1>5. SkillQueueFits(longer, s.inv, s.calls)
    BY <1>2, <1>3, <1>4 DEF SkillQueueFits
  <1> QED BY <1>5 DEF longer

\* The result of the skill's call at the head leaves the rest.
LEMMA SkillQueueShrinks ==
    ASSUME NEW log \in Seq(Step), NEW s \in Step, NEW inv, NEW calls \in Seq(Call),
           Len(calls) > 1, SkillQueueFits(log, inv, calls), s.id = calls[1].id
    PROVE  SkillQueueFits(Append(log, s), inv, Tail(calls))
  <1> DEFINE longer == Append(log, s)
             rest == Tail(calls)
  <1>1. \A id : HasResult(longer, inv, id) => HasResult(log, inv, id) \/ id = calls[1].id
    BY ResultAppend
  <1>2. \A id : Makes(log, inv, id) => Makes(longer, inv, id)
    BY HistoryGrows
  <1>3. /\ DOMAIN calls = 1..Len(calls) /\ Len(calls) \in Nat
        /\ DOMAIN rest = 1..(Len(calls) - 1)
        /\ \A j \in DOMAIN rest : rest[j] = calls[j + 1] /\ j + 1 \in DOMAIN calls /\ j + 1 # 1
    OBVIOUS
  <1> HIDE DEF longer, rest
  <1>4. \A j \in DOMAIN rest : Makes(longer, inv, rest[j].id)
    BY <1>2, <1>3 DEF SkillQueueFits
  <1>5. \A j, k \in DOMAIN rest : rest[j].id = rest[k].id => j = k
    <2>1. SUFFICES ASSUME NEW j \in DOMAIN rest, NEW k \in DOMAIN rest, rest[j].id = rest[k].id
                   PROVE  j = k
      OBVIOUS
    <2>2. j + 1 = k + 1
      BY <1>3, <2>1 DEF SkillQueueFits
    <2> QED BY <1>3, <2>2
  <1>6. \A j \in DOMAIN rest : ~HasResult(longer, inv, rest[j].id)
    <2>1. SUFFICES ASSUME NEW j \in DOMAIN rest, HasResult(longer, inv, rest[j].id)
                   PROVE  FALSE
      OBVIOUS
    <2>2. j + 1 \in DOMAIN calls /\ j + 1 # 1 /\ 1 \in DOMAIN calls
      BY <1>3
    <2>3. calls[j + 1].id # calls[1].id
      BY <2>2 DEF SkillQueueFits
    <2>4. HasResult(log, inv, calls[j + 1].id)
      BY <1>1, <1>3, <2>1, <2>3
    <2> QED BY <2>2, <2>4 DEF SkillQueueFits
  <1>7. SkillQueueFits(longer, inv, rest)
    BY <1>4, <1>5, <1>6 DEF SkillQueueFits
  <1> QED BY <1>7 DEF longer, rest

-----------------------------------------------------------------------------
(***************************************************************************)
(* From what a step does to its run to the invariant.                      *)
(***************************************************************************)

\* The absent worker fits every history.
LEMMA IdleFits ==
    ASSUME NEW log
    PROVE  WorkerFits(Idle, log)
  BY DEF WorkerFits, RequestRecorded, Idle, QueuePCs, SkillPCs, Serving

\* Only the control point, the iteration and the queues matter.
LEMMA SameFits ==
    ASSUME NEW log, NEW v, NEW w, WorkerFits(v, log),
           w.pc = v.pc, w.iter = v.iter, w.calls = v.calls, w.skillCalls = v.skillCalls
    PROVE  WorkerFits(w, log)
  <1>1. RequestRecorded(w, log)
    BY DEF WorkerFits, RequestRecorded
  <1>2. Queued(w) = Queued(v)
    BY DEF Queued
  <1> QED BY <1>1, <1>2 DEF WorkerFits

\* What holds while the worker serves a run.
LEMMA ServingFacts ==
    ASSUME TypeInv, WorkerMatchesStore, HistoryInv, worker.pc \in Serving
    PROVE  /\ latest > 0 /\ latest \in Runs /\ ~WaitingForHuman
           /\ History \in Seq(Step) /\ GoodHistory(History)
           /\ WorkerFits(worker, History)
           /\ SoleQuestions(History) = {} \/ worker.pc = "suspend"
           /\ Served(History, Queued(worker))
           /\ worker \in Worker /\ worker.calls \in Seq(Call) /\ worker.skillCalls \in Seq(Call)
  <1>1. latest > 0 /\ status[latest] = "Running"
    BY DEF WorkerMatchesStore, Serving, PCs
  <1>2. latest \in Runs
    BY <1>1, RunLoopAssumption DEF TypeInv, TypeOK, Runs
  <1>3. History \in Seq(Step)
    BY <1>1, HistoryType DEF TypeInv
  <1>4. GoodHistory(History) /\ WorkerFits(worker, History)
    BY <1>1, <1>2 DEF HistoryInv, History
  <1>5. worker \in Worker
    BY DEF TypeInv, TypeOK
  <1>6. worker.calls \in Seq(Call) /\ worker.skillCalls \in Seq(Call)
    BY <1>5 DEF Worker
  <1> QED BY <1>1, <1>2, <1>3, <1>4, <1>5, <1>6 DEF WorkerFits, WaitingForHuman

\* A step that records nothing keeps the invariant when the worker still fits.
LEMMA QuietKeeps ==
    ASSUME TypeInv, HistoryInv, UNCHANGED <<steps, latest>>,
           WaitingForHuman' => Paused(History),
           latest > 0 => WorkerFits(worker', History),
           latest = 0 => worker'.iter = 0
    PROVE  HistoryInv'
  <1>1. History' = History
    BY DEF History
  <1>2. WorkerFits(worker, History)' <=> WorkerFits(worker', History)
    BY <1>1
  <1> QED BY <1>1, <1>2 DEF HistoryInv

\* A step that records something keeps it when the recorded step fits, and the
\* worker fits the longer history.
LEMMA AppendKeeps ==
    ASSUME TypeInv, HistoryInv, latest > 0, UNCHANGED <<status, latest>>,
           NEW s \in Step, Append1(s), Fits(History, s),
           WaitingForHuman => Paused(Append(History, s)),
           WorkerFits(worker', Append(History, s))
    PROVE  HistoryInv'
  <1>1. /\ latest \in Runs
        /\ steps'[latest] = Append(History, s)
        /\ History \in Seq(Step)
        /\ \A r \in Runs : r # latest => steps'[r] = steps[r]
    BY AppendedHistory DEF TypeInv, History
  <1>2. History' = Append(History, s)
    BY <1>1 DEF History
  <1>3. GoodHistory(History) /\ RequestsPrecedeTurns(History)
    BY <1>1 DEF HistoryInv, History
  <1>4. GoodHistory(Append(History, s))
    BY <1>1, <1>3, GoodAppend
  <1>5. RequestsPrecedeTurns(Append(History, s))
    <2>1. IsTurn(s) => OpenRequests(History) = {}
      BY DEF Fits, ResponseFits, IsTurn
    <2>2. s.kind = "SkillsRequested" => Len(History) = 1 /\ History[1].kind = "UserMessage"
      BY DEF Fits, RequestFits
    <2> QED BY <1>1, <1>3, <2>1, <2>2, PrecedenceAppend
  <1>6. \A r \in Runs : (GoodHistory(steps[r]) /\ RequestsPrecedeTurns(steps[r]))'
    BY <1>1, <1>4, <1>5 DEF HistoryInv
  <1>7. \A r \in Runs : (r > latest => steps[r] = <<>>)'
    BY <1>1 DEF HistoryInv, Runs
  <1>8. WaitingForHuman' <=> WaitingForHuman
    BY DEF WaitingForHuman
  <1> QED BY <1>2, <1>6, <1>7, <1>8 DEF HistoryInv

\* Unless a skill asks, no step opens a question of a skill.
LEMMA NoNewQuestion ==
    ASSUME NEW log \in Seq(Step), NEW s \in Step, SoleQuestions(log) = {},
           s.kind = "SkillAssistantResponse" =>
              ~(DOMAIN s.calls = {1} /\ s.calls[1].tool \in HumanTools)
    PROVE  SoleQuestions(Append(log, s)) = {}
  BY QuestionsAppend

\* What is requested has the names that the loop gives it.
LEMMA RequestedAreNamed ==
    ASSUME NEW log \in Seq(Step), GoodHistory(log), NEW k \in DOMAIN RequestedIn(log)
    PROVE  /\ RequestedIn(log)[k] = [id |-> <<0, k>>, tool |-> "call_skill"]
           /\ k \in Nat \ {0}
           /\ RequestedIn(log)[k] \in Call
  <1> DEFINE asking == {p \in DOMAIN log : log[p].kind = "SkillsRequested"}
             asked  == CHOOSE p \in asking : TRUE
  <1>1. RequestedIn(log) = IF asking = {} THEN <<>> ELSE log[asked].calls
    BY DEF RequestedIn
  <1>2. RequestedIn(log) \in Seq(Call)
    BY RequestedInType
  <1>3. RequestedIn(log)[k] \in Call /\ k \in Nat \ {0}
    BY <1>2
  <1>4. asking # {}
    BY <1>1
  <1>5. asked \in DOMAIN log /\ log[asked].kind = "SkillsRequested"
    BY <1>4
  <1> HIDE DEF asked, asking
  <1>6. Fits(Before(log, asked), log[asked])
    BY <1>5 DEF GoodHistory
  <1>7. RequestFits(Before(log, asked), log[asked])
    BY <1>5, <1>6 DEF Fits
  <1> QED BY <1>1, <1>3, <1>4, <1>7 DEF RequestFits

-----------------------------------------------------------------------------
(***************************************************************************)
(* Opening a run.                                                          *)
(***************************************************************************)

\* A run that has just been created has an empty history, which is good.
LEMMA StartRunHistory ==
    TypeInv /\ WorkerMatchesStore /\ HistoryInv /\ StartRun => HistoryInv'
  <1> SUFFICES ASSUME TypeInv, WorkerMatchesStore, HistoryInv, StartRun PROVE HistoryInv'
    OBVIOUS
  <1>1. latest + 1 \in Runs /\ latest \in Nat /\ latest' = latest + 1 /\ steps' = steps
    BY RunLoopAssumption DEF StartRun, TypeInv, TypeOK, Runs
  <1>2. steps[latest + 1] = <<>>
    BY <1>1 DEF HistoryInv, Runs
  <1>3. History' = <<>>
    BY <1>1, <1>2 DEF History
  <1>4. worker'.pc = "created" /\ worker'.iter = 0
    <2>1. worker.iter = 0
      BY <1>1 DEF HistoryInv, WorkerFits, RequestRecorded, StartRun, At
    <2> QED BY <2>1 DEF StartRun, TypeInv, TypeOK, Worker
  <1>5. SoleQuestions(<<>>) = {} /\ \A ids : Served(<<>>, ids)
    BY DEF SoleQuestions, Served
  <1>6. WorkerFits(worker', <<>>)
    BY <1>4, <1>5 DEF WorkerFits, RequestRecorded, QueuePCs, SkillPCs
  <1>7. ~WaitingForHuman'
    BY <1>1 DEF WaitingForHuman, StartRun, TypeInv, TypeOK
  <1>8. latest' > 0
    BY <1>1
  <1> QED BY <1>1, <1>3, <1>6, <1>7, <1>8 DEF HistoryInv, Runs

\* The request, what it asks for by name, and the calls made for that, fit.
LEMMA OpenHistory ==
    TypeInv /\ WorkerMatchesStore /\ HistoryInv /\ Open => HistoryInv'
  <1> SUFFICES ASSUME TypeInv, WorkerMatchesStore, HistoryInv, Open PROVE HistoryInv'
    OBVIOUS
  <1>0. worker.pc \in {"created", "requesting", "explicit"}
    BY DEF Open, RecordUserMessage, RecordSkillsRequested, CallRequestedSkill,
       FinishRequestedSkills, At
  <1>1. /\ latest > 0 /\ ~WaitingForHuman
        /\ History \in Seq(Step) /\ GoodHistory(History)
        /\ WorkerFits(worker, History) /\ RequestRecorded(worker, History)
        /\ SoleQuestions(History) = {}
        /\ Served(History, {})
        /\ worker \in Worker
    <2>1. worker.pc \in Serving /\ worker.pc \notin QueuePCs /\ worker.pc # "suspend"
      BY <1>0 DEF Serving, PCs, QueuePCs, SkillPCs
    <2>2. Queued(worker) = {}
      BY <2>1 DEF Queued
    <2> QED BY <2>1, <2>2, ServingFacts DEF WorkerFits
  <1>2. NoId \in Ids /\ <<>> \in Seq(Call) /\ {} \in SUBSET Nat
    BY EmptySeq DEF NoId, Ids
  <1>3. CASE RecordUserMessage
    <2> DEFINE s == NewStep("UserMessage", NoId, NoId, <<>>, {})
    <2>1. s \in Step /\ s.kind = "UserMessage"
      BY <1>2, NewStepType DEF NewStep, StepKinds
    <2>2. Append1(s) /\ UNCHANGED <<status, latest>> /\ worker.pc = "created"
      BY <1>3 DEF RecordUserMessage, At
    <2> HIDE DEF s
    <2>3. Fits(History, s)
      BY <2>1 DEF Fits, TurnKinds, Results
    <2>4. worker'.pc \in {"requesting", "explicit"} /\ worker'.iter = 0
      BY <1>1, <1>3, <2>2 DEF RecordUserMessage, Goto, Worker, RequestRecorded
    <2>5. Len(Append(History, s)) = 1 /\ Append(History, s)[1] = s
      <3>1. Len(History) = 0
        BY <1>1, <2>2 DEF RequestRecorded
      <3> QED BY <1>1, <3>1, AppendFacts
    <2>6. SoleQuestions(Append(History, s)) = {}
      BY <1>1, <2>1, NoNewQuestion
    <2>7. Served(Append(History, s), {})
      BY <1>1, <2>1, ServedAppend
    <2>8. Queued(worker') = {}
      BY <2>4 DEF Queued, QueuePCs, SkillPCs
    <2>9. WorkerFits(worker', Append(History, s))
      BY <2>1, <2>4, <2>5, <2>6, <2>7, <2>8 DEF WorkerFits, RequestRecorded, QueuePCs, SkillPCs
    <2> QED BY <1>1, <2>1, <2>2, <2>3, <2>9, AppendKeeps
  <1>4. CASE RecordSkillsRequested
    <2> DEFINE calls == RequestedCalls(worker.requested)
               s == NewStep("SkillsRequested", NoId, NoId, calls, {})
    <2>1. worker.requested \in Nat
      BY <1>1, RunLoopAssumption DEF Worker
    <2>2. calls \in Seq(Call)
      BY <2>1, RequestedCallsType
    <2>3. s \in Step /\ s.kind = "SkillsRequested" /\ s.calls = calls
      BY <1>2, <2>2, NewStepType DEF NewStep, StepKinds
    <2>4. Append1(s) /\ UNCHANGED <<status, latest>> /\ worker.pc = "requesting"
      BY <1>4 DEF RecordSkillsRequested, At
    <2>5. \A k \in DOMAIN calls : calls[k] = [id |-> <<0, k>>, tool |-> "call_skill"]
      BY DEF RequestedCalls
    <2> HIDE DEF s, calls
    <2>6. Fits(History, s)
      BY <1>1, <2>3, <2>4, <2>5 DEF Fits, TurnKinds, Results, RequestFits, RequestRecorded
    <2>7. worker'.pc = "explicit" /\ worker'.iter = 0
      BY <1>1, <1>4, <2>4 DEF RecordSkillsRequested, Goto, Worker, RequestRecorded
    <2>8. SoleQuestions(Append(History, s)) = {}
      BY <1>1, <2>3, NoNewQuestion
    <2>9. Served(Append(History, s), {})
      BY <1>1, <2>3, ServedAppend
    <2>10. Queued(worker') = {}
      BY <2>7 DEF Queued, QueuePCs, SkillPCs
    <2>11. WorkerFits(worker', Append(History, s))
      BY <2>7, <2>8, <2>9, <2>10 DEF WorkerFits, RequestRecorded, QueuePCs, SkillPCs
    <2> QED BY <1>1, <2>3, <2>4, <2>6, <2>11, AppendKeeps
  <1>5. CASE CallRequestedSkill
    <2>1. PICK k \in OpenRequests(History) :
             /\ \A j \in OpenRequests(History) : k <= j
             /\ LET call == RequestedIn(History)[k]
                IN  /\ Append1(NewStep("AssistantResponse", NoId, NoId, <<call>>, {}))
                    /\ worker' = [worker EXCEPT !.pc = "exec", !.calls = <<call>>]
      BY <1>5 DEF CallRequestedSkill
    <2> DEFINE call == RequestedIn(History)[k]
               s == NewStep("AssistantResponse", NoId, NoId, <<call>>, {})
    <2>2. /\ k \in DOMAIN RequestedIn(History)
          /\ ~HasResult(History, NoId, call.id)
      BY <2>1 DEF OpenRequests
    <2>3. call = [id |-> <<0, k>>, tool |-> "call_skill"] /\ k \in Nat \ {0} /\ call \in Call
      BY <1>1, <2>2, RequestedAreNamed
    <2>4. Append1(s) /\ UNCHANGED <<status, latest>> /\ worker.pc = "explicit"
      BY <1>5, <2>1 DEF CallRequestedSkill, At
    <2>5. worker' = [worker EXCEPT !.pc = "exec", !.calls = <<call>>]
      BY <2>1
    <2> HIDE DEF call
    <2>6. s \in Step /\ s.kind = "AssistantResponse" /\ s.calls = <<call>> /\ s.inv = NoId
      <3>1. <<call>> \in Seq(Call)
        BY <2>3
      <3> QED BY <1>2, <3>1, NewStepType DEF NewStep, StepKinds
    <2> HIDE DEF s
    <2>7. DOMAIN <<call>> = {1} /\ <<call>>[1] = call
      OBVIOUS
    <2>8. call.id[1] = 0 /\ call.id[2] = k /\ call.id # NoId /\ call.tool = "call_skill"
      BY <2>3 DEF NoId
    <2>9. IsRequest(s) /\ ~IsTurn(s)
      BY <2>6, <2>7, <2>8 DEF IsRequest, IsTurn
    <2>10. \A j \in DOMAIN RequestedIn(History) : j < k => j \notin OpenRequests(History)
      <3>1. DOMAIN RequestedIn(History) \subseteq Nat
        BY <1>1, RequestedAreNamed
      <3> QED BY <2>1, <2>3, <3>1
    <2>11. Fits(History, s)
      BY <2>6, <2>7, <2>8, <2>9, <2>10 DEF Fits, Named, ResponseFits, TurnKinds, Results
    <2>12. QueueFits(Append(History, s), <<call>>)
      <3>1. Makes(Append(History, s), NoId, call.id)
        BY <1>1, <2>6, <2>7, ResponseMakes DEF TurnKinds
      <3>2. ~HasResult(Append(History, s), NoId, call.id)
        BY <1>1, <2>2, <2>6, ResultAppend DEF Results, call
      <3>3. Append(History, s) \in Seq(Step)
        BY <1>1, <2>6
      <3> QED BY <2>3, <3>1, <3>2, <3>3, QueueOfOne
    <2>13. SoleQuestions(Append(History, s)) = {}
      BY <1>1, <2>6, NoNewQuestion
    <2>14. /\ worker'.pc = "exec" /\ worker'.iter = worker.iter /\ worker'.calls = <<call>>
      BY <1>1, <2>5 DEF Worker
    <2>15. Queued(worker') = {call.id}
      BY <2>7, <2>14 DEF Queued, QueuePCs
    <2>16. Served(Append(History, s), {call.id})
      BY <1>1, <2>6, <2>7, ServedAppend
    <2>17. worker'.iter # 0 => OpenRequests(Append(History, s)) = {}
      BY <1>1, <2>6, <2>14, RequestsAppend DEF RequestRecorded
    <2>18. WorkerFits(worker', Append(History, s))
      BY <2>12, <2>13, <2>14, <2>15, <2>16, <2>17 DEF WorkerFits, RequestRecorded
    <2> QED BY <1>1, <2>4, <2>6, <2>11, <2>18, AppendKeeps
  <1>6. CASE FinishRequestedSkills
    <2>1. /\ worker'.pc = "llm" /\ worker'.iter = 1
          /\ UNCHANGED <<status, steps, latest>> /\ OpenRequests(History) = {}
      BY <1>1, <1>6 DEF FinishRequestedSkills, StoreUnchanged, Worker
    <2>2. Queued(worker') = {}
      BY <2>1 DEF Queued, QueuePCs, SkillPCs
    <2>3. WorkerFits(worker', History)
      BY <1>1, <2>1, <2>2 DEF WorkerFits, RequestRecorded, QueuePCs, SkillPCs
    <2>4. ~WaitingForHuman'
      BY <1>1, <2>1 DEF WaitingForHuman
    <2> QED BY <1>1, <2>1, <2>3, <2>4, QuietKeeps
  <1> QED BY <1>3, <1>4, <1>5, <1>6 DEF Open

-----------------------------------------------------------------------------
(***************************************************************************)
(* Calling the model.                                                      *)
(***************************************************************************)

\* A response of the model fits as a turn: what was requested is done, and what
\* was called before is served.
LEMMA TurnFits ==
    ASSUME TypeInv, WorkerMatchesStore, HistoryInv, worker.pc = "llm",
           NEW shape \in Seq(Tools), NEW s \in Step, s.kind = "AssistantResponse",
           s.inv = NoId, s.calls = CallsAt(NextPosition, shape)
    PROVE  /\ Fits(History, s)
           /\ OpenRequests(Append(History, s)) = {}
           /\ SoleQuestions(Append(History, s)) = {}
           /\ Served(History, {})
           /\ \A i \in DOMAIN s.calls : s.calls[i].id = <<Len(History) + 1, i>>
  <1>1. /\ History \in Seq(Step) /\ WorkerFits(worker, History)
        /\ SoleQuestions(History) = {} /\ Served(History, Queued(worker))
    BY ServingFacts DEF Serving, PCs
  <1>2. Queued(worker) = {}
    BY DEF Queued, QueuePCs, SkillPCs
  <1>3. OpenRequests(History) = {}
    BY <1>1 DEF WorkerFits, RequestRecorded
  <1>4. \A i \in DOMAIN s.calls : s.calls[i].id = <<Len(History) + 1, i>>
    BY DEF CallsAt, NextPosition
  <1>5. Len(History) + 1 # 0
    BY <1>1
  <1>6. IsTurn(s)
    BY <1>4, <1>5 DEF IsTurn
  <1>7. Fits(History, s)
    BY <1>1, <1>2, <1>3, <1>4, <1>6 DEF Fits, Named, ResponseFits, TurnKinds, Results
  <1>8. OpenRequests(Append(History, s)) = {}
    BY <1>1, <1>3, RequestsAppend
  <1>9. SoleQuestions(Append(History, s)) = {}
    BY <1>1, NoNewQuestion
  <1> QED BY <1>1, <1>2, <1>4, <1>7, <1>8, <1>9

\* What the main loop receives of the model fits what it has served.
LEMMA CallModelHistory ==
    TypeInv /\ WorkerMatchesStore /\ HistoryInv /\ CallModel => HistoryInv'
  <1> SUFFICES ASSUME TypeInv, WorkerMatchesStore, HistoryInv, CallModel PROVE HistoryInv'
    OBVIOUS
  <1>0. worker.pc = "llm"
    BY DEF CallModel, StreamText, ReceiveAnswer, ReceiveQuestion, ReceiveToolCalls, LlmFails, At
  <1>1. /\ latest > 0 /\ ~WaitingForHuman
        /\ History \in Seq(Step) /\ GoodHistory(History)
        /\ WorkerFits(worker, History)
        /\ worker \in Worker /\ TypeOK
    BY <1>0, ServingFacts DEF Serving, PCs, TypeInv
  <1>2. NextPosition \in Nat /\ NextPosition = Len(History) + 1
    BY <1>1, HistoryType DEF NextPosition
  <1>3. \A shape \in Responses : shape \in Seq(Tools)
    BY RunLoopAssumption
  <1> DEFINE S(shape) == NewStep("AssistantResponse", NoId, NoId, CallsAt(NextPosition, shape),
                                 worker.partial \intersect {NextPosition})
  <1>4. ASSUME NEW shape \in Seq(Tools)
        PROVE  /\ S(shape) \in Step /\ S(shape).kind = "AssistantResponse"
               /\ S(shape).inv = NoId /\ S(shape).calls = CallsAt(NextPosition, shape)
    <2>1. CallsAt(NextPosition, shape) \in Seq(Call)
      BY <1>2, CallsAtType
    <2>2. worker.partial \intersect {NextPosition} \in SUBSET Nat
      BY <1>1 DEF Worker
    <2>3. NoId \in Ids /\ "AssistantResponse" \in StepKinds
      BY DEF NoId, Ids, StepKinds
    <2> QED BY <2>1, <2>2, <2>3, NewStepType DEF NewStep
  <1>5. <<>> \in Seq(Tools) /\ CallsAt(NextPosition, <<>>) = <<>>
    BY DEF CallsAt
  <1>6. CASE StreamText
    <2>1. /\ worker'.pc = worker.pc /\ worker'.iter = worker.iter
          /\ worker'.calls = worker.calls /\ worker'.skillCalls = worker.skillCalls
          /\ UNCHANGED <<status, steps, latest>>
      BY <1>1, <1>6 DEF StreamText, StoreUnchanged, Worker
    <2>2. WorkerFits(worker', History)
      BY <1>1, <2>1, SameFits
    <2>3. ~WaitingForHuman'
      BY <1>1, <2>1 DEF WaitingForHuman
    <2> QED BY <1>1, <2>1, <2>2, <2>3, QuietKeeps
  <1>7. CASE ReceiveAnswer
    <2> DEFINE s == S(<<>>)
    <2>1. Append1(s) /\ UNCHANGED <<status, latest>>
      BY <1>5, <1>7 DEF ReceiveAnswer, RecordResponse
    <2>2. /\ s \in Step /\ s.kind = "AssistantResponse" /\ s.inv = NoId
          /\ s.calls = CallsAt(NextPosition, <<>>) /\ s.calls = <<>>
      BY <1>4, <1>5
    <2> HIDE DEF s
    <2>3. /\ Fits(History, s) /\ OpenRequests(Append(History, s)) = {}
          /\ SoleQuestions(Append(History, s)) = {} /\ Served(History, {})
      BY <1>0, <1>5, <2>2, TurnFits
    <2>4. worker'.pc = "complete"
      BY <1>1, <1>7 DEF ReceiveAnswer, Goto, Worker
    <2>5. Served(Append(History, s), {})
      BY <1>1, <2>2, <2>3, ServedAppend
    <2>6. Queued(worker') = {}
      BY <2>4 DEF Queued, QueuePCs, SkillPCs
    <2>7. WorkerFits(worker', Append(History, s))
      BY <2>3, <2>4, <2>5, <2>6 DEF WorkerFits, RequestRecorded, QueuePCs, SkillPCs
    <2> QED BY <1>1, <2>1, <2>2, <2>3, <2>7, AppendKeeps
  <1>8. CASE ReceiveQuestion
    <2>1. PICK shape \in Responses :
             /\ AsksHuman(CallsAt(NextPosition, shape))
             /\ RecordResponse(CallsAt(NextPosition, shape))
      BY <1>8 DEF ReceiveQuestion
    <2> DEFINE s == S(shape)
    <2>2. Append1(s) /\ UNCHANGED <<status, latest>>
      BY <1>8, <2>1 DEF ReceiveQuestion, RecordResponse
    <2>3. shape \in Seq(Tools)
      BY <1>3
    <2>4. /\ s \in Step /\ s.kind = "AssistantResponse" /\ s.inv = NoId
          /\ s.calls = CallsAt(NextPosition, shape) /\ AsksHuman(s.calls)
      BY <1>4, <2>1, <2>3
    <2> HIDE DEF s
    <2>5. /\ Fits(History, s) /\ OpenRequests(Append(History, s)) = {}
          /\ SoleQuestions(Append(History, s)) = {} /\ Served(History, {})
      BY <1>0, <2>3, <2>4, TurnFits
    <2>6. worker'.pc = "suspend"
      BY <1>1, <1>8 DEF ReceiveQuestion, Goto, Worker
    <2>7. Served(Append(History, s), {})
      BY <1>1, <2>4, <2>5, ServedAppend
    <2>8. Queued(worker') = {}
      BY <2>6 DEF Queued, QueuePCs, SkillPCs
    <2>9. Paused(Append(History, s))
      <3>1. /\ Append(History, s) # <<>>
            /\ Append(History, s)[Len(Append(History, s))] = s
        BY <1>1, AppendFacts
      <3> QED BY <2>4, <2>5, <2>7, <3>1 DEF Paused, TurnKinds
    <2>10. WorkerFits(worker', Append(History, s))
      BY <2>5, <2>6, <2>7, <2>8, <2>9 DEF WorkerFits, RequestRecorded, QueuePCs, SkillPCs
    <2> QED BY <1>1, <2>2, <2>4, <2>5, <2>10, AppendKeeps
  <1>9. CASE ReceiveToolCalls
    <2>1. PICK shape \in Responses :
             /\ RecordResponse(CallsAt(NextPosition, shape))
             /\ worker' = [worker EXCEPT !.pc = "exec", !.calls = CallsAt(NextPosition, shape)]
      BY <1>9 DEF ReceiveToolCalls
    <2> DEFINE s == S(shape)
    <2>2. Append1(s) /\ UNCHANGED <<status, latest>>
      BY <1>9, <2>1 DEF ReceiveToolCalls, RecordResponse
    <2>3. shape \in Seq(Tools)
      BY <1>3
    <2>4. /\ s \in Step /\ s.kind = "AssistantResponse" /\ s.inv = NoId
          /\ s.calls = CallsAt(NextPosition, shape)
      BY <1>4, <2>3
    <2> HIDE DEF s
    <2>5. /\ Fits(History, s) /\ OpenRequests(Append(History, s)) = {}
          /\ SoleQuestions(Append(History, s)) = {} /\ Served(History, {})
          /\ \A i \in DOMAIN s.calls : s.calls[i].id = <<Len(History) + 1, i>>
      BY <1>0, <2>3, <2>4, TurnFits
    <2>6. worker'.pc = "exec" /\ worker'.calls = s.calls
      BY <1>1, <2>1, <2>4 DEF Worker
    <2>7. QueueFits(Append(History, s), s.calls)
      BY <1>1, <2>4, <2>5, QueueOfTurn
    <2> DEFINE ids == {s.calls[j].id : j \in DOMAIN s.calls}
    <2>8. Queued(worker') = ids
      BY <2>6 DEF Queued, QueuePCs
    <2>9. \A i \in DOMAIN s.calls : s.calls[i].id \in ids
      OBVIOUS
    <2> HIDE DEF ids
    <2>10. Served(Append(History, s), ids)
      BY <1>1, <2>4, <2>5, <2>9, ServedAppend
    <2>11. WorkerFits(worker', Append(History, s))
      BY <2>5, <2>6, <2>7, <2>8, <2>10 DEF WorkerFits, RequestRecorded
    <2> QED BY <1>1, <2>2, <2>4, <2>5, <2>11, AppendKeeps
  <1>10. CASE LlmFails
    <2>1. /\ worker'.pc = "error" /\ worker'.iter = worker.iter
          /\ UNCHANGED <<status, steps, latest>>
      BY <1>1, <1>10 DEF LlmFails, StoreUnchanged, Goto, Worker
    <2>2. Queued(worker') = {} /\ Queued(worker) = {}
      BY <1>0, <2>1 DEF Queued, QueuePCs, SkillPCs
    <2>3. WorkerFits(worker', History)
      BY <1>0, <1>1, <2>1, <2>2 DEF WorkerFits, RequestRecorded, QueuePCs, SkillPCs, Serving, PCs
    <2>4. ~WaitingForHuman'
      BY <1>1, <2>1 DEF WaitingForHuman
    <2> QED BY <1>1, <2>1, <2>3, <2>4, QuietKeeps
  <1> QED BY <1>6, <1>7, <1>8, <1>9, <1>10 DEF CallModel

-----------------------------------------------------------------------------
(***************************************************************************)
(* Serving the calls.                                                      *)
(***************************************************************************)

\* The result of the call at the head fits, and where the worker goes next fits.
LEMMA HeadAnswered ==
    ASSUME TypeInv, WorkerMatchesStore, HistoryInv, worker.pc \in {"exec", "skillDone"},
           NEW s \in Step, s.kind = "ToolResult", s.inv = NoId, s.id = Invocation,
           NEW w, w.pc = AfterCall.pc, w.iter = AfterCall.iter, w.calls = AfterCall.calls
    PROVE  /\ Fits(History, s)
           /\ WorkerFits(w, Append(History, s))
  <1>1. /\ latest > 0
        /\ History \in Seq(Step) /\ GoodHistory(History)
        /\ WorkerFits(worker, History)
        /\ SoleQuestions(History) = {} /\ Served(History, Queued(worker))
        /\ worker \in Worker /\ worker.calls \in Seq(Call)
    BY ServingFacts DEF Serving, PCs
  <1>2. worker.calls # <<>>
    BY DEF TypeInv, QueuesOK
  <1> DEFINE calls == worker.calls
             longer == Append(History, s)
  <1>3. /\ Len(calls) \in Nat \ {0} /\ DOMAIN calls = 1..Len(calls) /\ 1 \in DOMAIN calls
        /\ Invocation = calls[1].id
    BY <1>1, <1>2, EmptySeq DEF Invocation
  <1>4. QueueFits(History, calls)
    BY <1>1 DEF WorkerFits, QueuePCs, SkillPCs
  <1>5. Queued(worker) = {calls[j].id : j \in DOMAIN calls}
    BY DEF Queued, QueuePCs, SkillPCs
  <1> HIDE DEF calls
  <1>6. Makes(History, NoId, s.id)
    BY <1>3, <1>4 DEF QueueFits
  <1>7. HasResult(History, NoId, s.id) => AskedBeside(History, s.id)
    BY <1>3, <1>4 DEF QueueFits
  <1>8. Fits(History, s)
    BY <1>6, <1>7 DEF Fits, ResultFits, TurnKinds
  <1>9. SoleQuestions(longer) = {}
    BY <1>1, NoNewQuestion
  <1>10. OpenRequests(History) = {} => OpenRequests(longer) = {}
    BY <1>1, RequestsAppend
  <1>11. worker.iter # 0 => OpenRequests(History) = {}
    BY <1>1 DEF WorkerFits, RequestRecorded
  <1>12. CASE Len(calls) > 1
    <2>1. w.pc = "exec" /\ w.iter = worker.iter /\ w.calls = Tail(calls)
      BY <1>1, <1>12 DEF AfterCall, Worker, calls
    <2>2. QueueFits(longer, Tail(calls))
      BY <1>1, <1>3, <1>4, <1>12, QueueShrinks DEF calls
    <2> DEFINE rest == {Tail(calls)[j].id : j \in DOMAIN Tail(calls)}
    <2>3. \A id \in Queued(worker) : id \in rest \/ id = s.id
      <3>1. /\ DOMAIN Tail(calls) = 1..(Len(calls) - 1)
            /\ \A j \in 1..(Len(calls) - 1) : Tail(calls)[j] = calls[j + 1]
        BY <1>1, <1>12 DEF calls
      <3>2. ASSUME NEW j \in DOMAIN calls, j # 1 PROVE calls[j].id \in rest
        <4>1. j - 1 \in DOMAIN Tail(calls) /\ Tail(calls)[j - 1] = calls[j]
          BY <1>3, <3>1, <3>2
        <4> QED BY <4>1
      <3> QED BY <1>3, <1>5, <3>2
    <2>4. Queued(w) = rest
      BY <2>1 DEF Queued, QueuePCs
    <2> HIDE DEF rest
    <2>5. Served(longer, rest)
      BY <1>1, <2>3, ServedAppend
    <2>6. WorkerFits(w, longer)
      BY <1>9, <1>10, <1>11, <2>1, <2>2, <2>4, <2>5 DEF WorkerFits, RequestRecorded
    <2> QED BY <1>8, <2>6
  <1>13. CASE ~(Len(calls) > 1)
    <2>1. Len(calls) = 1
      BY <1>3, <1>13
    <2>2. \A id \in Queued(worker) : id = s.id
      BY <1>3, <1>5, <2>1
    <2>3. Served(longer, {})
      BY <1>1, <2>2, ServedAppend
    <2>4. w.pc \in {"explicit", "llm", "error"}
      BY <1>1, <1>13 DEF AfterCall, Worker, calls
    <2>5. Queued(w) = {}
      BY <2>4 DEF Queued, QueuePCs, SkillPCs
    <2>6. RequestRecorded(w, longer)
      <3>1. CASE worker.iter = 0
        <4>1. w.pc = "explicit" /\ w.iter = 0
          BY <1>1, <1>13, <3>1 DEF AfterCall, Worker, calls
        <4> QED BY <4>1 DEF RequestRecorded
      <3>2. CASE worker.iter # 0 /\ worker.iter < MaxIterations
        <4>1. w.pc = "llm" /\ w.iter = worker.iter + 1
          BY <1>1, <1>13, <3>2 DEF AfterCall, Worker, calls
        <4>2. w.iter # 0
          BY <1>1, <4>1, RunLoopAssumption DEF Worker
        <4> QED BY <1>10, <1>11, <3>2, <4>1, <4>2 DEF RequestRecorded
      <3>3. CASE worker.iter # 0 /\ ~(worker.iter < MaxIterations)
        <4>1. w.pc = "error" /\ w.iter = worker.iter
          BY <1>1, <1>13, <3>3 DEF AfterCall, Worker, calls
        <4> QED BY <1>10, <1>11, <3>3, <4>1 DEF RequestRecorded
      <3> QED BY <3>1, <3>2, <3>3
    <2>7. WorkerFits(w, longer)
      BY <1>9, <2>3, <2>4, <2>5, <2>6 DEF WorkerFits, QueuePCs, SkillPCs
    <2> QED BY <1>8, <2>7
  <1> QED BY <1>12, <1>13

\* A step inside a skill leaves the queue of main calls, and who is served.
LEMMA SkillStepServes ==
    ASSUME TypeInv, WorkerMatchesStore, HistoryInv, worker.pc \in SkillPCs \union {"exec"},
           NEW s \in Step,
           s.kind \in {"SkillStarted", "SkillAssistantResponse", "SkillToolResult"},
           s.kind = "SkillToolResult" => s.inv # NoId
    PROVE  /\ QueueFits(Append(History, s), worker.calls)
           /\ Served(Append(History, s), {worker.calls[j].id : j \in DOMAIN worker.calls})
           /\ worker.iter # 0 => OpenRequests(Append(History, s)) = {}
  <1>1. /\ History \in Seq(Step)
        /\ WorkerFits(worker, History)
        /\ Served(History, Queued(worker))
    BY ServingFacts DEF Serving, PCs, SkillPCs
  <1>2. QueueFits(Append(History, s), worker.calls)
    <2>1. QueueFits(History, worker.calls)
      BY <1>1 DEF WorkerFits, QueuePCs, SkillPCs
    <2> QED BY <1>1, <2>1, QueueStays DEF Results
  <1>3. Queued(worker) = {worker.calls[j].id : j \in DOMAIN worker.calls}
    BY DEF Queued, QueuePCs, SkillPCs
  <1>4. Served(Append(History, s), Queued(worker))
    BY <1>1, ServedAppend
  <1>5. worker.iter # 0 => OpenRequests(Append(History, s)) = {}
    <2>1. worker.iter # 0 => OpenRequests(History) = {}
      BY <1>1 DEF WorkerFits, RequestRecorded
    <2> QED BY <1>1, <2>1, RequestsAppend
  <1> QED BY <1>2, <1>3, <1>4, <1>5

\* A skill's response fits the history.
LEMMA SkillTurnFits ==
    ASSUME TypeInv, WorkerMatchesStore, HistoryInv, worker.pc = "skillLlm",
           NEW shape \in Seq(Tools), NEW pc, SkillReceives(shape, pc)
    PROVE  \E s \in Step :
              /\ s.kind = "SkillAssistantResponse" /\ s.inv = Invocation
              /\ s.calls = CallsAt(NextPosition, shape)
              /\ Append1(s) /\ UNCHANGED <<status, latest>>
              /\ Fits(History, s)
              /\ \A i \in DOMAIN s.calls : s.calls[i].id = <<Len(History) + 1, i>>
              /\ worker'.pc = pc /\ worker'.iter = worker.iter
              /\ worker'.calls = worker.calls /\ worker'.skillCalls = s.calls
  <1>1. /\ latest > 0
        /\ History \in Seq(Step) /\ GoodHistory(History)
        /\ WorkerFits(worker, History)
        /\ worker \in Worker /\ worker.calls \in Seq(Call)
    BY ServingFacts DEF Serving, PCs
  <1>2. worker.calls # <<>> /\ TypeOK
    BY DEF TypeInv, QueuesOK
  <1>3. Invocation \in Ids /\ NextPosition \in Nat /\ NextPosition = Len(History) + 1
    BY <1>1, <1>2, InvocationType, HistoryType DEF NextPosition
  <1> DEFINE calls == CallsAt(NextPosition, shape)
             s == NewStep("SkillAssistantResponse", Invocation, NoId, calls, {})
  <1>4. calls \in Seq(Call)
    BY <1>3, CallsAtType
  <1>5. s \in Step
    BY <1>3, <1>4, NewStepType DEF StepKinds, NoId, Ids
  <1>6. s.kind = "SkillAssistantResponse" /\ s.inv = Invocation /\ s.calls = calls
    BY DEF NewStep
  <1>7. \A i \in DOMAIN calls : calls[i].id = <<Len(History) + 1, i>>
    BY <1>3 DEF CallsAt
  <1>8. Append1(s) /\ UNCHANGED <<status, latest>>
    BY DEF SkillReceives
  <1>9. worker' = [worker EXCEPT !.pc = pc, !.skillIter = @ + 1, !.skillCalls = calls]
    BY DEF SkillReceives
  <1> HIDE DEF s, calls
  <1>10. /\ worker'.pc = pc /\ worker'.iter = worker.iter
         /\ worker'.calls = worker.calls /\ worker'.skillCalls = calls
    BY <1>1, <1>9 DEF Worker
  <1>11. Makes(History, NoId, Invocation)
    <2>1. QueueFits(History, worker.calls)
      BY <1>1 DEF WorkerFits, QueuePCs, SkillPCs
    <2>2. 1 \in DOMAIN worker.calls /\ Invocation = worker.calls[1].id
      BY <1>1, <1>2, EmptySeq DEF Invocation
    <2> QED BY <2>1, <2>2 DEF QueueFits
  <1>12. Invocation # NoId
    BY <1>1, <1>11, MadeIsNamed
  <1>13. Fits(History, s)
    BY <1>6, <1>7, <1>11, <1>12 DEF Fits, Named, TurnKinds, Results
  <1>14. s.calls = CallsAt(NextPosition, shape)
    BY <1>6 DEF calls
  <1> QED BY <1>5, <1>6, <1>7, <1>8, <1>10, <1>13, <1>14

\* What a skill receives fits, and a question of its own suspends the run.
LEMMA SkillReceivesHistory ==
    TypeInv /\ WorkerMatchesStore /\ HistoryInv
      /\ (SkillReceivesAnswer \/ SkillReceivesQuestion \/ SkillReceivesToolCalls)
    => HistoryInv'
  <1> SUFFICES ASSUME TypeInv, WorkerMatchesStore, HistoryInv,
                      SkillReceivesAnswer \/ SkillReceivesQuestion \/ SkillReceivesToolCalls
               PROVE  HistoryInv'
    OBVIOUS
  <1>0. worker.pc = "skillLlm"
    BY DEF SkillReceivesAnswer, SkillReceivesQuestion, SkillReceivesToolCalls, At
  <1>1. /\ latest > 0 /\ ~WaitingForHuman
        /\ History \in Seq(Step) /\ GoodHistory(History)
        /\ WorkerFits(worker, History)
        /\ SoleQuestions(History) = {} /\ Served(History, Queued(worker))
        /\ worker.calls \in Seq(Call)
    BY <1>0, ServingFacts DEF Serving, PCs
  <1>2. worker.calls # <<>>
    BY <1>0 DEF TypeInv, QueuesOK
  <1>3. 1 \in DOMAIN worker.calls /\ Invocation = worker.calls[1].id
    BY <1>1, <1>2, EmptySeq DEF Invocation
  <1> DEFINE asks(shape) == \E i \in DOMAIN shape : shape[i] \in HumanTools
  <1>4. \E shape \in Seq(Tools) : \E pc :
          /\ SkillReceives(shape, pc)
          /\ \/ shape = <<>> /\ pc = "skillDone"
             \/ asks(shape) /\ Len(shape) = 1 /\ pc = "suspend"
             \/ asks(shape) /\ Len(shape) # 1 /\ pc = "skillDone"
             \/ ~asks(shape) /\ pc = "skillExec"
    <2>1. \A shape \in Responses : shape \in Seq(Tools)
      BY RunLoopAssumption
    <2>2. CASE SkillReceivesAnswer
      BY <2>2, EmptySeq DEF SkillReceivesAnswer
    <2>3. CASE SkillReceivesQuestion
      <3>1. PICK shape \in Responses :
               asks(shape) /\ SkillReceives(shape, IF Len(shape) = 1 THEN "suspend" ELSE "skillDone")
        BY <2>3 DEF SkillReceivesQuestion
      <3>2. CASE Len(shape) = 1
        BY <2>1, <3>1, <3>2
      <3>3. CASE Len(shape) # 1
        BY <2>1, <3>1, <3>3
      <3> QED BY <3>2, <3>3
    <2>4. CASE SkillReceivesToolCalls
      BY <2>1, <2>4 DEF SkillReceivesToolCalls
    <2> QED BY <2>2, <2>3, <2>4
  <1>5. PICK shape \in Seq(Tools) : \E pc :
          /\ SkillReceives(shape, pc)
          /\ \/ shape = <<>> /\ pc = "skillDone"
             \/ asks(shape) /\ Len(shape) = 1 /\ pc = "suspend"
             \/ asks(shape) /\ Len(shape) # 1 /\ pc = "skillDone"
             \/ ~asks(shape) /\ pc = "skillExec"
    BY <1>4
  <1>6. PICK pc :
          /\ SkillReceives(shape, pc)
          /\ \/ shape = <<>> /\ pc = "skillDone"
             \/ asks(shape) /\ Len(shape) = 1 /\ pc = "suspend"
             \/ asks(shape) /\ Len(shape) # 1 /\ pc = "skillDone"
             \/ ~asks(shape) /\ pc = "skillExec"
    BY <1>5
  <1>7. PICK s \in Step :
              /\ s.kind = "SkillAssistantResponse" /\ s.inv = Invocation
              /\ s.calls = CallsAt(NextPosition, shape)
              /\ Append1(s) /\ UNCHANGED <<status, latest>>
              /\ Fits(History, s)
              /\ \A i \in DOMAIN s.calls : s.calls[i].id = <<Len(History) + 1, i>>
              /\ worker'.pc = pc /\ worker'.iter = worker.iter
              /\ worker'.calls = worker.calls /\ worker'.skillCalls = s.calls
    BY <1>0, <1>6, SkillTurnFits
  <1> DEFINE longer == Append(History, s)
  <1>8. /\ DOMAIN s.calls = DOMAIN shape /\ DOMAIN shape = 1..Len(shape) /\ Len(shape) \in Nat
        /\ \A i \in DOMAIN s.calls : s.calls[i].tool = shape[i]
    BY <1>7 DEF CallsAt
  <1>9. asks(shape) => AsksHuman(s.calls)
    BY <1>8 DEF AsksHuman
  <1> HIDE DEF asks
  <1>10. /\ QueueFits(longer, worker.calls)
         /\ Served(longer, {worker.calls[j].id : j \in DOMAIN worker.calls})
         /\ worker.iter # 0 => OpenRequests(longer) = {}
    BY <1>0, <1>7, SkillStepServes DEF SkillPCs
  <1>11. RequestRecorded(worker', longer)
    BY <1>6, <1>7, <1>10 DEF RequestRecorded
  <1>12. CASE pc \in {"skillDone", "skillExec"}
    <2>1. SoleQuestions(longer) = {}
      <3>1. SUFFICES ASSUME DOMAIN s.calls = {1}, s.calls[1].tool \in HumanTools PROVE FALSE
        BY <1>1, <1>7, NoNewQuestion
      <3>2. Len(shape) = 1
        <4>1. 1..Len(shape) = {1}
          BY <1>8, <3>1
        <4>2. 1 \in 1..Len(shape)
          BY <4>1
        <4>3. Len(shape) >= 1
          BY <1>8, <4>2
        <4>4. Len(shape) \in 1..Len(shape)
          BY <1>8, <4>3
        <4> QED BY <4>1, <4>4
      <3>3. asks(shape)
        BY <1>8, <3>1 DEF asks
      <3>4. shape # <<>>
        BY <3>3 DEF asks
      <3> QED BY <1>6, <1>12, <3>2, <3>3, <3>4
    <2>2. pc = "skillExec" => SkillQueueFits(longer, worker'.calls[1].id, worker'.skillCalls)
      BY <1>1, <1>3, <1>7, SkillQueueOfTurn
    <2>3. Queued(worker') = {worker.calls[j].id : j \in DOMAIN worker.calls}
      BY <1>7, <1>12 DEF Queued, QueuePCs, SkillPCs
    <2>4. WorkerFits(worker', longer)
      BY <1>7, <1>10, <1>11, <1>12, <2>1, <2>2, <2>3 DEF WorkerFits
    <2> QED BY <1>1, <1>7, <2>4, AppendKeeps
  <1>13. CASE pc = "suspend"
    <2>1. AsksHuman(s.calls)
      BY <1>6, <1>9, <1>13
    <2>2. /\ longer # <<>> /\ Len(longer) = Len(History) + 1
          /\ longer[Len(longer)] = s /\ Len(History) \in Nat
          /\ DOMAIN longer = 1..(Len(History) + 1) /\ DOMAIN History = 1..Len(History)
          /\ \A p \in 1..Len(History) : longer[p] = History[p]
      BY <1>1, AppendFacts
    <2>3. \A t \in SoleQuestions(longer) : t = Len(longer)
      BY <1>1, <2>2, QuestionsAppend
    <2>4. HasResult(longer, NoId, Invocation) => AskedBeside(longer, Invocation)
      BY <1>3, <1>10 DEF QueueFits
    <2>5. AskedIn(longer, Invocation)
      BY <1>7, <2>1, <2>2 DEF AskedIn
    <2> HIDE DEF longer
    <2>6. ASSUME NEW p \in DOMAIN longer, longer[p].kind = "AssistantResponse"
          PROVE  \/ \A i \in DOMAIN longer[p].calls : HasResult(longer, NoId, longer[p].calls[i].id)
                 \/ Excused(longer, p)
      <3>1. SUFFICES ASSUME NEW i \in DOMAIN longer[p].calls, NEW j \in DOMAIN worker.calls,
                            longer[p].calls[i].id = worker.calls[j].id
                     PROVE  Excused(longer, p)
        BY <1>10, <2>6 DEF Served
      <3>2. \E m \in DOMAIN longer[p].calls : longer[p].calls[m].id = Invocation
        BY <1>3, <1>10, <2>6, <3>1 DEF QueueFits
      <3> QED BY <2>5, <3>2 DEF Excused
    <2>7. Served(longer, {})
      BY <2>6 DEF Served
    <2>8. Paused(longer)
      BY <1>7, <2>1, <2>2, <2>3, <2>4, <2>7 DEF Paused, TurnKinds
    <2>9. Queued(worker') = {}
      BY <1>7, <1>13 DEF Queued, QueuePCs, SkillPCs
    <2>10. WorkerFits(worker', longer)
      BY <1>7, <1>11, <1>13, <2>7, <2>8, <2>9 DEF WorkerFits, QueuePCs, SkillPCs
    <2> QED BY <1>1, <1>7, <2>10, AppendKeeps DEF longer
  <1> QED BY <1>6, <1>12, <1>13

\* Where the worker is after a call of a skill.
LEMMA AfterSkillCallFields ==
    ASSUME TypeOK
    PROVE  /\ AfterSkillCall.iter = worker.iter /\ AfterSkillCall.calls = worker.calls
           /\ Len(worker.skillCalls) > 1 =>
                 /\ AfterSkillCall.pc = worker.pc
                 /\ AfterSkillCall.skillCalls = Tail(worker.skillCalls)
           /\ ~(Len(worker.skillCalls) > 1) => AfterSkillCall.pc \in {"skillLlm", "skillDone"}
  BY DEF TypeOK, Worker, AfterSkillCall

\* Serving a call, in the main loop or in a skill, keeps the invariant.
LEMMA ExecuteHistory ==
    TypeInv /\ WorkerMatchesStore /\ HistoryInv /\ Execute => HistoryInv'
  <1> SUFFICES ASSUME TypeInv, WorkerMatchesStore, HistoryInv, Execute PROVE HistoryInv'
    OBVIOUS
  <1>0. worker.pc \in SkillPCs \union {"exec"}
    BY DEF Execute, ExecuteTool, StartSkill, SkillReceivesAnswer, SkillReceivesQuestion,
       SkillReceivesToolCalls, SkillExecutesTool, SkillFails, FinishSkill, At, SkillPCs
  <1>1. /\ latest > 0 /\ ~WaitingForHuman
        /\ History \in Seq(Step) /\ GoodHistory(History)
        /\ WorkerFits(worker, History)
        /\ SoleQuestions(History) = {} /\ Served(History, Queued(worker))
        /\ worker \in Worker /\ worker.calls \in Seq(Call) /\ worker.skillCalls \in Seq(Call)
    BY <1>0, ServingFacts DEF Serving, PCs, SkillPCs
  <1>2. worker.calls # <<>> /\ TypeOK
    BY <1>0 DEF TypeInv, QueuesOK, SkillPCs
  <1>3. /\ 1 \in DOMAIN worker.calls /\ Invocation = worker.calls[1].id
        /\ Invocation \in Ids
    BY <1>1, <1>2, EmptySeq, InvocationType DEF Invocation
  <1>4. QueueFits(History, worker.calls)
    BY <1>0, <1>1 DEF WorkerFits, QueuePCs
  <1>5. NoId \in Ids /\ <<>> \in Seq(Call) /\ {} \in SUBSET Nat
    BY EmptySeq DEF NoId, Ids
  <1>6. Queued(worker) = {worker.calls[j].id : j \in DOMAIN worker.calls}
    BY <1>0 DEF Queued, QueuePCs
  <1>7. CASE ExecuteTool \/ FinishSkill
    <2> DEFINE s == NewStep("ToolResult", NoId, Invocation, <<>>, {})
    <2>1. s \in Step /\ s.kind = "ToolResult" /\ s.inv = NoId /\ s.id = Invocation
      BY <1>3, <1>5, NewStepType DEF NewStep, StepKinds
    <2>2. Append1(s) /\ UNCHANGED <<status, latest>>
      BY <1>7 DEF ExecuteTool, RecordToolResult, FinishSkill
    <2> HIDE DEF s
    <2>3. /\ worker'.pc = AfterCall.pc /\ worker'.iter = AfterCall.iter
          /\ worker'.calls = AfterCall.calls
      <3>1. AfterCall \in Worker
        BY <1>2, AfterCallType
      <3> QED BY <1>7, <3>1 DEF ExecuteTool, RecordToolResult, FinishSkill, Worker
    <2>4. worker.pc \in {"exec", "skillDone"}
      BY <1>7 DEF ExecuteTool, FinishSkill, At
    <2>5. Fits(History, s) /\ WorkerFits(worker', Append(History, s))
      BY <2>1, <2>3, <2>4, HeadAnswered
    <2> QED BY <1>1, <2>1, <2>2, <2>5, AppendKeeps
  <1>8. CASE StartSkill
    <2> DEFINE s == NewStep("SkillStarted", Invocation, NoId, <<>>, {})
    <2>1. s \in Step /\ s.kind = "SkillStarted"
      BY <1>3, <1>5, NewStepType DEF NewStep, StepKinds
    <2>2. Append1(s) /\ UNCHANGED <<status, latest>>
      BY <1>8 DEF StartSkill
    <2> HIDE DEF s
    <2>3. Fits(History, s)
      BY <2>1 DEF Fits, TurnKinds, Results
    <2>4. worker'.pc = "skillLlm" /\ worker'.iter = worker.iter /\ worker'.calls = worker.calls
      BY <1>1, <1>8 DEF StartSkill, Worker
    <2>5. SoleQuestions(Append(History, s)) = {}
      BY <1>1, <2>1, NoNewQuestion
    <2>6. /\ QueueFits(Append(History, s), worker.calls)
          /\ Served(Append(History, s), Queued(worker))
          /\ worker.iter # 0 => OpenRequests(Append(History, s)) = {}
      BY <1>0, <1>6, <2>1, SkillStepServes
    <2>7. Queued(worker') = Queued(worker)
      BY <1>6, <2>4 DEF Queued, QueuePCs, SkillPCs
    <2>8. WorkerFits(worker', Append(History, s))
      BY <2>4, <2>5, <2>6, <2>7 DEF WorkerFits, RequestRecorded
    <2> QED BY <1>1, <2>1, <2>2, <2>3, <2>8, AppendKeeps
  <1>9. CASE SkillReceivesAnswer \/ SkillReceivesQuestion \/ SkillReceivesToolCalls
    BY <1>9, SkillReceivesHistory
  <1>10. CASE SkillExecutesTool
    <2>1. worker.pc = "skillExec"
      BY <1>10 DEF SkillExecutesTool, At
    <2>2. worker.skillCalls # <<>>
      BY <2>1 DEF TypeInv, QueuesOK
    <2>3. 1 \in DOMAIN worker.skillCalls /\ Head(worker.skillCalls) = worker.skillCalls[1]
      BY <1>1, <2>2, EmptySeq
    <2>4. worker.skillCalls[1].id \in Ids
      <3>1. worker.skillCalls[1] \in Call
        BY <1>1, <2>3
      <3> QED BY <3>1 DEF Call
    <2> DEFINE s == NewStep("SkillToolResult", Invocation, worker.skillCalls[1].id, <<>>, {})
    <2>5. /\ s \in Step /\ s.kind = "SkillToolResult" /\ s.inv = Invocation
          /\ s.id = worker.skillCalls[1].id
      BY <1>3, <1>5, <2>4, NewStepType DEF NewStep, StepKinds
    <2>6. Append1(s) /\ UNCHANGED <<status, latest>>
      BY <1>10, <2>3 DEF SkillExecutesTool
    <2> HIDE DEF s
    <2>7. SkillQueueFits(History, Invocation, worker.skillCalls)
      BY <1>1, <1>3, <2>1 DEF WorkerFits
    <2>8. Invocation # NoId
      <3>1. Makes(History, NoId, Invocation)
        BY <1>3, <1>4 DEF QueueFits
      <3> QED BY <1>1, <3>1, MadeIsNamed
    <2>9. Fits(History, s)
      BY <2>3, <2>5, <2>7, <2>8 DEF Fits, ResultFits, SkillQueueFits, TurnKinds
    <2>10. SoleQuestions(Append(History, s)) = {}
      BY <1>1, <2>5, NoNewQuestion
    <2>11. /\ QueueFits(Append(History, s), worker.calls)
           /\ Served(Append(History, s), Queued(worker))
           /\ worker.iter # 0 => OpenRequests(Append(History, s)) = {}
      BY <1>0, <1>6, <2>5, <2>8, SkillStepServes
    <2>12. worker' = AfterSkillCall
      BY <1>10 DEF SkillExecutesTool
    <2>13. /\ worker'.iter = worker.iter /\ worker'.calls = worker.calls
           /\ worker'.pc \in SkillPCs
           /\ worker'.pc = "skillExec" =>
                 /\ Len(worker.skillCalls) > 1
                 /\ worker'.skillCalls = Tail(worker.skillCalls)
      BY <1>2, <2>1, <2>12, AfterSkillCallFields DEF SkillPCs
    <2>14. worker'.pc = "skillExec" =>
             SkillQueueFits(Append(History, s), worker'.calls[1].id, worker'.skillCalls)
      BY <1>1, <1>3, <2>5, <2>7, <2>13, SkillQueueShrinks
    <2>15. Queued(worker') = Queued(worker)
      BY <1>6, <2>13 DEF Queued, QueuePCs
    <2>16. RequestRecorded(worker', Append(History, s))
      BY <2>11, <2>13 DEF RequestRecorded, SkillPCs
    <2>17. worker'.pc # "suspend"
      BY <2>13 DEF SkillPCs
    <2>18. WorkerFits(worker', Append(History, s))
      BY <2>10, <2>11, <2>13, <2>14, <2>15, <2>16, <2>17 DEF WorkerFits
    <2> QED BY <1>1, <2>5, <2>6, <2>9, <2>18, AppendKeeps
  <1>11. CASE SkillFails
    <2>1. /\ worker'.pc = "skillDone" /\ worker'.iter = worker.iter
          /\ worker'.calls = worker.calls /\ UNCHANGED <<status, steps, latest>>
      BY <1>1, <1>11 DEF SkillFails, StoreUnchanged, Goto, Worker
    <2>2. Queued(worker') = Queued(worker)
      BY <1>6, <2>1 DEF Queued, QueuePCs, SkillPCs
    <2>3. RequestRecorded(worker', History)
      BY <1>1, <2>1 DEF WorkerFits, RequestRecorded
    <2>4. WorkerFits(worker', History)
      BY <1>1, <1>4, <2>1, <2>2, <2>3 DEF WorkerFits
    <2>5. ~WaitingForHuman'
      BY <1>1, <2>1 DEF WaitingForHuman
    <2> QED BY <1>1, <2>1, <2>4, <2>5, QuietKeeps
  <1> QED BY <1>7, <1>8, <1>9, <1>10, <1>11 DEF Execute

-----------------------------------------------------------------------------
(***************************************************************************)
(* Waiting, answering and going on.                                        *)
(***************************************************************************)

\* The question that an answer is taken for, and what its result says.
LEMMA AnswerFits ==
    ASSUME TypeInv, WorkerMatchesStore, HistoryInv, WaitingForHuman,
           NEW at \in OpenQuestions(History), IsLast(at, OpenQuestions(History)),
           NEW s \in Step, s.kind \in Results, s.inv = History[at[1]].inv,
           s.id = History[at[1]].calls[at[2]].id,
           s.kind = "ToolResult" <=> History[at[1]].kind = "AssistantResponse"
    PROVE  /\ Fits(History, s)
           /\ SoleQuestions(Append(History, s)) = {}
           /\ Served(Append(History, s), {})
           /\ Paused(Append(History, s))
  <1>1. latest > 0 /\ latest \in Runs
    BY RunLoopAssumption DEF TypeInv, TypeOK, Runs, WaitingForHuman
  <1>2. /\ History \in Seq(Step) /\ GoodHistory(History) /\ Paused(History)
    BY <1>1, HistoryType DEF TypeInv, HistoryInv, History
  <1> DEFINE asked == History[at[1]]
             longer == Append(History, s)
  <1>3. /\ at \in Positions(History)
        /\ asked.calls[at[2]].tool \in HumanTools
        /\ ~HasResult(History, asked.inv, asked.calls[at[2]].id)
    BY DEF OpenQuestions
  <1>4. /\ at[1] \in DOMAIN History /\ at[2] \in DOMAIN asked.calls
        /\ asked.kind \in TurnKinds
    BY <1>2, <1>3, PositionsAreCalls
  <1>5. /\ asked.kind = "AssistantResponse" => asked.inv = NoId
        /\ asked.kind = "SkillAssistantResponse" => asked.inv # NoId
    BY <1>2, <1>4, GoodStep
  <1>6. Makes(History, s.inv, s.id)
    BY <1>4 DEF Makes
  <1>7. Fits(History, s)
    BY <1>3, <1>4, <1>5, <1>6 DEF Fits, ResultFits, Results, TurnKinds
  <1>8. SoleQuestions(longer) = {}
    <2>1. SUFFICES ASSUME NEW t \in SoleQuestions(longer) PROVE FALSE
      OBVIOUS
    <2>2. /\ t \in SoleQuestions(History)
          /\ ~(s.inv = History[t].inv /\ s.id = History[t].calls[1].id)
      BY <1>2, <2>1, QuestionsAppend DEF Results
    <2>3. t = Len(History)
      BY <1>2, <2>2 DEF Paused
    <2>4. t \in DOMAIN History /\ DOMAIN History[t].calls = {1} /\ DOMAIN History = 1..Len(History)
      BY <1>2, <2>2 DEF SoleQuestions
    <2>5. <<t, 1>> \in OpenQuestions(History)
      <3>1. <<t, 1>> \in Positions(History)
        BY <2>2, <2>4 DEF Positions, SoleQuestions, TurnKinds
      <3> QED BY <2>2, <3>1 DEF OpenQuestions, SoleQuestions
    <2>6. \/ t < at[1]
          \/ t = at[1] /\ 1 <= at[2]
      <3>1. \/ <<t, 1>>[1] < at[1]
            \/ <<t, 1>>[1] = at[1] /\ <<t, 1>>[2] <= at[2]
        BY <2>5 DEF IsLast
      <3> QED BY <3>1
    <2>7. at[1] = t
      BY <1>2, <1>4, <2>3, <2>4, <2>6
    <2>8. at[2] = 1
      BY <1>4, <2>4, <2>7
    <2> QED BY <2>2, <2>7, <2>8
  <1>9. Served(longer, {})
    BY <1>2, ServedAppend DEF Paused, Results
  <1>10. /\ longer # <<>> /\ longer[Len(longer)] = s
    BY <1>2, AppendFacts
  <1>11. Paused(longer)
    BY <1>8, <1>9, <1>10 DEF Paused
  <1> QED BY <1>7, <1>8, <1>9, <1>11

\* An answer fits the question it is taken for, and the run can go on.
LEMMA AcceptAnswerHistory ==
    TypeInv /\ WorkerMatchesStore /\ HistoryInv /\ AcceptAnswer => HistoryInv'
  <1> SUFFICES ASSUME TypeInv, WorkerMatchesStore, HistoryInv, AcceptAnswer PROVE HistoryInv'
    OBVIOUS
  <1>1. /\ WaitingForHuman /\ worker.pc = "begin" /\ UNCHANGED <<status, latest>>
        /\ latest > 0 /\ latest \in Runs
    BY RunLoopAssumption DEF TypeInv, TypeOK, Runs, WaitingForHuman, AcceptAnswer, At
  <1>2. /\ History \in Seq(Step) /\ GoodHistory(History) /\ Paused(History)
        /\ RequestsPrecedeTurns(History) /\ WorkerFits(worker, History) /\ worker \in Worker
    BY <1>1, HistoryType DEF TypeInv, TypeOK, HistoryInv, History
  <1>3. PICK at \in OpenQuestions(History) :
           IsLast(at, OpenQuestions(History)) /\ Answer(at)
    BY DEF AcceptAnswer
  <1> DEFINE asked == History[at[1]]
             main == asked.kind = "AssistantResponse"
             kind == IF main THEN "ToolResult" ELSE "SkillToolResult"
             s == NewStep(kind, asked.inv, asked.calls[at[2]].id, <<>>, {})
             longer == Append(History, s)
  <1>4. /\ at \in Positions(History) /\ asked.calls[at[2]].tool = "human_input"
        /\ Append1(s)
        /\ worker' = [worker EXCEPT !.pc = "resume",
                          !.calls = IF main THEN <<>>
                                    ELSE <<[id |-> asked.inv, tool |-> "call_skill"]>>]
    BY <1>3 DEF OpenQuestions, Answer
  <1>5. /\ at[1] \in DOMAIN History /\ at[2] \in DOMAIN asked.calls
        /\ asked.kind \in TurnKinds
    BY <1>2, <1>4, PositionsAreCalls
  <1>6. /\ asked \in Step /\ asked.calls \in Seq(Call) /\ Named(at[1], asked)
        /\ at[1] \in Nat \ {0}
        /\ asked.kind = "AssistantResponse" => asked.inv = NoId
        /\ asked.kind = "SkillAssistantResponse" =>
              asked.inv # NoId /\ Makes(History, NoId, asked.inv)
    BY <1>2, <1>5, GoodStep
  <1>7. asked.calls[at[2]].id \in Ids /\ asked.inv \in Ids
    <2>1. asked.calls[at[2]] \in Call
      BY <1>5, <1>6
    <2> QED BY <1>6, <2>1 DEF Call, Step
  <1>8. /\ s \in Step /\ s.kind = kind /\ s.inv = asked.inv /\ s.id = asked.calls[at[2]].id
    <2>1. kind \in StepKinds /\ <<>> \in Seq(Call) /\ {} \in SUBSET Nat
      BY EmptySeq DEF StepKinds
    <2> QED BY <1>7, <2>1, NewStepType DEF NewStep
  <1> HIDE DEF s
  <1>9. /\ Fits(History, s) /\ SoleQuestions(longer) = {}
        /\ Served(longer, {}) /\ Paused(longer)
    BY <1>1, <1>3, <1>8, AnswerFits DEF Results
  <1>10. worker.iter = 0
    BY <1>1, <1>2 DEF WorkerFits, RequestRecorded
  <1>11. worker'.pc = "resume" /\ worker'.iter = 0
    BY <1>2, <1>4, <1>10 DEF Worker
  <1>12. longer \in Seq(Step)
    BY <1>2, <1>8
  <1>13. CASE main
    <2>1. worker'.calls = <<>>
      BY <1>2, <1>4, <1>13 DEF Worker
    <2>2. ~IsRequest(asked)
      BY <1>4, <1>5 DEF IsRequest
    <2>3. \A i \in DOMAIN asked.calls : asked.calls[i].id = <<at[1], i>>
      BY <1>6, <2>2 DEF Named
    <2>4. IsTurn(asked)
      BY <1>6, <1>13, <2>3 DEF IsTurn
    <2>5. OpenRequests(longer) = {}
      BY <1>2, <1>5, <1>8, <2>4, RequestsAppend DEF RequestsPrecedeTurns
    <2>6. QueueFits(longer, <<>>)
      BY DEF QueueFits
    <2>7. Queued(worker') = {}
      BY <2>1 DEF Queued
    <2>8. WorkerFits(worker', longer)
      BY <1>9, <1>11, <2>1, <2>5, <2>6, <2>7 DEF WorkerFits, RequestRecorded
    <2> QED BY <1>1, <1>4, <1>8, <1>9, <2>8, AppendKeeps
  <1>14. CASE ~main
    <2> DEFINE call == [id |-> asked.inv, tool |-> "call_skill"]
    <2>1. worker'.calls = <<call>> /\ call \in Call /\ call.id = asked.inv
      BY <1>2, <1>4, <1>7, <1>14 DEF Worker, Call, Tools
    <2>2. asked.kind = "SkillAssistantResponse"
      BY <1>5, <1>14 DEF TurnKinds
    <2>3. Makes(longer, NoId, asked.inv)
      BY <1>2, <1>6, <1>8, <2>2, HistoryGrows
    <2>4. HasResult(longer, NoId, asked.inv) => HasResult(History, NoId, asked.inv)
      BY <1>2, <1>6, <1>8, <2>2, ResultAppend
    <2>5. HasResult(History, NoId, asked.inv) => AskedBeside(History, asked.inv)
      <3>1. AsksHuman(asked.calls)
        BY <1>4, <1>5 DEF AsksHuman, HumanTools
      <3>2. DOMAIN asked.calls = 1..Len(asked.calls) /\ Len(asked.calls) \in Nat
        BY <1>6
      <3>3. CASE Len(asked.calls) > 1
        BY <1>5, <2>2, <3>1, <3>3 DEF AskedBeside
      <3>4. CASE ~(Len(asked.calls) > 1)
        <4>1. at[2] = 1 /\ DOMAIN asked.calls = {1}
          BY <1>5, <3>2, <3>4
        <4>2. at[1] \in SoleQuestions(History)
          BY <1>3, <1>5, <2>2, <4>1 DEF OpenQuestions, SoleQuestions
        <4> QED BY <1>2, <4>2 DEF Paused
      <3> QED BY <3>3, <3>4
    <2>6. AskedBeside(History, asked.inv) => AskedBeside(longer, asked.inv)
      BY <1>2, <1>8, HistoryGrows
    <2> HIDE DEF longer
    <2>7. QueueFits(longer, <<call>>)
      BY <1>12, <2>1, <2>3, <2>4, <2>5, <2>6, QueueOfOne
    <2>8. Served(longer, Queued(worker'))
      BY <1>9 DEF Served
    <2>9. worker'.calls # <<>>
      BY <2>1
    <2>10. WorkerFits(worker', longer)
      BY <1>9, <1>11, <2>1, <2>7, <2>8, <2>9 DEF WorkerFits, RequestRecorded
    <2> QED BY <1>1, <1>4, <1>8, <1>9, <2>10, AppendKeeps DEF longer
  <1> QED BY <1>13, <1>14

\* Going on after an answer.
LEMMA ResumeHistory ==
    TypeInv /\ WorkerMatchesStore /\ HistoryInv /\ (ResumeMain \/ ResumeSkill) => HistoryInv'
  <1> SUFFICES ASSUME TypeInv, WorkerMatchesStore, HistoryInv, ResumeMain \/ ResumeSkill
               PROVE  HistoryInv'
    OBVIOUS
  <1>1. /\ worker.pc = "resume" /\ latest > 0 /\ latest \in Runs
        /\ SetStatus("Running") /\ UNCHANGED <<steps, latest>>
    <2>1. /\ worker.pc = "resume" /\ SetStatus("Running") /\ UNCHANGED <<steps, latest>>
      BY DEF ResumeMain, ResumeSkill, At
    <2>2. latest > 0
      BY <2>1 DEF TypeInv, QueuesOK
    <2> QED BY <2>1, <2>2, RunLoopAssumption DEF TypeInv, TypeOK, Runs
  <1>2. /\ WorkerFits(worker, History) /\ worker \in Worker /\ worker.calls \in Seq(Call)
    BY <1>1 DEF TypeInv, TypeOK, HistoryInv, Worker
  <1>3. ~WaitingForHuman'
    BY <1>1 DEF WaitingForHuman, SetStatus, TypeInv, TypeOK
  <1>4. /\ QueueFits(History, worker.calls) /\ SoleQuestions(History) = {}
        /\ Served(History, Queued(worker))
    BY <1>1, <1>2 DEF WorkerFits, QueuePCs
  <1>5. CASE ResumeMain
    <2>1. worker.calls = <<>> /\ worker' = [worker EXCEPT !.pc = "llm", !.iter = 1]
      BY <1>5 DEF ResumeMain
    <2>2. worker'.pc = "llm" /\ worker'.iter = 1
      BY <1>2, <2>1 DEF Worker
    <2>3. OpenRequests(History) = {}
      BY <1>1, <1>2, <2>1 DEF WorkerFits, RequestRecorded
    <2>4. Queued(worker) = {} /\ Queued(worker') = {}
      BY <2>1, <2>2 DEF Queued, QueuePCs, SkillPCs
    <2>5. WorkerFits(worker', History)
      BY <1>4, <2>2, <2>3, <2>4 DEF WorkerFits, RequestRecorded, QueuePCs, SkillPCs
    <2> QED BY <1>1, <1>3, <2>5, QuietKeeps
  <1>6. CASE ResumeSkill
    <2>1. PICK pc \in {"skillDone", "skillLlm"} :
             worker' = [worker EXCEPT !.pc = pc,
                           !.skillIter = SkillIterationCount(History, Invocation)]
      BY <1>6 DEF ResumeSkill
    <2>2. /\ worker'.pc \in {"skillDone", "skillLlm"} /\ worker'.iter = worker.iter
          /\ worker'.calls = worker.calls
      BY <1>2, <2>1 DEF Worker
    <2>3. Queued(worker') = Queued(worker)
      BY <1>1, <2>2 DEF Queued, QueuePCs, SkillPCs
    <2>4. RequestRecorded(worker', History)
      BY <1>2, <2>2 DEF WorkerFits, RequestRecorded
    <2>5. WorkerFits(worker', History)
      BY <1>4, <2>2, <2>3, <2>4 DEF WorkerFits
    <2> QED BY <1>1, <1>3, <2>5, QuietKeeps
  <1> QED BY <1>5, <1>6

\* Leaving a run, with or without one more step.
LEMMA LeaveHistory ==
    TypeInv /\ WorkerMatchesStore /\ HistoryInv /\ Leave => HistoryInv'
  <1> SUFFICES ASSUME TypeInv, WorkerMatchesStore, HistoryInv, Leave PROVE HistoryInv'
    OBVIOUS
  <1>1. worker \in Worker /\ TypeOK /\ (latest > 0 => latest \in Runs)
    BY RunLoopAssumption DEF TypeInv, TypeOK, Runs
  <1>2. latest > 0 => WorkerFits(worker, History)
    BY DEF HistoryInv
  <1>3. Finish => worker'.iter = 0 /\ WorkerFits(worker', History)
    BY IdleFits DEF Finish, Idle
  <1>4. CASE SuspendRun
    <2>1. worker.pc = "suspend" /\ UNCHANGED <<steps, latest>> /\ Finish
      BY <1>4 DEF SuspendRun, At
    <2>2. latest > 0
      BY <2>1 DEF TypeInv, QueuesOK
    <2>3. Paused(History)
      BY <1>2, <2>1, <2>2 DEF WorkerFits
    <2> QED BY <1>3, <2>1, <2>2, <2>3, QuietKeeps
  <1>5. CASE CompleteRun \/ FailRun
    <2>1. /\ worker.pc \in {"complete", "fail"} /\ UNCHANGED <<steps, latest>> /\ Finish
          /\ SetStatus("Completed") \/ SetStatus("Failed")
      BY <1>5 DEF CompleteRun, FailRun, At
    <2>2. latest > 0
      BY <2>1 DEF TypeInv, QueuesOK
    <2>3. ~WaitingForHuman'
      BY <1>1, <2>1, <2>2 DEF WaitingForHuman, SetStatus, TypeOK
    <2> QED BY <1>3, <2>1, <2>2, <2>3, QuietKeeps
  <1>6. CASE CancelRun
    <2>1. /\ UNCHANGED <<steps, latest>> /\ latest > 0 /\ SetStatus("Canceled")
          /\ Finish \/ worker' = [worker EXCEPT !.pc = "checkpoint"]
      BY <1>6 DEF CancelRun, Goto
    <2>2. ~WaitingForHuman'
      BY <1>1, <2>1 DEF WaitingForHuman, SetStatus, TypeOK
    <2>3. WorkerFits(worker', History)
      <3>1. CASE worker' = [worker EXCEPT !.pc = "checkpoint"]
        <4>1. worker'.pc = "checkpoint" /\ worker'.iter = worker.iter
          BY <1>1, <3>1 DEF Worker
        <4>2. RequestRecorded(worker', History)
          BY <1>2, <2>1, <4>1 DEF WorkerFits, RequestRecorded
        <4> QED BY <4>1, <4>2 DEF WorkerFits, QueuePCs, SkillPCs, Serving
      <3> QED BY <1>3, <2>1, <3>1
    <2> QED BY <2>1, <2>2, <2>3, QuietKeeps
  <1>7. CASE CancelNothing
    <2>1. UNCHANGED <<status, steps, latest>> /\ Finish
      BY <1>7 DEF CancelNothing, StoreUnchanged
    <2>2. WaitingForHuman' => Paused(History)
      BY <2>1 DEF WaitingForHuman, HistoryInv
    <2> QED BY <1>3, <2>1, <2>2, QuietKeeps
  <1>8. CASE RecordError
    <2> DEFINE s == NewStep("Error", NoId, NoId, <<>>, {})
    <2>1. s \in Step /\ s.kind = "Error"
      <3>1. NoId \in Ids /\ <<>> \in Seq(Call) /\ {} \in SUBSET Nat
        BY EmptySeq DEF NoId, Ids
      <3> QED BY <3>1, NewStepType DEF NewStep, StepKinds
    <2>2. worker.pc = "error" /\ Append1(s) /\ UNCHANGED <<status, latest>>
      BY <1>8 DEF RecordError, At
    <2> HIDE DEF s
    <2>3. /\ latest > 0 /\ ~WaitingForHuman /\ History \in Seq(Step)
          /\ SoleQuestions(History) = {} /\ Served(History, Queued(worker))
      BY <2>2, ServingFacts DEF Serving, PCs
    <2>4. Queued(worker) = {}
      BY <2>2 DEF Queued, QueuePCs, SkillPCs
    <2>5. worker'.pc = "fail" /\ worker'.iter = worker.iter
      BY <1>1, <1>8 DEF RecordError, Goto, Worker
    <2>6. Queued(worker') = {}
      BY <2>5 DEF Queued, QueuePCs, SkillPCs
    <2>7. SoleQuestions(Append(History, s)) = {} /\ Served(Append(History, s), {})
      BY <2>1, <2>3, <2>4, NoNewQuestion, ServedAppend
    <2>8. worker'.iter # 0 => OpenRequests(Append(History, s)) = {}
      <3>1. worker.iter # 0 => OpenRequests(History) = {}
        BY <1>2, <2>3 DEF WorkerFits, RequestRecorded
      <3> QED BY <2>1, <2>3, <2>5, <3>1, RequestsAppend
    <2>9. WorkerFits(worker', Append(History, s))
      BY <2>5, <2>6, <2>7, <2>8 DEF WorkerFits, RequestRecorded, QueuePCs, SkillPCs
    <2>10. Fits(History, s)
      BY <2>1 DEF Fits, TurnKinds, Results
    <2> QED BY <2>1, <2>2, <2>3, <2>9, <2>10, AppendKeeps
  <1>9. CASE RecordCheckpoint
    <2> DEFINE s == NewStep("AssistantOutputCheckpoint", NoId, NoId, <<>>, worker.partial)
    <2>1. s \in Step /\ s.kind = "AssistantOutputCheckpoint"
      <3>1. NoId \in Ids /\ <<>> \in Seq(Call) /\ worker.partial \in SUBSET Nat
        BY <1>1, EmptySeq DEF NoId, Ids, Worker
      <3> QED BY <3>1, NewStepType DEF NewStep, StepKinds
    <2>2. worker.pc = "checkpoint" /\ Append1(s) /\ UNCHANGED <<status, latest>> /\ Finish
      BY <1>9 DEF RecordCheckpoint, At
    <2> HIDE DEF s
    <2>3. latest > 0 /\ ~WaitingForHuman
      BY <2>2 DEF WorkerMatchesStore, WaitingForHuman
    <2>4. WorkerFits(worker', Append(History, s))
      BY <2>2, IdleFits DEF Finish
    <2>5. Fits(History, s)
      BY <2>1 DEF Fits, TurnKinds, Results
    <2> QED BY <2>1, <2>2, <2>3, <2>4, <2>5, AppendKeeps
  <1> QED BY <1>4, <1>5, <1>6, <1>7, <1>8, <1>9 DEF Leave

\* Every step of the run loop keeps the invariant.
LEMMA HistoryInvStep ==
    TypeInv /\ WorkerMatchesStore /\ HistoryInv /\ [Next]_vars => HistoryInv'
  <1> SUFFICES ASSUME TypeInv, WorkerMatchesStore, HistoryInv, [Next]_vars PROVE HistoryInv'
    OBVIOUS
  <1>1. worker \in Worker
    BY DEF TypeInv, TypeOK
  <1>2. latest > 0 => WorkerFits(worker, History)
    BY DEF HistoryInv
  <1>3. UNCHANGED <<status, latest, steps>> => (WaitingForHuman' => Paused(History))
    BY DEF WaitingForHuman, HistoryInv
  <1>4. worker' = Idle => worker'.iter = 0 /\ WorkerFits(worker', History)
    BY IdleFits DEF Idle
  <1>5. CASE Submit
    <2>1. /\ UNCHANGED <<status, latest, steps>> /\ worker.pc = "idle" /\ worker'.pc = "begin"
          /\ worker'.iter = worker.iter
      BY <1>1, <1>5 DEF Submit, StoreUnchanged, Goto, At, Worker
    <2>2. worker.iter = 0
      <3>1. latest \in Nat
        BY RunLoopAssumption DEF TypeInv, TypeOK
      <3> QED BY <1>2, <2>1, <3>1 DEF WorkerFits, RequestRecorded, HistoryInv
    <2>3. WorkerFits(worker', History)
      BY <2>1, <2>2 DEF WorkerFits, RequestRecorded, QueuePCs, SkillPCs, Serving
    <2> QED BY <1>3, <2>1, <2>2, <2>3, QuietKeeps
  <1>6. CASE RequestCancel
    <2>1. /\ UNCHANGED <<status, latest, steps>>
          /\ worker'.pc = worker.pc /\ worker'.iter = worker.iter
          /\ worker'.calls = worker.calls /\ worker'.skillCalls = worker.skillCalls
      BY <1>1, <1>6 DEF RequestCancel, StoreUnchanged, Worker
    <2>2. latest > 0 => WorkerFits(worker', History)
      BY <1>2, <2>1, SameFits
    <2>3. latest = 0 => worker'.iter = 0
      BY <2>1 DEF HistoryInv
    <2> QED BY <1>3, <2>1, <2>2, <2>3, QuietKeeps
  <1>7. CASE RefuseAnswer \/ Crash
    <2>1. UNCHANGED <<status, latest, steps>> /\ worker' = Idle
      BY <1>7 DEF RefuseAnswer, Crash, StoreUnchanged, Finish
    <2> QED BY <1>3, <1>4, <2>1, QuietKeeps
  <1>8. CASE StartRun
    BY <1>8, StartRunHistory
  <1>9. CASE AcceptAnswer
    BY <1>9, AcceptAnswerHistory
  <1>10. CASE ResumeMain \/ ResumeSkill
    BY <1>10, ResumeHistory
  <1>11. CASE Open \/ CallModel \/ Execute \/ Leave
    BY <1>11, OpenHistory, CallModelHistory, ExecuteHistory, LeaveHistory
  <1>12. CASE UNCHANGED vars
    <2>1. UNCHANGED <<status, latest, steps>> /\ worker' = worker
      BY <1>12 DEF vars
    <2>2. latest = 0 => worker'.iter = 0
      BY <2>1 DEF HistoryInv
    <2> QED BY <1>2, <1>3, <2>1, <2>2, QuietKeeps
  <1> QED BY <1>5, <1>6, <1>7, <1>8, <1>9, <1>10, <1>11, <1>12 DEF Next, Work, Begin

\* The histories of all runs are good, and the worker fits the one it serves.
THEOREM HistoriesAreGood == Spec => []HistoryInv
  <1>1. Init => HistoryInv
    BY DEF Init, HistoryInv, GoodHistory, RequestsPrecedeTurns, WaitingForHuman, Idle
  <1>2. TypeInv /\ WorkerMatchesStore /\ HistoryInv /\ [Next]_vars => HistoryInv'
    BY HistoryInvStep
  <1> QED BY <1>1, <1>2, TypeInvariant, WorkerAgrees, PTL DEF Spec

-----------------------------------------------------------------------------
(***************************************************************************)
(* What a good history says.                                               *)
(***************************************************************************)

\* Every result answers a call made before it; only a skill that asked beside
\* another call may get a second one.
THEOREM ResultsAnswerCalls == Spec => []ResultsMatchCalls
  <1>1. TypeOK /\ HistoryInv => ResultsMatchCalls
    <2> SUFFICES ASSUME TypeOK, HistoryInv, NEW r \in Runs, NEW q \in DOMAIN steps[r],
                        steps[r][q].kind \in Results
                 PROVE  LET log == steps[r]
                        IN  /\ \E p \in 1..(q - 1) :
                                  /\ log[p].kind \in TurnKinds
                                  /\ log[p].inv = log[q].inv
                                  /\ \E i \in DOMAIN log[p].calls : log[p].calls[i].id = log[q].id
                            /\ HasResult(SubSeq(log, 1, q - 1), log[q].inv, log[q].id) =>
                                  /\ log[q].kind = "ToolResult"
                                  /\ AskedBeside(SubSeq(log, 1, q - 1), log[q].id)
      BY DEF ResultsMatchCalls
    <2> DEFINE log == steps[r]
    <2>1. log \in Seq(Step)
      BY DEF TypeOK
    <2>2. ResultFits(Before(log, q), log[q])
      BY DEF HistoryInv, GoodHistory, Fits
    <2>3. /\ DOMAIN Before(log, q) = 1..(q - 1)
          /\ \A j \in 1..(q - 1) : Before(log, q)[j] = log[j]
      BY <2>1, BeforeFacts
    <2> HIDE DEF log
    <2>4. \E p \in 1..(q - 1) :
             /\ log[p].kind \in TurnKinds
             /\ log[p].inv = log[q].inv
             /\ \E i \in DOMAIN log[p].calls : log[p].calls[i].id = log[q].id
      BY <2>2, <2>3 DEF ResultFits, Makes
    <2>5. HasResult(SubSeq(log, 1, q - 1), log[q].inv, log[q].id) =>
             /\ log[q].kind = "ToolResult"
             /\ AskedBeside(SubSeq(log, 1, q - 1), log[q].id)
      BY <2>2 DEF ResultFits, Before
    <2> QED BY <2>4, <2>5 DEF log
  <1> QED BY <1>1, HistoriesAreGood, TypeCorrect, PTL

\* The skills the user asked for have their results, in order, before the
\* first turn of the model.
THEOREM RequestedSkillsAreFirst == Spec => []RequestedSkillsComeFirst
  <1>1. HistoryInv => RequestedSkillsComeFirst
    <2> SUFFICES ASSUME HistoryInv, NEW r \in Runs, NEW p \in DOMAIN steps[r]
                 PROVE  LET before == SubSeq(steps[r], 1, p - 1)
                        IN  /\ IsTurn(steps[r][p]) => OpenRequests(before) = {}
                            /\ steps[r][p].kind = "AssistantResponse" /\ ~IsTurn(steps[r][p]) =>
                                  \A k \in DOMAIN RequestedIn(before) :
                                      k < steps[r][p].calls[1].id[2] => k \notin OpenRequests(before)
      BY DEF RequestedSkillsComeFirst
    <2>1. steps[r][p].kind = "AssistantResponse" => ResponseFits(Before(steps[r], p), steps[r][p])
      BY DEF HistoryInv, GoodHistory, Fits
    <2>2. IsTurn(steps[r][p]) => steps[r][p].kind = "AssistantResponse"
      BY DEF IsTurn
    <2> QED BY <2>1, <2>2 DEF ResponseFits, Before
  <1> QED BY <1>1, HistoriesAreGood, PTL

\* A call without a result was made beside a question, or beside a skill that
\* asked one.
THEOREM OnlySuspensionsDropCalls == Spec => []OnlySuspensionDropsCalls
  <1>1. HistoryInv => OnlySuspensionDropsCalls
    <2> SUFFICES ASSUME HistoryInv, NEW r \in Runs, NEW q \in DOMAIN steps[r],
                        IsTurn(steps[r][q]), NEW p \in DOMAIN SubSeq(steps[r], 1, q - 1),
                        SubSeq(steps[r], 1, q - 1)[p].kind = "AssistantResponse"
                 PROVE  LET before == SubSeq(steps[r], 1, q - 1)
                        IN  \/ \A i \in DOMAIN before[p].calls :
                                  HasResult(before, NoId, before[p].calls[i].id)
                            \/ AsksHuman(before[p].calls)
                            \/ \E s \in DOMAIN before :
                                  /\ before[s].kind = "SkillAssistantResponse"
                                  /\ AsksHuman(before[s].calls)
                                  /\ \E i \in DOMAIN before[p].calls :
                                        before[p].calls[i].id = before[s].inv
      BY DEF OnlySuspensionDropsCalls
    <2> DEFINE before == SubSeq(steps[r], 1, q - 1)
    <2>1. Served(before, {})
      BY DEF HistoryInv, GoodHistory, Fits, ResponseFits, IsTurn, Before
    <2>2. \/ \A i \in DOMAIN before[p].calls : HasResult(before, NoId, before[p].calls[i].id)
          \/ Excused(before, p)
      BY <2>1 DEF Served
    <2> HIDE DEF before
    <2>3. Excused(before, p) =>
            \/ AsksHuman(before[p].calls)
            \/ \E s \in DOMAIN before :
                  /\ before[s].kind = "SkillAssistantResponse"
                  /\ AsksHuman(before[s].calls)
                  /\ \E i \in DOMAIN before[p].calls : before[p].calls[i].id = before[s].inv
      BY DEF Excused, AskedIn
    <2> QED BY <2>2, <2>3 DEF before
  <1> QED BY <1>1, HistoriesAreGood, PTL

\* A set of numbers has a least one.
LEMMA LeastOf ==
    ASSUME NEW T \in SUBSET Nat, T # {}
    PROVE  \E m \in T : \A n \in T : m <= n
  <1>1. PICK m \in T : \A n \in T : ~(<<n, m>> \in OpToRel(<, Nat))
    BY NatLessThanWellFounded, WFMin
  <1>2. \A n \in T : n \in Nat /\ m \in Nat /\ ~(n < m)
    BY <1>1 DEF OpToRel
  <1> QED BY <1>2

\* The places of a sequence at which something holds have a last one.
LEMMA LastOf ==
    ASSUME NEW n \in Nat, NEW T \in SUBSET (1..n), T # {}
    PROVE  \E m \in T : \A k \in T : k <= m
  <1> DEFINE U == {n - k : k \in T}
  <1>1. U \in SUBSET Nat /\ U # {}
    <2>1. \A k \in T : n - k \in Nat
      <3>1. \A k \in T : k \in 1..n
        OBVIOUS
      <3> QED BY <3>1
    <2>2. \A u \in U : u \in Nat
      BY <2>1
    <2>3. PICK k \in T : TRUE
      OBVIOUS
    <2>4. n - k \in U
      OBVIOUS
    <2> QED BY <2>2, <2>4
  <1>2. PICK u \in U : \A v \in U : u <= v
    <2> HIDE DEF U
    <2> QED BY <1>1, LeastOf
  <1>3. PICK m \in T : u = n - m
    BY <1>2
  <1>4. \A k \in T : k <= m
    <2>1. SUFFICES ASSUME NEW k \in T PROVE k <= m
      OBVIOUS
    <2>2. n - k \in U
      OBVIOUS
    <2>3. n - m <= n - k
      BY <1>2, <1>3, <2>2
    <2> QED BY <2>3
  <1> QED BY <1>4

\* What has a result was called at an earlier step than the last.
LEMMA ResultsComeLater ==
    ASSUME NEW log \in Seq(Step), GoodHistory(log), NEW inv, NEW i
    PROVE  ~HasResult(log, inv, <<Len(log), i>>)
  <1>1. SUFFICES ASSUME HasResult(log, inv, <<Len(log), i>>) PROVE FALSE
    OBVIOUS
  <1>2. PICK q \in DOMAIN log :
           log[q].kind \in Results /\ log[q].inv = inv /\ log[q].id = <<Len(log), i>>
    BY <1>1 DEF HasResult
  <1>3. Makes(Before(log, q), inv, <<Len(log), i>>)
    BY <1>2 DEF GoodHistory, Fits, ResultFits
  <1>4. PICK p \in 1..(q - 1) :
           /\ log[p].kind \in TurnKinds
           /\ \E j \in DOMAIN log[p].calls : log[p].calls[j].id = <<Len(log), i>>
    BY <1>3, BeforeFacts DEF Makes
  <1>5. /\ p \in DOMAIN log /\ p # Len(log) /\ Len(log) # 0
    BY BeforeFacts
  <1>6. Named(p, log[p])
    BY <1>4, <1>5, GoodStep
  <1>7. PICK j \in DOMAIN log[p].calls : log[p].calls[j].id = <<Len(log), i>>
    BY <1>4
  <1>8. CASE IsRequest(log[p])
    <2>1. log[p].calls[j].id[1] = 0
      BY <1>7, <1>8 DEF IsRequest
    <2>2. <<Len(log), i>>[1] = 0
      BY <1>7, <2>1
    <2> QED BY <1>5, <2>2
  <1>9. CASE ~IsRequest(log[p])
    <2>1. log[p].calls[j].id = <<p, j>>
      BY <1>6, <1>9 DEF Named
    <2>2. <<p, j>> = <<Len(log), i>>
      BY <1>7, <2>1
    <2> QED BY <1>5, <2>2
  <1> QED BY <1>8, <1>9

\* A run that waits has just asked, and shows what it will take the answer for,
\* or has just recorded an answer.
THEOREM RunsPauseAtQuestions == Spec => []PausedAtQuestion
  <1>1. TypeOK /\ WorkerMatchesStore /\ HistoryInv => PausedAtQuestion
    <2> SUFFICES ASSUME TypeOK, WorkerMatchesStore, HistoryInv,
                        NEW r \in Runs, status[r] = "WaitingForHumanInput"
                 PROVE  LET log == steps[r]
                        IN  /\ log # <<>>
                            /\ \/ \E at \in OpenQuestions(log) :
                                     /\ at[1] = Len(log)
                                     /\ IsLast(at, OpenQuestions(log))
                                     /\ log[at[1]].calls[at[2]].tool # "malformed_input" =>
                                            at \in ShownQuestions(log) /\ IsLast(at, ShownQuestions(log))
                               \/ log[Len(log)].kind \in Results
      BY DEF PausedAtQuestion
    <2> DEFINE log == steps[r]
    <2>1. r = latest /\ log \in Seq(Step) /\ GoodHistory(log)
      BY DEF WorkerMatchesStore, TypeOK, HistoryInv
    <2>2. Paused(log)
      <3>1. WaitingForHuman
        BY <2>1, RunLoopAssumption DEF WaitingForHuman, Runs
      <3> QED BY <2>1, <3>1 DEF HistoryInv, History
    <2> HIDE DEF log
    <2>3. log # <<>>
      BY <2>2 DEF Paused
    <2>4. CASE log[Len(log)].kind \in TurnKinds /\ AsksHuman(log[Len(log)].calls)
      <3> DEFINE n == Len(log)
                 calls == log[n].calls
                 asking == {i \in DOMAIN calls : calls[i].tool \in HumanTools}
      <3>1. DOMAIN log = 1..n /\ n \in Nat \ {0}
        BY <2>1, <2>3, EmptySeq
      <3>2. n \in DOMAIN log /\ log[n] \in Step /\ calls \in Seq(Call) /\ Named(n, log[n])
        BY <2>1, <2>4, <3>1, GoodStep
      <3>3. \E m \in asking : \A k \in asking : k <= m
        <4>1. asking \in SUBSET (1..Len(calls)) /\ Len(calls) \in Nat
          BY <3>2
        <4>2. asking # {}
          BY <2>4 DEF AsksHuman
        <4> HIDE DEF asking
        <4> QED BY <4>1, <4>2, LastOf
      <3>4. PICK m \in asking : \A k \in asking : k <= m
        BY <3>3
      <3>5. calls[m].id = <<n, m>>
        <4>1. ~IsRequest(log[n])
          BY <3>4 DEF IsRequest, HumanTools
        <4> QED BY <3>2, <3>4, <4>1 DEF Named
      <3>6. ~HasResult(log, log[n].inv, calls[m].id)
        BY <2>1, <3>5, ResultsComeLater
      <3>7. <<n, m>> \in Positions(log)
        BY <2>4, <3>2, <3>4 DEF Positions
      <3> DEFINE at == <<n, m>>
      <3>8. at[1] = n /\ at[2] = m
        OBVIOUS
      <3>9. ASSUME NEW other \in Positions(log), log[other[1]].calls[other[2]].tool \in HumanTools
            PROVE  \/ other[1] < at[1]
                   \/ other[1] = at[1] /\ other[2] <= at[2]
        <4>1. other[1] \in DOMAIN log /\ other[2] \in DOMAIN log[other[1]].calls
          BY <2>1, <3>9, PositionsAreCalls
        <4>2. CASE other[1] = n
          <5>1. other[2] \in asking
            BY <3>9, <4>1, <4>2
          <5> QED BY <3>4, <3>8, <4>2, <5>1
        <4>3. CASE other[1] # n
          BY <3>1, <3>8, <4>1, <4>3
        <4> QED BY <4>2, <4>3
      <3>10. at \in OpenQuestions(log)
        BY <3>4, <3>6, <3>7, <3>8 DEF OpenQuestions
      <3>11. IsLast(at, OpenQuestions(log))
        BY <3>9 DEF IsLast, OpenQuestions
      <3>12. log[at[1]].calls[at[2]].tool # "malformed_input" => at \in ShownQuestions(log)
        BY <3>4, <3>7, <3>8 DEF ShownQuestions
      <3>13. IsLast(at, ShownQuestions(log))
        BY <3>9 DEF IsLast, ShownQuestions
      <3> HIDE DEF at
      <3>14. \E a \in OpenQuestions(log) :
                /\ a[1] = Len(log)
                /\ IsLast(a, OpenQuestions(log))
                /\ log[a[1]].calls[a[2]].tool # "malformed_input" =>
                       a \in ShownQuestions(log) /\ IsLast(a, ShownQuestions(log))
        BY <3>8, <3>10, <3>11, <3>12, <3>13
      <3> QED BY <2>3, <3>14 DEF log
    <2>5. CASE log[Len(log)].kind \in Results
      BY <2>3, <2>5 DEF log
    <2> QED BY <2>2, <2>4, <2>5 DEF Paused
  <1> QED BY <1>1, HistoriesAreGood, TypeCorrect, WorkerAgrees, PTL

-----------------------------------------------------------------------------
(***************************************************************************)
(* Limits: however often a run waits and is resumed, the main loop calls   *)
(* the model at most MaxIterations times between two answers of the human, *)
(* and a skill at most MaxIterations times from its start.                 *)
(*                                                                         *)
(* The counters are in the worker and are lost with it; what is bounded is *)
(* in the history.  The invariant therefore says how many turns of the     *)
(* history the counters of the worker stand for.                           *)
(***************************************************************************)
Turns(log, from) == {p \in (from + 1)..Len(log) : IsTurn(log[p])}

\* At most n turns since the human last answered.
TurnsWithin(log, n) ==
    \A from \in {0} \union DOMAIN log :
        (\A q \in HumanAnswers(log) : q <= from) => Cardinality(Turns(log, from)) <= n

Starts(step, inv) == step.kind = "SkillStarted" /\ step.inv = inv

\* At most the limit after each start of a skill.
SkillsWithin(log) ==
    \A p \in DOMAIN log : log[p].kind = "SkillStarted" =>
        Cardinality(SkillTurnsSince(log, p)) <= MaxIterations

\* At most n since the skill called by inv was last started.
SkillWithin(log, inv, n) ==
    \A p \in DOMAIN log :
        Starts(log[p], inv) /\ (\A t \in (p + 1)..Len(log) : ~Starts(log[t], inv)) =>
            Cardinality(SkillTurnsSince(log, p)) <= n

\* How many turns of the history the counters of the worker w stand for.
CountersFit(w, log) ==
    /\ w.pc \in {"created", "requesting", "explicit", "resume"} => w.iter = 0
    /\ w.pc = "llm" => w.iter >= 1 /\ TurnsWithin(log, w.iter - 1)
    /\ w.pc \in (Serving \ {"llm"}) \union {"resume"} => TurnsWithin(log, w.iter)
    /\ w.pc = "skillLlm" => w.skillIter < MaxIterations
    /\ w.pc = "skillExec" => w.skillIter <= MaxIterations
    /\ w.pc \in {"skillLlm", "skillExec"} => SkillWithin(log, w.calls[1].id, w.skillIter)

LimitInv ==
    /\ \A r \in Runs : TurnsWithin(steps[r], MaxIterations) /\ SkillsWithin(steps[r])
    /\ latest > 0 => CountersFit(worker, History)

-----------------------------------------------------------------------------
(***************************************************************************)
(* Counting.                                                               *)
(***************************************************************************)

\* A part of a finite set, with one element more at most, counts one more at
\* most.
LEMMA CountGrows ==
    ASSUME NEW S, IsFiniteSet(S), NEW T, NEW x
    PROVE  /\ T \subseteq S => Cardinality(T) <= Cardinality(S) /\ Cardinality(T) \in Nat
           /\ T \subseteq S \union {x} =>
                 Cardinality(T) <= Cardinality(S) + 1 /\ Cardinality(T) \in Nat
           /\ Cardinality(S) \in Nat
  <1>1. Cardinality(S) \in Nat
    BY FS_CardinalityType
  <1>2. IsFiniteSet(S \union {x}) /\ Cardinality(S \union {x}) <= Cardinality(S) + 1
    BY <1>1, FS_AddElement
  <1>3. Cardinality(S \union {x}) \in Nat
    BY <1>2, FS_CardinalityType
  <1>4. ASSUME T \subseteq S
        PROVE  Cardinality(T) <= Cardinality(S) /\ Cardinality(T) \in Nat
    BY <1>4, FS_Subset, FS_CardinalityType
  <1>5. ASSUME T \subseteq S \union {x}
        PROVE  Cardinality(T) <= Cardinality(S) + 1 /\ Cardinality(T) \in Nat
    <2>1. IsFiniteSet(T) /\ Cardinality(T) <= Cardinality(S \union {x})
      BY <1>2, <1>5, FS_Subset
    <2>2. Cardinality(T) \in Nat
      BY <2>1, FS_CardinalityType
    <2> QED BY <1>1, <1>2, <1>3, <2>1, <2>2
  <1> QED BY <1>1, <1>4, <1>5

\* The sets that are counted are finite.
LEMMA CountedAreFinite ==
    ASSUME NEW log \in Seq(Step), NEW from \in Nat
    PROVE  /\ IsFiniteSet(Turns(log, from)) /\ Cardinality(Turns(log, from)) \in Nat
           /\ IsFiniteSet(SkillTurnsSince(log, from))
           /\ Cardinality(SkillTurnsSince(log, from)) \in Nat
  <1>1. Len(log) \in Nat
    OBVIOUS
  <1>2. IsFiniteSet(1..Len(log))
    BY <1>1, FS_Interval
  <1>3. \A t \in (from + 1)..Len(log) : t \in 1..Len(log)
    BY <1>1
  <1>4. Turns(log, from) \subseteq 1..Len(log) /\ SkillTurnsSince(log, from) \subseteq 1..Len(log)
    BY <1>3 DEF Turns, SkillTurnsSince
  <1>5. IsFiniteSet(Turns(log, from)) /\ IsFiniteSet(SkillTurnsSince(log, from))
    BY <1>2, <1>4, FS_Subset
  <1> QED BY <1>5, FS_CardinalityType

\* Fewer turns are also within a larger bound.
LEMMA TurnsWithinMore ==
    ASSUME NEW log \in Seq(Step), NEW n \in Nat, NEW m \in Nat, n <= m, TurnsWithin(log, n)
    PROVE  TurnsWithin(log, m)
  <1>1. \A from \in {0} \union DOMAIN log : from \in Nat
    OBVIOUS
  <1>2. \A from \in {0} \union DOMAIN log : Cardinality(Turns(log, from)) \in Nat
    BY <1>1, CountedAreFinite
  <1> QED BY <1>2 DEF TurnsWithin

\* The human's answers stay what they are.
LEMMA AnswersStay ==
    ASSUME NEW log \in Seq(Step), NEW s \in Step
    PROVE  HumanAnswers(log) \subseteq HumanAnswers(Append(log, s))
  <1>1. /\ DOMAIN Append(log, s) = 1..(Len(log) + 1) /\ DOMAIN log = 1..Len(log)
        /\ \A p \in 1..Len(log) : Append(log, s)[p] = log[p]
        /\ Len(log) \in Nat
    BY AppendFacts
  <1>2. \A q \in DOMAIN log : \A p \in 1..(q - 1) : p \in DOMAIN log
    BY <1>1
  <1> QED BY <1>1, <1>2 DEF HumanAnswers

\* One more step is at most one more turn since the last answer, and none when
\* it is not a turn.
LEMMA TurnsAppend ==
    ASSUME NEW log \in Seq(Step), NEW s \in Step, NEW n \in Nat, TurnsWithin(log, n)
    PROVE  /\ TurnsWithin(Append(log, s), n + 1)
           /\ ~IsTurn(s) => TurnsWithin(Append(log, s), n)
  <1> DEFINE longer == Append(log, s)
  <1>1. /\ DOMAIN longer = 1..(Len(log) + 1) /\ DOMAIN log = 1..Len(log)
        /\ Len(longer) = Len(log) + 1
        /\ longer[Len(log) + 1] = s
        /\ \A p \in 1..Len(log) : longer[p] = log[p]
        /\ Len(log) \in Nat
    BY AppendFacts
  <1>2. HumanAnswers(log) \subseteq HumanAnswers(longer)
    BY AnswersStay
  <1> HIDE DEF longer
  <1>3. ASSUME NEW from \in {0} \union DOMAIN longer, \A q \in HumanAnswers(longer) : q <= from
        PROVE  /\ Cardinality(Turns(longer, from)) <= n + 1
               /\ ~IsTurn(s) => Cardinality(Turns(longer, from)) <= n
    <2>1. CASE from = Len(log) + 1
      <3>1. Turns(longer, from) = {}
        BY <1>1, <2>1 DEF Turns
      <3> QED BY <3>1, FS_EmptySet
    <2>2. CASE from # Len(log) + 1
      <3>1. from \in {0} \union DOMAIN log /\ from \in Nat
        BY <1>1, <1>3, <2>2
      <3>2. Cardinality(Turns(log, from)) <= n
        BY <1>2, <1>3, <3>1 DEF TurnsWithin
      <3>3. Turns(longer, from) \subseteq Turns(log, from) \union {Len(log) + 1}
        BY <1>1, <3>1 DEF Turns
      <3>4. ~IsTurn(s) => Turns(longer, from) \subseteq Turns(log, from)
        BY <1>1, <3>1 DEF Turns
      <3>5. IsFiniteSet(Turns(log, from))
        BY <3>1, CountedAreFinite
      <3>6. /\ Cardinality(Turns(longer, from)) <= Cardinality(Turns(log, from)) + 1
            /\ Cardinality(Turns(longer, from)) \in Nat
            /\ Cardinality(Turns(log, from)) \in Nat
        BY <3>3, <3>5, CountGrows
      <3>7. ~IsTurn(s) => Cardinality(Turns(longer, from)) <= Cardinality(Turns(log, from))
        BY <3>4, <3>5, CountGrows
      <3>8. ~IsTurn(s) => Cardinality(Turns(longer, from)) <= n
        BY <3>2, <3>6, <3>7
      <3> QED BY <3>2, <3>6, <3>8
    <2> QED BY <2>1, <2>2
  <1>4. TurnsWithin(longer, n + 1) /\ (~IsTurn(s) => TurnsWithin(longer, n))
    BY <1>3 DEF TurnsWithin
  <1> QED BY <1>4 DEF longer

\* After an answer of the human there is no turn yet.
LEMMA TurnsAnswered ==
    ASSUME NEW log \in Seq(Step), NEW s \in Step, s.kind \in Results,
           NEW p \in DOMAIN log, NEW i \in DOMAIN log[p].calls,
           log[p].calls[i].id = s.id, log[p].calls[i].tool \in HumanTools
    PROVE  TurnsWithin(Append(log, s), 0)
  <1> DEFINE longer == Append(log, s)
  <1>1. /\ DOMAIN longer = 1..(Len(log) + 1) /\ DOMAIN log = 1..Len(log)
        /\ Len(longer) = Len(log) + 1
        /\ longer[Len(log) + 1] = s
        /\ \A t \in 1..Len(log) : longer[t] = log[t]
        /\ Len(log) \in Nat
    BY AppendFacts
  <1> HIDE DEF longer
  <1>2. Len(log) + 1 \in HumanAnswers(longer)
    <2>1. p \in 1..((Len(log) + 1) - 1) /\ longer[p] = log[p]
      BY <1>1
    <2> QED BY <1>1, <2>1 DEF HumanAnswers
  <1>3. ASSUME NEW from \in {0} \union DOMAIN longer, \A q \in HumanAnswers(longer) : q <= from
        PROVE  Cardinality(Turns(longer, from)) <= 0
    <2>1. Len(log) + 1 <= from
      BY <1>2, <1>3
    <2>2. from = Len(log) + 1
      BY <1>1, <1>3, <2>1
    <2>3. Turns(longer, from) = {}
      BY <1>1, <2>2 DEF Turns
    <2> QED BY <2>3, FS_EmptySet
  <1>4. TurnsWithin(longer, 0)
    BY <1>3 DEF TurnsWithin
  <1> QED BY <1>4 DEF longer

\* What one more step adds to the turns of a skill.
LEMMA SkillTurnsAppend ==
    ASSUME NEW log \in Seq(Step), NEW s \in Step, NEW p \in DOMAIN log
    PROVE  /\ SkillTurnsSince(Append(log, s), p) \subseteq
                 SkillTurnsSince(log, p) \union {Len(log) + 1}
           /\ \/ s.kind # "SkillAssistantResponse"
              \/ s.inv # log[p].inv
              \/ \E t \in (p + 1)..Len(log) : Starts(log[t], log[p].inv)
              => SkillTurnsSince(Append(log, s), p) \subseteq SkillTurnsSince(log, p)
  <1> DEFINE longer == Append(log, s)
  <1>1. /\ DOMAIN longer = 1..(Len(log) + 1) /\ DOMAIN log = 1..Len(log)
        /\ Len(longer) = Len(log) + 1
        /\ longer[Len(log) + 1] = s
        /\ \A t \in 1..Len(log) : longer[t] = log[t]
        /\ Len(log) \in Nat
    BY AppendFacts
  <1> HIDE DEF longer
  <1>2. longer[p] = log[p] /\ p \in Nat \ {0}
    BY <1>1
  <1>3. ASSUME NEW t \in SkillTurnsSince(longer, p), t # Len(log) + 1
        PROVE  t \in SkillTurnsSince(log, p)
    <2>1. /\ t \in (p + 1)..Len(log)
          /\ longer[t].kind = "SkillAssistantResponse" /\ longer[t].inv = longer[p].inv
          /\ \A u \in (p + 1)..t :
                ~(longer[u].kind = "SkillStarted" /\ longer[u].inv = longer[p].inv)
      BY <1>1, <1>3 DEF SkillTurnsSince
    <2>2. \A u \in (p + 1)..t : u \in 1..Len(log)
      BY <1>1, <1>2, <2>1
    <2>3. t \in 1..Len(log)
      BY <1>2, <2>1
    <2> QED BY <1>1, <1>2, <2>1, <2>2, <2>3 DEF SkillTurnsSince
  <1>4. ASSUME Len(log) + 1 \in SkillTurnsSince(longer, p)
        PROVE  /\ s.kind = "SkillAssistantResponse" /\ s.inv = log[p].inv
               /\ \A t \in (p + 1)..Len(log) : ~Starts(log[t], log[p].inv)
    <2>1. /\ longer[Len(log) + 1].kind = "SkillAssistantResponse"
          /\ longer[Len(log) + 1].inv = longer[p].inv
          /\ \A u \in (p + 1)..(Len(log) + 1) :
                ~(longer[u].kind = "SkillStarted" /\ longer[u].inv = longer[p].inv)
      BY <1>4 DEF SkillTurnsSince
    <2>2. \A t \in (p + 1)..Len(log) : t \in (p + 1)..(Len(log) + 1) /\ t \in 1..Len(log)
      BY <1>1, <1>2
    <2> QED BY <1>1, <1>2, <2>1, <2>2 DEF Starts
  <1>5. SkillTurnsSince(longer, p) \subseteq SkillTurnsSince(log, p) \union {Len(log) + 1}
    BY <1>3
  <1>6. ASSUME \/ s.kind # "SkillAssistantResponse"
               \/ s.inv # log[p].inv
               \/ \E t \in (p + 1)..Len(log) : Starts(log[t], log[p].inv)
        PROVE  SkillTurnsSince(longer, p) \subseteq SkillTurnsSince(log, p)
    BY <1>3, <1>4, <1>6
  <1> QED BY <1>5, <1>6 DEF longer

\* A start that nothing follows has no turns.
LEMMA NoSkillTurnsYet ==
    ASSUME NEW log \in Seq(Step), NEW p \in Nat, p >= Len(log)
    PROVE  Cardinality(SkillTurnsSince(log, p)) = 0
  <1>1. SkillTurnsSince(log, p) = {}
    BY DEF SkillTurnsSince
  <1> QED BY <1>1, FS_EmptySet

\* A step that is no response of a skill adds nothing to the skills.
LEMMA SkillsStay ==
    ASSUME NEW log \in Seq(Step), NEW s \in Step, s.kind # "SkillAssistantResponse"
    PROVE  /\ SkillsWithin(log) => SkillsWithin(Append(log, s))
           /\ \A inv : \A n \in Nat : SkillWithin(log, inv, n) => SkillWithin(Append(log, s), inv, n)
  <1> DEFINE longer == Append(log, s)
  <1>1. /\ DOMAIN longer = 1..(Len(log) + 1) /\ DOMAIN log = 1..Len(log)
        /\ Len(longer) = Len(log) + 1 /\ longer \in Seq(Step)
        /\ longer[Len(log) + 1] = s
        /\ \A t \in 1..Len(log) : longer[t] = log[t]
        /\ Len(log) \in Nat
    BY AppendFacts
  <1>2. ASSUME NEW p \in DOMAIN log
        PROVE  /\ Cardinality(SkillTurnsSince(longer, p)) <= Cardinality(SkillTurnsSince(log, p))
               /\ Cardinality(SkillTurnsSince(longer, p)) \in Nat
               /\ Cardinality(SkillTurnsSince(log, p)) \in Nat
    <2>1. SkillTurnsSince(longer, p) \subseteq SkillTurnsSince(log, p)
      BY SkillTurnsAppend
    <2>2. p \in Nat
      BY <1>1
    <2>3. IsFiniteSet(SkillTurnsSince(log, p))
      BY <2>2, CountedAreFinite
    <2> QED BY <2>1, <2>3, CountGrows
  <1> HIDE DEF longer
  <1>3. Cardinality(SkillTurnsSince(longer, Len(log) + 1)) = 0
    BY <1>1, NoSkillTurnsYet
  <1>4. SkillsWithin(log) => SkillsWithin(longer)
    <2>1. SUFFICES ASSUME SkillsWithin(log), NEW p \in DOMAIN longer,
                          longer[p].kind = "SkillStarted"
                   PROVE  Cardinality(SkillTurnsSince(longer, p)) <= MaxIterations
      BY DEF SkillsWithin
    <2>2. CASE p = Len(log) + 1
      BY <1>3, <2>2, RunLoopAssumption
    <2>3. CASE p # Len(log) + 1
      <3>1. p \in DOMAIN log /\ log[p].kind = "SkillStarted"
        BY <1>1, <2>1, <2>3
      <3>2. Cardinality(SkillTurnsSince(log, p)) <= MaxIterations
        BY <2>1, <3>1 DEF SkillsWithin
      <3> QED BY <1>2, <3>1, <3>2, RunLoopAssumption
    <2> QED BY <2>2, <2>3
  <1>5. \A inv : \A n \in Nat : SkillWithin(log, inv, n) => SkillWithin(longer, inv, n)
    <2>1. SUFFICES ASSUME NEW inv, NEW n \in Nat, SkillWithin(log, inv, n),
                          NEW p \in DOMAIN longer, Starts(longer[p], inv),
                          \A t \in (p + 1)..Len(longer) : ~Starts(longer[t], inv)
                   PROVE  Cardinality(SkillTurnsSince(longer, p)) <= n
      BY DEF SkillWithin
    <2>2. CASE p = Len(log) + 1
      BY <1>3, <2>2
    <2>3. CASE p # Len(log) + 1
      <3>1. p \in DOMAIN log /\ Starts(log[p], inv)
        BY <1>1, <2>1, <2>3
      <3>2. \A t \in (p + 1)..Len(log) : ~Starts(log[t], inv)
        BY <1>1, <2>1, <3>1
      <3>3. Cardinality(SkillTurnsSince(log, p)) <= n
        BY <2>1, <3>1, <3>2 DEF SkillWithin
      <3> QED BY <1>2, <3>1, <3>3
    <2> QED BY <2>2, <2>3
  <1> QED BY <1>4, <1>5 DEF longer

\* A response of a skill is one more since its last start.
LEMMA SkillResponds ==
    ASSUME NEW log \in Seq(Step), NEW s \in Step, s.kind = "SkillAssistantResponse",
           NEW n \in Nat, n < MaxIterations, SkillsWithin(log), SkillWithin(log, s.inv, n)
    PROVE  /\ SkillsWithin(Append(log, s))
           /\ SkillWithin(Append(log, s), s.inv, n + 1)
  <1> DEFINE longer == Append(log, s)
  <1>1. /\ DOMAIN longer = 1..(Len(log) + 1) /\ DOMAIN log = 1..Len(log)
        /\ Len(longer) = Len(log) + 1 /\ longer \in Seq(Step)
        /\ longer[Len(log) + 1] = s
        /\ \A t \in 1..Len(log) : longer[t] = log[t]
        /\ Len(log) \in Nat
    BY AppendFacts
  <1>2. ASSUME NEW p \in DOMAIN log
        PROVE  IsFiniteSet(SkillTurnsSince(log, p))
    <2>1. p \in Nat
      BY <1>1
    <2> QED BY <2>1, CountedAreFinite
  <1>3. ASSUME NEW p \in DOMAIN log, Starts(log[p], s.inv),
               \A t \in (p + 1)..Len(log) : ~Starts(log[t], s.inv)
        PROVE  Cardinality(SkillTurnsSince(longer, p)) <= n + 1
    <2>1. SkillTurnsSince(longer, p) \subseteq SkillTurnsSince(log, p) \union {Len(log) + 1}
      BY SkillTurnsAppend
    <2>2. Cardinality(SkillTurnsSince(log, p)) <= n
      BY <1>3 DEF SkillWithin
    <2>3. /\ Cardinality(SkillTurnsSince(longer, p)) <= Cardinality(SkillTurnsSince(log, p)) + 1
          /\ Cardinality(SkillTurnsSince(longer, p)) \in Nat
          /\ Cardinality(SkillTurnsSince(log, p)) \in Nat
      BY <1>2, <2>1, CountGrows
    <2> QED BY <2>2, <2>3
  <1>4. ASSUME NEW p \in DOMAIN log, log[p].kind = "SkillStarted",
               log[p].inv # s.inv \/ \E t \in (p + 1)..Len(log) : Starts(log[t], s.inv)
        PROVE  Cardinality(SkillTurnsSince(longer, p)) <= MaxIterations
    <2>1. SkillTurnsSince(longer, p) \subseteq SkillTurnsSince(log, p)
      BY <1>4, SkillTurnsAppend
    <2>2. Cardinality(SkillTurnsSince(log, p)) <= MaxIterations
      BY <1>4 DEF SkillsWithin
    <2>3. /\ Cardinality(SkillTurnsSince(longer, p)) <= Cardinality(SkillTurnsSince(log, p))
          /\ Cardinality(SkillTurnsSince(longer, p)) \in Nat
          /\ Cardinality(SkillTurnsSince(log, p)) \in Nat
      BY <1>2, <2>1, CountGrows
    <2> QED BY <2>2, <2>3, RunLoopAssumption
  <1> HIDE DEF longer
  <1>5. Cardinality(SkillTurnsSince(longer, Len(log) + 1)) = 0
    BY <1>1, NoSkillTurnsYet
  <1>6. SkillsWithin(longer)
    <2>1. SUFFICES ASSUME NEW p \in DOMAIN longer, longer[p].kind = "SkillStarted"
                   PROVE  Cardinality(SkillTurnsSince(longer, p)) <= MaxIterations
      BY DEF SkillsWithin
    <2>2. CASE p = Len(log) + 1
      BY <1>5, <2>2, RunLoopAssumption
    <2>3. CASE p # Len(log) + 1
      <3>1. p \in DOMAIN log /\ log[p].kind = "SkillStarted"
        BY <1>1, <2>1, <2>3
      <3>2. CASE log[p].inv = s.inv /\ \A t \in (p + 1)..Len(log) : ~Starts(log[t], s.inv)
        <4>1. Cardinality(SkillTurnsSince(longer, p)) <= n + 1
          BY <1>3, <3>1, <3>2 DEF Starts
        <4>2. n + 1 <= MaxIterations
          BY RunLoopAssumption
        <4>3. Cardinality(SkillTurnsSince(longer, p)) \in Nat
          <5>1. p \in Nat
            BY <1>1, <3>1
          <5> QED BY <1>1, <5>1, CountedAreFinite
        <4> QED BY <4>1, <4>2, <4>3, RunLoopAssumption
      <3>3. CASE ~(log[p].inv = s.inv /\ \A t \in (p + 1)..Len(log) : ~Starts(log[t], s.inv))
        BY <1>4, <3>1, <3>3
      <3> QED BY <3>2, <3>3
    <2> QED BY <2>2, <2>3
  <1>7. SkillWithin(longer, s.inv, n + 1)
    <2>1. SUFFICES ASSUME NEW p \in DOMAIN longer, Starts(longer[p], s.inv),
                          \A t \in (p + 1)..Len(longer) : ~Starts(longer[t], s.inv)
                   PROVE  Cardinality(SkillTurnsSince(longer, p)) <= n + 1
      BY DEF SkillWithin
    <2>2. CASE p = Len(log) + 1
      BY <1>5, <2>2
    <2>3. CASE p # Len(log) + 1
      <3>1. p \in DOMAIN log /\ Starts(log[p], s.inv)
        BY <1>1, <2>1, <2>3
      <3>2. \A t \in (p + 1)..Len(log) : ~Starts(log[t], s.inv)
        BY <1>1, <2>1, <3>1
      <3> QED BY <1>3, <3>1, <3>2
    <2> QED BY <2>2, <2>3
  <1> QED BY <1>6, <1>7 DEF longer

\* A skill that has just been started has no turns since then.
LEMMA SkillBegins ==
    ASSUME NEW log \in Seq(Step), NEW s \in Step, s.kind = "SkillStarted"
    PROVE  SkillWithin(Append(log, s), s.inv, 0)
  <1> DEFINE longer == Append(log, s)
  <1>1. /\ DOMAIN longer = 1..(Len(log) + 1) /\ DOMAIN log = 1..Len(log)
        /\ Len(longer) = Len(log) + 1 /\ longer \in Seq(Step)
        /\ longer[Len(log) + 1] = s
        /\ Len(log) \in Nat
    BY AppendFacts
  <1> HIDE DEF longer
  <1>2. Cardinality(SkillTurnsSince(longer, Len(log) + 1)) = 0
    BY <1>1, NoSkillTurnsYet
  <1>3. ASSUME NEW p \in DOMAIN longer, \A t \in (p + 1)..Len(longer) : ~Starts(longer[t], s.inv)
        PROVE  p = Len(log) + 1
    <2>1. Starts(longer[Len(log) + 1], s.inv)
      BY <1>1 DEF Starts
    <2>2. Len(log) + 1 \notin (p + 1)..Len(longer)
      BY <1>3, <2>1
    <2> QED BY <1>1, <2>2
  <1>4. SkillWithin(longer, s.inv, 0)
    BY <1>2, <1>3 DEF SkillWithin
  <1> QED BY <1>4 DEF longer

\* What a resumed skill has recorded is at least what it did since its start.
LEMMA SkillResumes ==
    ASSUME NEW log \in Seq(Step), NEW inv
    PROVE  SkillWithin(log, inv, SkillIterationCount(log, inv))
  <1> DEFINE all == {t \in DOMAIN log : log[t].kind = "SkillAssistantResponse" /\ log[t].inv = inv}
  <1>1. DOMAIN log = 1..Len(log) /\ Len(log) \in Nat
    OBVIOUS
  <1>2. IsFiniteSet(all)
    <2>1. IsFiniteSet(1..Len(log))
      BY <1>1, FS_Interval
    <2> QED BY <1>1, <2>1, FS_Subset
  <1>3. ASSUME NEW p \in DOMAIN log, Starts(log[p], inv)
        PROVE  SkillTurnsSince(log, p) \subseteq all
    <2>1. log[p].inv = inv /\ p \in Nat
      BY <1>1, <1>3 DEF Starts
    <2> QED BY <1>1, <2>1 DEF SkillTurnsSince
  <1>4. SkillIterationCount(log, inv) = Cardinality(all)
    BY DEF SkillIterationCount
  <1> HIDE DEF all
  <1> QED BY <1>2, <1>3, <1>4, CountGrows DEF SkillWithin

-----------------------------------------------------------------------------
(***************************************************************************)
(* What a step does to the invariant.                                      *)
(***************************************************************************)

\* What the counters are while the worker serves a run.
LEMMA CountingFacts ==
    ASSUME TypeInv, WorkerMatchesStore, LimitInv, worker.pc \in Serving \union {"resume"}
    PROVE  /\ latest > 0 /\ latest \in Runs /\ History \in Seq(Step)
           /\ CountersFit(worker, History)
           /\ TurnsWithin(History, MaxIterations) /\ SkillsWithin(History)
           /\ worker \in Worker /\ worker.iter \in 0..MaxIterations /\ worker.skillIter \in Nat
           /\ MaxIterations \in Nat \ {0}
  <1>1. latest > 0
    BY DEF WorkerMatchesStore, Serving, PCs
  <1>2. latest \in Runs /\ worker \in Worker
    BY <1>1, RunLoopAssumption DEF TypeInv, TypeOK, Runs
  <1>3. History \in Seq(Step)
    BY <1>1, HistoryType DEF TypeInv
  <1>4. worker.iter \in 0..MaxIterations /\ worker.skillIter \in Nat
    BY <1>2 DEF Worker
  <1>5. CountersFit(worker, History) /\ TurnsWithin(History, MaxIterations) /\ SkillsWithin(History)
    BY <1>1, <1>2 DEF LimitInv, History
  <1> QED BY <1>1, <1>2, <1>3, <1>4, <1>5, RunLoopAssumption

\* The worker does not count in a state that serves nothing.
LEMMA IdleCounts ==
    ASSUME NEW w, NEW log, w.pc \in {"idle", "begin", "checkpoint"}
    PROVE  CountersFit(w, log)
  BY DEF CountersFit, Serving

\* What counts as before fits as before.
LEMMA SameCounts ==
    ASSUME NEW v, NEW w, NEW log, CountersFit(v, log),
           w.pc = v.pc, w.iter = v.iter, w.calls = v.calls, w.skillIter = v.skillIter
    PROVE  CountersFit(w, log)
  BY DEF CountersFit

\* A step that records nothing keeps the invariant when the counters fit.
LEMMA QuietCounts ==
    ASSUME LimitInv, UNCHANGED <<steps, latest>>,
           latest > 0 => CountersFit(worker', History)
    PROVE  LimitInv'
  <1>1. History' = History
    BY DEF History
  <1>2. CountersFit(worker, History)' <=> CountersFit(worker', History)
    BY <1>1
  <1> QED BY <1>1, <1>2 DEF LimitInv

\* A step that records something keeps it when the longer history is within
\* the limits and the counters fit it.
LEMMA AppendCounts ==
    ASSUME TypeInv, LimitInv, latest > 0, UNCHANGED latest,
           NEW s \in Step, Append1(s),
           TurnsWithin(Append(History, s), MaxIterations),
           SkillsWithin(Append(History, s)),
           CountersFit(worker', Append(History, s))
    PROVE  LimitInv'
  <1>1. /\ latest \in Runs
        /\ steps'[latest] = Append(History, s)
        /\ \A r \in Runs : r # latest => steps'[r] = steps[r]
    BY AppendedHistory DEF TypeInv, History
  <1>2. History' = Append(History, s)
    BY <1>1 DEF History
  <1>3. \A r \in Runs : (TurnsWithin(steps[r], MaxIterations) /\ SkillsWithin(steps[r]))'
    BY <1>1 DEF LimitInv
  <1> QED BY <1>2, <1>3 DEF LimitInv

\* A step that is neither a turn nor a response of a skill counts nothing.
LEMMA PlainCounts ==
    ASSUME TypeInv, TypeInv', LimitInv, latest > 0, UNCHANGED latest,
           NEW s \in Step, Append1(s), ~IsTurn(s), s.kind # "SkillAssistantResponse",
           CountersFit(worker', History)
    PROVE  LimitInv'
  <1>1. latest \in Runs /\ History \in Seq(Step)
    BY AppendedHistory, HistoryType DEF TypeInv
  <1>2. TurnsWithin(History, MaxIterations) /\ SkillsWithin(History)
    BY <1>1 DEF LimitInv, History
  <1> DEFINE w == worker'
             longer == Append(History, s)
  <1>3. w.iter \in Nat /\ w.skillIter \in Nat
    BY RunLoopAssumption DEF TypeInv, TypeOK, Worker
  <1> HIDE DEF w, longer
  <1>4. \A n \in Nat : TurnsWithin(History, n) => TurnsWithin(longer, n)
    BY <1>1, TurnsAppend DEF longer
  <1>5. /\ SkillsWithin(longer)
        /\ \A inv : \A n \in Nat : SkillWithin(History, inv, n) => SkillWithin(longer, inv, n)
    BY <1>1, <1>2, SkillsStay DEF longer
  <1>6. TurnsWithin(longer, MaxIterations)
    BY <1>2, <1>4, RunLoopAssumption
  <1>7. CountersFit(w, longer)
    <2>1. CountersFit(w, History)
      BY DEF w
    <2>2. w.pc = "llm" => w.iter - 1 \in Nat
      BY <1>3, <2>1 DEF CountersFit
    <2> QED BY <1>3, <1>4, <1>5, <2>1, <2>2 DEF CountersFit
  <1> QED BY <1>5, <1>6, <1>7, AppendCounts DEF w, longer

\* The worker goes on to a point where it has counted the turns it had.
LEMMA CountedTurns ==
    ASSUME NEW w, NEW log, TurnsWithin(log, w.iter),
           w.pc \in Serving \ {"created", "requesting", "explicit", "llm", "skillLlm", "skillExec"}
    PROVE  CountersFit(w, log)
  BY DEF CountersFit, Serving
-----------------------------------------------------------------------------
(***************************************************************************)
(* Each group of actions keeps the limits.                                 *)
(***************************************************************************)

\* A run that has just been created has recorded nothing.
LEMMA StartRunCounts ==
    TypeInv /\ HistoryInv /\ LimitInv /\ StartRun => LimitInv'
  <1> SUFFICES ASSUME TypeInv, HistoryInv, LimitInv, StartRun PROVE LimitInv'
    OBVIOUS
  <1>1. latest + 1 \in Runs /\ latest \in Nat /\ latest' = latest + 1 /\ steps' = steps
    BY RunLoopAssumption DEF StartRun, TypeInv, TypeOK, Runs
  <1>2. History' = <<>>
    <2>1. steps[latest + 1] = <<>>
      BY <1>1 DEF HistoryInv, Runs
    <2> QED BY <1>1, <2>1 DEF History
  <1>3. worker'.pc = "created" /\ worker'.iter = 0
    <2>1. worker.iter = 0
      BY <1>1 DEF HistoryInv, WorkerFits, RequestRecorded, StartRun, At
    <2> QED BY <2>1 DEF StartRun, TypeInv, TypeOK, Worker
  <1>4. TurnsWithin(<<>>, 0)
    <2>1. SUFFICES ASSUME NEW from \in {0} \union DOMAIN <<>>
                   PROVE  Cardinality(Turns(<<>>, from)) <= 0
      BY DEF TurnsWithin
    <2>2. Turns(<<>>, from) = {}
      BY DEF Turns
    <2> QED BY <2>2, FS_EmptySet
  <1>5. CountersFit(worker', <<>>)
    BY <1>3, <1>4 DEF CountersFit
  <1> QED BY <1>1, <1>2, <1>5 DEF LimitInv

\* The opening steps, and the calls made for requested skills, are no turns.
LEMMA OpenCounts ==
    TypeInv /\ TypeInv' /\ WorkerMatchesStore /\ HistoryInv /\ LimitInv /\ Open => LimitInv'
  <1> SUFFICES ASSUME TypeInv, TypeInv', WorkerMatchesStore, HistoryInv, LimitInv, Open
               PROVE  LimitInv'
    OBVIOUS
  <1>0. worker.pc \in {"created", "requesting", "explicit"}
    BY DEF Open, RecordUserMessage, RecordSkillsRequested, CallRequestedSkill,
       FinishRequestedSkills, At
  <1>1. worker.pc \in Serving
    BY <1>0 DEF Serving, PCs
  <1>2. /\ latest > 0 /\ latest \in Runs /\ History \in Seq(Step)
        /\ CountersFit(worker, History) /\ worker \in Worker
        /\ MaxIterations \in Nat \ {0}
    BY <1>1, CountingFacts
  <1>3. worker.iter = 0 /\ TurnsWithin(History, 0)
    BY <1>0, <1>1, <1>2 DEF CountersFit
  <1>4. NoId \in Ids /\ <<>> \in Seq(Call) /\ {} \in SUBSET Nat
    BY EmptySeq DEF NoId, Ids
  <1>5. CASE RecordUserMessage
    <2> DEFINE s == NewStep("UserMessage", NoId, NoId, <<>>, {})
    <2>1. s \in Step /\ s.kind = "UserMessage"
      BY <1>4, NewStepType DEF NewStep, StepKinds
    <2>2. Append1(s) /\ UNCHANGED latest
      BY <1>5 DEF RecordUserMessage
    <2> HIDE DEF s
    <2>3. worker'.pc \in {"requesting", "explicit"} /\ worker'.iter = 0
      BY <1>2, <1>3, <1>5 DEF RecordUserMessage, Goto, Worker
    <2>4. CountersFit(worker', History)
      BY <1>3, <2>3 DEF CountersFit
    <2> QED BY <1>2, <2>1, <2>2, <2>4, PlainCounts DEF IsTurn
  <1>6. CASE RecordSkillsRequested
    <2> DEFINE s == NewStep("SkillsRequested", NoId, NoId, RequestedCalls(worker.requested), {})
    <2>1. worker.requested \in Nat
      BY <1>2, RunLoopAssumption DEF Worker
    <2>2. s \in Step /\ s.kind = "SkillsRequested"
      BY <1>4, <2>1, RequestedCallsType, NewStepType DEF NewStep, StepKinds
    <2>3. Append1(s) /\ UNCHANGED latest
      BY <1>6 DEF RecordSkillsRequested
    <2> HIDE DEF s
    <2>4. worker'.pc = "explicit" /\ worker'.iter = 0
      BY <1>2, <1>3, <1>6 DEF RecordSkillsRequested, Goto, Worker
    <2>5. CountersFit(worker', History)
      BY <1>3, <2>4 DEF CountersFit
    <2> QED BY <1>2, <2>2, <2>3, <2>5, PlainCounts DEF IsTurn
  <1>7. CASE CallRequestedSkill
    <2>1. PICK k \in OpenRequests(History) :
             LET call == RequestedIn(History)[k]
             IN  /\ Append1(NewStep("AssistantResponse", NoId, NoId, <<call>>, {}))
                 /\ worker' = [worker EXCEPT !.pc = "exec", !.calls = <<call>>]
      BY <1>7 DEF CallRequestedSkill
    <2> DEFINE call == RequestedIn(History)[k]
               s == NewStep("AssistantResponse", NoId, NoId, <<call>>, {})
    <2>2. call = [id |-> <<0, k>>, tool |-> "call_skill"] /\ call \in Call
      <3>1. k \in DOMAIN RequestedIn(History)
        BY DEF OpenRequests
      <3>2. GoodHistory(History)
        BY <1>2 DEF HistoryInv, History
      <3> QED BY <1>2, <3>1, <3>2, RequestedAreNamed
    <2>3. Append1(s) /\ UNCHANGED latest
      BY <1>7, <2>1 DEF CallRequestedSkill
    <2>4. worker'.pc = "exec" /\ worker'.iter = 0
      BY <1>2, <1>3, <2>1 DEF Worker
    <2> HIDE DEF call
    <2>5. s \in Step /\ s.kind = "AssistantResponse" /\ s.calls = <<call>>
      <3>1. <<call>> \in Seq(Call)
        BY <2>2
      <3> QED BY <1>4, <3>1, NewStepType DEF NewStep, StepKinds
    <2> HIDE DEF s
    <2>6. ~IsTurn(s)
      <3>1. 1 \in DOMAIN s.calls /\ s.calls[1] = call
        BY <2>5
      <3>2. s.calls[1].id[1] = 0
        BY <2>2, <3>1
      <3> QED BY <3>1, <3>2 DEF IsTurn
    <2>7. CountersFit(worker', History)
      BY <1>3, <2>4, CountedTurns DEF Serving, PCs
    <2> QED BY <1>2, <2>3, <2>5, <2>6, <2>7, PlainCounts
  <1>8. CASE FinishRequestedSkills
    <2>1. worker'.pc = "llm" /\ worker'.iter = 1 /\ UNCHANGED <<steps, latest>>
      BY <1>2, <1>8 DEF FinishRequestedSkills, StoreUnchanged, Worker
    <2>2. CountersFit(worker', History)
      BY <1>3, <2>1 DEF CountersFit
    <2> QED BY <2>1, <2>2, QuietCounts
  <1> QED BY <1>5, <1>6, <1>7, <1>8 DEF Open

\* The iteration that calls the model is the one its turn is counted for.
LEMMA CallModelCounts ==
    TypeInv /\ WorkerMatchesStore /\ LimitInv /\ CallModel => LimitInv'
  <1> SUFFICES ASSUME TypeInv, WorkerMatchesStore, LimitInv, CallModel PROVE LimitInv'
    OBVIOUS
  <1>0. worker.pc = "llm"
    BY DEF CallModel, StreamText, ReceiveAnswer, ReceiveQuestion, ReceiveToolCalls, LlmFails, At
  <1>1. /\ latest > 0 /\ latest \in Runs /\ History \in Seq(Step)
        /\ CountersFit(worker, History)
        /\ TurnsWithin(History, MaxIterations) /\ SkillsWithin(History)
        /\ worker \in Worker /\ worker.iter \in 0..MaxIterations
        /\ MaxIterations \in Nat \ {0}
    BY <1>0, CountingFacts DEF Serving, PCs
  <1>2. /\ worker.iter >= 1 /\ worker.iter \in Nat /\ worker.iter - 1 \in Nat
        /\ worker.iter <= MaxIterations
        /\ TurnsWithin(History, worker.iter - 1)
    BY <1>0, <1>1 DEF CountersFit
  <1>3. TurnsWithin(History, worker.iter)
    BY <1>1, <1>2, TurnsWithinMore
  <1>4. NextPosition \in Nat
    BY <1>1, HistoryType DEF NextPosition, TypeInv
  <1>5. ASSUME NEW shape \in Seq(Tools), RecordResponse(CallsAt(NextPosition, shape)),
               UNCHANGED latest, worker'.iter = worker.iter,
               worker'.pc \in {"complete", "suspend", "exec"}
        PROVE  LimitInv'
    <2> DEFINE s == NewStep("AssistantResponse", NoId, NoId, CallsAt(NextPosition, shape),
                            worker.partial \intersect {NextPosition})
               longer == Append(History, s)
    <2>1. s \in Step /\ s.kind = "AssistantResponse"
      <3>1. CallsAt(NextPosition, shape) \in Seq(Call)
        BY <1>4, CallsAtType
      <3>2. worker.partial \intersect {NextPosition} \in SUBSET Nat
        BY <1>1 DEF Worker
      <3>3. NoId \in Ids /\ "AssistantResponse" \in StepKinds
        BY DEF NoId, Ids, StepKinds
      <3> QED BY <3>1, <3>2, <3>3, NewStepType DEF NewStep
    <2>2. Append1(s)
      BY <1>5 DEF RecordResponse
    <2> HIDE DEF s
    <2>3. longer \in Seq(Step)
      BY <1>1, <2>1
    <2>4. TurnsWithin(longer, worker.iter)
      <3>1. TurnsWithin(longer, (worker.iter - 1) + 1)
        BY <1>1, <1>2, <2>1, TurnsAppend
      <3>2. (worker.iter - 1) + 1 = worker.iter
        BY <1>2
      <3> QED BY <3>1, <3>2
    <2>5. SkillsWithin(longer)
      BY <1>1, <2>1, SkillsStay
    <2> HIDE DEF longer
    <2>6. TurnsWithin(longer, MaxIterations)
      BY <1>1, <1>2, <2>3, <2>4, TurnsWithinMore
    <2>7. CountersFit(worker', longer)
      BY <1>5, <2>4, CountedTurns DEF Serving, PCs
    <2> QED BY <1>1, <1>5, <2>1, <2>2, <2>5, <2>6, <2>7, AppendCounts DEF longer
  <1>6. CASE StreamText
    <2>1. /\ worker'.pc = worker.pc /\ worker'.iter = worker.iter
          /\ worker'.calls = worker.calls /\ worker'.skillIter = worker.skillIter
          /\ UNCHANGED <<steps, latest>>
      BY <1>1, <1>6 DEF StreamText, StoreUnchanged, Worker
    <2> QED BY <1>1, <2>1, SameCounts, QuietCounts
  <1>7. CASE ReceiveAnswer
    <2>1. <<>> \in Seq(Tools) /\ CallsAt(NextPosition, <<>>) = <<>>
      BY DEF CallsAt
    <2>2. worker'.pc = "complete" /\ worker'.iter = worker.iter
      BY <1>1, <1>7 DEF ReceiveAnswer, Goto, Worker
    <2> QED BY <1>5, <1>7, <2>1, <2>2 DEF ReceiveAnswer
  <1>8. CASE ReceiveQuestion
    <2>1. PICK shape \in Responses : RecordResponse(CallsAt(NextPosition, shape))
      BY <1>8 DEF ReceiveQuestion
    <2>2. worker'.pc = "suspend" /\ worker'.iter = worker.iter /\ UNCHANGED latest
      BY <1>1, <1>8 DEF ReceiveQuestion, Goto, Worker
    <2> QED BY <1>5, <2>1, <2>2, RunLoopAssumption
  <1>9. CASE ReceiveToolCalls
    <2>1. PICK shape \in Responses :
             /\ RecordResponse(CallsAt(NextPosition, shape))
             /\ worker' = [worker EXCEPT !.pc = "exec", !.calls = CallsAt(NextPosition, shape)]
      BY <1>9 DEF ReceiveToolCalls
    <2>2. worker'.pc = "exec" /\ worker'.iter = worker.iter
      BY <1>1, <2>1 DEF Worker
    <2> QED BY <1>5, <1>9, <2>1, <2>2, RunLoopAssumption DEF ReceiveToolCalls
  <1>10. CASE LlmFails
    <2>1. worker'.pc = "error" /\ worker'.iter = worker.iter /\ UNCHANGED <<steps, latest>>
      BY <1>1, <1>10 DEF LlmFails, StoreUnchanged, Goto, Worker
    <2>2. CountersFit(worker', History)
      BY <1>3, <2>1, CountedTurns DEF Serving, PCs
    <2> QED BY <2>1, <2>2, QuietCounts
  <1> QED BY <1>6, <1>7, <1>8, <1>9, <1>10 DEF CallModel
\* Serving a call moves to the next iteration only below the limit.
LEMMA AfterCallCounts ==
    ASSUME TypeInv, WorkerMatchesStore, LimitInv, worker.pc \in {"exec", "skillDone"},
           NEW w, w.pc = AfterCall.pc, w.iter = AfterCall.iter
    PROVE  CountersFit(w, History)
  <1>1. /\ CountersFit(worker, History) /\ worker \in Worker
        /\ worker.iter \in 0..MaxIterations /\ MaxIterations \in Nat \ {0}
    BY CountingFacts DEF Serving, PCs
  <1>2. TurnsWithin(History, worker.iter)
    BY <1>1 DEF CountersFit, Serving, PCs
  <1>3. CASE w.pc = "exec" /\ w.iter = worker.iter
    BY <1>2, <1>3, CountedTurns DEF Serving, PCs
  <1>4. CASE w.pc = "explicit" /\ w.iter = worker.iter /\ worker.iter = 0
    BY <1>2, <1>4 DEF CountersFit
  <1>5. CASE w.pc = "llm" /\ w.iter = worker.iter + 1
    <2>1. w.iter >= 1 /\ w.iter - 1 = worker.iter
      BY <1>1, <1>5
    <2> QED BY <1>2, <1>5, <2>1 DEF CountersFit
  <1>6. CASE w.pc = "error" /\ w.iter = worker.iter
    BY <1>2, <1>6, CountedTurns DEF Serving, PCs
  <1> QED BY <1>1, <1>3, <1>4, <1>5, <1>6 DEF AfterCall, Worker

\* A response of a skill is counted for the skill that is being run.
LEMMA SkillReceivesCounts ==
    TypeInv /\ WorkerMatchesStore /\ HistoryInv /\ LimitInv
      /\ (SkillReceivesAnswer \/ SkillReceivesQuestion \/ SkillReceivesToolCalls)
    => LimitInv'
  <1> SUFFICES ASSUME TypeInv, WorkerMatchesStore, HistoryInv, LimitInv,
                      SkillReceivesAnswer \/ SkillReceivesQuestion \/ SkillReceivesToolCalls
               PROVE  LimitInv'
    OBVIOUS
  <1>0. worker.pc = "skillLlm"
    BY DEF SkillReceivesAnswer, SkillReceivesQuestion, SkillReceivesToolCalls, At
  <1>1. /\ latest > 0 /\ latest \in Runs /\ History \in Seq(Step)
        /\ CountersFit(worker, History)
        /\ TurnsWithin(History, MaxIterations) /\ SkillsWithin(History)
        /\ worker \in Worker /\ worker.iter \in 0..MaxIterations /\ worker.skillIter \in Nat
        /\ MaxIterations \in Nat \ {0}
    BY <1>0, CountingFacts DEF Serving, PCs
  <1>2. worker.calls # <<>> /\ worker.calls \in Seq(Call)
    BY <1>0, <1>1 DEF TypeInv, QueuesOK, Worker
  <1>3. Invocation = worker.calls[1].id
    BY <1>2, EmptySeq DEF Invocation
  <1>4. /\ worker.skillIter < MaxIterations
        /\ SkillWithin(History, Invocation, worker.skillIter)
        /\ TurnsWithin(History, worker.iter)
    BY <1>0, <1>1, <1>3 DEF CountersFit, Serving, PCs
  <1>5. \E shape \in Seq(Tools) : \E pc \in {"suspend", "skillDone", "skillExec"} :
          SkillReceives(shape, pc)
    <2>1. \A shape \in Responses : shape \in Seq(Tools)
      BY RunLoopAssumption
    <2>2. CASE SkillReceivesAnswer
      BY <2>2, EmptySeq DEF SkillReceivesAnswer
    <2>3. CASE SkillReceivesQuestion
      <3>1. PICK shape \in Responses :
               SkillReceives(shape, IF Len(shape) = 1 THEN "suspend" ELSE "skillDone")
        BY <2>3 DEF SkillReceivesQuestion
      <3>2. CASE Len(shape) = 1
        BY <2>1, <3>1, <3>2
      <3>3. CASE Len(shape) # 1
        BY <2>1, <3>1, <3>3
      <3> QED BY <3>2, <3>3
    <2>4. CASE SkillReceivesToolCalls
      BY <2>1, <2>4 DEF SkillReceivesToolCalls
    <2> QED BY <2>2, <2>3, <2>4
  <1>6. PICK shape \in Seq(Tools) : \E pc \in {"suspend", "skillDone", "skillExec"} :
          SkillReceives(shape, pc)
    BY <1>5
  <1>7. PICK pc \in {"suspend", "skillDone", "skillExec"} : SkillReceives(shape, pc)
    BY <1>6
  <1>8. PICK s \in Step :
              /\ s.kind = "SkillAssistantResponse" /\ s.inv = Invocation
              /\ Append1(s) /\ UNCHANGED <<status, latest>>
              /\ worker'.pc = pc /\ worker'.iter = worker.iter
              /\ worker'.calls = worker.calls
    BY <1>0, <1>7, SkillTurnFits
  <1>9. worker'.skillIter = worker.skillIter + 1
    BY <1>1, <1>7 DEF SkillReceives, Worker
  <1> DEFINE longer == Append(History, s)
  <1>10. TurnsWithin(longer, worker.iter) /\ TurnsWithin(longer, MaxIterations)
    <2>1. ~IsTurn(s) /\ worker.iter \in Nat /\ MaxIterations \in Nat
      BY <1>1, <1>8 DEF IsTurn
    <2> QED BY <1>1, <1>4, <2>1, TurnsAppend
  <1>11. SkillsWithin(longer) /\ SkillWithin(longer, Invocation, worker.skillIter + 1)
    BY <1>1, <1>4, <1>8, SkillResponds
  <1> HIDE DEF longer
  <1>12. CountersFit(worker', longer)
    <2>1. CASE pc = "skillExec"
      <3>1. worker'.skillIter <= MaxIterations
        BY <1>1, <1>4, <1>9
      <3>2. SkillWithin(longer, worker'.calls[1].id, worker'.skillIter)
        BY <1>3, <1>8, <1>9, <1>11
      <3> QED BY <1>8, <1>10, <2>1, <3>1, <3>2 DEF CountersFit
    <2>2. CASE pc # "skillExec"
      BY <1>7, <1>8, <1>10, <2>2, CountedTurns DEF Serving, PCs
    <2> QED BY <2>1, <2>2
  <1> QED BY <1>1, <1>8, <1>10, <1>11, <1>12, AppendCounts DEF longer

\* Serving the calls of a turn, and those of a skill, makes no further turn.
LEMMA ExecuteCounts ==
    TypeInv /\ TypeInv' /\ WorkerMatchesStore /\ HistoryInv /\ LimitInv /\ Execute => LimitInv'
  <1> SUFFICES ASSUME TypeInv, TypeInv', WorkerMatchesStore, HistoryInv, LimitInv, Execute
               PROVE  LimitInv'
    OBVIOUS
  <1>0. worker.pc \in SkillPCs \union {"exec"}
    BY DEF Execute, ExecuteTool, StartSkill, SkillReceivesAnswer, SkillReceivesQuestion,
       SkillReceivesToolCalls, SkillExecutesTool, SkillFails, FinishSkill, At, SkillPCs
  <1>1. /\ latest > 0 /\ latest \in Runs /\ History \in Seq(Step)
        /\ CountersFit(worker, History)
        /\ TurnsWithin(History, MaxIterations) /\ SkillsWithin(History)
        /\ worker \in Worker /\ worker.iter \in 0..MaxIterations /\ worker.skillIter \in Nat
        /\ MaxIterations \in Nat \ {0}
    BY <1>0, CountingFacts DEF Serving, PCs, SkillPCs
  <1>2. TurnsWithin(History, worker.iter)
    BY <1>0, <1>1 DEF CountersFit, Serving, PCs, SkillPCs
  <1>3. /\ worker.calls # <<>> /\ worker.calls \in Seq(Call)
        /\ worker.skillCalls \in Seq(Call) /\ TypeOK
    BY <1>0, <1>1 DEF TypeInv, QueuesOK, Worker, SkillPCs
  <1>4. Invocation = worker.calls[1].id /\ Invocation \in Ids
    BY <1>3, EmptySeq, InvocationType DEF Invocation
  <1>5. NoId \in Ids /\ <<>> \in Seq(Call) /\ {} \in SUBSET Nat
    BY EmptySeq DEF NoId, Ids
  <1>6. CASE ExecuteTool \/ FinishSkill
    <2> DEFINE s == NewStep("ToolResult", NoId, Invocation, <<>>, {})
    <2>1. s \in Step /\ s.kind = "ToolResult"
      BY <1>4, <1>5, NewStepType DEF NewStep, StepKinds
    <2>2. Append1(s) /\ UNCHANGED latest
      BY <1>6 DEF ExecuteTool, RecordToolResult, FinishSkill
    <2> HIDE DEF s
    <2>3. worker'.pc = AfterCall.pc /\ worker'.iter = AfterCall.iter
      <3>1. AfterCall \in Worker
        BY <1>3, AfterCallType
      <3> QED BY <1>6, <3>1 DEF ExecuteTool, RecordToolResult, FinishSkill, Worker
    <2>4. worker.pc \in {"exec", "skillDone"}
      BY <1>6 DEF ExecuteTool, FinishSkill, At
    <2>5. CountersFit(worker', History)
      BY <2>3, <2>4, AfterCallCounts
    <2> QED BY <1>1, <2>1, <2>2, <2>5, PlainCounts DEF IsTurn
  <1>7. CASE StartSkill
    <2> DEFINE s == NewStep("SkillStarted", Invocation, NoId, <<>>, {})
               longer == Append(History, s)
    <2>1. s \in Step /\ s.kind = "SkillStarted" /\ s.inv = Invocation
      BY <1>4, <1>5, NewStepType DEF NewStep, StepKinds
    <2>2. Append1(s) /\ UNCHANGED latest
      BY <1>7 DEF StartSkill
    <2> HIDE DEF s
    <2>3. /\ worker'.pc = "skillLlm" /\ worker'.iter = worker.iter
          /\ worker'.calls = worker.calls /\ worker'.skillIter = 0
      BY <1>1, <1>7 DEF StartSkill, Worker
    <2>4. TurnsWithin(longer, worker.iter) /\ TurnsWithin(longer, MaxIterations)
      <3>1. ~IsTurn(s) /\ worker.iter \in Nat /\ MaxIterations \in Nat
        BY <1>1, <2>1 DEF IsTurn
      <3> QED BY <1>1, <1>2, <2>1, <3>1, TurnsAppend
    <2>5. SkillsWithin(longer)
      BY <1>1, <2>1, SkillsStay
    <2>6. SkillWithin(longer, Invocation, 0)
      BY <1>1, <2>1, SkillBegins
    <2> HIDE DEF longer
    <2>7. 0 < MaxIterations
      BY <1>1
    <2>8. CountersFit(worker', longer)
      BY <1>4, <2>3, <2>4, <2>6, <2>7 DEF CountersFit
    <2> QED BY <1>1, <2>1, <2>2, <2>4, <2>5, <2>8, AppendCounts DEF longer
  <1>8. CASE SkillReceivesAnswer \/ SkillReceivesQuestion \/ SkillReceivesToolCalls
    BY <1>8, SkillReceivesCounts
  <1>9. CASE SkillExecutesTool
    <2>1. worker.pc = "skillExec" /\ worker.skillCalls # <<>>
      BY <1>9 DEF SkillExecutesTool, At, TypeInv, QueuesOK
    <2>2. Head(worker.skillCalls).id \in Ids
      <3>1. Head(worker.skillCalls) \in Call
        BY <1>3, <2>1, EmptySeq
      <3> QED BY <3>1 DEF Call
    <2> DEFINE s == NewStep("SkillToolResult", Invocation, Head(worker.skillCalls).id, <<>>, {})
    <2>3. s \in Step /\ s.kind = "SkillToolResult"
      BY <1>4, <1>5, <2>2, NewStepType DEF NewStep, StepKinds
    <2>4. Append1(s) /\ UNCHANGED latest
      BY <1>9 DEF SkillExecutesTool
    <2> HIDE DEF s
    <2>5. worker' = AfterSkillCall
      BY <1>9 DEF SkillExecutesTool
    <2>6. /\ worker'.iter = worker.iter /\ worker'.calls = worker.calls
          /\ worker'.skillIter = worker.skillIter
          /\ worker'.pc \in {"skillExec", "skillLlm", "skillDone"}
          /\ worker'.pc = "skillLlm" => worker.skillIter < MaxIterations
      BY <1>1, <2>1, <2>5 DEF AfterSkillCall, Worker
    <2>7. /\ worker.skillIter <= MaxIterations
          /\ SkillWithin(History, worker.calls[1].id, worker.skillIter)
      BY <1>1, <2>1 DEF CountersFit
    <2>8. CountersFit(worker', History)
      BY <1>2, <2>6, <2>7 DEF CountersFit
    <2> QED BY <1>1, <2>3, <2>4, <2>8, PlainCounts DEF IsTurn
  <1>10. CASE SkillFails
    <2>1. worker'.pc = "skillDone" /\ worker'.iter = worker.iter /\ UNCHANGED <<steps, latest>>
      BY <1>1, <1>10 DEF SkillFails, StoreUnchanged, Goto, Worker
    <2>2. CountersFit(worker', History)
      BY <1>2, <2>1, CountedTurns DEF Serving, PCs
    <2> QED BY <2>1, <2>2, QuietCounts
  <1> QED BY <1>6, <1>7, <1>8, <1>9, <1>10 DEF Execute
\* After an answer of the human the main loop counts from one again.
LEMMA AcceptAnswerCounts ==
    TypeInv /\ HistoryInv /\ LimitInv /\ AcceptAnswer => LimitInv'
  <1> SUFFICES ASSUME TypeInv, HistoryInv, LimitInv, AcceptAnswer PROVE LimitInv'
    OBVIOUS
  <1>1. /\ worker.pc = "begin" /\ UNCHANGED <<status, latest>>
        /\ latest > 0 /\ latest \in Runs /\ worker \in Worker
    BY RunLoopAssumption DEF TypeInv, TypeOK, Runs, WaitingForHuman, AcceptAnswer, At
  <1>2. /\ History \in Seq(Step) /\ GoodHistory(History)
        /\ SkillsWithin(History) /\ WorkerFits(worker, History)
    BY <1>1, HistoryType DEF TypeInv, HistoryInv, LimitInv, History
  <1>3. PICK at \in OpenQuestions(History) : Answer(at)
    BY DEF AcceptAnswer
  <1> DEFINE asked == History[at[1]]
             main == asked.kind = "AssistantResponse"
             kind == IF main THEN "ToolResult" ELSE "SkillToolResult"
             s == NewStep(kind, asked.inv, asked.calls[at[2]].id, <<>>, {})
             longer == Append(History, s)
  <1>4. /\ at \in Positions(History) /\ asked.calls[at[2]].tool = "human_input"
        /\ Append1(s)
        /\ worker' = [worker EXCEPT !.pc = "resume",
                          !.calls = IF main THEN <<>>
                                    ELSE <<[id |-> asked.inv, tool |-> "call_skill"]>>]
    BY <1>3 DEF OpenQuestions, Answer
  <1>5. at[1] \in DOMAIN History /\ at[2] \in DOMAIN asked.calls
    BY <1>2, <1>4, PositionsAreCalls
  <1>6. asked \in Step /\ asked.calls \in Seq(Call)
    BY <1>2, <1>5, GoodStep
  <1>7. asked.calls[at[2]].id \in Ids /\ asked.inv \in Ids
    <2>1. asked.calls[at[2]] \in Call
      BY <1>5, <1>6
    <2> QED BY <1>6, <2>1 DEF Call, Step
  <1>8. s \in Step /\ s.kind = kind /\ s.id = asked.calls[at[2]].id
    <2>1. kind \in StepKinds /\ <<>> \in Seq(Call) /\ {} \in SUBSET Nat
      BY EmptySeq DEF StepKinds
    <2> QED BY <1>7, <2>1, NewStepType DEF NewStep
  <1>9. worker'.pc = "resume" /\ worker'.iter = 0
    <2>1. worker.iter = 0
      BY <1>1, <1>2 DEF WorkerFits, RequestRecorded
    <2> QED BY <1>1, <1>4, <2>1 DEF Worker
  <1> HIDE DEF s
  <1>10. longer \in Seq(Step)
    BY <1>2, <1>8
  <1>11. TurnsWithin(longer, 0)
    BY <1>2, <1>4, <1>5, <1>8, TurnsAnswered DEF Results, HumanTools
  <1>12. SkillsWithin(longer)
    BY <1>2, <1>8, SkillsStay
  <1> HIDE DEF longer
  <1>13. TurnsWithin(longer, MaxIterations)
    BY <1>10, <1>11, TurnsWithinMore, RunLoopAssumption
  <1>14. CountersFit(worker', longer)
    BY <1>9, <1>11 DEF CountersFit
  <1> QED BY <1>1, <1>4, <1>8, <1>12, <1>13, <1>14, AppendCounts DEF longer

\* Going on, the main loop starts to count, and a skill counts what it did.
LEMMA ResumeCounts ==
    TypeInv /\ WorkerMatchesStore /\ LimitInv /\ (ResumeMain \/ ResumeSkill) => LimitInv'
  <1> SUFFICES ASSUME TypeInv, WorkerMatchesStore, LimitInv, ResumeMain \/ ResumeSkill
               PROVE  LimitInv'
    OBVIOUS
  <1>1. worker.pc = "resume" /\ UNCHANGED <<steps, latest>>
    BY DEF ResumeMain, ResumeSkill, At
  <1>2. /\ latest > 0 /\ History \in Seq(Step)
        /\ CountersFit(worker, History) /\ worker \in Worker
        /\ MaxIterations \in Nat \ {0}
    BY <1>1, CountingFacts
  <1>3. worker.iter = 0 /\ TurnsWithin(History, 0)
    BY <1>1, <1>2 DEF CountersFit
  <1>4. CASE ResumeMain
    <2>1. worker'.pc = "llm" /\ worker'.iter = 1
      BY <1>2, <1>4 DEF ResumeMain, Worker
    <2>2. CountersFit(worker', History)
      BY <1>3, <2>1 DEF CountersFit
    <2> QED BY <1>1, <2>2, QuietCounts
  <1>5. CASE ResumeSkill
    <2> DEFINE done == SkillIterationCount(History, Invocation)
    <2>1. worker.calls # <<>> /\ worker.calls \in Seq(Call)
      BY <1>2, <1>5 DEF ResumeSkill, Worker
    <2>2. Invocation = worker.calls[1].id
      BY <2>1, EmptySeq DEF Invocation
    <2>3. SkillWithin(History, Invocation, done)
      BY <1>2, SkillResumes
    <2>4. PICK pc \in {"skillDone"} \union (IF done < MaxIterations THEN {"skillLlm"} ELSE {}) :
             worker' = [worker EXCEPT !.pc = pc, !.skillIter = done]
      BY <1>5 DEF ResumeSkill
    <2> HIDE DEF done
    <2>5. worker' = [worker EXCEPT !.pc = pc, !.skillIter = done]
      BY <2>4
    <2>6. pc = "skillDone" \/ (pc = "skillLlm" /\ done < MaxIterations)
      BY <2>4
    <2>7. /\ worker'.pc = pc /\ worker'.iter = 0 /\ worker'.calls = worker.calls
          /\ worker'.skillIter = done
      BY <1>2, <1>3, <2>5 DEF Worker
    <2>8. CountersFit(worker', History)
      BY <1>3, <2>2, <2>3, <2>6, <2>7 DEF CountersFit
    <2> QED BY <1>1, <2>8, QuietCounts
  <1> QED BY <1>4, <1>5

\* Leaving a run records no turn.
LEMMA LeaveCounts ==
    TypeInv /\ TypeInv' /\ WorkerMatchesStore /\ LimitInv /\ Leave => LimitInv'
  <1> SUFFICES ASSUME TypeInv, TypeInv', WorkerMatchesStore, LimitInv, Leave PROVE LimitInv'
    OBVIOUS
  <1>1. worker \in Worker
    BY DEF TypeInv, TypeOK
  <1>2. Finish => CountersFit(worker', History)
    BY IdleCounts DEF Finish, Idle
  <1>3. NoId \in Ids /\ <<>> \in Seq(Call) /\ {} \in SUBSET Nat
    BY EmptySeq DEF NoId, Ids
  <1>4. CASE SuspendRun \/ CompleteRun \/ FailRun \/ CancelNothing
    <2>1. UNCHANGED <<steps, latest>> /\ Finish
      BY <1>4 DEF SuspendRun, CompleteRun, FailRun, CancelNothing, StoreUnchanged
    <2> QED BY <1>2, <2>1, QuietCounts
  <1>5. CASE CancelRun
    <2>1. UNCHANGED <<steps, latest>> /\ (Finish \/ Goto("checkpoint"))
      BY <1>5 DEF CancelRun
    <2>2. ASSUME Goto("checkpoint") PROVE CountersFit(worker', History)
      <3>1. worker'.pc = "checkpoint"
        BY <1>1, <2>2 DEF Goto, Worker
      <3> QED BY <3>1, IdleCounts
    <2> QED BY <1>2, <2>1, <2>2, QuietCounts
  <1>6. CASE RecordError
    <2> DEFINE s == NewStep("Error", NoId, NoId, <<>>, {})
    <2>1. s \in Step /\ s.kind = "Error"
      BY <1>3, NewStepType DEF NewStep, StepKinds
    <2>2. worker.pc = "error" /\ Append1(s) /\ UNCHANGED latest
      BY <1>6 DEF RecordError, At
    <2> HIDE DEF s
    <2>3. latest > 0 /\ CountersFit(worker, History)
      BY <2>2, CountingFacts DEF Serving, PCs
    <2>4. worker'.pc = "fail" /\ worker'.iter = worker.iter
      BY <1>1, <1>6 DEF RecordError, Goto, Worker
    <2>5. TurnsWithin(History, worker.iter)
      BY <2>2, <2>3 DEF CountersFit, Serving, PCs
    <2>6. CountersFit(worker', History)
      BY <2>4, <2>5, CountedTurns DEF Serving, PCs
    <2> QED BY <2>1, <2>2, <2>3, <2>6, PlainCounts DEF IsTurn
  <1>7. CASE RecordCheckpoint
    <2> DEFINE s == NewStep("AssistantOutputCheckpoint", NoId, NoId, <<>>, worker.partial)
    <2>1. s \in Step /\ s.kind = "AssistantOutputCheckpoint"
      <3>1. worker.partial \in SUBSET Nat
        BY <1>1 DEF Worker
      <3> QED BY <1>3, <3>1, NewStepType DEF NewStep, StepKinds
    <2>2. worker.pc = "checkpoint" /\ Append1(s) /\ UNCHANGED latest /\ Finish
      BY <1>7 DEF RecordCheckpoint, At
    <2> HIDE DEF s
    <2>3. latest > 0
      BY <2>2 DEF WorkerMatchesStore
    <2> QED BY <1>2, <2>1, <2>2, <2>3, PlainCounts DEF IsTurn
  <1> QED BY <1>4, <1>5, <1>6, <1>7 DEF Leave

\* Every step of the run loop keeps the limits.
LEMMA LimitInvStep ==
    TypeInv /\ TypeInv' /\ WorkerMatchesStore /\ HistoryInv /\ LimitInv /\ [Next]_vars
    => LimitInv'
  <1> SUFFICES ASSUME TypeInv, TypeInv', WorkerMatchesStore, HistoryInv, LimitInv, [Next]_vars
               PROVE  LimitInv'
    OBVIOUS
  <1>1. worker \in Worker
    BY DEF TypeInv, TypeOK
  <1>2. CASE Submit
    <2>1. UNCHANGED <<steps, latest>> /\ worker'.pc = "begin"
      BY <1>1, <1>2 DEF Submit, StoreUnchanged, Goto, Worker
    <2> QED BY <2>1, IdleCounts, QuietCounts
  <1>3. CASE RequestCancel
    <2>1. /\ UNCHANGED <<steps, latest>>
          /\ worker'.pc = worker.pc /\ worker'.iter = worker.iter
          /\ worker'.calls = worker.calls /\ worker'.skillIter = worker.skillIter
      BY <1>1, <1>3 DEF RequestCancel, StoreUnchanged, Worker
    <2>2. latest > 0 => CountersFit(worker', History)
      BY <2>1, SameCounts DEF LimitInv
    <2> QED BY <2>1, <2>2, QuietCounts
  <1>4. CASE RefuseAnswer \/ Crash
    <2>1. UNCHANGED <<steps, latest>> /\ worker' = Idle
      BY <1>4 DEF RefuseAnswer, Crash, StoreUnchanged, Finish
    <2> QED BY <2>1, IdleCounts, QuietCounts DEF Idle
  <1>5. CASE StartRun \/ AcceptAnswer \/ ResumeMain \/ ResumeSkill
    BY <1>5, StartRunCounts, AcceptAnswerCounts, ResumeCounts
  <1>6. CASE Open \/ CallModel \/ Execute \/ Leave
    BY <1>6, OpenCounts, CallModelCounts, ExecuteCounts, LeaveCounts
  <1>7. CASE UNCHANGED vars
    <2>1. UNCHANGED <<steps, latest>> /\ worker' = worker
      BY <1>7 DEF vars
    <2>2. latest > 0 => CountersFit(worker', History)
      BY <2>1 DEF LimitInv
    <2> QED BY <2>1, <2>2, QuietCounts
  <1> QED BY <1>2, <1>3, <1>4, <1>5, <1>6, <1>7 DEF Next, Work, Begin

\* In every run, the main loop calls the model at most MaxIterations times
\* between two answers of the human, and a skill at most MaxIterations times
\* from its start, whatever waits, resumes, crashes and cancellations do.
THEOREM IterationsStayBounded == Spec => []IterationsAreBounded
  <1>1. Init => LimitInv
    <2>1. TurnsWithin(<<>>, MaxIterations)
      <3>1. SUFFICES ASSUME NEW from \in {0} \union DOMAIN <<>>
                     PROVE  Cardinality(Turns(<<>>, from)) <= MaxIterations
        BY DEF TurnsWithin
      <3>2. Turns(<<>>, from) = {}
        BY DEF Turns
      <3>3. Cardinality(Turns(<<>>, from)) = 0
        BY <3>2, FS_EmptySet
      <3> QED BY <3>3, RunLoopAssumption
    <2>2. SkillsWithin(<<>>)
      BY DEF SkillsWithin
    <2> QED BY <2>1, <2>2 DEF Init, LimitInv
  <1>2. TypeInv /\ TypeInv' /\ WorkerMatchesStore /\ HistoryInv /\ LimitInv /\ [Next]_vars
        => LimitInv'
    BY LimitInvStep
  <1>3. LimitInv => IterationsAreBounded
    BY DEF LimitInv, IterationsAreBounded, TurnsWithin, SkillsWithin, Turns
  <1> QED BY <1>1, <1>2, <1>3, TypeInvariant, WorkerAgrees, HistoriesAreGood, PTL DEF Spec
=============================================================================
