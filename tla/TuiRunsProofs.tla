--------------------------- MODULE TuiRunsProofs ---------------------------
(***************************************************************************)
(* What is proved of TuiRuns for every number of sessions, runs, requests  *)
(* and events.  Types need no hypothesis.  The rest holds while the user   *)
(* is orderly: gives no session command during a run, and asks for a       *)
(* revision of a proposed change only after a run that completed.  The UI  *)
(* does not enforce that, and the configurations TuiSwitch, TuiStream and  *)
(* TuiRevise show what comes of it.  First who works when and what the     *)
(* loop knows of it, then what the conversation tells of a run that ended. *)
(***************************************************************************)
EXTENDS TuiRuns, TLAPS, FiniteSetTheorems, SequenceTheorems, WellFoundedInduction

Orderly == WhileRunning = {} /\ ~RevisingAnytime

-----------------------------------------------------------------------------
(***************************************************************************)
(* The invariants, and what they are for.                                  *)
(***************************************************************************)
\* No session has more runs than ids.
RunsFit(d) == \A s \in SessionIds : Len(d.runs[s]) <= MaxRuns

StoreTyped(d) == d \in Store /\ RunsFit(d)

\* What a worker's program counter says of its other fields.
WorkerFits(r) ==
    /\ r.pc # "unused" => r.request \in Requests
    /\ r.pc \in {"open", "serve", "send"} => r.run \in RunIds
    /\ r.pc \in {"begin", "create"} => r.run = NoRun
    /\ r.pc = "done" => r.outcome # "None"

TypeInv ==
    /\ TypeOK
    /\ RunsFit(db)
    /\ \A w \in Workers : WorkerFits(worker[w])

\* The store: runs begin with their request or were just created, an id without
\* a run has no steps, and a session that is not there has no runs.
BeginsWell(d, run) ==
    LET log == d.steps[run]
    IN  /\ log # <<>>
        /\ log[1] = [kind |-> "UserMessage", by |-> d.runs[run[1]][run[2]].request]
        /\ \A i \in 2..Len(log) : log[i].kind # "UserMessage"

JustCreated(d, run) ==
    d.steps[run] = <<>> /\ d.runs[run[1]][run[2]].status = "Running"

RunFits(d, run) ==
    IF RunExists(d, run) THEN BeginsWell(d, run) \/ JustCreated(d, run)
    ELSE d.steps[run] = <<>>

StoreInv(d) ==
    /\ \A run \in RunIds : RunFits(d, run)
    /\ \A s \in SessionIds \ d.sessions : d.runs[s] = <<>>

\* The UI between runs shows the active session, and a run that is Running or
\* waits there keeps the next request from being taken for another one's.
IdleInv ==
    On /\ ui.handle = 0 /\ ~ui.pending =>
        /\ NewestHas(db, "Running") => ui.status = "Running"
        /\ ui.status \in {"Completed", "WaitingForHumanInput"} => NewestHas(db, ui.status)

UiInv ==
    /\ On => ActiveExists(db)
    /\ ShownSessionIsActive
    /\ ui.pending => ui.status = "Idle"
    /\ ui.handle # 0 => On /\ ui.status = "Running"

\* The worker the loop listens to: where it is decides what its run is.
Listened(r, d) ==
    /\ r.pc \in {"begin", "create", "open", "serve", "send", "done"}
    /\ r.pc \in {"open", "serve", "send"} => r.run = NewestRun(d) /\ NewestHas(d, "Running")
    /\ r.pc \notin {"open", "serve", "send"} => ~NewestHas(d, "Running")
    /\ r.pc = "open" => d.steps[r.run] = <<>> /\ d.runs[r.run[1]][r.run[2]].request = r.request
    /\ r.pc \in {"serve", "send"} => d.steps[r.run] # <<>>
    /\ r.pc = "done" /\ r.outcome # "Error" =>
          r.run = NewestRun(d) /\ NewestHas(d, r.outcome)

\* The events in the channel are the last ones it sent, and the next of them
\* continues those that the UI has seen.
EventsFit(r, d, lastSeq) ==
    LET n == Len(r.events)
    IN  /\ n <= r.seq
        /\ \A i \in 1..n : r.events[i].seq = (r.seq - n) + i
        /\ r.pc \in {"begin", "create", "open"} => r.seq = 0
        /\ \/ lastSeq = r.seq - n
           \/ n # 0 /\ r.events[1].kind = "RunStarted"
           \/ n = 0 /\ r.pc \notin {"serve", "send"}
        /\ r.pc = "begin" /\ NewestHas(d, "WaitingForHumanInput") => lastSeq = 0

ListenedInv ==
    ui.handle # 0 => /\ Listened(worker[ui.handle], db)
                     /\ EventsFit(worker[ui.handle], db, ui.lastSeq)

SafeInv ==
    /\ StoreInv(db)
    /\ OneWorker
    /\ \A w \in Workers : worker[w].pc = "done" => ui.handle = w
    /\ UiInv
    /\ IdleInv
    /\ ListenedInv
    /\ StreamHasItsPlace

-----------------------------------------------------------------------------
(***************************************************************************)
(* The operations on the store.                                            *)
(***************************************************************************)
\* The stores of the type are these records.
LEMMA StoreFacts ==
    ASSUME NEW d \in Store
    PROVE  /\ d = [sessions |-> d.sessions, archived |-> d.archived, active |-> d.active,
                   runs |-> d.runs, steps |-> d.steps]
           /\ d.sessions \in SUBSET SessionIds
           /\ d.archived \in SUBSET SessionIds
           /\ d.active \in SessionIds
           /\ d.runs \in [SessionIds -> Seq([request : Requests, status : RunStatus])]
           /\ d.steps \in [RunIds -> Seq(Step)]
  BY DEF Store

\* A fresh workspace has its type.
LEMMA InitialStoreTyped == StoreTyped(InitialStore)
  <1>1. 1 \in SessionIds /\ 0 <= MaxRuns
    BY SessionStoreAssumption DEF SessionIds
  <1>2. InitialStore \in Store
    BY <1>1 DEF InitialStore, Store
  <1>3. \A s \in SessionIds : InitialStore.runs[s] = <<>>
    BY DEF InitialStore
  <1> QED BY <1>1, <1>2, <1>3 DEF StoreTyped, RunsFit

\* The operations that touch the sessions' rows only.
LEMMA SessionRowsTyped ==
    ASSUME NEW d, StoreTyped(d), NEW s \in SessionIds
    PROVE  /\ StoreTyped(WithActive(d, s))
           /\ StoreTyped(WithArchived(d, s))
           /\ NextSession(d) \in SessionIds => StoreTyped(WithNewSession(d))
  BY DEF StoreTyped, RunsFit, Store, WithActive, WithArchived, WithNewSession

\* The number of the next session.
LEMMA NextSessionTyped ==
    ASSUME NEW d, StoreTyped(d), NextSession(d) <= MaxSessions
    PROVE  NextSession(d) \in SessionIds
  <1>1. d.sessions \in SUBSET (1..MaxSessions)
    BY DEF StoreTyped, Store, SessionIds
  <1>2. IsFiniteSet(1..MaxSessions)
    BY SessionStoreAssumption, FS_Interval
  <1>3. Cardinality(d.sessions) \in Nat
    BY <1>1, <1>2, FS_Subset, FS_CardinalityType
  <1> QED BY <1>3, SessionStoreAssumption DEF NextSession, SessionIds

\* delete_session leaves the others' rows as they are.
LEMMA WithoutSessionTyped ==
    ASSUME NEW d, StoreTyped(d), NEW s \in SessionIds
    PROVE  StoreTyped(WithoutSession(d, s))
  <1> DEFINE R == [request : Requests, status : RunStatus]
             runs == [d.runs EXCEPT ![s] = <<>>]
             steps == [run \in RunIds |-> IF run[1] = s THEN <<>> ELSE d.steps[run]]
  <1>1. d \in Store /\ \A t \in SessionIds : Len(d.runs[t]) <= MaxRuns
    BY DEF StoreTyped, RunsFit
  <1>2. WithoutSession(d, s) = [d EXCEPT !.sessions = @ \ {s}, !.archived = @ \ {s},
                                         !.runs = runs, !.steps = steps]
    BY <1>1 DEF WithoutSession, Store
  <1>3. runs \in [SessionIds -> Seq(R)] /\ steps \in [RunIds -> Seq(Step)]
    <2> HIDE DEF R
    <2>1. d.runs \in [SessionIds -> Seq(R)] /\ d.steps \in [RunIds -> Seq(Step)]
      BY <1>1, StoreFacts DEF R
    <2>2. <<>> \in Seq(R) /\ <<>> \in Seq(Step)
      OBVIOUS
    <2>3. runs \in [SessionIds -> Seq(R)]
      BY <2>1, <2>2
    <2>4. steps \in [RunIds -> Seq(Step)]
      BY <2>1, <2>2
    <2> QED BY <2>3, <2>4
  <1>4. \A t \in SessionIds : Len(runs[t]) <= MaxRuns
    BY <1>1, StoreFacts, SessionStoreAssumption
  <1> HIDE DEF runs, steps
  <1>5. WithoutSession(d, s) \in Store
    BY <1>1, <1>2, <1>3 DEF Store
  <1>6. WithoutSession(d, s).runs = runs
    BY <1>1, <1>2 DEF Store
  <1> QED BY <1>4, <1>5, <1>6 DEF StoreTyped, RunsFit

\* create_run adds one run, with the next number, to the active session.
LEMMA WithRunTyped ==
    ASSUME NEW d, StoreTyped(d), NEW request \in Requests, Len(ActiveRuns(d)) < MaxRuns
    PROVE  /\ StoreTyped(WithRun(d, request))
           /\ NewRun(d) \in RunIds
           /\ WithRun(d, request) =
                 [d EXCEPT !.runs = [d.runs EXCEPT ![d.active] =
                     Append(@, [request |-> request, status |-> "Running"])]]
  <1> DEFINE R == [request : Requests, status : RunStatus]
             new == [request |-> request, status |-> "Running"]
             runs == [d.runs EXCEPT ![d.active] = Append(@, new)]
  <1>1. d \in Store /\ \A t \in SessionIds : Len(d.runs[t]) <= MaxRuns
    BY DEF StoreTyped, RunsFit
  <1>2. WithRun(d, request) = [d EXCEPT !.runs = runs]
    BY <1>1 DEF WithRun, Store
  <1>3. new \in R
    BY DEF RunStatus
  <1>4. d.runs[d.active] \in Seq(R) /\ Len(d.runs[d.active]) < MaxRuns
    BY <1>1, StoreFacts DEF ActiveRuns
  <1> HIDE DEF R, new
  <1>5. runs \in [SessionIds -> Seq(R)]
    <2>1. d.runs \in [SessionIds -> Seq(R)]
      BY <1>1, StoreFacts DEF R
    <2>2. Append(d.runs[d.active], new) \in Seq(R)
      BY <1>3, <1>4, AppendProperties DEF R
    <2> QED BY <2>1, <2>2
  <1>6. \A t \in SessionIds : Len(runs[t]) <= MaxRuns
    <2>1. SUFFICES ASSUME NEW t \in SessionIds PROVE Len(runs[t]) <= MaxRuns
      OBVIOUS
    <2>2. CASE t = d.active
      <3>1. runs[t] = Append(d.runs[t], new)
        BY <1>1, <2>2, StoreFacts
      <3>2. Len(runs[t]) = Len(d.runs[t]) + 1
        BY <1>4, <2>2, <3>1
      <3> QED BY <3>2, <1>4, <2>2, SessionStoreAssumption
    <2>3. CASE t # d.active
      BY <1>1, <2>3, StoreFacts
    <2> QED BY <2>2, <2>3
  <1> HIDE DEF runs
  <1>7. WithRun(d, request) \in Store /\ WithRun(d, request).runs = runs
    BY <1>1, <1>2, <1>5 DEF Store, R
  <1>8. NewRun(d) \in RunIds
    BY <1>1, <1>4, StoreFacts, SessionStoreAssumption DEF NewRun, RunIds, SessionIds
  <1> QED BY <1>2, <1>6, <1>7, <1>8 DEF StoreTyped, RunsFit, runs, new

\* append_step adds a step to one run's.
LEMMA WithStepTyped ==
    ASSUME NEW d, StoreTyped(d), NEW run \in RunIds, NEW step \in Step
    PROVE  /\ StoreTyped(WithStep(d, run, step))
           /\ WithStep(d, run, step) =
                 [d EXCEPT !.steps = [d.steps EXCEPT ![run] = Append(@, step)]]
  <1> DEFINE steps == [d.steps EXCEPT ![run] = Append(@, step)]
  <1>1. d \in Store /\ RunsFit(d)
    BY DEF StoreTyped
  <1>2. WithStep(d, run, step) = [d EXCEPT !.steps = steps]
    BY <1>1 DEF WithStep, Store
  <1>3. steps \in [RunIds -> Seq(Step)]
    BY <1>1, StoreFacts
  <1> HIDE DEF steps
  <1>4. WithStep(d, run, step) \in Store /\ WithStep(d, run, step).runs = d.runs
    BY <1>1, <1>2, <1>3 DEF Store
  <1> QED BY <1>1, <1>2, <1>4 DEF StoreTyped, RunsFit, steps

\* update_run_status changes the status of one run.
LEMMA WithStatusTyped ==
    ASSUME NEW d, StoreTyped(d), NEW run \in RunIds, NEW v \in RunStatus, RunExists(d, run)
    PROVE  /\ StoreTyped(WithStatus(d, run, v))
           /\ WithStatus(d, run, v) =
                 [d EXCEPT !.runs =
                     [d.runs EXCEPT ![run[1]] =
                         [d.runs[run[1]] EXCEPT ![run[2]] =
                             [d.runs[run[1]][run[2]] EXCEPT !.status = v]]]]
  <1> DEFINE R == [request : Requests, status : RunStatus]
             log == d.runs[run[1]]
             new == [log[run[2]] EXCEPT !.status = v]
             longer == [log EXCEPT ![run[2]] = new]
             runs == [d.runs EXCEPT ![run[1]] = longer]
  <1>1. d \in Store /\ \A t \in SessionIds : Len(d.runs[t]) <= MaxRuns
    BY DEF StoreTyped, RunsFit
  <1>2. run[1] \in SessionIds /\ run[2] \in DOMAIN log
    BY DEF RunExists, RunIds
  <1>3. WithStatus(d, run, v) = [d EXCEPT !.runs = runs]
    BY <1>1, <1>2 DEF WithStatus, Store
  <1>4. log \in Seq(R)
    BY <1>1, <1>2, StoreFacts
  <1>5. new \in R
    <2>1. log[run[2]] \in R
      <3> HIDE DEF log, R
      <3> QED BY <1>2, <1>4, ElementOfSeq, LenProperties
    <2> QED BY <2>1
  <1> HIDE DEF R, new, log
  <1>6. longer \in Seq(R) /\ Len(longer) = Len(log)
    BY <1>2, <1>4, <1>5, ExceptSeq
  <1> HIDE DEF longer
  <1>7. runs \in [SessionIds -> Seq(R)]
    BY <1>1, <1>2, <1>6, StoreFacts DEF R
  <1>8. \A t \in SessionIds : Len(runs[t]) <= MaxRuns
    BY <1>1, <1>2, <1>6, StoreFacts DEF log
  <1> HIDE DEF runs
  <1>9. WithStatus(d, run, v) \in Store /\ WithStatus(d, run, v).runs = runs
    BY <1>1, <1>3, <1>7 DEF Store, R
  <1>10. StoreTyped(WithStatus(d, run, v))
    BY <1>8, <1>9 DEF StoreTyped, RunsFit
  <1> QED BY <1>3, <1>10 DEF runs, longer, new, log

-----------------------------------------------------------------------------
(***************************************************************************)
(* Sets of numbers, and sequences.                                         *)
(***************************************************************************)
\* A set of numbers that is not empty has a least one.
LEMMA LeastOf ==
    ASSUME NEW T \in SUBSET Nat, T # {}
    PROVE  \E m \in T : \A n \in T : m <= n
  <1>1. PICK m \in T : \A n \in T : ~(<<n, m>> \in OpToRel(<, Nat))
    BY NatLessThanWellFounded, WFMin
  <1>2. \A n \in T : n \in Nat /\ m \in Nat /\ ~(n < m)
    BY <1>1 DEF OpToRel
  <1> QED BY <1>2

\* The places of a sequence at which something holds have a last one.
LEMMA LastOf ==
    ASSUME NEW n \in Nat, NEW T \in SUBSET (1..n), T # {}
    PROVE  \E m \in T : \A k \in T : k <= m
  <1> DEFINE U == {n - k : k \in T}
  <1>1. U \in SUBSET Nat /\ U # {}
    <2>1. \A k \in T : k \in 1..n
      OBVIOUS
    <2>2. \A k \in T : n - k \in Nat
      BY <2>1
    <2>3. \A u \in U : u \in Nat
      BY <2>2
    <2>4. PICK k \in T : TRUE
      OBVIOUS
    <2>5. n - k \in U
      OBVIOUS
    <2> QED BY <2>3, <2>5
  <1>2. PICK u \in U : \A v \in U : u <= v
    <2> HIDE DEF U
    <2> QED BY <1>1, LeastOf
  <1>3. PICK m \in T : u = n - m
    BY <1>2
  <1>4. SUFFICES ASSUME NEW k \in T PROVE k <= m
    OBVIOUS
  <1>5. n - m <= n - k
    BY <1>2, <1>3
  <1> QED BY <1>5

\* What the first n of some sequences are when they are put one behind another.
Flattening(seqs, g, n) ==
    g = [i \in 1..n |-> IF i = 1 THEN seqs[i] ELSE g[i - 1] \o seqs[i]]

\* There is such a function for every number of sequences.
LEMMA FlatteningExists ==
    ASSUME NEW M, NEW N \in Nat, NEW seqs \in [1..N -> Seq(M)]
    PROVE  \E g : Flattening(seqs, g, N)
  <1> DEFINE T == {n \in 0..N : ~\E g : Flattening(seqs, g, n)}
  <1>1. SUFFICES ASSUME T # {} PROVE FALSE
    <2>1. T = {}
      OBVIOUS
    <2>2. N \in 0..N
      OBVIOUS
    <2> QED BY <2>1, <2>2
  <1>2. PICK n \in T : \A m \in T : n <= m
    <2>1. T \in SUBSET Nat
      OBVIOUS
    <2> HIDE DEF T
    <2> QED BY <1>1, <2>1, LeastOf
  <1>3. n # 0
    <2>1. ASSUME n = 0 PROVE FALSE
      <3> DEFINE g == [i \in 1..0 |-> 0]
      <3>1. g = [i \in 1..0 |-> IF i = 1 THEN seqs[i] ELSE g[i - 1] \o seqs[i]]
        OBVIOUS
      <3> HIDE DEF g
      <3>2. Flattening(seqs, g, 0)
        BY <3>1 DEF Flattening
      <3> QED BY <2>1, <3>2
    <2> QED BY <2>1
  <1>4. n \in Nat /\ n \in 1..N /\ n - 1 \in 0..N /\ ~(n <= n - 1)
    BY <1>3
  <1>5. PICK g : Flattening(seqs, g, n - 1)
    BY <1>2, <1>4
  <1> DEFINE h == [i \in 1..n |-> IF i = 1 THEN seqs[i] ELSE g[i - 1] \o seqs[i]]
  <1>6. \A i \in 1..n : i # 1 => g[i - 1] = h[i - 1]
    <2>1. SUFFICES ASSUME NEW i \in 1..n, i # 1 PROVE g[i - 1] = h[i - 1]
      OBVIOUS
    <2>2. i - 1 \in 1..(n - 1) /\ i - 1 \in 1..n
      BY <1>4, <2>1
    <2>3. g[i - 1] = IF i - 1 = 1 THEN seqs[i - 1] ELSE g[(i - 1) - 1] \o seqs[i - 1]
      BY <1>5, <2>2 DEF Flattening
    <2> QED BY <2>2, <2>3
  <1>7. Flattening(seqs, h, n)
    <2>1. h = [i \in 1..n |-> IF i = 1 THEN seqs[i] ELSE h[i - 1] \o seqs[i]]
      BY <1>6
    <2> HIDE DEF h
    <2> QED BY <2>1 DEF Flattening
  <1>8. n \in 0..N /\ ~\E f : Flattening(seqs, f, n)
    BY <1>2
  <1> QED BY <1>7, <1>8

\* Every such function has sequences as values.
LEMMA FlatteningType ==
    ASSUME NEW M, NEW N \in Nat, NEW seqs \in [1..N -> Seq(M)],
           NEW g, Flattening(seqs, g, N), NEW n \in 1..N
    PROVE  g[n] \in Seq(M)
  <1> DEFINE T == {i \in 1..N : g[i] \notin Seq(M)}
  <1>1. SUFFICES ASSUME T # {} PROVE FALSE
    OBVIOUS
  <1>2. PICK i \in T : \A j \in T : i <= j
    <2>1. T \in SUBSET Nat
      OBVIOUS
    <2> HIDE DEF T
    <2> QED BY <1>1, <2>1, LeastOf
  <1>3. i \in 1..N /\ seqs[i] \in Seq(M)
    OBVIOUS
  <1>4. g[i] = IF i = 1 THEN seqs[i] ELSE g[i - 1] \o seqs[i]
    BY <1>3 DEF Flattening
  <1>5. i # 1
    BY <1>2, <1>3, <1>4
  <1>6. i - 1 \in 1..N /\ ~(i <= i - 1)
    BY <1>3, <1>5
  <1>7. g[i - 1] \in Seq(M)
    BY <1>2, <1>6
  <1>8. g[i] \in Seq(M)
    BY <1>3, <1>4, <1>5, <1>7, ConcatProperties
  <1> QED BY <1>2, <1>8

\* Sequences put one behind another are a sequence.
LEMMA FlattenSeqType ==
    ASSUME NEW M, NEW N \in Nat, NEW seqs \in [1..N -> Seq(M)]
    PROVE  FlattenSeq(seqs) \in Seq(M)
  <1> DEFINE flatten == CHOOSE g : Flattening(seqs, g, N)
  <1>1. seqs \in Seq(Seq(M)) /\ Len(seqs) = N
    BY IsASeq
  <1>2. FlattenSeq(seqs) = IF N = 0 THEN seqs ELSE flatten[N]
    BY <1>1 DEF FlattenSeq, Flattening
  <1>3. Flattening(seqs, flatten, N)
    BY FlatteningExists
  <1>4. CASE N = 0
    <2>1. seqs = <<>>
      BY <1>1, <1>4
    <2> QED BY <1>2, <1>4, <2>1
  <1>5. CASE N # 0
    <2>1. N \in 1..N
      BY <1>5
    <2> HIDE DEF flatten
    <2>2. flatten[N] \in Seq(M)
      BY <1>3, <2>1, FlatteningType
    <2> QED BY <1>2, <1>5, <2>2
  <1> QED BY <1>4, <1>5

\* The messages of a history, and those of a session.
LEMMA MessagesOfType ==
    ASSUME NEW log \in Seq(Step)
    PROVE  /\ MessagesOf(log) \in Seq(Message)
           /\ Len(MessagesOf(log)) = Len(log)
  <1>1. \A i \in 1..Len(log) : Msg(RoleOf[log[i].kind], {log[i].by}) \in Message
    <2>1. SUFFICES ASSUME NEW i \in 1..Len(log)
                   PROVE  Msg(RoleOf[log[i].kind], {log[i].by}) \in Message
      OBVIOUS
    <2>2. log[i] \in Step
      BY ElementOfSeq
    <2>3. RoleOf[log[i].kind] \in {"User", "Assistant", "Error"} /\ log[i].by \in Requests
      BY <2>2 DEF Step, RoleOf
    <2> QED BY <2>3 DEF Msg, Message
  <1>2. MessagesOf(log) = [i \in 1..Len(log) |-> Msg(RoleOf[log[i].kind], {log[i].by})]
    <2>1. DOMAIN log = 1..Len(log)
      BY LenProperties
    <2> QED BY <2>1 DEF MessagesOf
  <1>3. Len(log) \in Nat
    BY LenProperties
  <1>4. MessagesOf(log) \in [1..Len(log) -> Message]
    BY <1>1, <1>2
  <1> QED BY <1>3, <1>4

\* The steps of a session are a sequence of steps.
LEMMA SessionStepsType ==
    ASSUME NEW d, StoreTyped(d), NEW s \in SessionIds
    PROVE  SessionSteps(d, s) \in Seq(Step)
  <1> DEFINE logs == [n \in 1..MaxRuns |-> d.steps[<<s, n>>]]
  <1>1. d.steps \in [RunIds -> Seq(Step)]
    BY DEF StoreTyped, Store
  <1>2. \A n \in 1..MaxRuns : <<s, n>> \in RunIds
    BY DEF RunIds
  <1>3. logs \in [1..MaxRuns -> Seq(Step)] /\ MaxRuns \in Nat
    BY <1>1, <1>2, SessionStoreAssumption
  <1>4. SessionSteps(d, s) = FlattenSeq(logs)
    BY DEF SessionSteps
  <1> HIDE DEF logs
  <1> QED BY <1>3, <1>4, FlattenSeqType

\* A part of a conversation followed by a run is a conversation.
LEMMA MergedType ==
    ASSUME NEW messages \in Seq(Message), NEW run \in Seq(Message)
    PROVE  Merged(messages, run) \in Seq(Message)
  <1> DEFINE asked == {i \in DOMAIN run : run[i].role = "User"}
             first == run[CHOOSE i \in asked : \A j \in asked : i <= j]
             same  == {i \in DOMAIN messages : asked # {} /\ messages[i] = first}
             last  == CHOOSE i \in same : \A j \in same : i >= j
             base  == IF same = {} THEN Len(messages) ELSE last - 1
  <1>1. Merged(messages, run) = SubSeq(messages, 1, base) \o run
    BY DEF Merged
  <1>2. same \in SUBSET (1..Len(messages)) /\ Len(messages) \in Nat
    BY LenProperties
  <1> HIDE DEF asked, first, same
  <1>3. CASE same = {}
    BY <1>1, <1>2, <1>3, SubSeqProperties, ConcatProperties
  <1>4. CASE same # {}
    <2>1. PICK m \in same : \A k \in same : k <= m
      BY <1>2, <1>4, LastOf
    <2>2. \A j \in same : m >= j
      BY <2>1, <1>2
    <2>3. last \in same
      BY <2>2
    <2> HIDE DEF last
    <2>4. last - 1 \in 0..Len(messages)
      BY <1>2, <2>3
    <2>5. base = last - 1
      BY <1>4
    <2> QED BY <1>1, <2>4, <2>5, SubSeqProperties, ConcatProperties
  <1> QED BY <1>3, <1>4

\* A conversation without one of its messages is a conversation.
LEMMA RemoveAtType ==
    ASSUME NEW M, NEW s \in Seq(M), NEW i \in DOMAIN s
    PROVE  RemoveAt(s, i) \in Seq(M)
  <1>1. i \in 1..Len(s) /\ Len(s) \in Nat
    BY LenProperties
  <1>2. SubSeq(s, 1, i - 1) \in Seq(M) /\ SubSeq(s, i + 1, Len(s)) \in Seq(M)
    BY <1>1
  <1> QED BY <1>2, ConcatProperties DEF RemoveAt

-----------------------------------------------------------------------------
(***************************************************************************)
(* Types of what the UI and the workers become.                            *)
(***************************************************************************)
\* The statuses of the newest run, as load_session_runs finds them.
LEMMA ActiveRunsFacts ==
    ASSUME NEW d, StoreTyped(d)
    PROVE  /\ d.active \in SessionIds
           /\ ActiveRuns(d) \in Seq([request : Requests, status : RunStatus])
           /\ Len(ActiveRuns(d)) \in 0..MaxRuns
           /\ ActiveRuns(d) # <<>> =>
                 /\ Len(ActiveRuns(d)) \in 1..MaxRuns
                 /\ NewestRun(d) \in RunIds
                 /\ RunExists(d, NewestRun(d))
                 /\ Last(ActiveRuns(d)) = ActiveRuns(d)[Len(ActiveRuns(d))]
                 /\ Last(ActiveRuns(d)).status \in RunStatus
                 /\ Last(ActiveRuns(d)).request \in Requests
  <1> DEFINE R == [request : Requests, status : RunStatus]
             log == ActiveRuns(d)
  <1>1. d.active \in SessionIds /\ log \in Seq(R)
    BY DEF StoreTyped, Store, ActiveRuns
  <1>2. Len(log) \in 0..MaxRuns
    <2>1. Len(log) <= MaxRuns
      BY <1>1 DEF StoreTyped, RunsFit, ActiveRuns
    <2> QED BY <2>1, <1>1, SessionStoreAssumption
  <1>3. ASSUME log # <<>>
        PROVE  /\ Len(log) \in 1..MaxRuns /\ Len(log) \in DOMAIN log
               /\ Last(log) = log[Len(log)] /\ Last(log) \in R
    <2> HIDE DEF R, log
    <2>1. Len(log) # 0
      BY <1>1, <1>3
    <2>2. Len(log) \in 1..MaxRuns /\ Len(log) \in DOMAIN log
      BY <1>1, <1>2, <2>1, SessionStoreAssumption
    <2> QED BY <1>1, <2>2 DEF Last
  <1>4. ASSUME log # <<>> PROVE NewestRun(d) \in RunIds /\ RunExists(d, NewestRun(d))
    BY <1>1, <1>3, <1>4 DEF NewestRun, RunIds, RunExists, ActiveRuns
  <1> QED BY <1>1, <1>2, <1>3, <1>4

\* The field that a reload of the session changes, and those it leaves.
LEMMA LoadedFacts ==
    ASSUME NEW u \in Ui, NEW d, StoreTyped(d)
    PROVE  /\ Loaded(u, d) \in Ui
           /\ Loaded(u, d).state = u.state
           /\ Loaded(u, d).session = d.active
           /\ ~Loaded(u, d).pending
           /\ Loaded(u, d).stream = u.stream
           /\ Loaded(u, d).lastSeq = u.lastSeq
           /\ Loaded(u, d).handle = u.handle
           /\ Loaded(u, d).status = IF ActiveRuns(d) = <<>> THEN "Idle"
                                    ELSE Last(ActiveRuns(d)).status
  <1> DEFINE log == ActiveRuns(d)
             messages == MessagesOf(SessionSteps(d, d.active))
             runs == [n \in DOMAIN log |-> log[n].request]
             status == IF log = <<>> THEN "Idle" ELSE Last(log).status
  <1>1. d.active \in SessionIds /\ messages \in Seq(Message)
    BY ActiveRunsFacts, SessionStepsType, MessagesOfType
  <1>2. runs \in Seq(Requests)
    <2> DEFINE R == [request : Requests, status : RunStatus]
    <2>1. log \in Seq(R)
      BY ActiveRunsFacts
    <2> HIDE DEF log, R
    <2>2. Len(log) \in Nat /\ DOMAIN log = 1..Len(log)
      BY <2>1, LenProperties
    <2>3. \A n \in 1..Len(log) : log[n] \in R
      BY <2>1, ElementOfSeq
    <2>4. \A n \in 1..Len(log) : log[n].request \in Requests
      BY <2>3 DEF R
    <2>5. runs \in [1..Len(log) -> Requests]
      BY <2>2, <2>4
    <2> HIDE DEF runs
    <2> QED BY <2>2, <2>5
  <1>3. status \in TuiRunStatus
    BY ActiveRunsFacts DEF TuiRunStatus
  <1>4. Loaded(u, d) = [u EXCEPT !.session = d.active, !.pending = FALSE,
                                 !.messages = messages, !.runs = runs, !.status = status]
    BY DEF Loaded
  <1> HIDE DEF messages, runs, status
  <1>5. /\ Loaded(u, d) \in Ui
        /\ Loaded(u, d).status = status
        /\ Loaded(u, d).session = d.active
        /\ ~Loaded(u, d).pending
    BY <1>1, <1>2, <1>3, <1>4 DEF Ui
  <1>6. /\ Loaded(u, d).state = u.state
        /\ Loaded(u, d).stream = u.stream
        /\ Loaded(u, d).lastSeq = u.lastSeq
        /\ Loaded(u, d).handle = u.handle
    BY <1>4 DEF Ui
  <1> QED BY <1>5, <1>6 DEF status

\* The UI before it starts, and the threads when it ends.
LEMMA EndedTyped ==
    /\ \A state \in {"on", "off", "panicked"} : [OffUi EXCEPT !.state = state] \in Ui
    /\ OffUi \in Ui
    /\ TypeInv => /\ Killed \in [Workers -> Worker]
                  /\ \A w \in Workers : WorkerFits(Killed[w])
  <1>1. OffUi \in Ui /\ \A state \in {"on", "off", "panicked"} : [OffUi EXCEPT !.state = state] \in Ui
    <2>1. <<>> \in Seq(Message) /\ <<>> \in Seq(Requests)
      OBVIOUS
    <2> QED BY <2>1 DEF OffUi, Ui, TuiRunStatus
  <1>2. ASSUME TypeInv, NEW w \in Workers PROVE Killed[w] \in Worker /\ WorkerFits(Killed[w])
    <2>1. Unused \in Worker /\ Unused.pc = "unused"
      <3>1. <<>> \in Seq(Event) /\ <<>> \in Seq(Message) /\ 0 \in 0..MaxDeltas
        BY TuiRunsAssumption
      <3> QED BY <3>1 DEF Unused, Worker
    <2>2. worker[w].request \in {0} \union Requests /\ WorkerFits(worker[w])
      BY <1>2 DEF TypeInv, TypeOK, Worker
    <2> DEFINE gone == [Unused EXCEPT !.pc = "gone", !.request = worker[w].request]
    <2>3. gone \in Worker /\ gone.pc = "gone" /\ gone.request = worker[w].request
      BY <2>1, <2>2 DEF Worker
    <2>4. Killed[w] = IF worker[w].pc = "unused" THEN Unused ELSE gone
      BY DEF Killed
    <2> HIDE DEF gone
    <2> QED BY <2>1, <2>2, <2>3, <2>4 DEF WorkerFits
  <1> QED BY <1>1, <1>2 DEF Killed

\* A thread that is replaced by a well-typed one.
LEMMA BecomesTyped ==
    ASSUME TypeInv, NEW w \in Workers, NEW r \in Worker, WorkerFits(r),
           worker' = [worker EXCEPT ![w] = r]
    PROVE  /\ worker' \in [Workers -> Worker]
           /\ \A v \in Workers : WorkerFits(worker'[v])
  BY DEF TypeInv, TypeOK

\* The parts of the invariant in the next state.
LEMMA TypedNext ==
    ASSUME StoreTyped(db'), ui' \in Ui,
           worker' \in [Workers -> Worker], \A w \in Workers : WorkerFits(worker'[w])
    PROVE  TypeInv'
  BY DEF TypeInv, TypeOK, StoreTyped

\* The end of the UI, and the end of a session command.
LEMMA ExitTyped ==
    ASSUME TypeInv, NEW d, StoreTyped(d), Exit(d)
    PROVE  TypeInv'
  <1>1. StoreTyped(db') /\ ui' \in Ui
    BY EndedTyped DEF Exit
  <1>2. worker' \in [Workers -> Worker] /\ \A w \in Workers : WorkerFits(worker'[w])
    BY EndedTyped DEF Exit
  <1> QED BY <1>1, <1>2, TypedNext

\* A session command that ends with a reload, or with the UI.
LEMMA ReloadTyped ==
    ASSUME TypeInv, NEW d, StoreTyped(d), Reload(d)
    PROVE  TypeInv'
  <1>1. CASE ActiveExists(d)
    <2> DEFINE u == [ui EXCEPT !.drained = FALSE]
    <2>1. u \in Ui
      BY DEF TypeInv, TypeOK, Ui
    <2>2. db' = d /\ ui' = Loaded(u, d) /\ worker' = worker
      BY <1>1 DEF Reload
    <2> HIDE DEF u
    <2>3. ui' \in Ui
      BY <2>1, <2>2, LoadedFacts
    <2> QED BY <2>2, <2>3, TypedNext DEF TypeInv, TypeOK
  <1>2. CASE ~ActiveExists(d)
    BY <1>2, ExitTyped DEF Reload
  <1> QED BY <1>1, <1>2

\* The thread of a new request.
LEMMA StartTyped ==
    ASSUME TypeInv, NEW w \in Workers, NEW request \in Requests, Start(w, request)
    PROVE  /\ worker' \in [Workers -> Worker]
           /\ \A v \in Workers : WorkerFits(worker'[v])
           /\ worker' = [worker EXCEPT ![w] = [Unused EXCEPT !.pc = "begin", !.request = request]]
  <1> DEFINE r == [Unused EXCEPT !.pc = "begin", !.request = request]
  <1>1. worker' = [worker EXCEPT ![w] = r]
    BY DEF Start
  <1>2. r \in Worker /\ r.pc = "begin" /\ r.request = request /\ r.run = NoRun
    <2>1. <<>> \in Seq(Event) /\ <<>> \in Seq(Message) /\ 0 \in 0..MaxDeltas
      BY TuiRunsAssumption
    <2> QED BY <2>1 DEF Unused, Worker
  <1> HIDE DEF r
  <1>3. WorkerFits(r)
    BY <1>2 DEF WorkerFits
  <1> QED BY <1>1, <1>2, <1>3, BecomesTyped DEF r

\* The UI as a request begins.
LEMMA BegunFacts ==
    ASSUME TypeInv, NEW request \in Requests
    PROVE  /\ Begun(request) \in Ui
           /\ Begun(request).state = ui.state
           /\ Begun(request).status = "Running"
           /\ Begun(request).session = ui.session
           /\ Begun(request).pending = ui.pending
           /\ Begun(request).stream = 0
           /\ Begun(request).lastSeq = 0
           /\ Begun(request).handle = ui.handle
           /\ Msg("User", {request}) \in Message
  <1>1. ui \in Ui /\ Msg("User", {request}) \in Message
    BY DEF TypeInv, TypeOK, Msg, Message
  <1> DEFINE longer == Append(ui.messages, Msg("User", {request}))
  <1>2. longer \in Seq(Message)
    BY <1>1 DEF Ui
  <1>3. Begun(request) = [ui EXCEPT !.status = "Running", !.stream = 0, !.lastSeq = 0,
                                    !.messages = longer, !.drained = FALSE]
    BY <1>1 DEF Begun, Ui
  <1> HIDE DEF longer
  <1>4. Begun(request) \in Ui
    <2> DEFINE running == "Running"
    <2>1. running \in TuiRunStatus
      BY DEF TuiRunStatus, RunStatus
    <2>2. Begun(request) = [ui EXCEPT !.status = running, !.stream = 0, !.lastSeq = 0,
                                      !.messages = longer, !.drained = FALSE]
      BY <1>3
    <2> HIDE DEF running
    <2>3. [ui EXCEPT !.status = running, !.stream = 0, !.lastSeq = 0,
                     !.messages = longer, !.drained = FALSE] \in Ui
      BY <1>1, <1>2, <2>1 DEF Ui
    <2> QED BY <2>2, <2>3
  <1> QED BY <1>1, <1>3, <1>4 DEF Ui

\* The three ways in which a request is sent.
SendsHere(w, request) ==
    /\ ~ui.pending
    /\ ui' = [Begun(request) EXCEPT !.handle = w]
    /\ Start(w, request)
    /\ UNCHANGED db

SendsToNewSession(w, request, d) ==
    /\ ui.pending
    /\ NextSessionIsFree(db) /\ NextSession(db) <= MaxSessions
    /\ d = WithActive(WithNewSession(db), NextSession(db))
    /\ ui' = [Loaded(Begun(request), d) EXCEPT
                 !.messages = Append(@, Msg("User", {request})),
                 !.status = "Running",
                 !.handle = w]
    /\ Start(w, request)
    /\ db' = d

\* To the session shown, to a new one, or not at all.
LEMMA StartRunCases ==
    ASSUME NEW request, StartRun(request)
    PROVE  /\ On /\ ~Busy
           /\ NextRequest \in Workers
           /\ \/ SendsHere(NextRequest, request)
              \/ SendsToNewSession(NextRequest, request,
                                   WithActive(WithNewSession(db), NextSession(db)))
              \/ Exit(db)
  BY DEF StartRun, SendsHere, SendsToNewSession

\* What the UI shows when a request opens a session.
LEMMA SentToNewSession ==
    ASSUME TypeInv, NEW w \in Workers, NEW request \in Requests, NEW d, StoreTyped(d),
           ui' = [Loaded(Begun(request), d) EXCEPT
                     !.messages = Append(@, Msg("User", {request})),
                     !.status = "Running",
                     !.handle = w]
    PROVE  /\ ui' \in Ui
           /\ ui'.state = ui.state
           /\ ui'.status = "Running"
           /\ ui'.session = d.active
           /\ ~ui'.pending
           /\ ui'.stream = 0 /\ ui'.lastSeq = 0
           /\ ui'.handle = w
  <1> DEFINE u == Loaded(Begun(request), d)
             longer == Append(u.messages, Msg("User", {request}))
  <1>1. u \in Ui /\ u.state = ui.state /\ u.session = d.active /\ ~u.pending
        /\ u.stream = 0 /\ u.lastSeq = 0
    BY BegunFacts, LoadedFacts
  <1>2. longer \in Seq(Message)
    BY <1>1, BegunFacts DEF Ui
  <1>3. ui' = [u EXCEPT !.messages = longer, !.status = "Running", !.handle = w]
    BY <1>1 DEF Ui
  <1> HIDE DEF u, longer
  <1> QED BY <1>1, <1>2, <1>3 DEF Ui, TuiRunStatus, RunStatus

\* Sending a request keeps the types.
LEMMA StartRunTyped ==
    ASSUME TypeInv, NEW request \in Requests, StartRun(request)
    PROVE  TypeInv'
  <1> DEFINE w == NextRequest
             d == WithActive(WithNewSession(db), NextSession(db))
  <1>1. w \in Workers /\ StoreTyped(db)
    BY StartRunCases DEF TypeInv, TypeOK, StoreTyped
  <1> HIDE DEF w
  <1>2. CASE SendsHere(w, request)
    <2>1. ui' = [Begun(request) EXCEPT !.handle = w] /\ Start(w, request) /\ db' = db
      BY <1>2 DEF SendsHere
    <2>2. ui' \in Ui
      BY <1>1, <2>1, BegunFacts DEF Ui
    <2>3. worker' \in [Workers -> Worker] /\ \A v \in Workers : WorkerFits(worker'[v])
      BY <1>1, <2>1, StartTyped
    <2> QED BY <1>1, <2>1, <2>2, <2>3, TypedNext
  <1>3. CASE SendsToNewSession(w, request, d)
    <2>1. NextSession(db) <= MaxSessions /\ db' = d /\ Start(w, request)
      BY <1>3 DEF SendsToNewSession
    <2>2. NextSession(db) \in SessionIds
      BY <1>1, <2>1, NextSessionTyped
    <2>3. StoreTyped(d)
      BY <1>1, <2>2, SessionRowsTyped
    <2>4. ui' = [Loaded(Begun(request), d) EXCEPT
                     !.messages = Append(@, Msg("User", {request})),
                     !.status = "Running",
                     !.handle = w]
      BY <1>3 DEF SendsToNewSession
    <2> HIDE DEF d
    <2>5. ui' \in Ui
      BY <1>1, <2>3, <2>4, SentToNewSession
    <2>6. worker' \in [Workers -> Worker] /\ \A v \in Workers : WorkerFits(worker'[v])
      BY <1>1, <2>1, StartTyped
    <2> QED BY <2>1, <2>3, <2>5, <2>6, TypedNext
  <1>4. CASE Exit(db)
    BY <1>1, <1>4, ExitTyped
  <1> QED BY <1>2, <1>3, <1>4, StartRunCases DEF w

\* What /retry repeats is a request.
LEMMA RetryTargetsType ==
    ASSUME TypeInv, NEW request \in RetryTargets
    PROVE  request \in Requests
  <1> DEFINE asked == {i \in DOMAIN ui.messages : ui.messages[i].role = "User"}
             last == {k \in asked : \A j \in asked : k >= j}
  <1>1. ui.messages \in Seq(Message) /\ ui.runs \in Seq(Requests)
    BY DEF TypeInv, TypeOK, Ui
  <1>2. CASE ui.runs # <<>>
    <2>1. request = ui.runs[Len(ui.runs)]
      BY <1>2 DEF RetryTargets, Last
    <2>2. Len(ui.runs) \in 1..Len(ui.runs)
      BY <1>1, <1>2, LenProperties
    <2> QED BY <1>1, <2>1, <2>2, ElementOfSeq
  <1>3. CASE ui.runs = <<>>
    <2>1. RetryTargets = UNION {ui.messages[i].of : i \in last}
      BY <1>3 DEF RetryTargets
    <2>2. \A i \in last : i \in DOMAIN ui.messages
      OBVIOUS
    <2> HIDE DEF last
    <2>3. PICK i \in last : request \in ui.messages[i].of
      BY <2>1
    <2>4. ui.messages[i] \in Message
      BY <1>1, <2>2, LenProperties, ElementOfSeq
    <2> QED BY <2>3, <2>4 DEF Message
  <1> QED BY <1>2, <1>3

\* The replacement of the session shown.
LEMMA ReplacedTyped ==
    ASSUME NEW d, StoreTyped(d), NextSession(d) <= MaxSessions
    PROVE  StoreTyped(Replaced(d))
  BY NextSessionTyped, SessionRowsTyped DEF Replaced

\* What the user does keeps the types.
LEMMA UserTyped ==
    ASSUME TypeInv, User
    PROVE  TypeInv'
  <1>1. StoreTyped(db) /\ ui \in Ui /\ worker \in [Workers -> Worker]
        /\ \A w \in Workers : WorkerFits(worker[w])
    BY DEF TypeInv, TypeOK, StoreTyped
  <1>2. ASSUME Submit PROVE TypeInv'
    <2>1. NextRequest \in Requests
      <3>1. NextRequest \in Workers
        BY <1>2, StartRunCases DEF Submit
      <3> QED BY <3>1, TuiRunsAssumption DEF Workers, Requests
    <2> QED BY <1>2, <2>1, StartRunTyped DEF Submit
  <1>3. ASSUME Restart PROVE TypeInv'
    BY <1>3, RetryTargetsType, StartRunTyped DEF Restart
  <1>4. ASSUME RequestChanges PROVE TypeInv'
    <2> DEFINE w == NextRequest
               longer == Append(ui.messages, Msg("User", {Feedback(w)}))
               u == [ui EXCEPT !.review = FALSE, !.status = "Running", !.messages = longer,
                               !.handle = w, !.drained = FALSE]
    <2>1. w \in Workers /\ Start(w, w) /\ db' = db
      BY <1>4 DEF RequestChanges
    <2> HIDE DEF w
    <2>2. ui' = u
      BY <1>4, <1>1 DEF RequestChanges, Ui, w
    <2>3. Feedback(w) \in Requests /\ w \in Requests
      BY <2>1, TuiRunsAssumption DEF Workers, Requests, Feedback
    <2>4. longer \in Seq(Message)
      <3>1. Msg("User", {Feedback(w)}) \in Message
        BY <2>3 DEF Msg, Message
      <3> QED BY <3>1, <1>1 DEF Ui
    <2> HIDE DEF longer
    <2>5. u \in Ui
      <3>1. "Running" \in TuiRunStatus
        BY DEF TuiRunStatus, RunStatus
      <3> QED BY <3>1, <1>1, <2>1, <2>4 DEF Ui
    <2> QED BY <1>1, <2>1, <2>2, <2>3, <2>5, StartTyped, TypedNext
  <1>5. ASSUME CancelRun PROVE TypeInv'
    <2> DEFINE r == [worker[ui.handle] EXCEPT !.canceled = TRUE]
    <2>1. ui.handle \in Workers /\ db' = db
      BY <1>1, <1>5 DEF CancelRun, Ui
    <2>2. worker' = [worker EXCEPT ![ui.handle] = r]
      BY <1>5, <1>1, <2>1 DEF CancelRun
    <2>3. worker[ui.handle] \in Worker /\ WorkerFits(worker[ui.handle])
      BY <1>1, <2>1
    <2>4. r \in Worker /\ WorkerFits(r)
      BY <2>3 DEF Worker, WorkerFits
    <2> HIDE DEF r
    <2>5. ui' \in Ui
      BY <1>5, <1>1 DEF CancelRun, Ui
    <2> QED BY <1>1, <2>1, <2>2, <2>4, <2>5, BecomesTyped, TypedNext
  <1>6. ASSUME NewSession PROVE TypeInv'
    <2> DEFINE idle == "Idle"
               none == <<>>
               u == [ui EXCEPT !.pending = TRUE, !.session = 0, !.messages = none,
                               !.status = idle, !.drained = FALSE]
    <2>1. ui' = u /\ db' = db /\ worker' = worker
      BY <1>6 DEF NewSession
    <2>2. idle \in TuiRunStatus /\ none \in Seq(Message)
      BY DEF TuiRunStatus
    <2> HIDE DEF idle, none
    <2>3. u \in Ui
      BY <1>1, <2>2 DEF Ui
    <2> QED BY <1>1, <2>1, <2>3, TypedNext
  <1>7. ASSUME CreateSession PROVE TypeInv'
    <2>1. CASE NextSessionIsFree(db)
      <3>1. NextSession(db) <= MaxSessions
            /\ Reload(WithActive(WithNewSession(db), NextSession(db)))
        BY <1>7, <2>1 DEF CreateSession
      <3>2. StoreTyped(WithActive(WithNewSession(db), NextSession(db)))
        BY <1>1, <3>1, NextSessionTyped, SessionRowsTyped
      <3> QED BY <3>1, <3>2, ReloadTyped
    <2>2. CASE ~NextSessionIsFree(db)
      BY <1>1, <1>7, <2>2, ExitTyped DEF CreateSession
    <2> QED BY <2>1, <2>2
  <1>8. ASSUME LikeSession PROVE TypeInv'
    BY <1>1, <1>8, ReloadTyped DEF LikeSession
  <1>9. ASSUME NEW s \in SessionIds, SwitchSession(s) PROVE TypeInv'
    <2>1. StoreTyped(WithActive(db, s))
      BY <1>1, SessionRowsTyped
    <2> QED BY <1>1, <1>9, <2>1, ReloadTyped, ExitTyped DEF SwitchSession
  <1>10. ASSUME NEW s \in SessionIds, DeleteSession(s) PROVE TypeInv'
    <2>1. StoreTyped(WithoutSession(db, s))
      BY <1>1, WithoutSessionTyped
    <2>2. NextSession(db) <= MaxSessions => StoreTyped(WithoutSession(Replaced(db), s))
      BY <1>1, ReplacedTyped, WithoutSessionTyped
    <2>3. Reload(WithoutSession(db, s)) => TypeInv'
      BY <2>1, ReloadTyped
    <2>4. NextSession(db) <= MaxSessions /\ Reload(WithoutSession(Replaced(db), s)) => TypeInv'
      BY <2>2, ReloadTyped
    <2>5. Exit(db) => TypeInv'
      BY <1>1, ExitTyped
    <2> QED BY <1>10, <2>3, <2>4, <2>5 DEF DeleteSession
  <1>11. ASSUME NEW s \in SessionIds, ArchiveSession(s) PROVE TypeInv'
    <2>1. StoreTyped(WithArchived(db, s))
      BY <1>1, SessionRowsTyped
    <2>2. NextSession(WithArchived(db, s)) = NextSession(db)
      BY <1>1 DEF WithArchived, NextSession, StoreTyped, Store
    <2>3. NextSession(db) <= MaxSessions => StoreTyped(Replaced(WithArchived(db, s)))
      BY <2>1, <2>2, ReplacedTyped
    <2>4. Reload(WithArchived(db, s)) => TypeInv'
      BY <2>1, ReloadTyped
    <2>5. NextSession(db) <= MaxSessions /\ Reload(Replaced(WithArchived(db, s))) => TypeInv'
      BY <2>3, ReloadTyped
    <2>6. Exit(WithArchived(db, s)) => TypeInv'
      BY <2>1, ExitTyped
    <2> QED BY <1>11, <2>4, <2>5, <2>6 DEF ArchiveSession
  <1>12. ASSUME Quit PROVE TypeInv'
    BY <1>1, <1>12, ExitTyped DEF Quit
  <1>13. ASSUME StartUi PROVE TypeInv'
    <2> DEFINE u == [OffUi EXCEPT !.state = "on"]
    <2>1. u \in Ui
      BY EndedTyped
    <2>2. ui' = Loaded(u, db) /\ db' = db /\ worker' = worker
      BY <1>13 DEF StartUi
    <2> HIDE DEF u
    <2>3. ui' \in Ui
      BY <1>1, <2>1, <2>2, LoadedFacts
    <2> QED BY <1>1, <2>2, <2>3, TypedNext
  <1> QED BY <1>2, <1>3, <1>4, <1>5, <1>6, <1>7, <1>8, <1>9, <1>10, <1>11, <1>12, <1>13 DEF User

\* An event sent, whether the loop listens or not.
LEMMA EmittingFacts ==
    ASSUME NEW r \in Worker, NEW w, NEW kind \in {"RunStarted", "AssistantTextDelta", "ToolOutput"}
    PROVE  /\ Emitting(r, w, kind) \in Worker
           /\ Emitting(r, w, kind).pc = r.pc
           /\ Emitting(r, w, kind).request = r.request
           /\ Emitting(r, w, kind).run = r.run
           /\ Emitting(r, w, kind).seq = r.seq + 1
           /\ Emitting(r, w, kind).events =
                 IF ui.handle = w THEN Append(r.events, [kind |-> kind, seq |-> r.seq + 1])
                 ELSE r.events
  <1> DEFINE longer == IF ui.handle = w
                       THEN Append(r.events, [kind |-> kind, seq |-> r.seq + 1])
                       ELSE r.events
  <1>1. Emitting(r, w, kind) = [r EXCEPT !.seq = r.seq + 1, !.events = longer]
    BY DEF Emitting, Worker
  <1>2. longer \in Seq(Event)
    <2>1. [kind |-> kind, seq |-> r.seq + 1] \in Event /\ r.events \in Seq(Event)
      BY DEF Event, Worker
    <2> QED BY <2>1
  <1> HIDE DEF longer
  <1>3. Emitting(r, w, kind) \in Worker
    <2> DEFINE next == r.seq + 1
    <2>1. next \in Nat
      BY DEF Worker
    <2> HIDE DEF next
    <2>2. [r EXCEPT !.seq = next, !.events = longer] \in Worker
      BY <1>2, <2>1 DEF Worker
    <2> QED BY <1>1, <2>2 DEF next
  <1>4. /\ Emitting(r, w, kind).pc = r.pc
        /\ Emitting(r, w, kind).request = r.request
        /\ Emitting(r, w, kind).run = r.run
        /\ Emitting(r, w, kind).seq = r.seq + 1
        /\ Emitting(r, w, kind).events = longer
    BY <1>1 DEF Worker
  <1> QED BY <1>3, <1>4 DEF longer

\* What a worker becomes when it ends.
EndOf(w, outcome, result) ==
    [worker[w] EXCEPT !.pc = IF ui.handle = w THEN "done" ELSE "gone",
                      !.outcome = outcome, !.result = result]

\* A worker that ends keeps the types.
LEMMA EndsTyped ==
    ASSUME TypeInv, NEW w \in Workers, worker[w].pc # "unused",
           NEW outcome \in {"Error", "Completed", "WaitingForHumanInput"},
           NEW result \in Seq(Message), Ends(w, outcome, result)
    PROVE  /\ worker' \in [Workers -> Worker]
           /\ \A v \in Workers : WorkerFits(worker'[v])
  <1> DEFINE r == EndOf(w, outcome, result)
             pc == IF ui.handle = w THEN "done" ELSE "gone"
  <1>1. worker' = [worker EXCEPT ![w] = r] /\ r = [worker[w] EXCEPT !.pc = pc,
                                  !.outcome = outcome, !.result = result]
    BY DEF Ends, Becomes, EndOf
  <1>2. worker[w] \in Worker /\ WorkerFits(worker[w])
    BY DEF TypeInv, TypeOK
  <1>3. pc \in {"done", "gone"}
    OBVIOUS
  <1> HIDE DEF pc, r
  <1>4. r \in Worker /\ r.pc = pc /\ r.request = worker[w].request /\ r.outcome = outcome
    BY <1>1, <1>2, <1>3 DEF Worker
  <1>5. WorkerFits(r)
    BY <1>2, <1>3, <1>4 DEF WorkerFits
  <1> QED BY <1>1, <1>4, <1>5, BecomesTyped

\* A step recorded in a run: the types, and the one field that changes.
LEMMA RecordTyped ==
    ASSUME NEW d, StoreTyped(d), NEW run \in RunIds, NEW by \in Requests,
           NEW kind \in {"UserMessage", "AssistantResponse", "AssistantOutputCheckpoint", "Error"}
    PROVE  /\ StoreTyped(Record(d, run, kind, by))
           /\ Record(d, run, kind, by).runs = d.runs
           /\ Record(d, run, kind, by).active = d.active
           /\ Record(d, run, kind, by).sessions = d.sessions
  <1> DEFINE step == [kind |-> kind, by |-> by]
  <1>1. step \in Step /\ Record(d, run, kind, by) = WithStep(d, run, step)
    BY DEF Step, Record
  <1> HIDE DEF step
  <1>2. StoreTyped(WithStep(d, run, step))
        /\ WithStep(d, run, step) = [d EXCEPT !.steps = [d.steps EXCEPT ![run] = Append(@, step)]]
    BY <1>1, WithStepTyped
  <1>3. /\ WithStep(d, run, step).runs = d.runs
        /\ WithStep(d, run, step).active = d.active
        /\ WithStep(d, run, step).sessions = d.sessions
    BY <1>2 DEF StoreTyped, Store
  <1> QED BY <1>1, <1>2, <1>3

\* A step is appended to the log of its run, and to no other.
LEMMA RecordSteps ==
    ASSUME NEW d, StoreTyped(d), NEW run \in RunIds, NEW kind, NEW by
    PROVE  Record(d, run, kind, by).steps =
              [d.steps EXCEPT ![run] = Append(@, [kind |-> kind, by |-> by])]
  BY DEF Record, WithStep, StoreTyped, Store

\* Recording a request keeps the types and the runs.
LEMMA RequestTyped ==
    ASSUME NEW d, StoreTyped(d), NEW run \in RunIds, NEW by \in Requests
    PROVE  /\ StoreTyped(Record(d, run, "UserMessage", by))
           /\ Record(d, run, "UserMessage", by).runs = d.runs
           /\ Record(d, run, "UserMessage", by).active = d.active
           /\ Record(d, run, "UserMessage", by).sessions = d.sessions
           /\ Record(d, run, "UserMessage", by).steps =
                 [d.steps EXCEPT ![run] = Append(@, [kind |-> "UserMessage", by |-> by])]
  <1> DEFINE Kinds == {"UserMessage", "AssistantResponse", "AssistantOutputCheckpoint", "Error"}
  <1>1. ASSUME NEW kind \in Kinds
        PROVE  /\ StoreTyped(Record(d, run, kind, by))
               /\ Record(d, run, kind, by).runs = d.runs
               /\ Record(d, run, kind, by).active = d.active
               /\ Record(d, run, kind, by).sessions = d.sessions
    BY RecordTyped
  <1>2. "UserMessage" \in Kinds
    OBVIOUS
  <1>3. Record(d, run, "UserMessage", by).steps =
            [d.steps EXCEPT ![run] = Append(@, [kind |-> "UserMessage", by |-> by])]
    BY DEF Record, WithStep, StoreTyped, Store
  <1> HIDE DEF Kinds
  <1> QED BY <1>1, <1>2, <1>3

\* Recording a response keeps the types and the runs.
LEMMA RespondedTyped ==
    ASSUME TypeInv, NEW w \in Workers, worker[w].run \in RunIds
    PROVE  /\ StoreTyped(Responded(w))
           /\ Responded(w).runs = db.runs
           /\ Responded(w).active = db.active
           /\ Responded(w).sessions = db.sessions
  <1>1. StoreTyped(db) /\ w \in Requests
    BY TuiRunsAssumption DEF TypeInv, TypeOK, StoreTyped, Workers, Requests
  <1>2. CASE worker[w].fresh
    <2> DEFINE kind == "AssistantResponse"
    <2>1. kind \in {"UserMessage", "AssistantResponse", "AssistantOutputCheckpoint", "Error"}
          /\ Responded(w) = Record(db, worker[w].run, kind, w)
      BY <1>2 DEF Responded
    <2> HIDE DEF kind
    <2> DEFINE e == Record(db, worker[w].run, kind, w)
    <2>2. StoreTyped(e) /\ e.runs = db.runs /\ e.active = db.active /\ e.sessions = db.sessions
      BY <1>1, <2>1, RecordTyped
    <2> QED BY <2>1, <2>2
  <1>3. CASE ~worker[w].fresh
    BY <1>1, <1>3 DEF Responded
  <1> QED BY <1>2, <1>3

\* Settling a run, whatever was recorded before.
LEMMA SettleTyped ==
    ASSUME TypeInv, NEW w \in Workers, worker[w].pc = "serve", NEW d, StoreTyped(d),
           NEW v \in {"Completed", "WaitingForHumanInput", "Failed"}, Settle(w, d, v)
    PROVE  /\ StoreTyped(db')
           /\ worker' \in [Workers -> Worker]
           /\ \A u \in Workers : WorkerFits(worker'[u])
  <1> DEFINE run == worker[w].run
             result == MessagesOf(d.steps[run])
  <1>1. run \in RunIds /\ worker[w].pc # "unused"
    BY DEF TypeInv, WorkerFits
  <1>2. v \in RunStatus /\ <<>> \in Seq(Message)
    BY DEF RunStatus, Settled
  <1>3. result \in Seq(Message)
    <2>1. d.steps[run] \in Seq(Step)
      BY <1>1 DEF StoreTyped, Store
    <2> QED BY <2>1, MessagesOfType
  <1> HIDE DEF run, result
  <1>4. CASE RunExists(d, run)
    <2>1. db' = WithStatus(d, run, v)
          /\ IF v = "Failed" THEN Ends(w, "Error", <<>>) ELSE Ends(w, v, result)
      BY <1>4 DEF Settle, run, result
    <2>2. StoreTyped(db')
      BY <1>1, <1>2, <1>4, <2>1, WithStatusTyped
    <2>3. CASE v = "Failed"
      BY <1>1, <1>2, <2>1, <2>2, <2>3, EndsTyped
    <2>4. CASE v # "Failed"
      BY <1>1, <1>3, <2>1, <2>2, <2>4, EndsTyped
    <2> QED BY <2>3, <2>4
  <1>5. CASE ~RunExists(d, run)
    <2>1. db' = d /\ Ends(w, "Error", <<>>)
      BY <1>5 DEF Settle, run
    <2> QED BY <1>1, <1>2, <2>1, EndsTyped
  <1> QED BY <1>4, <1>5

\* What the workers do keeps the types.
LEMMA WorkTyped ==
    ASSUME TypeInv, NEW w \in Workers, Work(w)
    PROVE  TypeInv'
  <1> DEFINE r == worker[w]
  <1>1. /\ StoreTyped(db) /\ ui \in Ui /\ worker \in [Workers -> Worker]
        /\ \A v \in Workers : WorkerFits(worker[v])
        /\ r \in Worker /\ WorkerFits(r) /\ w \in Requests
    BY TuiRunsAssumption DEF TypeInv, TypeOK, StoreTyped, Workers, Requests
  <1>2. ui' = ui
    BY DEF Work, ResumeRun, FindNoWaitingRun, CreateRun, RecordRequest, ReceiveText, StreamText,
           ProposeChange, RecordResponse, CompleteRun, WaitForHumanInput, FailRun, StopCanceled
  <1>3. SUFFICES /\ StoreTyped(db')
                 /\ worker' \in [Workers -> Worker]
                 /\ \A v \in Workers : WorkerFits(worker'[v])
    BY <1>1, <1>2, TypedNext
  <1> DEFINE Goal == /\ StoreTyped(db')
                     /\ worker' \in [Workers -> Worker]
                     /\ \A v \in Workers : WorkerFits(worker'[v])
  <1>4. <<>> \in Seq(Message)
    OBVIOUS
  <1>5. ASSUME ResumeRun(w) PROVE Goal
    <2> DEFINE run == NewestRun(db)
               next == [r EXCEPT !.pc = "serve", !.run = run]
    <2>1. r.pc = "begin" /\ ActiveRuns(db) # <<>>
      BY <1>5 DEF ResumeRun, At, NewestHas
    <2>2. run \in RunIds /\ RunExists(db, run)
      BY <1>1, <2>1, ActiveRunsFacts
    <2>3. CASE db' = WithStatus(db, run, "Running") /\ Becomes(w, next)
      <3>1. "Running" \in RunStatus
        BY DEF RunStatus
      <3>2. StoreTyped(db')
        BY <1>1, <2>2, <2>3, <3>1, WithStatusTyped
      <3> HIDE DEF run
      <3>3. next \in Worker /\ WorkerFits(next)
        BY <1>1, <2>1, <2>2 DEF Worker, WorkerFits
      <3>4. worker' = [worker EXCEPT ![w] = next]
        BY <2>3 DEF Becomes
      <3> HIDE DEF next
      <3> QED BY <3>2, <3>3, <3>4, BecomesTyped
    <2>4. CASE db' = db /\ Ends(w, "Error", <<>>)
      BY <1>1, <1>4, <2>1, <2>4, EndsTyped
    <2> QED BY <1>5, <2>3, <2>4 DEF ResumeRun
  <1>6. ASSUME FindNoWaitingRun(w) PROVE Goal
    <2> DEFINE next == [r EXCEPT !.pc = "create"]
    <2>1. r.pc = "begin" /\ db' = db /\ worker' = [worker EXCEPT ![w] = next]
      BY <1>6 DEF FindNoWaitingRun, At, Becomes
    <2>2. next \in Worker /\ WorkerFits(next)
      BY <1>1, <2>1 DEF Worker, WorkerFits
    <2> HIDE DEF next
    <2> QED BY <1>1, <2>1, <2>2, BecomesTyped
  <1>7. ASSUME CreateRun(w) PROVE Goal
    <2> DEFINE run == NewRun(db)
               next == [r EXCEPT !.pc = "open", !.run = run]
               d == WithRun(db, r.request)
    <2>1. /\ r.pc = "create" /\ Len(ActiveRuns(db)) < MaxRuns
          /\ db' = d
          /\ worker' = [worker EXCEPT ![w] = next]
      BY <1>7 DEF CreateRun, At, Becomes
    <2>2. r.request \in Requests
      BY <1>1, <2>1 DEF WorkerFits
    <2>3. StoreTyped(d) /\ run \in RunIds
      BY <1>1, <2>1, <2>2, WithRunTyped
    <2> HIDE DEF d, run
    <2>4. next \in Worker /\ WorkerFits(next)
      BY <1>1, <2>2, <2>3 DEF Worker, WorkerFits
    <2> HIDE DEF next
    <2> QED BY <2>1, <2>3, <2>4, BecomesTyped
  <1>17. ASSUME RecordRequest(w) PROVE Goal
    <2> DEFINE e == Emitting(r, w, "RunStarted")
               next == [e EXCEPT !.pc = "serve"]
    <2>1. /\ r.pc = "open"
          /\ db' = Record(db, r.run, "UserMessage", r.request)
          /\ worker' = [worker EXCEPT ![w] = next]
      BY <1>17 DEF RecordRequest, At, Becomes
    <2>2. r.request \in Requests /\ r.run \in RunIds
      BY <1>1, <2>1 DEF WorkerFits
    <2>3. e \in Worker /\ e.request = r.request /\ e.run = r.run
      <3> HIDE DEF r
      <3> QED BY <1>1, EmittingFacts
    <2> HIDE DEF e
    <2>4. StoreTyped(db')
      BY <1>1, <2>1, <2>2, RecordTyped
    <2>5. next \in Worker /\ WorkerFits(next)
      BY <2>2, <2>3 DEF Worker, WorkerFits
    <2> HIDE DEF next
    <2> QED BY <2>1, <2>4, <2>5, BecomesTyped
  <1>8. ASSUME ReceiveText(w) PROVE Goal
    <2> DEFINE next == [r EXCEPT !.pc = "send", !.deltas = r.deltas + 1]
    <2>1. r.pc = "serve" /\ r.deltas < MaxDeltas /\ db' = db
          /\ worker' = [worker EXCEPT ![w] = next]
      BY <1>1, <1>8 DEF ReceiveText, At, Becomes, Worker
    <2>2. r.deltas + 1 \in 0..MaxDeltas
      BY <1>1, <2>1, TuiRunsAssumption DEF Worker
    <2>3. next \in Worker /\ WorkerFits(next)
      BY <1>1, <2>1, <2>2 DEF Worker, WorkerFits
    <2> HIDE DEF next
    <2> QED BY <1>1, <2>1, <2>3, BecomesTyped
  <1>9. ASSUME StreamText(w) PROVE Goal
    <2> DEFINE e == Emitting(r, w, "AssistantTextDelta")
               next == [e EXCEPT !.pc = "serve", !.partial = TRUE, !.fresh = TRUE]
    <2>1. r.pc = "send" /\ db' = db /\ worker' = [worker EXCEPT ![w] = next]
      BY <1>9 DEF StreamText, At, Becomes
    <2>2. e \in Worker
      BY <1>1, EmittingFacts
    <2>3. e.request = r.request /\ e.run = r.run
      BY <1>1, EmittingFacts
    <2> HIDE DEF e
    <2>4. next \in Worker /\ WorkerFits(next)
      BY <1>1, <2>1, <2>2, <2>3 DEF Worker, WorkerFits
    <2> HIDE DEF next
    <2> QED BY <1>1, <2>1, <2>4, BecomesTyped
  <1>10. ASSUME ProposeChange(w) PROVE Goal
    <2> DEFINE e == Emitting(r, w, "ToolOutput")
               next == [e EXCEPT !.fresh = FALSE, !.proposed = TRUE]
    <2>1. r.pc = "serve" /\ db' = Responded(w) /\ worker' = [worker EXCEPT ![w] = next]
      BY <1>10 DEF ProposeChange, At, Becomes
    <2>2. e \in Worker
      BY <1>1, EmittingFacts
    <2>3. e.request = r.request /\ e.run = r.run /\ e.pc = r.pc
      <3> HIDE DEF r
      <3> QED BY <1>1, EmittingFacts
    <2> HIDE DEF e
    <2>4. next \in Worker /\ WorkerFits(next)
      BY <1>1, <2>1, <2>2, <2>3 DEF Worker, WorkerFits
    <2>5. r.run \in RunIds
      BY <1>1, <2>1 DEF WorkerFits
    <2> HIDE DEF next
    <2> QED BY <1>1, <2>1, <2>4, <2>5, RespondedTyped, BecomesTyped
  <1>11. ASSUME RecordResponse(w) PROVE Goal
    <2> DEFINE next == [r EXCEPT !.fresh = FALSE]
    <2>1. r.pc = "serve" /\ db' = Responded(w) /\ worker' = [worker EXCEPT ![w] = next]
      BY <1>11 DEF RecordResponse, At, Becomes
    <2>2. next \in Worker /\ WorkerFits(next) /\ r.run \in RunIds
      BY <1>1, <2>1 DEF Worker, WorkerFits
    <2> HIDE DEF next
    <2> QED BY <1>1, <2>1, <2>2, RespondedTyped, BecomesTyped
  <1>12. ASSUME CompleteRun(w) PROVE Goal
    <2>1. r.pc = "serve" /\ Settle(w, Responded(w), "Completed")
      BY <1>12 DEF CompleteRun, At
    <2>2. StoreTyped(Responded(w))
      BY <1>1, <2>1, RespondedTyped DEF WorkerFits
    <2> QED BY <2>1, <2>2, SettleTyped
  <1>13. ASSUME WaitForHumanInput(w) PROVE Goal
    <2>1. r.pc = "serve" /\ Settle(w, Responded(w), "WaitingForHumanInput")
      BY <1>13 DEF WaitForHumanInput, At
    <2>2. StoreTyped(Responded(w))
      BY <1>1, <2>1, RespondedTyped DEF WorkerFits
    <2> QED BY <2>1, <2>2, SettleTyped
  <1>14. ASSUME FailRun(w) PROVE Goal
    <2>1. r.pc = "serve" /\ Settle(w, Record(db, r.run, "Error", w), "Failed")
      BY <1>14 DEF FailRun, At
    <2>2. r.run \in RunIds
      BY <1>1, <2>1 DEF WorkerFits
    <2>3. StoreTyped(Record(db, r.run, "Error", w))
      BY <1>1, <2>2, RecordTyped
    <2> QED BY <2>1, <2>3, SettleTyped
  <1>15. ASSUME StopCanceled(w) PROVE Goal
    <2> DEFINE run == NewestRun(db)
               d == WithStatus(db, run, "Canceled")
    <2>1. /\ r.pc \in {"begin", "serve"}
          /\ IF NewestHas(db, "Running")
               THEN db' = IF r.partial THEN Record(d, run, "AssistantOutputCheckpoint", w) ELSE d
               ELSE db' = db
          /\ Ends(w, "Error", <<>>)
      BY <1>15 DEF StopCanceled, At
    <2>2. StoreTyped(db')
      <3>1. CASE NewestHas(db, "Running")
        <4>1. run \in RunIds /\ RunExists(db, run)
          BY <1>1, <3>1, ActiveRunsFacts DEF NewestHas
        <4>2. StoreTyped(d)
          <5>1. "Canceled" \in RunStatus
            BY DEF RunStatus, Settled
          <5> QED BY <1>1, <4>1, <5>1, WithStatusTyped
        <4> HIDE DEF d, run
        <4>3. StoreTyped(Record(d, run, "AssistantOutputCheckpoint", w))
          BY <1>1, <4>1, <4>2, RecordTyped
        <4> QED BY <2>1, <3>1, <4>2, <4>3
      <3>2. CASE ~NewestHas(db, "Running")
        BY <1>1, <2>1, <3>2
      <3> QED BY <3>1, <3>2
    <2> QED BY <1>1, <1>4, <2>1, <2>2, EndsTyped
  <1> QED BY <1>5, <1>6, <1>7, <1>8, <1>9, <1>10, <1>11, <1>12, <1>13, <1>14, <1>15, <1>17 DEF Work

\* The event that the loop takes, and those that stay.
LEMMA HeadFacts ==
    ASSUME NEW events \in Seq(Event), events # <<>>
    PROVE  /\ Head(events) \in Event
           /\ Head(events) = events[1]
           /\ Tail(events) \in Seq(Event)
           /\ Len(events) \in Nat \ {0}
           /\ Len(Tail(events)) = Len(events) - 1
           /\ \A i \in 1..(Len(events) - 1) : Tail(events)[i] = events[i + 1]
  BY HeadTailProperties, ElementOfSeq, LenProperties

\* What the loop shows of an event it does not panic at.
LEMMA ShownFacts ==
    ASSUME TypeInv, ui.handle \in Workers, NEW event \in Event, ~Panics(event)
    PROVE  /\ Shown(event) \in Ui
           /\ Shown(event).state = ui.state
           /\ Shown(event).status = ui.status
           /\ Shown(event).session = ui.session
           /\ Shown(event).pending = ui.pending
           /\ Shown(event).handle = ui.handle
           /\ Shown(event).lastSeq =
                 IF event.kind = "RunStarted" \/ event.seq > ui.lastSeq THEN event.seq
                 ELSE ui.lastSeq
           /\ \/ Shown(event).stream = ui.stream /\ Shown(event).messages = ui.messages
              \/ /\ ui.stream = 0
                 /\ Shown(event).stream = Len(ui.messages) + 1
                 /\ Shown(event).messages = Append(ui.messages, Msg("Assistant", {ui.handle}))
              \/ /\ ui.stream \in DOMAIN ui.messages
                 /\ Shown(event).stream = ui.stream
                 /\ Shown(event).messages =
                       [ui.messages EXCEPT ![ui.stream] =
                           [ui.messages[ui.stream] EXCEPT !.of =
                               ui.messages[ui.stream].of \union {ui.handle}]]
  <1> DEFINE seen == IF event.kind = "RunStarted" THEN 0 ELSE ui.lastSeq
             u == [ui EXCEPT !.lastSeq = event.seq, !.drained = FALSE]
             last == IF event.seq > seen THEN event.seq ELSE seen
  <1>1. ui \in Ui /\ event.seq \in Nat /\ seen \in Nat /\ last \in Nat /\ ui.stream \in Nat
        /\ ui.messages \in Seq(Message)
    BY DEF TypeInv, TypeOK, Ui, Event
  <1>2. CASE event.seq <= seen \/ event.kind = "RunStarted"
    <2>1. Shown(event) = [u EXCEPT !.lastSeq = last]
      BY <1>2 DEF Shown
    <2>2. last = IF event.kind = "RunStarted" \/ event.seq > ui.lastSeq THEN event.seq
                 ELSE ui.lastSeq
      BY <1>1, <1>2
    <2> HIDE DEF last
    <2>3. Shown(event) = [ui EXCEPT !.lastSeq = last, !.drained = FALSE]
      BY <1>1, <2>1 DEF Ui
    <2>4. [ui EXCEPT !.lastSeq = last, !.drained = FALSE] \in Ui
      BY <1>1 DEF Ui
    <2>5. /\ Shown(event).state = ui.state
          /\ Shown(event).status = ui.status
          /\ Shown(event).session = ui.session
          /\ Shown(event).pending = ui.pending
          /\ Shown(event).handle = ui.handle
          /\ Shown(event).lastSeq = last
          /\ Shown(event).stream = ui.stream
          /\ Shown(event).messages = ui.messages
      BY <1>1, <2>3 DEF Ui
    <2> QED BY <2>2, <2>3, <2>4, <2>5
  <1>3. CASE ~(event.seq <= seen \/ event.kind = "RunStarted")
    <2> DEFINE seq == event.seq
    <2>0. seq > ui.lastSeq /\ event.kind # "RunStarted" /\ seq \in Nat
      BY <1>1, <1>3 DEF TypeInv, TypeOK, Ui
    <2>1. CASE event.kind = "ToolOutput"
      <3>1. Shown(event) = [ui EXCEPT !.lastSeq = seq, !.drained = FALSE, !.review = TRUE]
        BY <1>1, <1>3, <2>1 DEF Shown, Ui
      <3> HIDE DEF seq
      <3>2. [ui EXCEPT !.lastSeq = seq, !.drained = FALSE, !.review = TRUE] \in Ui
        BY <1>1, <2>0 DEF Ui
      <3>3. /\ Shown(event).state = ui.state
            /\ Shown(event).status = ui.status
            /\ Shown(event).session = ui.session
            /\ Shown(event).pending = ui.pending
            /\ Shown(event).handle = ui.handle
            /\ Shown(event).lastSeq = seq
            /\ Shown(event).stream = ui.stream
            /\ Shown(event).messages = ui.messages
        BY <1>1, <3>1 DEF Ui
      <3> QED BY <2>0, <3>1, <3>2, <3>3 DEF seq
    <2>2. CASE event.kind # "ToolOutput" /\ ui.stream = 0
      <3> DEFINE longer == Append(ui.messages, Msg("Assistant", {ui.handle}))
                 place == Len(ui.messages) + 1
      <3>1. Shown(event) = [ui EXCEPT !.lastSeq = seq, !.drained = FALSE,
                                      !.messages = longer, !.stream = place]
        BY <1>1, <1>3, <2>2 DEF Shown, Ui
      <3>2. longer \in Seq(Message) /\ place \in Nat
        <4>1. ui.handle \in Requests
          BY TuiRunsAssumption DEF Workers, Requests
        <4>2. Msg("Assistant", {ui.handle}) \in Message
          BY <4>1 DEF Msg, Message
        <4> QED BY <1>1, <4>2, AppendProperties, LenProperties
      <3> HIDE DEF seq, longer, place
      <3>3. [ui EXCEPT !.lastSeq = seq, !.drained = FALSE,
                       !.messages = longer, !.stream = place] \in Ui
        BY <1>1, <2>0, <3>2 DEF Ui
      <3>4. /\ Shown(event).state = ui.state
            /\ Shown(event).status = ui.status
            /\ Shown(event).session = ui.session
            /\ Shown(event).pending = ui.pending
            /\ Shown(event).handle = ui.handle
            /\ Shown(event).lastSeq = seq
            /\ Shown(event).stream = place
            /\ Shown(event).messages = longer
        BY <1>1, <3>1 DEF Ui
      <3> QED BY <2>0, <2>2, <3>1, <3>3, <3>4 DEF seq, longer, place
    <2>3. CASE event.kind # "ToolOutput" /\ ui.stream # 0
      <3> DEFINE old == ui.messages[ui.stream]
                 new == [old EXCEPT !.of = old.of \union {ui.handle}]
                 longer == [ui.messages EXCEPT ![ui.stream] = new]
      <3>1. Shown(event) = [ui EXCEPT !.lastSeq = seq, !.drained = FALSE, !.messages = longer]
        BY <1>1, <1>3, <2>3 DEF Shown, Ui
      <3>2. ui.stream \in 1..Len(ui.messages)
        <4>1. event.kind = "AssistantTextDelta"
          BY <2>0, <2>3 DEF Event
        <4>2. ~(ui.stream > Len(ui.messages))
          BY <2>0, <4>1 DEF Panics
        <4> QED BY <1>1, <2>3, <4>2, LenProperties
      <3>3. old \in Message
        BY <1>1, <3>2, ElementOfSeq
      <3>4. new \in Message
        <4>1. ui.handle \in Requests
          BY TuiRunsAssumption DEF Workers, Requests
        <4> QED BY <3>3, <4>1 DEF Message
      <3> HIDE DEF old, new
      <3>5. longer \in Seq(Message)
        BY <1>1, <3>2, <3>4, ExceptSeq
      <3> HIDE DEF seq, longer
      <3>6. [ui EXCEPT !.lastSeq = seq, !.drained = FALSE, !.messages = longer] \in Ui
        BY <1>1, <2>0, <3>5 DEF Ui
      <3>7. /\ Shown(event).state = ui.state
            /\ Shown(event).status = ui.status
            /\ Shown(event).session = ui.session
            /\ Shown(event).pending = ui.pending
            /\ Shown(event).handle = ui.handle
            /\ Shown(event).lastSeq = seq
            /\ Shown(event).stream = ui.stream
            /\ Shown(event).messages = longer
        BY <1>1, <3>1 DEF Ui
      <3>8. ui.stream \in DOMAIN ui.messages
        BY <1>1, <3>2, LenProperties
      <3> QED BY <2>0, <3>1, <3>6, <3>7, <3>8 DEF seq, longer, old, new
    <2> QED BY <2>1, <2>2, <2>3
  <1> QED BY <1>2, <1>3

\* What the loop shows of a result.
LEMMA FinishedFacts ==
    ASSUME TypeInv, NEW w \in Workers, worker[w].outcome \in {"Completed", "WaitingForHumanInput"}
    PROVE  /\ Finished(w) \in Ui
           /\ Finished(w).state = ui.state
           /\ Finished(w).pending = ui.pending
           /\ Finished(w).status = worker[w].outcome
           /\ Finished(w).session = worker[w].run[1]
           /\ Finished(w).stream = 0
  <1> DEFINE kept == IF ui.stream \in DOMAIN ui.messages
                     THEN RemoveAt(ui.messages, ui.stream) ELSE ui.messages
             merged == Merged(kept, worker[w].result)
             session == worker[w].run[1]
             status == worker[w].outcome
  <1>1. ui \in Ui /\ ui.messages \in Seq(Message) /\ worker[w] \in Worker
    BY DEF TypeInv, TypeOK, Ui
  <1>2. kept \in Seq(Message)
    BY <1>1, RemoveAtType
  <1> HIDE DEF kept
  <1>3. merged \in Seq(Message)
    <2>1. worker[w].result \in Seq(Message)
      BY <1>1 DEF Worker
    <2> QED BY <1>2, <2>1, MergedType
  <1>4. session \in {0} \union SessionIds
    <2>1. worker[w].run = NoRun \/ worker[w].run \in RunIds
      BY <1>1 DEF Worker
    <2> QED BY <2>1 DEF NoRun, RunIds
  <1>5. status \in TuiRunStatus
    BY DEF TuiRunStatus, RunStatus, Settled
  <1>6. Finished(w) = [ui EXCEPT !.status = status, !.session = session, !.stream = 0,
                                 !.messages = merged]
    BY DEF Finished, kept
  <1> HIDE DEF merged, session, status
  <1>7. [ui EXCEPT !.status = status, !.session = session, !.stream = 0,
                   !.messages = merged] \in Ui
    BY <1>1, <1>3, <1>4, <1>5 DEF Ui
  <1>8. /\ Finished(w).state = ui.state
        /\ Finished(w).pending = ui.pending
        /\ Finished(w).status = status
        /\ Finished(w).session = session
        /\ Finished(w).stream = 0
    BY <1>1, <1>6 DEF Ui
  <1> QED BY <1>6, <1>7, <1>8 DEF status, session

\* The UI after a result is taken: canceled, failed or as the worker says.
LEMMA ResultFacts ==
    ASSUME TypeInv, TakeResult
    PROVE  /\ ui.handle \in Workers /\ On /\ db' = db
           /\ worker[ui.handle].pc = "done"
           /\ worker' = [worker EXCEPT ![ui.handle] =
                 [Unused EXCEPT !.pc = "gone", !.request = worker[ui.handle].request]]
           /\ ui' \in Ui
           /\ ui'.state = ui.state
           /\ ui'.pending = ui.pending
           /\ ui'.handle = 0
           /\ \/ ui'.status \in {"Canceled", "Failed"} /\ ui'.session = ui.session
              \/ /\ worker[ui.handle].outcome \in {"Completed", "WaitingForHumanInput"}
                 /\ ui'.status = worker[ui.handle].outcome
                 /\ ui'.session = worker[ui.handle].run[1]
  <1> DEFINE w == ui.handle
             u == IF worker[w].canceled THEN [ui EXCEPT !.status = "Canceled"]
                  ELSE IF worker[w].outcome = "Error"
                    THEN [ui EXCEPT !.status = "Failed",
                                    !.messages = Append(@, Msg("Error", {w}))]
                  ELSE Finished(w)
  <1>1. /\ On /\ w # 0 /\ At(w, "done") /\ db' = db
        /\ ui' = [u EXCEPT !.handle = 0, !.drained = FALSE]
        /\ worker' = [worker EXCEPT ![w] = [Unused EXCEPT !.pc = "gone",
                                            !.request = worker[w].request]]
    BY DEF TakeResult
  <1>2. ui \in Ui /\ w \in Workers /\ ui.messages \in Seq(Message)
    BY <1>1 DEF TypeInv, TypeOK, Ui
  <1>3. worker[w].outcome \in {"Error", "Completed", "WaitingForHumanInput"}
    <2>1. worker[w] \in Worker /\ WorkerFits(worker[w])
      BY <1>2 DEF TypeInv, TypeOK
    <2> QED BY <1>1, <2>1 DEF At, WorkerFits, Worker
  <1> HIDE DEF u
  <1>4. /\ u \in Ui /\ u.state = ui.state /\ u.pending = ui.pending
        /\ \/ u.status \in {"Canceled", "Failed"} /\ u.session = ui.session
           \/ /\ worker[w].outcome \in {"Completed", "WaitingForHumanInput"}
              /\ u.status = worker[w].outcome
              /\ u.session = worker[w].run[1]
    <2>1. CASE worker[w].canceled
      <3> DEFINE canceled == "Canceled"
      <3>1. canceled \in TuiRunStatus
        BY DEF TuiRunStatus, RunStatus, Settled
      <3>2. u = [ui EXCEPT !.status = canceled]
        BY <2>1 DEF u
      <3> HIDE DEF canceled
      <3>3. u \in Ui /\ u.state = ui.state /\ u.pending = ui.pending
            /\ u.session = ui.session /\ u.status = canceled
        BY <1>2, <3>1, <3>2 DEF Ui
      <3> QED BY <3>3 DEF canceled
    <2>2. CASE ~worker[w].canceled /\ worker[w].outcome = "Error"
      <3> DEFINE failed == "Failed"
                 longer == Append(ui.messages, Msg("Error", {w}))
      <3>1. failed \in TuiRunStatus
        BY DEF TuiRunStatus, RunStatus, Settled
      <3>2. longer \in Seq(Message)
        <4>1. w \in Requests
          BY <1>2, TuiRunsAssumption DEF Workers, Requests
        <4>2. Msg("Error", {w}) \in Message
          BY <4>1 DEF Msg, Message
        <4> QED BY <1>2, <4>2, AppendProperties
      <3>3. u = [ui EXCEPT !.status = failed, !.messages = longer]
        BY <1>2, <2>2 DEF u, Ui
      <3> HIDE DEF failed, longer
      <3>4. [ui EXCEPT !.status = failed, !.messages = longer] \in Ui
        BY <1>2, <3>1, <3>2 DEF Ui
      <3>5. u.state = ui.state /\ u.pending = ui.pending
            /\ u.session = ui.session /\ u.status = failed
        BY <1>2, <3>3 DEF Ui
      <3> QED BY <3>3, <3>4, <3>5 DEF failed
    <2>3. CASE ~worker[w].canceled /\ worker[w].outcome # "Error"
      BY <1>2, <1>3, <2>3, FinishedFacts DEF u
    <2> QED BY <2>1, <2>2, <2>3
  <1>5. ui' \in Ui /\ ui'.state = u.state /\ ui'.pending = u.pending /\ ui'.handle = 0
        /\ ui'.status = u.status /\ ui'.session = u.session
    BY <1>1, <1>4 DEF Ui
  <1> QED BY <1>1, <1>2, <1>4, <1>5 DEF At

\* What the loop does keeps the types.
LEMMA LoopTyped ==
    ASSUME TypeInv, Loop
    PROVE  TypeInv'
  <1>1. /\ StoreTyped(db) /\ ui \in Ui /\ worker \in [Workers -> Worker]
        /\ \A v \in Workers : WorkerFits(worker[v])
    BY DEF TypeInv, TypeOK, StoreTyped
  <1>2. ui.handle # 0 => ui.handle \in Workers
    BY <1>1 DEF Ui
  <1>3. ASSUME TakeEvent PROVE TypeInv'
    <2> DEFINE w == ui.handle
               r == worker[w]
               event == Head(r.events)
               next == [r EXCEPT !.events = Tail(r.events)]
    <2>1. w \in Workers /\ r.events # <<>> /\ db' = db
      BY <1>2, <1>3 DEF TakeEvent
    <2>2. r \in Worker /\ WorkerFits(r)
      BY <1>1, <2>1
    <2>3. event \in Event /\ Tail(r.events) \in Seq(Event)
      <3>1. r.events \in Seq(Event)
        BY <2>2 DEF Worker
      <3> QED BY <2>1, <3>1, HeadFacts
    <2>4. CASE Panics(event)
      <3>1. ui' = [OffUi EXCEPT !.state = "panicked"] /\ worker' = Killed
        BY <1>3, <2>4 DEF TakeEvent
      <3>2. ui' \in Ui
        BY <3>1, EndedTyped
      <3>3. worker' \in [Workers -> Worker] /\ \A v \in Workers : WorkerFits(worker'[v])
        BY <3>1, EndedTyped
      <3> QED BY <1>1, <2>1, <3>2, <3>3, TypedNext
    <2>5. CASE ~Panics(event)
      <3>1. ui' = Shown(event)
        BY <1>3, <2>5 DEF TakeEvent
      <3>2. worker' = [worker EXCEPT ![w] = next]
        <4>1. worker' = [worker EXCEPT ![ui.handle].events = Tail(@)]
          BY <1>3, <2>5 DEF TakeEvent
        <4> QED BY <1>1, <2>1, <4>1
      <3>3. ui' \in Ui
        BY <2>1, <2>3, <2>5, <3>1, ShownFacts
      <3>4. next \in Worker /\ WorkerFits(next)
        BY <2>2, <2>3 DEF Worker, WorkerFits
      <3> HIDE DEF next
      <3>5. worker' \in [Workers -> Worker] /\ \A v \in Workers : WorkerFits(worker'[v])
        BY <2>1, <3>2, <3>4, BecomesTyped
      <3> QED BY <1>1, <2>1, <3>3, <3>5, TypedNext
    <2> QED BY <2>4, <2>5
  <1>4. ASSUME FindNoEvent PROVE TypeInv'
    <2>1. ui' \in Ui /\ db' = db /\ worker' = worker
      BY <1>1, <1>4 DEF FindNoEvent, Ui
    <2> QED BY <1>1, <2>1, TypedNext
  <1>5. ASSUME TakeResult PROVE TypeInv'
    <2> DEFINE w == ui.handle
               next == [Unused EXCEPT !.pc = "gone", !.request = worker[w].request]
    <2>1. w \in Workers /\ db' = db /\ ui' \in Ui /\ worker[w].pc = "done"
          /\ worker' = [worker EXCEPT ![w] = next]
      BY <1>5, ResultFacts
    <2>2. worker[w].request \in Requests
      BY <1>1, <2>1 DEF WorkerFits
    <2>3. next \in Worker /\ WorkerFits(next)
      <3>1. <<>> \in Seq(Event) /\ <<>> \in Seq(Message) /\ 0 \in 0..MaxDeltas
        BY TuiRunsAssumption
      <3>2. Unused \in Worker
        BY <3>1 DEF Unused, Worker
      <3>3. next \in Worker /\ next.pc = "gone" /\ next.request = worker[w].request
        BY <2>2, <3>2 DEF Worker
      <3> HIDE DEF next
      <3> QED BY <2>2, <3>3 DEF WorkerFits
    <2> HIDE DEF next
    <2>4. worker' \in [Workers -> Worker] /\ \A v \in Workers : WorkerFits(worker'[v])
      BY <2>1, <2>3, BecomesTyped
    <2> QED BY <1>1, <2>1, <2>4, TypedNext
  <1> QED BY <1>3, <1>4, <1>5 DEF Loop

\* Every step keeps the types.
LEMMA TypeStep == TypeInv /\ [Next]_vars => TypeInv'
  <1>1. ASSUME TypeInv, Next PROVE TypeInv'
    BY <1>1, UserTyped, LoopTyped, WorkTyped DEF Next
  <1>2. ASSUME TypeInv, UNCHANGED vars PROVE TypeInv'
    BY <1>2 DEF vars, TypeInv, TypeOK, RunsFit, WorkerFits
  <1> QED BY <1>1, <1>2

\* The UI starts with the first session.
LEMMA TypeInit == Init => TypeInv
  <1>1. SUFFICES ASSUME Init PROVE TypeInv
    OBVIOUS
  <1>2. db = InitialStore /\ ui = Loaded([OffUi EXCEPT !.state = "on"], InitialStore)
        /\ worker = [w \in Workers |-> Unused]
    BY <1>1 DEF Init
  <1>3. StoreTyped(db)
    BY <1>2, InitialStoreTyped
  <1>4. ui \in Ui
    <2> DEFINE u == [OffUi EXCEPT !.state = "on"]
    <2>1. u \in Ui
      BY EndedTyped
    <2> HIDE DEF u
    <2>2. Loaded(u, InitialStore) \in Ui
      BY <2>1, InitialStoreTyped, LoadedFacts
    <2> QED BY <1>2, <2>2 DEF u
  <1>5. worker \in [Workers -> Worker] /\ \A w \in Workers : WorkerFits(worker[w])
    <2>1. Unused \in Worker
      <3>1. <<>> \in Seq(Event) /\ <<>> \in Seq(Message) /\ 0 \in 0..MaxDeltas
        BY TuiRunsAssumption
      <3> QED BY <3>1 DEF Unused, Worker
    <2>2. WorkerFits(Unused)
      BY DEF Unused, WorkerFits
    <2> QED BY <1>2, <2>1, <2>2
  <1> QED BY <1>3, <1>4, <1>5 DEF TypeInv, TypeOK, StoreTyped

\* Whatever the user does and whenever, the store, the UI and the workers have
\* their types: no run has a number beyond its session's, no result lacks its
\* messages, and the UI shows no status that it does not know.
THEOREM TypeCorrect == Spec => []TypeOK
  <1>1. TypeInv => TypeOK
    BY DEF TypeInv
  <1> QED BY <1>1, TypeInit, TypeStep, PTL DEF Spec

-----------------------------------------------------------------------------
(***************************************************************************)
(* What the operations on the store leave of its runs.                     *)
(***************************************************************************)
\* A store whose runs, steps and sessions are as they were.
LEMMA SameRunsGood ==
    ASSUME NEW d, NEW e, StoreInv(d), e.runs = d.runs, e.steps = d.steps,
           d.sessions \subseteq e.sessions
    PROVE  StoreInv(e)
  BY DEF StoreInv, RunFits, RunExists, BeginsWell, JustCreated

\* The session commands that delete nothing leave the runs as they are.
LEMMA SessionRowsGood ==
    ASSUME NEW d, StoreTyped(d), StoreInv(d), NEW s \in SessionIds
    PROVE  /\ StoreInv(WithActive(d, s))
           /\ StoreInv(WithArchived(d, s))
           /\ StoreInv(WithNewSession(d))
  <1>1. WithActive(d, s).runs = d.runs /\ WithActive(d, s).steps = d.steps
        /\ d.sessions \subseteq WithActive(d, s).sessions
    BY DEF StoreTyped, Store, WithActive
  <1>2. WithArchived(d, s).runs = d.runs /\ WithArchived(d, s).steps = d.steps
        /\ d.sessions \subseteq WithArchived(d, s).sessions
    BY DEF StoreTyped, Store, WithArchived
  <1>3. WithNewSession(d).runs = d.runs /\ WithNewSession(d).steps = d.steps
        /\ d.sessions \subseteq WithNewSession(d).sessions
    BY DEF StoreTyped, Store, WithNewSession
  <1> QED BY <1>1, <1>2, <1>3, SameRunsGood

\* delete_session leaves no step of a run that it deletes.
LEMMA WithoutSessionGood ==
    ASSUME NEW d, StoreTyped(d), StoreInv(d), NEW s \in SessionIds
    PROVE  StoreInv(WithoutSession(d, s))
  <1> DEFINE e == WithoutSession(d, s)
  <1>1. /\ e.sessions = d.sessions \ {s}
        /\ \A t \in SessionIds : e.runs[t] = IF t = s THEN <<>> ELSE d.runs[t]
        /\ \A run \in RunIds : e.steps[run] = IF run[1] = s THEN <<>> ELSE d.steps[run]
    BY DEF StoreTyped, Store, WithoutSession
  <1> HIDE DEF e
  <1>2. ASSUME NEW run \in RunIds
        PROVE  RunFits(e, run)
    <2>1. run[1] \in SessionIds
      BY DEF RunIds
    <2>2. CASE run[1] = s
      <3>1. e.runs[run[1]] = <<>> /\ e.steps[run] = <<>>
        BY <1>1, <2>1, <2>2
      <3>2. ~RunExists(e, run)
        BY <3>1 DEF RunExists
      <3> QED BY <3>1, <3>2 DEF RunFits
    <2>3. CASE run[1] # s
      <3>1. e.runs[run[1]] = d.runs[run[1]] /\ e.steps[run] = d.steps[run]
        BY <1>1, <2>1, <2>3
      <3> QED BY <3>1 DEF StoreInv, RunFits, RunExists, BeginsWell, JustCreated
    <2> QED BY <2>2, <2>3
  <1>3. \A t \in SessionIds \ e.sessions : e.runs[t] = <<>>
    BY <1>1 DEF StoreInv
  <1> QED BY <1>2, <1>3 DEF StoreInv, e

\* Only the status of one run changes.
LEMMA WithStatusFacts ==
    ASSUME NEW d, StoreTyped(d), NEW run \in RunIds, NEW v \in RunStatus, RunExists(d, run)
    PROVE  /\ WithStatus(d, run, v).steps = d.steps
           /\ WithStatus(d, run, v).active = d.active
           /\ WithStatus(d, run, v).sessions = d.sessions
           /\ \A s \in SessionIds : DOMAIN WithStatus(d, run, v).runs[s] = DOMAIN d.runs[s]
           /\ \A s \in SessionIds : Len(WithStatus(d, run, v).runs[s]) = Len(d.runs[s])
           /\ \A s \in SessionIds : \A n \in DOMAIN d.runs[s] :
                 /\ WithStatus(d, run, v).runs[s][n].request = d.runs[s][n].request
                 /\ <<s, n>> # run => WithStatus(d, run, v).runs[s][n] = d.runs[s][n]
           /\ WithStatus(d, run, v).runs[run[1]][run[2]].status = v
  <1> DEFINE R == [request : Requests, status : RunStatus]
             log == d.runs[run[1]]
             new == [log[run[2]] EXCEPT !.status = v]
             longer == [log EXCEPT ![run[2]] = new]
             runs == [d.runs EXCEPT ![run[1]] = longer]
             e == WithStatus(d, run, v)
  <1>1. run[1] \in SessionIds /\ run[2] \in DOMAIN log /\ run = <<run[1], run[2]>>
    BY DEF RunExists, RunIds
  <1>2. e = [d EXCEPT !.runs = runs]
    BY WithStatusTyped
  <1>3. log \in Seq(R) /\ d.runs \in [SessionIds -> Seq(R)]
    BY <1>1, StoreFacts DEF StoreTyped
  <1>4. log[run[2]] \in R
    <2> HIDE DEF log, R
    <2> QED BY <1>1, <1>3, ElementOfSeq, LenProperties
  <1>5. new \in R /\ new.status = v /\ new.request = log[run[2]].request
    BY <1>4
  <1> HIDE DEF R, new
  <1>6. DOMAIN longer = DOMAIN log /\ Len(longer) = Len(log) /\ longer[run[2]] = new
        /\ \A n \in DOMAIN log : n # run[2] => longer[n] = log[n]
    <2> HIDE DEF log
    <2>1. run[2] \in 1..Len(log) /\ DOMAIN log = 1..Len(log)
      BY <1>1, <1>3, LenProperties
    <2>2. longer \in Seq(R) /\ Len(longer) = Len(log)
      BY <1>3, <1>5, <2>1, ExceptSeq
    <2> QED BY <2>1, <2>2, LenProperties
  <1> HIDE DEF longer
  <1>7. e.runs = runs /\ e.steps = d.steps /\ e.active = d.active /\ e.sessions = d.sessions
    BY <1>2 DEF StoreTyped, Store
  <1>8. \A s \in SessionIds : runs[s] = IF s = run[1] THEN longer ELSE d.runs[s]
    BY <1>1, <1>3
  <1> HIDE DEF e, runs
  <1>9. \A s \in SessionIds : DOMAIN e.runs[s] = DOMAIN d.runs[s] /\ Len(e.runs[s]) = Len(d.runs[s])
    BY <1>6, <1>7, <1>8
  <1>10. ASSUME NEW s \in SessionIds, NEW n \in DOMAIN d.runs[s]
         PROVE  /\ e.runs[s][n].request = d.runs[s][n].request
                /\ <<s, n>> # run => e.runs[s][n] = d.runs[s][n]
    <2>1. CASE s = run[1] /\ n = run[2]
      BY <1>1, <1>5, <1>6, <1>7, <1>8, <2>1
    <2>2. CASE s = run[1] /\ n # run[2]
      BY <1>6, <1>7, <1>8, <2>2
    <2>3. CASE s # run[1]
      BY <1>7, <1>8, <2>3
    <2> QED BY <2>1, <2>2, <2>3
  <1>11. e.runs[run[1]][run[2]].status = v
    BY <1>1, <1>5, <1>6, <1>7, <1>8
  <1> QED BY <1>7, <1>9, <1>10, <1>11 DEF e

\* A run with another status still begins with its request.
LEMMA WithStatusGood ==
    ASSUME NEW d, StoreTyped(d), StoreInv(d), NEW run \in RunIds, NEW v \in RunStatus,
           RunExists(d, run), v = "Running" \/ d.steps[run] # <<>>
    PROVE  StoreInv(WithStatus(d, run, v))
  <1> DEFINE e == WithStatus(d, run, v)
  <1>1. /\ e.steps = d.steps /\ e.sessions = d.sessions
        /\ \A s \in SessionIds : DOMAIN e.runs[s] = DOMAIN d.runs[s]
        /\ \A s \in SessionIds : Len(e.runs[s]) = Len(d.runs[s])
        /\ \A s \in SessionIds : \A n \in DOMAIN d.runs[s] :
              /\ e.runs[s][n].request = d.runs[s][n].request
              /\ <<s, n>> # run => e.runs[s][n] = d.runs[s][n]
        /\ e.runs[run[1]][run[2]].status = v
    BY WithStatusFacts
  <1>2. StoreTyped(e)
    BY WithStatusTyped
  <1> HIDE DEF e
  <1>3. ASSUME NEW other \in RunIds
        PROVE  RunFits(e, other)
    <2>1. other[1] \in SessionIds /\ other = <<other[1], other[2]>>
      BY DEF RunIds
    <2>2. RunExists(e, other) <=> RunExists(d, other)
      BY <1>1, <2>1 DEF RunExists
    <2>3. RunExists(d, other) =>
             e.runs[other[1]][other[2]].request = d.runs[other[1]][other[2]].request
      BY <1>1, <2>1 DEF RunExists
    <2>4. RunFits(d, other)
      BY DEF StoreInv
    <2>5. BeginsWell(d, other) /\ RunExists(d, other) => BeginsWell(e, other)
      BY <1>1, <2>3 DEF BeginsWell
    <2>6. JustCreated(d, other) /\ RunExists(d, other) => JustCreated(e, other)
      <3>1. CASE other = run
        BY <1>1, <3>1 DEF JustCreated
      <3>2. CASE other # run
        BY <1>1, <2>1, <3>2 DEF JustCreated, RunExists
      <3> QED BY <3>1, <3>2
    <2> QED BY <1>1, <2>2, <2>4, <2>5, <2>6 DEF RunFits
  <1>4. ASSUME NEW s \in SessionIds \ e.sessions PROVE e.runs[s] = <<>>
    <2> DEFINE R == [request : Requests, status : RunStatus]
    <2>1. d.runs[s] = <<>>
      BY <1>1 DEF StoreInv
    <2>2. Len(e.runs[s]) = 0
      BY <1>1, <2>1
    <2>3. e.runs[s] \in Seq(R)
      BY <1>2, StoreFacts DEF StoreTyped
    <2> HIDE DEF R
    <2> QED BY <2>2, <2>3
  <1> QED BY <1>3, <1>4 DEF StoreInv, e

\* The steps of a run grow, and nothing else of the store.
LEMMA RecordGood ==
    ASSUME NEW d, StoreTyped(d), StoreInv(d), NEW run \in RunIds, RunExists(d, run),
           d.steps[run] # <<>>,
           NEW by \in Requests, NEW kind \in {"AssistantResponse", "AssistantOutputCheckpoint", "Error"}
    PROVE  StoreInv(Record(d, run, kind, by)) /\ Record(d, run, kind, by).steps[run] # <<>>
  <1> DEFINE e == Record(d, run, kind, by)
             step == [kind |-> kind, by |-> by]
             log == d.steps[run]
  <1>1. e.runs = d.runs /\ e.sessions = d.sessions
    BY RecordTyped
  <1>2. e.steps = [d.steps EXCEPT ![run] = Append(@, step)]
    BY RecordSteps
  <1>3. step \in Step /\ step.kind # "UserMessage"
    BY DEF Step
  <1>4. log \in Seq(Step) /\ d.steps \in [RunIds -> Seq(Step)]
    BY DEF StoreTyped, Store
  <1>5. \A other \in RunIds : e.steps[other] = IF other = run THEN Append(log, step) ELSE d.steps[other]
    BY <1>2, <1>4
  <1> HIDE DEF e, step
  <1>6. BeginsWell(d, run)
    BY DEF StoreInv, RunFits, JustCreated
  <1>7. BeginsWell(e, run)
    <2> DEFINE longer == Append(log, step)
    <2>1. log # <<>> /\ log[1] = [kind |-> "UserMessage", by |-> d.runs[run[1]][run[2]].request]
          /\ \A i \in 2..Len(log) : log[i].kind # "UserMessage"
      BY <1>6 DEF BeginsWell
    <2> HIDE DEF log
    <2>2. Len(log) \in Nat /\ Len(log) # 0
      BY <1>4, <2>1, LenProperties
    <2>3. /\ Len(longer) = Len(log) + 1 /\ longer[Len(log) + 1] = step
          /\ \A i \in 1..Len(log) : longer[i] = log[i]
      BY <1>3, <1>4, AppendProperties
    <2> HIDE DEF longer
    <2>4. longer # <<>>
      BY <2>2, <2>3
    <2>5. longer[1] = log[1]
      BY <2>2, <2>3
    <2>6. \A i \in 2..Len(longer) : longer[i].kind # "UserMessage"
      BY <1>3, <2>1, <2>2, <2>3
    <2>7. e.steps[run] = longer
      BY <1>5 DEF longer, log
    <2> QED BY <1>1, <2>1, <2>4, <2>5, <2>6, <2>7 DEF BeginsWell
  <1>8. \A other \in RunIds : other # run => RunFits(e, other)
    BY <1>1, <1>5 DEF StoreInv, RunFits, RunExists, BeginsWell, JustCreated
  <1>9. RunFits(e, run) /\ e.steps[run] # <<>>
    BY <1>1, <1>7 DEF RunFits, RunExists, BeginsWell
  <1>10. \A s \in SessionIds \ e.sessions : e.runs[s] = <<>>
    BY <1>1 DEF StoreInv
  <1> QED BY <1>8, <1>9, <1>10 DEF StoreInv, e

\* A run is created, and nothing else of the store changes.
LEMMA WithRunFacts ==
    ASSUME NEW d, StoreTyped(d), NEW request \in Requests, Len(ActiveRuns(d)) < MaxRuns
    PROVE  /\ WithRun(d, request).steps = d.steps
           /\ WithRun(d, request).active = d.active
           /\ WithRun(d, request).sessions = d.sessions
           /\ Len(WithRun(d, request).runs[d.active]) = Len(d.runs[d.active]) + 1
           /\ WithRun(d, request).runs[d.active][Len(d.runs[d.active]) + 1] =
                 [request |-> request, status |-> "Running"]
           /\ \A n \in DOMAIN d.runs[d.active] :
                 WithRun(d, request).runs[d.active][n] = d.runs[d.active][n]
           /\ \A s \in SessionIds : s # d.active => WithRun(d, request).runs[s] = d.runs[s]
  <1> DEFINE R == [request : Requests, status : RunStatus]
             new == [request |-> request, status |-> "Running"]
             log == d.runs[d.active]
             longer == Append(log, new)
             e == WithRun(d, request)
  <1>1. e = [d EXCEPT !.runs = [d.runs EXCEPT ![d.active] = longer]]
    BY WithRunTyped
  <1>2. d \in Store /\ d.runs \in [SessionIds -> Seq(R)] /\ d.active \in SessionIds
    BY DEF StoreTyped, Store
  <1>3. new \in R
    BY DEF RunStatus
  <1> HIDE DEF R, new
  <1>4. log \in Seq(R)
    BY <1>2
  <1> HIDE DEF log
  <1>5. /\ Len(longer) = Len(log) + 1 /\ longer[Len(log) + 1] = new
        /\ \A n \in DOMAIN log : longer[n] = log[n]
    BY <1>3, <1>4, AppendProperties, LenProperties
  <1> HIDE DEF longer
  <1>6. /\ e.steps = d.steps /\ e.active = d.active /\ e.sessions = d.sessions
        /\ e.runs = [d.runs EXCEPT ![d.active] = longer]
    BY <1>1, <1>2 DEF Store
  <1>7. \A s \in SessionIds : e.runs[s] = IF s = d.active THEN longer ELSE d.runs[s]
    BY <1>2, <1>6
  <1> HIDE DEF e
  <1> QED BY <1>2, <1>5, <1>6, <1>7 DEF e, new, log

\* The new run is the newest of the active session, has no steps yet, and no
\* other run changes.
LEMMA WithRunGood ==
    ASSUME NEW d, StoreTyped(d), StoreInv(d), ActiveExists(d),
           NEW request \in Requests, Len(ActiveRuns(d)) < MaxRuns
    PROVE  /\ StoreInv(WithRun(d, request))
           /\ WithRun(d, request).active = d.active
           /\ WithRun(d, request).sessions = d.sessions
           /\ NewRun(d) \in RunIds
           /\ ~RunExists(d, NewRun(d))
           /\ NewestRun(WithRun(d, request)) = NewRun(d)
           /\ NewestHas(WithRun(d, request), "Running")
           /\ WithRun(d, request).steps = d.steps
           /\ d.steps[NewRun(d)] = <<>>
           /\ WithRun(d, request).runs[NewRun(d)[1]][NewRun(d)[2]].request = request
           /\ \A run \in RunIds : run # NewRun(d) =>
                 (RunExists(WithRun(d, request), run) <=> RunExists(d, run))
           /\ \A run \in RunIds : RunExists(d, run) =>
                 WithRun(d, request).runs[run[1]][run[2]] = d.runs[run[1]][run[2]]
  <1> DEFINE e == WithRun(d, request)
             run == NewRun(d)
             R == [request : Requests, status : RunStatus]
             n == Len(d.runs[d.active])
  <1>1. StoreTyped(e) /\ run \in RunIds
    BY WithRunTyped
  <1>2. d.active \in SessionIds /\ n \in Nat /\ DOMAIN d.runs[d.active] = 1..n
        /\ run[1] = d.active /\ run[2] = n + 1
    <2>1. d.active \in SessionIds /\ d.runs[d.active] \in Seq(R)
      BY DEF StoreTyped, Store
    <2> HIDE DEF R
    <2> QED BY <2>1, LenProperties DEF NewRun
  <1>3. /\ e.steps = d.steps /\ e.active = d.active /\ e.sessions = d.sessions
        /\ Len(e.runs[d.active]) = n + 1
        /\ e.runs[d.active][n + 1] = [request |-> request, status |-> "Running"]
        /\ \A i \in DOMAIN d.runs[d.active] : e.runs[d.active][i] = d.runs[d.active][i]
        /\ \A s \in SessionIds : s # d.active => e.runs[s] = d.runs[s]
    BY WithRunFacts
  <1>4. e.runs[d.active] \in Seq(R)
    BY <1>1, <1>2 DEF StoreTyped, Store
  <1>5. DOMAIN e.runs[d.active] = 1..(n + 1)
    <2> HIDE DEF R, e
    <2> QED BY <1>3, <1>4, LenProperties
  <1> HIDE DEF e, run
  <1>6. \A other \in RunIds : other # run =>
            /\ RunExists(e, other) <=> RunExists(d, other)
            /\ RunExists(d, other) => e.runs[other[1]][other[2]] = d.runs[other[1]][other[2]]
    <2>1. SUFFICES ASSUME NEW other \in RunIds, other # run
                   PROVE  /\ RunExists(e, other) <=> RunExists(d, other)
                          /\ RunExists(d, other) =>
                                e.runs[other[1]][other[2]] = d.runs[other[1]][other[2]]
      OBVIOUS
    <2>2. other[1] \in SessionIds /\ other[2] \in Nat /\ other = <<other[1], other[2]>>
          /\ run = <<run[1], run[2]>>
      BY <1>1 DEF RunIds
    <2>3. CASE other[1] = d.active
      <3>1. other[2] # n + 1
        BY <1>2, <2>1, <2>2, <2>3
      <3>2. other[2] \in 1..(n + 1) <=> other[2] \in 1..n
        BY <1>2, <2>2, <3>1
      <3>3. RunExists(e, other) <=> other[2] \in 1..(n + 1)
        BY <1>5, <2>3 DEF RunExists
      <3>4. RunExists(d, other) <=> other[2] \in 1..n
        BY <1>2, <2>3 DEF RunExists
      <3>5. ASSUME RunExists(d, other)
            PROVE  e.runs[other[1]][other[2]] = d.runs[other[1]][other[2]]
        <4>1. other[2] \in DOMAIN d.runs[d.active]
          BY <2>3, <3>5 DEF RunExists
        <4> QED BY <1>3, <2>3, <4>1
      <3> QED BY <3>2, <3>3, <3>4, <3>5
    <2>4. CASE other[1] # d.active
      BY <1>3, <2>2, <2>4 DEF RunExists
    <2> QED BY <2>3, <2>4
  <1>7. ~RunExists(d, run)
    BY <1>2 DEF RunExists
  <1>8. RunExists(e, run) /\ e.runs[run[1]][run[2]].request = request
        /\ e.runs[run[1]][run[2]].status = "Running"
    BY <1>2, <1>3, <1>5 DEF RunExists
  <1>9. d.steps[run] = <<>>
    BY <1>1, <1>7 DEF StoreInv, RunFits
  <1>10. ASSUME NEW other \in RunIds PROVE RunFits(e, other)
    <2>1. CASE other = run
      BY <1>3, <1>8, <1>9, <2>1 DEF RunFits, JustCreated
    <2>2. CASE other # run
      BY <1>3, <1>6, <2>2 DEF StoreInv, RunFits, BeginsWell, JustCreated
    <2> QED BY <2>1, <2>2
  <1>11. \A s \in SessionIds \ e.sessions : e.runs[s] = <<>>
    BY <1>3 DEF StoreInv, ActiveExists
  <1>12. NewestRun(e) = run
    BY <1>3 DEF NewestRun, ActiveRuns, run, NewRun
  <1>13. NewestHas(e, "Running")
    <2>1. ActiveRuns(e) = e.runs[d.active]
      BY <1>3 DEF ActiveRuns
    <2>2. Last(ActiveRuns(e)) = e.runs[d.active][n + 1]
      BY <1>3, <2>1 DEF Last
    <2>3. ActiveRuns(e) # <<>>
      BY <1>2, <1>3, <2>1
    <2> QED BY <1>3, <2>2, <2>3 DEF NewestHas
  <1> QED BY <1>1, <1>3, <1>6, <1>7, <1>8, <1>9, <1>10, <1>11, <1>12, <1>13 DEF StoreInv, e, run

\* A run that was just created begins with its request once that is recorded.
LEMMA RequestGood ==
    ASSUME NEW d, StoreTyped(d), StoreInv(d), NEW run \in RunIds, RunExists(d, run),
           d.steps[run] = <<>>, NEW request \in Requests,
           d.runs[run[1]][run[2]].request = request
    PROVE  /\ StoreInv(Record(d, run, "UserMessage", request))
           /\ Record(d, run, "UserMessage", request).steps[run] # <<>>
  <1> DEFINE e == Record(d, run, "UserMessage", request)
             step == [kind |-> "UserMessage", by |-> request]
  <1>1. e.runs = d.runs /\ e.sessions = d.sessions
    BY RequestTyped
  <1>2. e.steps = [d.steps EXCEPT ![run] = Append(@, step)]
    BY DEF Record, WithStep, StoreTyped, Store
  <1>3. step \in Step /\ step = [kind |-> "UserMessage", by |-> request]
    BY DEF Step
  <1>4. d.steps \in [RunIds -> Seq(Step)]
    BY DEF StoreTyped, Store
  <1>5. \A other \in RunIds :
           e.steps[other] = IF other = run THEN Append(d.steps[run], step) ELSE d.steps[other]
    BY <1>2, <1>4
  <1> HIDE DEF e, step
  <1>6. e.steps[run] = <<step>>
    BY <1>3, <1>5
  <1>7. e.runs[run[1]][run[2]].request = request
    BY <1>1
  <1>8. BeginsWell(e, run) /\ e.steps[run] # <<>>
    BY <1>3, <1>6, <1>7 DEF BeginsWell
  <1>9. ASSUME NEW other \in RunIds PROVE RunFits(e, other)
    <2>1. CASE other = run
      BY <1>1, <1>8, <2>1 DEF RunFits, RunExists
    <2>2. CASE other # run
      BY <1>1, <1>5, <2>2 DEF StoreInv, RunFits, RunExists, BeginsWell, JustCreated
    <2> QED BY <2>1, <2>2
  <1>10. \A s \in SessionIds \ e.sessions : e.runs[s] = <<>>
    BY <1>1 DEF StoreInv
  <1> QED BY <1>8, <1>9, <1>10 DEF StoreInv, e

\* A run of which the status says that it was served has steps.
LEMMA NewestHasSteps ==
    ASSUME NEW d, StoreTyped(d), StoreInv(d), ActiveRuns(d) # <<>>, ~NewestHas(d, "Running")
    PROVE  d.steps[NewestRun(d)] # <<>>
  <1> DEFINE run == NewestRun(d)
  <1>1. run \in RunIds /\ RunExists(d, run)
    BY ActiveRunsFacts
  <1>2. d.runs[run[1]][run[2]] = Last(ActiveRuns(d))
    BY DEF NewestRun, ActiveRuns, Last
  <1>3. ~JustCreated(d, run)
    BY <1>2 DEF JustCreated, NewestHas
  <1> QED BY <1>1, <1>3 DEF StoreInv, RunFits, BeginsWell

\* The newest run after its status was written, and after a step was recorded.
LEMMA NewestAfterStatus ==
    ASSUME NEW d, StoreTyped(d), ActiveRuns(d) # <<>>, NEW v \in RunStatus
    PROVE  LET e == WithStatus(d, NewestRun(d), v)
           IN  /\ e.active = d.active
               /\ e.sessions = d.sessions
               /\ NewestRun(e) = NewestRun(d)
               /\ NewestHas(e, v)
               /\ \A x : NewestHas(e, x) => x = v
  <1> DEFINE run == NewestRun(d)
             e == WithStatus(d, run, v)
             R == [request : Requests, status : RunStatus]
  <1>1. /\ d.active \in SessionIds /\ run \in RunIds /\ RunExists(d, run)
        /\ Len(ActiveRuns(d)) \in 1..MaxRuns
    BY ActiveRunsFacts
  <1>2. /\ e.active = d.active /\ e.sessions = d.sessions
        /\ Len(e.runs[d.active]) = Len(d.runs[d.active])
        /\ e.runs[run[1]][run[2]].status = v
    BY <1>1, WithStatusFacts
  <1>3. run = <<d.active, Len(d.runs[d.active])>>
    BY DEF NewestRun, ActiveRuns
  <1> HIDE DEF e, run
  <1>4. NewestRun(e) = run
    BY <1>2, <1>3 DEF NewestRun, ActiveRuns
  <1>5. ActiveRuns(e) = e.runs[d.active] /\ Last(ActiveRuns(e)) = e.runs[run[1]][run[2]]
    BY <1>2, <1>3 DEF ActiveRuns, Last
  <1>6. ActiveRuns(e) # <<>>
    BY <1>1, <1>2, <1>5, SessionStoreAssumption DEF ActiveRuns
  <1>7. NewestHas(e, v) /\ \A x : NewestHas(e, x) => x = v
    BY <1>2, <1>5, <1>6 DEF NewestHas
  <1> QED BY <1>2, <1>4, <1>7 DEF e, run

\* Which run is the newest does not depend on the steps.
LEMMA NewestAfterRecord ==
    ASSUME NEW d, NEW e, e.runs = d.runs, e.active = d.active
    PROVE  /\ NewestRun(e) = NewestRun(d)
           /\ ActiveRuns(e) = ActiveRuns(d)
           /\ \A x : NewestHas(e, x) <=> NewestHas(d, x)
           /\ \A run : RunExists(e, run) <=> RunExists(d, run)
  BY DEF NewestRun, ActiveRuns, NewestHas, RunExists

-----------------------------------------------------------------------------
(***************************************************************************)
(* What the user does, between runs and to begin one.                      *)
(***************************************************************************)
\* While the loop listens to no worker there is none.
LEMMA ThreadsAreGone ==
    ASSUME TypeInv, SafeInv, ui.handle = 0
    PROVE  \A w \in Workers : worker[w].pc \in {"unused", "gone"}
  <1>1. SUFFICES ASSUME NEW w \in Workers PROVE worker[w].pc \in {"unused", "gone"}
    OBVIOUS
  <1>2. ui.handle # w
    BY TuiRunsAssumption DEF Workers
  <1>3. w \notin Live /\ worker[w].pc # "done"
    BY <1>2 DEF SafeInv, OneWorker
  <1>4. worker[w] \in Worker
    BY DEF TypeInv, TypeOK
  <1>5. worker[w].pc \in {"unused", "begin", "create", "open", "serve", "send", "done", "gone"}
    BY <1>4 DEF Worker
  <1> QED BY <1>3, <1>5 DEF Live

\* A UI that is not Running listens to nobody.
LEMMA NotListening ==
    ASSUME SafeInv, ~Busy \/ ~On
    PROVE  ui.handle = 0
  BY DEF SafeInv, UiInv, Busy

\* Nothing runs in the next state.
LEMMA QuietNext ==
    ASSUME StoreInv(db'), ui'.handle = 0, UiInv', IdleInv',
           \A w \in Workers : worker'[w].pc \in {"unused", "gone"}
    PROVE  SafeInv'
  <1>1. OneWorker'
    BY DEF OneWorker, Live
  <1>2. \A w \in Workers : worker'[w].pc # "done"
    OBVIOUS
  <1>3. ListenedInv' /\ StreamHasItsPlace'
    BY DEF ListenedInv, StreamHasItsPlace
  <1> QED BY <1>1, <1>2, <1>3 DEF SafeInv

\* The end of the process leaves no thread.
LEMMA KilledThreads ==
    \A w \in Workers : Killed[w].pc \in {"unused", "gone"}
  <1>1. SUFFICES ASSUME NEW w \in Workers PROVE Killed[w].pc \in {"unused", "gone"}
    OBVIOUS
  <1>2. CASE worker[w].pc = "unused"
    BY <1>2 DEF Killed, Unused
  <1>3. CASE worker[w].pc # "unused"
    BY <1>3 DEF Killed, Unused
  <1> QED BY <1>2, <1>3

\* The end of the UI keeps the invariant.
LEMMA ExitSafe ==
    ASSUME NEW d, StoreInv(d), Exit(d)
    PROVE  SafeInv'
  <1>1. db' = d /\ ui' = OffUi /\ worker' = Killed
    BY DEF Exit
  <1>2. /\ ui'.handle = 0 /\ ui'.state # "on" /\ ~ui'.pending
    BY <1>1 DEF OffUi
  <1>3. \A w \in Workers : worker'[w].pc \in {"unused", "gone"}
    BY <1>1, KilledThreads
  <1>4. UiInv' /\ IdleInv'
    BY <1>2 DEF UiInv, IdleInv, On, ShownSessionIsActive
  <1> QED BY <1>1, <1>2, <1>3, <1>4, QuietNext

\* A session that is loaded while nothing runs.
LEMMA LoadedSafe ==
    ASSUME NEW d, StoreTyped(d), StoreInv(d), ActiveExists(d), NEW u \in Ui, u.handle = 0,
           db' = d, ui' = Loaded(u, d),
           \A w \in Workers : worker'[w].pc \in {"unused", "gone"}
    PROVE  SafeInv'
  <1>1. /\ ui'.handle = 0 /\ ui'.session = d.active /\ ~ui'.pending
        /\ ui'.status = IF ActiveRuns(d) = <<>> THEN "Idle" ELSE Last(ActiveRuns(d)).status
    BY LoadedFacts
  <1>2. UiInv'
    BY <1>1 DEF UiInv, ShownSessionIsActive
  <1>3. IdleInv'
    <2>1. /\ NewestHas(d, "Running") => ui'.status = "Running"
          /\ ui'.status \in {"Completed", "WaitingForHumanInput"} => NewestHas(d, ui'.status)
      BY <1>1 DEF NewestHas
    <2> QED BY <2>1 DEF IdleInv
  <1> QED BY <1>1, <1>2, <1>3, QuietNext

\* So does a session command between runs.
LEMMA ReloadSafe ==
    ASSUME TypeInv, SafeInv, ui.handle = 0, NEW d, StoreTyped(d), StoreInv(d), Reload(d)
    PROVE  SafeInv'
  <1>1. CASE ActiveExists(d)
    <2> DEFINE u == [ui EXCEPT !.drained = FALSE]
    <2>1. u \in Ui /\ u.handle = 0
      BY DEF TypeInv, TypeOK, Ui
    <2>2. db' = d /\ ui' = Loaded(u, d) /\ worker' = worker
      BY <1>1 DEF Reload
    <2> HIDE DEF u
    <2>3. \A w \in Workers : worker'[w].pc \in {"unused", "gone"}
      BY <2>2, ThreadsAreGone
    <2> QED BY <1>1, <2>1, <2>2, <2>3, LoadedSafe
  <1>2. CASE ~ActiveExists(d)
    BY <1>2, ExitSafe DEF Reload
  <1> QED BY <1>1, <1>2

\* A request begins: its worker is the only one, and no event of an earlier
\* one is taken for an event of a run that it resumes.
LEMMA BeginsSafe ==
    ASSUME TypeInv, SafeInv, ui.handle = 0,
           NEW w \in Workers, NEW request \in Requests, Start(w, request),
           StoreInv(db'), ActiveExists(db'), ~NewestHas(db', "Running"),
           ui'.state = "on", ui'.handle = w, ui'.status = "Running", ~ui'.pending,
           ui'.session = db'.active, ui'.stream = 0,
           ui'.lastSeq = 0 \/ ~NewestHas(db', "WaitingForHumanInput")
    PROVE  SafeInv'
  <1> DEFINE r == [Unused EXCEPT !.pc = "begin", !.request = request]
  <1>1. worker' = [worker EXCEPT ![w] = r] /\ worker \in [Workers -> Worker]
    BY DEF Start, TypeInv, TypeOK
  <1>2. r.pc = "begin" /\ r.seq = 0 /\ r.events = <<>>
    BY DEF Unused
  <1> HIDE DEF r
  <1>3. worker'[w] = r /\ \A v \in Workers : v # w => worker'[v] = worker[v]
    BY <1>1
  <1>4. \A v \in Workers : v # w => worker'[v].pc \in {"unused", "gone"}
    BY <1>3, ThreadsAreGone
  <1>5. OneWorker'
    BY <1>4 DEF OneWorker, Live
  <1>6. \A v \in Workers : worker'[v].pc = "done" => ui'.handle = v
    BY <1>4
  <1>7. UiInv' /\ StreamHasItsPlace'
    BY DEF UiInv, ShownSessionIsActive, StreamHasItsPlace, On
  <1>8. IdleInv'
    BY TuiRunsAssumption DEF IdleInv, Workers
  <1>9. Listened(r, db')
    BY <1>2 DEF Listened
  <1>10. EventsFit(r, db', ui'.lastSeq)
    <2>1. Len(r.events) = 0
      BY <1>2
    <2> QED BY <1>2, <2>1 DEF EventsFit
  <1>11. ListenedInv'
    BY <1>3, <1>9, <1>10 DEF ListenedInv
  <1> QED BY <1>5, <1>6, <1>7, <1>8, <1>11 DEF SafeInv

\* A request that is sent between runs keeps the invariant.
LEMMA StartRunSafe ==
    ASSUME TypeInv, SafeInv, NEW request \in Requests, StartRun(request)
    PROVE  SafeInv'
  <1> DEFINE w == NextRequest
             n == NextSession(db)
             d == WithActive(WithNewSession(db), n)
  <1>1. /\ w \in Workers /\ On /\ ~Busy /\ StoreTyped(db) /\ StoreInv(db)
        /\ ui \in Ui
    BY StartRunCases DEF TypeInv, TypeOK, StoreTyped, SafeInv
  <1>2. ui.handle = 0
    BY <1>1, NotListening
  <1> HIDE DEF w
  <1>3. CASE SendsHere(w, request)
    <2> DEFINE u == Begun(request)
    <2>1. ui' = [u EXCEPT !.handle = w] /\ Start(w, request) /\ db' = db /\ ~ui.pending
      BY <1>3 DEF SendsHere
    <2>2. /\ u \in Ui /\ u.state = ui.state /\ u.status = "Running" /\ u.session = ui.session
          /\ u.pending = ui.pending /\ u.stream = 0 /\ u.lastSeq = 0
      BY BegunFacts
    <2> HIDE DEF u
    <2>3. /\ ui'.state = ui.state /\ ui'.status = "Running" /\ ui'.session = ui.session
          /\ ui'.pending = ui.pending /\ ui'.stream = 0 /\ ui'.lastSeq = 0 /\ ui'.handle = w
      BY <2>1, <2>2 DEF Ui
    <2>4. ~NewestHas(db, "Running")
      BY <1>1, <1>2, <2>1 DEF SafeInv, IdleInv, Busy
    <2>5. ActiveExists(db) /\ ui.session = db.active
      BY <1>1, <2>1 DEF SafeInv, UiInv, ShownSessionIsActive
    <2>6. ui'.state = "on" /\ ~ui'.pending
      BY <1>1, <2>1, <2>3 DEF On
    <2> QED BY <1>1, <1>2, <2>1, <2>3, <2>4, <2>5, <2>6, BeginsSafe
  <1>4. CASE SendsToNewSession(w, request, d)
    <2>1. /\ NextSessionIsFree(db) /\ n <= MaxSessions
          /\ Start(w, request) /\ db' = d
          /\ ui' = [Loaded(Begun(request), d) EXCEPT
                     !.messages = Append(@, Msg("User", {request})),
                     !.status = "Running",
                     !.handle = w]
      BY <1>4 DEF SendsToNewSession
    <2>2. n \in SessionIds
      BY <1>1, <2>1, NextSessionTyped
    <2>3. StoreTyped(d)
      BY <1>1, <2>2, SessionRowsTyped
    <2>4. StoreInv(d)
      BY <1>1, <2>2, SessionRowsTyped, SessionRowsGood
    <2>5. d.active = n /\ d.sessions = db.sessions \union {n} /\ d.runs = db.runs
      BY <1>1 DEF WithActive, WithNewSession, StoreTyped, Store
    <2>6. db.runs[n] = <<>>
      BY <1>1, <2>1, <2>2 DEF StoreInv, NextSessionIsFree
    <2> HIDE DEF d, n
    <2>7. ActiveExists(d) /\ \A v : ~NewestHas(d, v)
      BY <2>5, <2>6 DEF ActiveExists, NewestHas, ActiveRuns
    <2>8. /\ ui'.state = ui.state /\ ui'.status = "Running" /\ ui'.session = d.active
          /\ ~ui'.pending /\ ui'.stream = 0 /\ ui'.lastSeq = 0 /\ ui'.handle = w
      BY <1>1, <2>1, <2>3, SentToNewSession
    <2>9. ui'.state = "on"
      BY <1>1, <2>8 DEF On
    <2> QED BY <1>1, <1>2, <2>1, <2>4, <2>7, <2>8, <2>9, BeginsSafe
  <1>5. CASE Exit(db)
    BY <1>1, <1>5, ExitSafe
  <1> QED BY <1>3, <1>4, <1>5, StartRunCases DEF w

\* A revision is asked for after a run that completed: the newest one of the
\* session does not wait, so that the worker resumes none.
LEMMA RequestChangesSafe ==
    ASSUME Orderly, TypeInv, SafeInv, RequestChanges
    PROVE  SafeInv'
  <1> DEFINE w == NextRequest
             longer == Append(ui.messages, Msg("User", {Feedback(w)}))
  <1>1. /\ On /\ ui.status = "Completed" /\ ui.stream = 0 /\ w \in Workers
        /\ Start(w, w) /\ db' = db
        /\ ui' = [ui EXCEPT !.review = FALSE, !.status = "Running",
                            !.messages = longer, !.handle = w, !.drained = FALSE]
    <2>1. ui' = [ui EXCEPT !.review = FALSE, !.status = "Running",
                            !.messages = Append(@, Msg("User", {Feedback(w)})),
                            !.handle = w, !.drained = FALSE]
      BY DEF RequestChanges
    <2>2. ui \in Ui
      BY DEF TypeInv, TypeOK
    <2>3. ui' = [ui EXCEPT !.review = FALSE, !.status = "Running",
                            !.messages = longer, !.handle = w, !.drained = FALSE]
      BY <2>1, <2>2 DEF Ui
    <2> QED BY <2>3 DEF RequestChanges, Orderly
  <1> HIDE DEF w, longer
  <1>2. /\ ui'.state = ui.state /\ ui'.status = "Running" /\ ui'.session = ui.session
        /\ ui'.pending = ui.pending /\ ui'.stream = ui.stream /\ ui'.handle = w
        /\ ui \in Ui
    <2>1. ui \in Ui
      BY DEF TypeInv, TypeOK
    <2> QED BY <1>1, <2>1 DEF Ui
  <1>3. ui.handle = 0
    BY <1>1, NotListening DEF Busy
  <1>4. ~ui.pending
    BY <1>1 DEF SafeInv, UiInv
  <1>5. NewestHas(db, "Completed")
    BY <1>1, <1>3, <1>4 DEF SafeInv, IdleInv
  <1>6. ~NewestHas(db, "Running") /\ ~NewestHas(db, "WaitingForHumanInput")
    BY <1>5 DEF NewestHas
  <1>7. ActiveExists(db) /\ ui.session = db.active /\ StoreInv(db)
    BY <1>1, <1>4 DEF SafeInv, UiInv, ShownSessionIsActive
  <1>8. w \in Requests
    BY <1>1, TuiRunsAssumption DEF Workers, Requests
  <1>9. ui'.state = "on" /\ ~ui'.pending
    BY <1>1, <1>2, <1>4 DEF On
  <1> QED BY <1>1, <1>2, <1>3, <1>6, <1>7, <1>8, <1>9, BeginsSafe

\* Canceling marks the worker, and changes nothing that the invariant says.
LEMMA CancelRunSafe ==
    ASSUME TypeInv, SafeInv, CancelRun
    PROVE  SafeInv'
  <1> DEFINE w == ui.handle
             r == worker[w]
             next == [r EXCEPT !.canceled = TRUE]
  <1>1. ui \in Ui /\ worker \in [Workers -> Worker] /\ w \in Workers
    <2>1. ui \in Ui /\ worker \in [Workers -> Worker]
      BY DEF TypeInv, TypeOK
    <2> QED BY <2>1 DEF CancelRun, Ui
  <1>2. db' = db /\ worker' = [worker EXCEPT ![w] = next] /\ ui' = [ui EXCEPT !.drained = FALSE]
    BY <1>1 DEF CancelRun
  <1>3. r \in Worker
    BY <1>1
  <1>4. /\ next.pc = r.pc /\ next.run = r.run /\ next.outcome = r.outcome
        /\ next.seq = r.seq /\ next.events = r.events /\ next.request = r.request
    BY <1>3 DEF Worker
  <1>5. /\ ui'.state = ui.state /\ ui'.status = ui.status /\ ui'.session = ui.session
        /\ ui'.pending = ui.pending /\ ui'.stream = ui.stream /\ ui'.handle = ui.handle
        /\ ui'.lastSeq = ui.lastSeq /\ ui'.messages = ui.messages
    BY <1>1, <1>2 DEF Ui
  <1> HIDE DEF next
  <1>6. worker'[w] = next /\ \A v \in Workers : worker'[v].pc = worker[v].pc
    BY <1>1, <1>2, <1>4
  <1>7. OneWorker' /\ \A v \in Workers : worker'[v].pc = "done" => ui'.handle = v
    BY <1>5, <1>6 DEF SafeInv, OneWorker, Live
  <1>8. UiInv' /\ IdleInv' /\ StreamHasItsPlace' /\ StoreInv(db')
    BY <1>2, <1>5 DEF SafeInv, UiInv, IdleInv, StreamHasItsPlace, ShownSessionIsActive, On
  <1>9. ListenedInv'
    <2>1. Listened(r, db) /\ EventsFit(r, db, ui.lastSeq)
      BY <1>1, TuiRunsAssumption DEF SafeInv, ListenedInv, Workers
    <2>2. Listened(next, db) /\ EventsFit(next, db, ui.lastSeq)
      BY <1>4, <2>1 DEF Listened, EventsFit
    <2> QED BY <1>2, <1>5, <1>6, <2>2 DEF ListenedInv
  <1> QED BY <1>7, <1>8, <1>9 DEF SafeInv

\* What an orderly user does keeps the invariant.
LEMMA UserSafe ==
    ASSUME Orderly, TypeInv, SafeInv, User
    PROVE  SafeInv'
  <1>1. StoreTyped(db) /\ StoreInv(db) /\ ui \in Ui
    BY DEF TypeInv, TypeOK, StoreTyped, SafeInv
  <1>2. ASSUME Submit PROVE SafeInv'
    <2>1. NextRequest \in Workers
      BY <1>2, StartRunCases DEF Submit
    <2>2. NextRequest \in Requests
      BY <2>1, TuiRunsAssumption DEF Workers, Requests
    <2> QED BY <1>2, <2>2, StartRunSafe DEF Submit
  <1>3. ASSUME Restart PROVE SafeInv'
    BY <1>3, RetryTargetsType, StartRunSafe DEF Restart
  <1>4. ASSUME RequestChanges PROVE SafeInv'
    BY <1>4, RequestChangesSafe
  <1>5. ASSUME CancelRun PROVE SafeInv'
    BY <1>5, CancelRunSafe
  <1>6. ASSUME NewSession PROVE SafeInv'
    <2> DEFINE idle == "Idle"
               none == <<>>
    <2>1. /\ On /\ ~Busy /\ db' = db /\ worker' = worker
          /\ ui' = [ui EXCEPT !.pending = TRUE, !.session = 0, !.messages = none,
                              !.status = idle, !.drained = FALSE]
      BY <1>6 DEF NewSession
    <2>2. ui.handle = 0
      BY <2>1, NotListening
    <2>3. ui'.pending /\ ui'.status = "Idle" /\ ui'.handle = 0 /\ ui'.state = ui.state
      BY <1>1, <2>1, <2>2 DEF Ui
    <2>4. \A w \in Workers : worker'[w].pc \in {"unused", "gone"}
      BY <2>1, <2>2, ThreadsAreGone
    <2>5. UiInv' /\ IdleInv'
      BY <2>1, <2>3 DEF SafeInv, UiInv, IdleInv, ShownSessionIsActive, On
    <2> QED BY <1>1, <2>1, <2>3, <2>4, <2>5, QuietNext
  <1>7. ASSUME CreateSession PROVE SafeInv'
    <2>0. ui.handle = 0
      BY <1>7, NotListening DEF CreateSession
    <2>1. CASE NextSessionIsFree(db)
      <3> DEFINE d == WithActive(WithNewSession(db), NextSession(db))
      <3>1. NextSession(db) <= MaxSessions /\ Reload(d)
        BY <1>7, <2>1 DEF CreateSession
      <3>2. NextSession(db) \in SessionIds
        BY <1>1, <3>1, NextSessionTyped
      <3>3. StoreTyped(d) /\ StoreInv(d)
        BY <1>1, <3>2, SessionRowsTyped, SessionRowsGood
      <3> HIDE DEF d
      <3> QED BY <2>0, <3>1, <3>3, ReloadSafe
    <2>2. CASE ~NextSessionIsFree(db)
      BY <1>1, <1>7, <2>2, ExitSafe DEF CreateSession
    <2> QED BY <2>1, <2>2
  <1>8. ASSUME NEW command, Allowed(command) PROVE ui.handle = 0
    BY <1>8, NotListening DEF Allowed, Orderly
  <1>9. ASSUME LikeSession PROVE SafeInv'
    BY <1>1, <1>8, <1>9, ReloadSafe DEF LikeSession
  <1>10. ASSUME NEW s \in SessionIds, SwitchSession(s) PROVE SafeInv'
    <2>1. StoreTyped(WithActive(db, s)) /\ StoreInv(WithActive(db, s)) /\ ui.handle = 0
      BY <1>1, <1>8, <1>10, SessionRowsTyped, SessionRowsGood DEF SwitchSession
    <2>2. Reload(WithActive(db, s)) => SafeInv'
      BY <2>1, ReloadSafe
    <2>3. Exit(db) => SafeInv'
      BY <1>1, ExitSafe
    <2> QED BY <1>10, <2>2, <2>3 DEF SwitchSession
  <1>11. ASSUME NEW d, StoreTyped(d), StoreInv(d), NextSession(d) <= MaxSessions
         PROVE  StoreTyped(Replaced(d)) /\ StoreInv(Replaced(d))
    <2>1. NextSession(d) \in SessionIds
      BY <1>11, NextSessionTyped
    <2>2. StoreTyped(WithNewSession(d)) /\ StoreInv(WithNewSession(d))
      BY <1>11, <2>1, SessionRowsTyped, SessionRowsGood
    <2> QED BY <2>1, <2>2, SessionRowsTyped, SessionRowsGood DEF Replaced
  <1>12. ASSUME NEW s \in SessionIds, DeleteSession(s) PROVE SafeInv'
    <2>1. ui.handle = 0
      BY <1>8, <1>12 DEF DeleteSession
    <2>2. Reload(WithoutSession(db, s)) => SafeInv'
      BY <1>1, <2>1, WithoutSessionTyped, WithoutSessionGood, ReloadSafe
    <2>3. NextSession(db) <= MaxSessions /\ Reload(WithoutSession(Replaced(db), s)) => SafeInv'
      <3>1. SUFFICES ASSUME NextSession(db) <= MaxSessions,
                            Reload(WithoutSession(Replaced(db), s))
                     PROVE  SafeInv'
        OBVIOUS
      <3>2. StoreTyped(Replaced(db)) /\ StoreInv(Replaced(db))
        BY <1>1, <1>11, <3>1
      <3> QED BY <2>1, <3>1, <3>2, WithoutSessionTyped, WithoutSessionGood, ReloadSafe
    <2>4. Exit(db) => SafeInv'
      BY <1>1, ExitSafe
    <2> QED BY <1>12, <2>2, <2>3, <2>4 DEF DeleteSession
  <1>13. ASSUME NEW s \in SessionIds, ArchiveSession(s) PROVE SafeInv'
    <2>1. ui.handle = 0
      BY <1>8, <1>13 DEF ArchiveSession
    <2> DEFINE d == WithArchived(db, s)
    <2>2. StoreTyped(d) /\ StoreInv(d)
      BY <1>1, SessionRowsTyped, SessionRowsGood
    <2>3. NextSession(d) = NextSession(db)
      BY <1>1 DEF WithArchived, NextSession, StoreTyped, Store
    <2>4. ArchiveSession(s) => Reload(d) \/ (NextSession(d) <= MaxSessions /\ Reload(Replaced(d))) \/ Exit(d)
      BY <2>3 DEF ArchiveSession
    <2> HIDE DEF d
    <2>5. Reload(d) => SafeInv'
      BY <2>1, <2>2, ReloadSafe
    <2>6. NextSession(d) <= MaxSessions /\ Reload(Replaced(d)) => SafeInv'
      BY <1>11, <2>1, <2>2, ReloadSafe
    <2>7. Exit(d) => SafeInv'
      BY <2>2, ExitSafe
    <2> QED BY <1>13, <2>4, <2>5, <2>6, <2>7
  <1>14. ASSUME Quit PROVE SafeInv'
    BY <1>1, <1>14, ExitSafe DEF Quit
  <1>15. ASSUME StartUi PROVE SafeInv'
    <2> DEFINE u == [OffUi EXCEPT !.state = "on"]
    <2>1. u \in Ui /\ u.handle = 0
      BY EndedTyped DEF OffUi
    <2>2. ui' = Loaded(u, db) /\ db' = db /\ worker' = worker /\ ActiveExists(db) /\ ~On
      BY <1>15 DEF StartUi, On
    <2>3. ui.handle = 0
      BY <2>2, NotListening
    <2>4. \A w \in Workers : worker'[w].pc \in {"unused", "gone"}
      BY <2>2, <2>3, ThreadsAreGone
    <2> HIDE DEF u
    <2> QED BY <1>1, <2>1, <2>2, <2>4, LoadedSafe
  <1> QED BY <1>2, <1>3, <1>4, <1>5, <1>6, <1>7, <1>9, <1>10, <1>12, <1>13, <1>14, <1>15 DEF User

-----------------------------------------------------------------------------
(***************************************************************************)
(* What the worker does.                                                   *)
(***************************************************************************)
LivePc == {"begin", "create", "open", "serve", "send"}

\* The one worker that executes is the one the loop listens to.
LEMMA LiveFacts ==
    ASSUME TypeInv, SafeInv, NEW w \in Workers, worker[w].pc \in LivePc
    PROVE  /\ ui.handle = w /\ ui.handle # 0 /\ w \in Requests
           /\ StoreTyped(db) /\ StoreInv(db)
           /\ worker[w] \in Worker /\ WorkerFits(worker[w])
           /\ On /\ ActiveExists(db)
           /\ Listened(worker[w], db)
           /\ EventsFit(worker[w], db, ui.lastSeq)
           /\ \A v \in Workers : v # w => worker[v].pc \notin LivePc \union {"done"}
  <1>1. w \in Live
    BY DEF Live, LivePc
  <1>2. ui.handle = w /\ ui.handle # 0 /\ w \in Requests
    BY <1>1, TuiRunsAssumption DEF SafeInv, OneWorker, Workers, Requests
  <1>3. StoreTyped(db) /\ StoreInv(db) /\ worker[w] \in Worker /\ WorkerFits(worker[w])
    BY DEF TypeInv, TypeOK, StoreTyped, SafeInv
  <1>4. On /\ ActiveExists(db)
    BY <1>2 DEF SafeInv, UiInv
  <1>5. Listened(worker[w], db) /\ EventsFit(worker[w], db, ui.lastSeq)
    BY <1>2 DEF SafeInv, ListenedInv
  <1>6. \A v \in Workers : v # w => worker[v].pc \notin LivePc \union {"done"}
    BY <1>2 DEF SafeInv, OneWorker, Live, LivePc
  <1> QED BY <1>2, <1>3, <1>4, <1>5, <1>6

\* A step of the worker that leaves the sessions as they are.
LEMMA ThreadNext ==
    ASSUME TypeInv, SafeInv, NEW w \in Workers, worker[w].pc \in LivePc,
           NEW r, worker' = [worker EXCEPT ![w] = r], ui' = ui,
           StoreInv(db'), db'.active = db.active, db'.sessions = db.sessions,
           Listened(r, db'), EventsFit(r, db', ui.lastSeq)
    PROVE  SafeInv'
  <1>1. ui.handle = w /\ ui.handle # 0
        /\ \A v \in Workers : v # w => worker[v].pc \notin LivePc \union {"done"}
    BY LiveFacts
  <1>2. worker'[w] = r /\ \A v \in Workers : v # w => worker'[v] = worker[v]
    BY DEF TypeInv, TypeOK
  <1>3. OneWorker' /\ \A v \in Workers : worker'[v].pc = "done" => ui'.handle = v
    BY <1>1, <1>2 DEF OneWorker, Live, LivePc
  <1>4. UiInv' /\ IdleInv' /\ StreamHasItsPlace'
    BY <1>1 DEF SafeInv, UiInv, IdleInv, StreamHasItsPlace, ShownSessionIsActive, On, ActiveExists
  <1>5. ListenedInv'
    BY <1>1, <1>2 DEF ListenedInv
  <1> QED BY <1>3, <1>4, <1>5 DEF SafeInv

\* The worker ends: its run, if it says something of it, is settled.
LEMMA EndsSafe ==
    ASSUME TypeInv, SafeInv, NEW w \in Workers, worker[w].pc \in LivePc,
           NEW outcome, NEW result, Ends(w, outcome, result), ui' = ui,
           StoreInv(db'), db'.active = db.active, db'.sessions = db.sessions,
           ~NewestHas(db', "Running"),
           outcome # "Error" => worker[w].run = NewestRun(db') /\ NewestHas(db', outcome)
    PROVE  SafeInv'
  <1> DEFINE r == worker[w]
             next == EndOf(w, outcome, result)
  <1>1. worker' = [worker EXCEPT ![w] = next]
    BY DEF Ends, Becomes, EndOf
  <1>2. ui.handle = w /\ r \in Worker /\ EventsFit(r, db, ui.lastSeq)
    BY LiveFacts
  <1>3. next = [r EXCEPT !.pc = "done", !.outcome = outcome, !.result = result]
    BY <1>2 DEF EndOf
  <1>4. /\ next.pc = "done" /\ next.outcome = outcome /\ next.run = r.run
        /\ next.seq = r.seq /\ next.events = r.events
    BY <1>2, <1>3 DEF Worker
  <1> HIDE DEF next
  <1>5. Listened(next, db')
    BY <1>4 DEF Listened
  <1>6. EventsFit(next, db', ui.lastSeq)
    BY <1>2, <1>4 DEF EventsFit
  <1> QED BY <1>1, <1>5, <1>6, ThreadNext

\* The events stay in order as one more is sent.
LEMMA EmittingFits ==
    ASSUME TypeInv, NEW w \in Workers, ui.handle = w,
           NEW d, NEW e, NEW lastSeq, EventsFit(worker[w], d, lastSeq),
           NEW kind \in {"RunStarted", "AssistantTextDelta", "ToolOutput"},
           NEW next, next.pc = "serve",
           next.seq = Emitting(worker[w], w, kind).seq,
           next.events = Emitting(worker[w], w, kind).events,
           worker[w].pc \in {"serve", "send"} \/ kind = "RunStarted"
    PROVE  EventsFit(next, e, lastSeq)
  <1> DEFINE r == worker[w]
             n == Len(r.events)
             event == [kind |-> kind, seq |-> r.seq + 1]
             longer == Append(r.events, event)
  <1>1. r \in Worker
    BY DEF TypeInv, TypeOK
  <1>2. next.seq = r.seq + 1 /\ next.events = longer
    BY <1>1, EmittingFacts
  <1>3. r.seq \in Nat /\ r.events \in Seq(Event) /\ event \in Event
        /\ event.seq = r.seq + 1 /\ event.kind = kind
    BY <1>1 DEF Worker, Event
  <1> HIDE DEF event
  <1>4. /\ n \in Nat /\ Len(longer) = n + 1 /\ longer[n + 1] = event
        /\ \A i \in 1..n : longer[i] = r.events[i]
    BY <1>3, AppendProperties, LenProperties
  <1>5. /\ n <= r.seq /\ \A i \in 1..n : r.events[i].seq = (r.seq - n) + i
        /\ \/ lastSeq = r.seq - n
           \/ n # 0 /\ r.events[1].kind = "RunStarted"
           \/ n = 0 /\ r.pc \notin {"serve", "send"}
    BY DEF EventsFit
  <1> HIDE DEF n, longer
  <1>7. Len(next.events) <= next.seq
    BY <1>2, <1>3, <1>4, <1>5
  <1>8. ASSUME NEW i \in 1..Len(next.events)
        PROVE  next.events[i].seq = (next.seq - Len(next.events)) + i
    <2>1. CASE i = n + 1
      BY <1>2, <1>3, <1>4, <2>1
    <2>2. CASE i # n + 1
      <3>1. i \in 1..n
        BY <1>2, <1>4, <2>2
      <3>2. longer[i].seq = (r.seq - n) + i
        BY <1>4, <1>5, <3>1
      <3> QED BY <1>2, <1>3, <1>4, <3>2
    <2> QED BY <2>1, <2>2
  <1>9. \/ lastSeq = next.seq - Len(next.events)
        \/ Len(next.events) # 0 /\ next.events[1].kind = "RunStarted"
    <2>1. CASE lastSeq = r.seq - n
      BY <1>2, <1>3, <1>4, <2>1
    <2>2. CASE n # 0 /\ r.events[1].kind = "RunStarted"
      <3>1. 1 \in 1..n
        BY <1>4, <2>2
      <3> QED BY <1>2, <1>4, <2>2, <3>1
    <2>3. CASE n = 0 /\ r.pc \notin {"serve", "send"}
      <3>1. kind = "RunStarted" /\ longer[1] = event /\ Len(longer) = 1
        BY <1>4, <2>3
      <3> QED BY <1>2, <1>3, <3>1
    <2> QED BY <1>5, <2>1, <2>2, <2>3
  <1> QED BY <1>7, <1>8, <1>9 DEF EventsFit

\* The run that a worker executes is the newest of the active session.
LEMMA ServingFacts ==
    ASSUME TypeInv, SafeInv, NEW w \in Workers, worker[w].pc \in {"serve", "send"}
    PROVE  /\ worker[w].run = NewestRun(db)
           /\ NewestHas(db, "Running")
           /\ ActiveRuns(db) # <<>>
           /\ worker[w].run \in RunIds
           /\ RunExists(db, worker[w].run)
           /\ db.steps[worker[w].run] # <<>>
  <1>1. Listened(worker[w], db) /\ StoreTyped(db)
    BY LiveFacts DEF LivePc
  <1>2. worker[w].run = NewestRun(db) /\ NewestHas(db, "Running")
        /\ db.steps[worker[w].run] # <<>>
    BY <1>1 DEF Listened
  <1>3. ActiveRuns(db) # <<>>
    BY <1>2 DEF NewestHas
  <1> QED BY <1>1, <1>2, <1>3, ActiveRunsFacts

\* A response recorded in it leaves it the newest, and Running.
LEMMA RespondedGood ==
    ASSUME TypeInv, SafeInv, NEW w \in Workers, worker[w].pc = "serve"
    PROVE  StoreInv(Responded(w)) /\ Responded(w).steps[worker[w].run] # <<>>
  <1>1. /\ StoreTyped(db) /\ StoreInv(db) /\ w \in Requests
        /\ worker[w].run \in RunIds /\ RunExists(db, worker[w].run)
        /\ db.steps[worker[w].run] # <<>>
    BY LiveFacts, ServingFacts DEF LivePc
  <1>2. /\ StoreInv(Record(db, worker[w].run, "AssistantResponse", w))
        /\ Record(db, worker[w].run, "AssistantResponse", w).steps[worker[w].run] # <<>>
    BY <1>1, RecordGood
  <1> QED BY <1>1, <1>2 DEF Responded

\* The run is settled as the newest of the active session.
LEMMA SettleSafe ==
    ASSUME TypeInv, SafeInv, NEW w \in Workers, worker[w].pc = "serve",
           NEW d, StoreTyped(d), StoreInv(d), d.steps[worker[w].run] # <<>>,
           d.runs = db.runs, d.active = db.active, d.sessions = db.sessions,
           NEW v \in {"Completed", "WaitingForHumanInput", "Failed"}, Settle(w, d, v), ui' = ui
    PROVE  SafeInv'
  <1> DEFINE run == worker[w].run
             e == WithStatus(d, run, v)
  <1>1. run = NewestRun(db) /\ ActiveRuns(db) # <<>> /\ run \in RunIds /\ RunExists(db, run)
    BY ServingFacts
  <1>2. run = NewestRun(d) /\ ActiveRuns(d) # <<>> /\ RunExists(d, run)
    BY <1>1, NewestAfterRecord
  <1>3. db' = e
    BY <1>2 DEF Settle
  <1>4. v \in RunStatus
    BY DEF RunStatus, Settled
  <1>5. StoreInv(e)
    BY <1>1, <1>2, <1>4, WithStatusGood
  <1>6. /\ e.active = d.active /\ e.sessions = d.sessions /\ NewestRun(e) = NewestRun(d)
        /\ NewestHas(e, v) /\ \A x : NewestHas(e, x) => x = v
    BY <1>2, <1>4, NewestAfterStatus
  <1>7. /\ v = "Failed" => Ends(w, "Error", <<>>)
        /\ v # "Failed" => Ends(w, v, MessagesOf(d.steps[run]))
    BY <1>2 DEF Settle
  <1> HIDE DEF e, run
  <1>8. ~NewestHas(e, "Running")
    BY <1>6
  <1>9. worker[w].pc \in LivePc
    BY DEF LivePc
  <1>10. CASE v = "Failed"
    BY <1>3, <1>5, <1>6, <1>7, <1>8, <1>9, <1>10, EndsSafe
  <1>11. CASE v # "Failed"
    <2>1. worker[w].run = NewestRun(e) /\ NewestHas(e, v)
      BY <1>2, <1>6 DEF run
    <2> QED BY <1>3, <1>5, <1>6, <1>7, <1>8, <1>9, <1>11, <2>1, EndsSafe
  <1> QED BY <1>10, <1>11

\* What the workers do keeps the invariant.
LEMMA WorkSafe ==
    ASSUME TypeInv, SafeInv, NEW w \in Workers, Work(w)
    PROVE  SafeInv'
  <1> DEFINE r == worker[w]
  <1>0. r.pc \in LivePc
    BY DEF Work, ResumeRun, FindNoWaitingRun, CreateRun, RecordRequest, ReceiveText, StreamText,
           ProposeChange, RecordResponse, CompleteRun, WaitForHumanInput, FailRun, StopCanceled, At, LivePc
  <1>1. /\ ui.handle = w /\ ui.handle # 0 /\ w \in Requests
        /\ StoreTyped(db) /\ StoreInv(db)
        /\ r \in Worker /\ WorkerFits(r)
        /\ On /\ ActiveExists(db)
        /\ Listened(r, db)
        /\ EventsFit(r, db, ui.lastSeq)
    BY <1>0, LiveFacts
  <1>2. ui' = ui
    BY DEF Work, ResumeRun, FindNoWaitingRun, CreateRun, RecordRequest, ReceiveText, StreamText,
           ProposeChange, RecordResponse, CompleteRun, WaitForHumanInput, FailRun, StopCanceled
  <1>3. r.pc \in {"serve", "send"} =>
           r.run = NewestRun(db) /\ NewestHas(db, "Running") /\ ActiveRuns(db) # <<>>
           /\ r.run \in RunIds /\ RunExists(db, r.run) /\ db.steps[r.run] # <<>>
    BY ServingFacts
  <1>4. r.events \in Seq(Event) /\ r.seq \in Nat /\ Len(r.events) \in Nat
    BY <1>1, LenProperties DEF Worker
  <1>5. ASSUME ResumeRun(w) PROVE SafeInv'
    <2> DEFINE run == NewestRun(db)
               d == WithStatus(db, run, "Running")
               next == [r EXCEPT !.pc = "serve", !.run = run]
    <2>1. r.pc = "begin" /\ ActiveRuns(db) # <<>> /\ NewestHas(db, "WaitingForHumanInput")
      BY <1>5 DEF ResumeRun, At, NewestHas
    <2>2. ~NewestHas(db, "Running")
      BY <2>1 DEF NewestHas
    <2>3. CASE db' = d /\ Becomes(w, next)
      <3>1. "Running" \in RunStatus /\ run \in RunIds /\ RunExists(db, run)
        BY <1>1, <2>1, ActiveRunsFacts DEF RunStatus
      <3>2. StoreInv(d) /\ d.steps[run] # <<>>
        <4>1. d.steps = db.steps /\ db.steps[run] # <<>>
          BY <1>1, <2>1, <2>2, <3>1, WithStatusFacts, NewestHasSteps
        <4> QED BY <1>1, <3>1, <4>1, WithStatusGood
      <3>3. d.active = db.active /\ d.sessions = db.sessions /\ NewestRun(d) = run
            /\ NewestHas(d, "Running")
        BY <1>1, <2>1, <3>1, NewestAfterStatus
      <3> HIDE DEF d, run
      <3>4. next.pc = "serve" /\ next.run = run /\ next.seq = r.seq /\ next.events = r.events
        BY <1>1 DEF Worker
      <3>5. worker' = [worker EXCEPT ![w] = next]
        BY <2>3 DEF Becomes
      <3> HIDE DEF next
      <3>6. Listened(next, d)
        BY <3>2, <3>3, <3>4 DEF Listened
      <3>7. EventsFit(next, d, ui.lastSeq)
        <4>1. r.seq = 0 /\ ui.lastSeq = 0 /\ Len(r.events) = 0
          BY <1>1, <1>4, <2>1 DEF EventsFit
        <4> QED BY <3>4, <4>1 DEF EventsFit
      <3> QED BY <1>0, <1>2, <2>3, <3>2, <3>3, <3>5, <3>6, <3>7, ThreadNext
    <2>4. CASE db' = db /\ Ends(w, "Error", <<>>)
      BY <1>0, <1>1, <1>2, <2>2, <2>4, EndsSafe
    <2> QED BY <1>5, <2>3, <2>4 DEF ResumeRun
  <1>6. ASSUME FindNoWaitingRun(w) PROVE SafeInv'
    <2> DEFINE next == [r EXCEPT !.pc = "create"]
    <2>1. r.pc = "begin" /\ db' = db /\ worker' = [worker EXCEPT ![w] = next]
      BY <1>6 DEF FindNoWaitingRun, At, Becomes
    <2>2. next.pc = "create" /\ next.seq = r.seq /\ next.events = r.events
      BY <1>1 DEF Worker
    <2> HIDE DEF next
    <2>3. Listened(next, db) /\ EventsFit(next, db, ui.lastSeq)
      BY <1>1, <2>1, <2>2 DEF Listened, EventsFit
    <2> QED BY <1>0, <1>1, <1>2, <2>1, <2>3, ThreadNext
  <1>7. ASSUME CreateRun(w) PROVE SafeInv'
    <2> DEFINE run == NewRun(db)
               next == [r EXCEPT !.pc = "open", !.run = run]
               d == WithRun(db, r.request)
    <2>1. /\ r.pc = "create" /\ Len(ActiveRuns(db)) < MaxRuns /\ db' = d
          /\ worker' = [worker EXCEPT ![w] = next]
      BY <1>7 DEF CreateRun, At, Becomes
    <2>2. r.request \in Requests
      BY <1>1, <2>1 DEF WorkerFits
    <2>3. /\ StoreInv(d) /\ d.active = db.active /\ d.sessions = db.sessions
          /\ NewestRun(d) = run /\ NewestHas(d, "Running")
          /\ d.steps[run] = <<>> /\ d.runs[run[1]][run[2]].request = r.request
      BY <1>1, <2>1, <2>2, WithRunGood
    <2> HIDE DEF d, run
    <2>4. /\ next.pc = "open" /\ next.run = run /\ next.request = r.request
          /\ next.seq = r.seq /\ next.events = r.events
      BY <1>1 DEF Worker
    <2> HIDE DEF next
    <2>5. Listened(next, d)
      BY <2>3, <2>4 DEF Listened
    <2>6. EventsFit(next, d, ui.lastSeq)
      BY <1>1, <2>1, <2>4 DEF EventsFit
    <2> QED BY <1>0, <1>2, <2>1, <2>3, <2>5, <2>6, ThreadNext
  <1>17. ASSUME RecordRequest(w) PROVE SafeInv'
    <2> DEFINE e == Emitting(r, w, "RunStarted")
               next == [e EXCEPT !.pc = "serve"]
               d == Record(db, r.run, "UserMessage", r.request)
    <2>1. r.pc = "open" /\ db' = d /\ worker' = [worker EXCEPT ![w] = next]
      BY <1>17 DEF RecordRequest, At, Becomes
    <2>2. r.request \in Requests /\ r.run \in RunIds
      BY <1>1, <2>1 DEF WorkerFits
    <2>3. /\ r.run = NewestRun(db) /\ NewestHas(db, "Running")
          /\ db.steps[r.run] = <<>> /\ db.runs[r.run[1]][r.run[2]].request = r.request
      BY <1>1, <2>1 DEF Listened
    <2>4. RunExists(db, r.run)
      BY <1>1, <2>3, ActiveRunsFacts DEF NewestHas
    <2>5. StoreInv(d) /\ d.steps[r.run] # <<>>
      BY <1>1, <2>2, <2>3, <2>4, RequestGood
    <2>6. d.runs = db.runs /\ d.active = db.active /\ d.sessions = db.sessions
      <3>1. StoreTyped(db)
        BY <1>1
      <3> QED BY <2>2, <3>1, RequestTyped
    <2>7. e \in Worker /\ e.run = r.run
      BY <1>1, EmittingFacts
    <2> HIDE DEF d, e
    <2>8. next.pc = "serve" /\ next.run = r.run /\ next.seq = e.seq /\ next.events = e.events
      BY <2>7 DEF Worker
    <2> HIDE DEF next
    <2>9. NewestRun(d) = r.run /\ NewestHas(d, "Running")
      BY <2>3, <2>6, NewestAfterRecord
    <2>10. Listened(next, d)
      BY <2>5, <2>8, <2>9 DEF Listened
    <2>11. EventsFit(next, d, ui.lastSeq)
      BY <1>1, <2>8, EmittingFits DEF e
    <2> QED BY <1>0, <1>2, <2>1, <2>5, <2>6, <2>10, <2>11, ThreadNext
  <1>8. ASSUME ReceiveText(w) PROVE SafeInv'
    <2> DEFINE next == [r EXCEPT !.pc = "send", !.deltas = r.deltas + 1]
    <2>1. r.pc = "serve" /\ db' = db /\ worker' = [worker EXCEPT ![w] = next]
      BY <1>1, <1>8 DEF ReceiveText, At, Becomes, Worker
    <2>2. next.pc = "send" /\ next.run = r.run /\ next.seq = r.seq /\ next.events = r.events
      BY <1>1 DEF Worker
    <2> HIDE DEF next
    <2>3. Listened(next, db) /\ EventsFit(next, db, ui.lastSeq)
      BY <1>1, <2>1, <2>2 DEF Listened, EventsFit
    <2> QED BY <1>0, <1>1, <1>2, <2>1, <2>3, ThreadNext
  <1>9. ASSUME StreamText(w) PROVE SafeInv'
    <2> DEFINE e == Emitting(r, w, "AssistantTextDelta")
               next == [e EXCEPT !.pc = "serve", !.partial = TRUE, !.fresh = TRUE]
    <2>1. r.pc = "send" /\ db' = db /\ worker' = [worker EXCEPT ![w] = next]
      BY <1>9 DEF StreamText, At, Becomes
    <2>2. e \in Worker /\ e.run = r.run
      BY <1>1, EmittingFacts
    <2> HIDE DEF e
    <2>3. next.pc = "serve" /\ next.run = r.run /\ next.seq = e.seq /\ next.events = e.events
      BY <2>2 DEF Worker
    <2> HIDE DEF next
    <2>4. Listened(next, db)
      BY <1>3, <2>1, <2>3 DEF Listened
    <2>5. EventsFit(next, db, ui.lastSeq)
      <3> DEFINE kind == "AssistantTextDelta"
      <3>1. kind \in {"RunStarted", "AssistantTextDelta", "ToolOutput"}
            /\ r.pc \in {"serve", "send"}
            /\ next.seq = Emitting(r, w, kind).seq /\ next.events = Emitting(r, w, kind).events
        BY <2>1, <2>3 DEF e
      <3> HIDE DEF kind
      <3> QED BY <1>1, <2>3, <3>1, EmittingFits
    <2> QED BY <1>0, <1>1, <1>2, <2>1, <2>4, <2>5, ThreadNext
  <1>10. ASSUME ProposeChange(w) PROVE SafeInv'
    <2> DEFINE e == Emitting(r, w, "ToolOutput")
               next == [e EXCEPT !.fresh = FALSE, !.proposed = TRUE]
               d == Responded(w)
    <2>1. r.pc = "serve" /\ db' = d /\ worker' = [worker EXCEPT ![w] = next]
      BY <1>10 DEF ProposeChange, At, Becomes
    <2>2. e \in Worker /\ e.run = r.run /\ e.pc = "serve"
      BY <1>1, <2>1, EmittingFacts
    <2>3. /\ StoreInv(d) /\ d.runs = db.runs /\ d.active = db.active /\ d.sessions = db.sessions
          /\ d.steps[r.run] # <<>>
      BY <1>3, <2>1, RespondedGood, RespondedTyped
    <2> HIDE DEF e, d
    <2>4. next.pc = "serve" /\ next.run = r.run /\ next.seq = e.seq /\ next.events = e.events
      BY <2>2 DEF Worker
    <2> HIDE DEF next
    <2>5. r.run = NewestRun(d) /\ NewestHas(d, "Running")
      BY <1>3, <2>1, <2>3, NewestAfterRecord
    <2>6. Listened(next, d)
      BY <2>3, <2>4, <2>5 DEF Listened
    <2>7. EventsFit(next, d, ui.lastSeq)
      <3> DEFINE kind == "ToolOutput"
      <3>1. kind \in {"RunStarted", "AssistantTextDelta", "ToolOutput"}
            /\ r.pc \in {"serve", "send"}
            /\ next.seq = Emitting(r, w, kind).seq /\ next.events = Emitting(r, w, kind).events
        BY <2>1, <2>4 DEF e
      <3> HIDE DEF kind
      <3> QED BY <1>1, <2>4, <3>1, EmittingFits
    <2> QED BY <1>0, <1>2, <2>1, <2>3, <2>6, <2>7, ThreadNext
  <1>11. ASSUME RecordResponse(w) PROVE SafeInv'
    <2> DEFINE next == [r EXCEPT !.fresh = FALSE]
               d == Responded(w)
    <2>1. r.pc = "serve" /\ db' = d /\ worker' = [worker EXCEPT ![w] = next]
      BY <1>11 DEF RecordResponse, At, Becomes
    <2>2. next.pc = "serve" /\ next.run = r.run /\ next.seq = r.seq /\ next.events = r.events
      BY <1>1, <2>1 DEF Worker
    <2>3. /\ StoreInv(d) /\ d.runs = db.runs /\ d.active = db.active /\ d.sessions = db.sessions
          /\ d.steps[r.run] # <<>>
      BY <1>3, <2>1, RespondedGood, RespondedTyped
    <2> HIDE DEF next, d
    <2>4. r.run = NewestRun(d) /\ NewestHas(d, "Running")
      BY <1>3, <2>1, <2>3, NewestAfterRecord
    <2>5. Listened(next, d) /\ EventsFit(next, d, ui.lastSeq)
      BY <1>1, <2>1, <2>2, <2>3, <2>4 DEF Listened, EventsFit
    <2> QED BY <1>0, <1>2, <2>1, <2>3, <2>5, ThreadNext
  <1>12. ASSUME NEW v \in {"Completed", "WaitingForHumanInput"}, r.pc = "serve",
                Settle(w, Responded(w), v)
         PROVE  SafeInv'
    <2> DEFINE d == Responded(w)
    <2>1. StoreTyped(d) /\ StoreInv(d) /\ d.runs = db.runs /\ d.active = db.active
          /\ d.sessions = db.sessions /\ d.steps[r.run] # <<>>
      BY <1>3, <1>12, RespondedGood, RespondedTyped
    <2> HIDE DEF d
    <2> QED BY <1>2, <1>12, <2>1, SettleSafe DEF d
  <1>13. ASSUME CompleteRun(w) PROVE SafeInv'
    BY <1>12, <1>13 DEF CompleteRun, At
  <1>14. ASSUME WaitForHumanInput(w) PROVE SafeInv'
    BY <1>12, <1>14 DEF WaitForHumanInput, At
  <1>15. ASSUME FailRun(w) PROVE SafeInv'
    <2> DEFINE d == Record(db, r.run, "Error", w)
    <2>1. r.pc = "serve" /\ Settle(w, d, "Failed")
      BY <1>15 DEF FailRun, At
    <2>2. StoreInv(d) /\ d.steps[r.run] # <<>>
      BY <1>1, <1>3, <2>1, RecordGood
    <2>3. StoreTyped(d) /\ d.runs = db.runs /\ d.active = db.active /\ d.sessions = db.sessions
      BY <1>1, <1>3, <2>1, RecordTyped
    <2> HIDE DEF d
    <2> QED BY <1>2, <2>1, <2>2, <2>3, SettleSafe
  <1>16. ASSUME StopCanceled(w) PROVE SafeInv'
    <2> DEFINE run == NewestRun(db)
               d == WithStatus(db, run, "Canceled")
               e == Record(d, run, "AssistantOutputCheckpoint", w)
    <2>1. /\ IF NewestHas(db, "Running") THEN db' = IF r.partial THEN e ELSE d ELSE db' = db
          /\ Ends(w, "Error", <<>>)
      BY <1>16 DEF StopCanceled
    <2>2. CASE NewestHas(db, "Running")
      <3>1. ActiveRuns(db) # <<>> /\ "Canceled" \in RunStatus
        BY <2>2 DEF NewestHas, RunStatus, Settled
      <3>2. run \in RunIds /\ RunExists(db, run)
        BY <1>1, <3>1, ActiveRunsFacts
      <3>0. r.pc \in {"begin", "serve"}
        BY <1>16 DEF StopCanceled, At
      <3>11. run = r.run /\ db.steps[run] # <<>>
        BY <1>1, <1>3, <2>2, <3>0 DEF Listened
      <3>3. StoreTyped(d) /\ StoreInv(d) /\ d.steps[run] # <<>>
        <4>1. StoreTyped(d) /\ d.steps = db.steps
          BY <1>1, <3>1, <3>2, WithStatusTyped, WithStatusFacts
        <4>2. StoreInv(d)
          BY <1>1, <3>1, <3>2, <3>11, WithStatusGood
        <4> HIDE DEF d, run
        <4> QED BY <3>11, <4>1, <4>2
      <3>4. /\ d.active = db.active /\ d.sessions = db.sessions /\ NewestRun(d) = run
            /\ ActiveRuns(d) # <<>> /\ ~NewestHas(d, "Running")
        <4>1. /\ d.active = db.active /\ d.sessions = db.sessions /\ NewestRun(d) = run
              /\ NewestHas(d, "Canceled") /\ \A x : NewestHas(d, x) => x = "Canceled"
          BY <1>1, <3>1, NewestAfterStatus
        <4> HIDE DEF d
        <4> QED BY <4>1 DEF NewestHas
      <3> HIDE DEF d
      <3>5. RunExists(d, run)
        BY <3>3, <3>4, ActiveRunsFacts
      <3> HIDE DEF run
      <3>6. StoreInv(e)
        BY <1>1, <3>2, <3>3, <3>5, RecordGood
      <3>7. e.runs = d.runs /\ e.active = d.active /\ e.sessions = d.sessions
        BY <1>1, <3>2, <3>3, RecordTyped
      <3> HIDE DEF e
      <3>8. ~NewestHas(e, "Running")
        BY <3>4, <3>7, NewestAfterRecord
      <3>9. CASE r.partial
        BY <1>0, <1>2, <2>1, <2>2, <3>4, <3>6, <3>7, <3>8, <3>9, EndsSafe
      <3>10. CASE ~r.partial
        BY <1>0, <1>2, <2>1, <2>2, <3>3, <3>4, <3>10, EndsSafe
      <3> QED BY <3>9, <3>10
    <2>3. CASE ~NewestHas(db, "Running")
      BY <1>0, <1>1, <1>2, <2>1, <2>3, EndsSafe
    <2> QED BY <2>2, <2>3
  <1> QED BY <1>5, <1>6, <1>7, <1>8, <1>9, <1>10, <1>11, <1>13, <1>14, <1>15, <1>16, <1>17 DEF Work

-----------------------------------------------------------------------------
(***************************************************************************)
(* What the UI loop does.                                                  *)
(***************************************************************************)
\* The worker the loop listens to, and the UI meanwhile.
LEMMA ListeningFacts ==
    ASSUME TypeInv, SafeInv, ui.handle # 0
    PROVE  /\ ui \in Ui /\ ui.handle \in Workers /\ worker[ui.handle] \in Worker
           /\ On /\ ui.status = "Running" /\ ~ui.pending
           /\ ActiveExists(db) /\ ui.session = db.active
           /\ Listened(worker[ui.handle], db)
           /\ EventsFit(worker[ui.handle], db, ui.lastSeq)
           /\ \A v \in Workers : v # ui.handle => worker[v].pc \in {"unused", "gone"}
  <1>1. ui \in Ui /\ ui.handle \in Workers /\ worker[ui.handle] \in Worker
    <2>1. ui \in Ui /\ worker \in [Workers -> Worker]
      BY DEF TypeInv, TypeOK
    <2> QED BY <2>1 DEF Ui
  <1>2. On /\ ui.status = "Running"
    BY DEF SafeInv, UiInv
  <1>3. ~ui.pending
    BY <1>2 DEF SafeInv, UiInv
  <1>4. ActiveExists(db) /\ ui.session = db.active
    BY <1>2, <1>3 DEF SafeInv, UiInv, ShownSessionIsActive
  <1>5. Listened(worker[ui.handle], db) /\ EventsFit(worker[ui.handle], db, ui.lastSeq)
    BY DEF SafeInv, ListenedInv
  <1>6. ASSUME NEW v \in Workers, v # ui.handle
        PROVE  worker[v].pc \in {"unused", "gone"}
    <2>1. worker[v].pc # "done" /\ v \notin Live
      BY <1>6 DEF SafeInv, OneWorker
    <2>2. worker[v] \in Worker
      BY DEF TypeInv, TypeOK
    <2>3. worker[v].pc \in {"unused", "begin", "create", "open", "serve", "send", "done", "gone"}
      BY <2>2 DEF Worker
    <2> QED BY <2>1, <2>3 DEF Live
  <1> QED BY <1>1, <1>2, <1>3, <1>4, <1>5, <1>6

\* No piece of text is without a place.
LEMMA NeverPanics ==
    ASSUME TypeInv, SafeInv, ui.handle # 0, NEW event
    PROVE  ~Panics(event)
  <1>1. ui.stream = 0 \/ ui.stream \in DOMAIN ui.messages
    BY ListeningFacts DEF SafeInv, StreamHasItsPlace
  <1>2. ui.messages \in Seq(Message) /\ ui.stream \in Nat
    BY DEF TypeInv, TypeOK, Ui
  <1>3. DOMAIN ui.messages = 1..Len(ui.messages) /\ Len(ui.messages) \in Nat
    BY <1>2, LenProperties
  <1>4. ~(ui.stream > Len(ui.messages))
    BY <1>1, <1>2, <1>3
  <1> QED BY <1>4 DEF Panics

\* An event taken is the next one, and the text that it brings goes to the
\* message of the run.
LEMMA TakeEventSafe ==
    ASSUME TypeInv, SafeInv, TakeEvent
    PROVE  SafeInv'
  <1> DEFINE w == ui.handle
             r == worker[w]
             event == Head(r.events)
             next == [r EXCEPT !.events = Tail(r.events)]
             n == Len(r.events)
  <1>1. On /\ w # 0 /\ r.events # <<>> /\ db' = db
    BY DEF TakeEvent
  <1>2. /\ ui \in Ui /\ w \in Workers /\ r \in Worker
        /\ Listened(r, db) /\ EventsFit(r, db, ui.lastSeq)
    BY <1>1, ListeningFacts
  <1>3. ui' = Shown(event) /\ worker' = [worker EXCEPT ![w] = next]
    <2>1. ~Panics(event)
      BY <1>1, NeverPanics
    <2>2. ui' = Shown(event) /\ worker' = [worker EXCEPT ![ui.handle].events = Tail(@)]
      BY <2>1 DEF TakeEvent
    <2>3. worker \in [Workers -> Worker]
      BY DEF TypeInv, TypeOK
    <2> QED BY <1>2, <2>2, <2>3
  <1>4. r.events \in Seq(Event) /\ r.seq \in Nat
    BY <1>2 DEF Worker
  <1>5. /\ event \in Event /\ event = r.events[1] /\ Tail(r.events) \in Seq(Event)
        /\ n \in Nat \ {0} /\ Len(Tail(r.events)) = n - 1
        /\ \A i \in 1..(n - 1) : Tail(r.events)[i] = r.events[i + 1]
    BY <1>1, <1>4, HeadFacts
  <1>6. /\ ui'.state = ui.state /\ ui'.status = ui.status /\ ui'.session = ui.session
        /\ ui'.pending = ui.pending /\ ui'.handle = ui.handle
        /\ ui'.lastSeq = IF event.kind = "RunStarted" \/ event.seq > ui.lastSeq THEN event.seq
                         ELSE ui.lastSeq
        /\ \/ ui'.stream = ui.stream /\ ui'.messages = ui.messages
           \/ /\ ui.stream = 0
              /\ ui'.stream = Len(ui.messages) + 1
              /\ ui'.messages = Append(ui.messages, Msg("Assistant", {w}))
           \/ /\ ui.stream \in DOMAIN ui.messages
              /\ ui'.stream = ui.stream
              /\ ui'.messages = [ui.messages EXCEPT ![ui.stream] =
                     [ui.messages[ui.stream] EXCEPT !.of = ui.messages[ui.stream].of \union {w}]]
    BY <1>1, <1>2, <1>3, <1>5, NeverPanics, ShownFacts
  <1>7. /\ next.pc = r.pc /\ next.run = r.run /\ next.outcome = r.outcome
        /\ next.seq = r.seq /\ next.events = Tail(r.events) /\ next.request = r.request
    BY <1>2 DEF Worker
  <1>8. worker'[w] = next /\ \A v \in Workers : worker'[v].pc = worker[v].pc
    <2> HIDE DEF next
    <2>1. worker \in [Workers -> Worker]
      BY DEF TypeInv, TypeOK
    <2> QED BY <1>2, <1>3, <1>7, <2>1
  <1> HIDE DEF next, event, n
  <1>9. OneWorker' /\ \A v \in Workers : worker'[v].pc = "done" => ui'.handle = v
    BY <1>6, <1>8 DEF SafeInv, OneWorker, Live
  <1>10. UiInv' /\ IdleInv' /\ StoreInv(db')
    BY <1>1, <1>6 DEF SafeInv, UiInv, IdleInv, ShownSessionIsActive, On
  <1>11. ListenedInv'
    <2>1. Listened(next, db)
      BY <1>2, <1>7 DEF Listened
    <2>2. n <= r.seq /\ \A i \in 1..n : r.events[i].seq = (r.seq - n) + i
      BY <1>2 DEF EventsFit, n
    <2>3. ui'.lastSeq = (r.seq - n) + 1
      <3>1. event.seq = (r.seq - n) + 1 /\ event.seq \in Nat
        <4>1. 1 \in 1..n
          BY <1>5
        <4> QED BY <1>5, <2>2, <4>1 DEF Event
      <3>2. CASE ui.lastSeq = r.seq - n
        <4>1. event.seq > ui.lastSeq
          BY <1>4, <1>5, <2>2, <3>1, <3>2
        <4> QED BY <1>6, <3>1, <4>1
      <3>3. CASE r.events[1].kind = "RunStarted"
        BY <1>5, <1>6, <3>1, <3>3
      <3>4. n # 0
        BY <1>5
      <3> QED BY <1>2, <3>2, <3>3, <3>4 DEF EventsFit, n
    <2>4. Len(next.events) = n - 1
      BY <1>5, <1>7
    <2>5. Len(next.events) <= next.seq
      BY <1>4, <1>5, <1>7, <2>2, <2>4
    <2>6. ASSUME NEW i \in 1..(n - 1)
          PROVE  next.events[i].seq = (next.seq - (n - 1)) + i
      <3>1. i + 1 \in 1..n /\ next.events[i] = r.events[i + 1]
        BY <1>5, <1>7
      <3>2. r.events[i + 1].seq = (r.seq - n) + (i + 1)
        BY <2>2, <3>1
      <3>3. (r.seq - n) + (i + 1) = (r.seq - (n - 1)) + i
        BY <1>4, <1>5
      <3> QED BY <1>7, <3>1, <3>2, <3>3
    <2>7. r.pc \notin {"begin", "create", "open"}
      <3>1. r.seq # 0
        BY <1>4, <1>5, <2>2
      <3> QED BY <1>2, <3>1 DEF EventsFit
    <2>8. ui'.lastSeq = next.seq - Len(next.events)
      <3>1. r.seq \in Nat /\ n \in Nat /\ next.seq = r.seq
        BY <1>4, <1>5, <1>7
      <3>2. (r.seq - n) + 1 = r.seq - (n - 1)
        BY <3>1
      <3> QED BY <2>3, <2>4, <3>1, <3>2
    <2>9. EventsFit(next, db, ui'.lastSeq)
      BY <1>7, <2>4, <2>5, <2>6, <2>7, <2>8 DEF EventsFit
    <2> QED BY <1>1, <1>6, <1>8, <2>1, <2>9 DEF ListenedInv
  <1>12. StreamHasItsPlace'
    <2>1. ui.messages \in Seq(Message) /\ ui.stream \in Nat /\ DOMAIN ui.messages = 1..Len(ui.messages)
          /\ Len(ui.messages) \in Nat
      <3>1. ui.messages \in Seq(Message) /\ ui.stream \in Nat
        BY <1>2 DEF Ui
      <3> QED BY <3>1, LenProperties
    <2>2. ui.stream # 0 => /\ ui.stream \in DOMAIN ui.messages
                           /\ ui.messages[ui.stream] = Msg("Assistant", {w})
      BY <1>1 DEF SafeInv, StreamHasItsPlace
    <2>3. SUFFICES ASSUME ui'.stream # 0
                   PROVE  /\ ui'.stream \in DOMAIN ui'.messages
                          /\ ui'.messages[ui'.stream] = Msg("Assistant", {w})
      BY <1>6 DEF StreamHasItsPlace
    <2>4. CASE ui'.stream = ui.stream /\ ui'.messages = ui.messages
      BY <2>2, <2>3, <2>4
    <2>5. CASE /\ ui.stream = 0
               /\ ui'.stream = Len(ui.messages) + 1
               /\ ui'.messages = Append(ui.messages, Msg("Assistant", {w}))
      <3>1. Msg("Assistant", {w}) \in Message
        <4>1. w \in Requests
          BY <1>2, TuiRunsAssumption DEF Workers, Requests
        <4> QED BY <4>1 DEF Msg, Message
      <3>2. /\ ui'.messages \in Seq(Message)
            /\ Len(ui'.messages) = Len(ui.messages) + 1
            /\ ui'.messages[Len(ui.messages) + 1] = Msg("Assistant", {w})
        BY <2>1, <2>5, <3>1, AppendProperties
      <3>3. DOMAIN ui'.messages = 1..(Len(ui.messages) + 1)
        BY <3>2, LenProperties
      <3> QED BY <2>1, <2>5, <3>2, <3>3
    <2>6. CASE /\ ui.stream \in DOMAIN ui.messages
               /\ ui'.stream = ui.stream
               /\ ui'.messages = [ui.messages EXCEPT ![ui.stream] =
                     [ui.messages[ui.stream] EXCEPT !.of = ui.messages[ui.stream].of \union {w}]]
      <3>1. ui.messages[ui.stream] = Msg("Assistant", {w})
        BY <2>2, <2>3, <2>6
      <3>2. [Msg("Assistant", {w}) EXCEPT !.of = Msg("Assistant", {w}).of \union {w}]
               = Msg("Assistant", {w})
        BY DEF Msg
      <3> QED BY <2>6, <3>1, <3>2
    <2> QED BY <1>6, <2>4, <2>5, <2>6
  <1> QED BY <1>9, <1>10, <1>11, <1>12 DEF SafeInv

\* When the result is taken nothing runs, and the UI says what the store holds.
LEMMA TakeResultSafe ==
    ASSUME TypeInv, SafeInv, TakeResult
    PROVE  SafeInv'
  <1> DEFINE w == ui.handle
             r == worker[w]
             next == [Unused EXCEPT !.pc = "gone", !.request = r.request]
  <1>1. /\ w \in Workers /\ On /\ db' = db /\ r.pc = "done"
        /\ worker' = [worker EXCEPT ![w] = next]
        /\ ui'.state = ui.state /\ ui'.pending = ui.pending /\ ui'.handle = 0
        /\ \/ ui'.status \in {"Canceled", "Failed"} /\ ui'.session = ui.session
           \/ /\ r.outcome \in {"Completed", "WaitingForHumanInput"}
              /\ ui'.status = r.outcome
              /\ ui'.session = r.run[1]
    BY ResultFacts
  <1>2. w # 0
    BY <1>1, TuiRunsAssumption DEF Workers
  <1>3. /\ ActiveExists(db) /\ ui.session = db.active /\ ~ui.pending
        /\ Listened(r, db)
        /\ \A v \in Workers : v # w => worker[v].pc \in {"unused", "gone"}
    BY <1>2, ListeningFacts
  <1>4. ~NewestHas(db, "Running")
        /\ (r.outcome # "Error" => r.run = NewestRun(db) /\ NewestHas(db, r.outcome))
    BY <1>1, <1>3 DEF Listened
  <1>5. r.outcome # "Error" => r.run[1] = db.active
    BY <1>4 DEF NewestRun
  <1>6. \A v \in Workers : worker'[v].pc \in {"unused", "gone"}
    <2>1. next.pc = "gone" /\ worker \in [Workers -> Worker]
      BY DEF Unused, TypeInv, TypeOK
    <2> HIDE DEF next
    <2> QED BY <1>1, <1>3, <2>1
  <1> HIDE DEF next, r
  <1>7. UiInv'
    <2>1. ui'.session = db.active
      BY <1>1, <1>3, <1>5
    <2> QED BY <1>1, <1>3, <2>1 DEF UiInv, ShownSessionIsActive
  <1>8. IdleInv'
    <2>1. ui'.status \in {"Completed", "WaitingForHumanInput"} => NewestHas(db, ui'.status)
      BY <1>1, <1>4
    <2> QED BY <1>1, <1>4, <2>1 DEF IdleInv
  <1>9. StoreInv(db')
    BY <1>1 DEF SafeInv
  <1> QED BY <1>1, <1>6, <1>7, <1>8, <1>9, QuietNext

\* Finding the channel empty keeps the invariant.
LEMMA FindNoEventSafe ==
    ASSUME TypeInv, SafeInv, FindNoEvent
    PROVE  SafeInv'
  <1>1. ui' = [ui EXCEPT !.drained = TRUE] /\ db' = db /\ worker' = worker /\ ui \in Ui
    BY DEF FindNoEvent, TypeInv, TypeOK
  <1>2. /\ ui'.state = ui.state /\ ui'.status = ui.status /\ ui'.session = ui.session
        /\ ui'.pending = ui.pending /\ ui'.stream = ui.stream /\ ui'.handle = ui.handle
        /\ ui'.lastSeq = ui.lastSeq /\ ui'.messages = ui.messages
    BY <1>1 DEF Ui
  <1>3. OneWorker' /\ \A v \in Workers : worker'[v].pc = "done" => ui'.handle = v
    BY <1>1, <1>2 DEF SafeInv, OneWorker, Live
  <1>4. UiInv' /\ IdleInv' /\ StreamHasItsPlace' /\ StoreInv(db')
    BY <1>1, <1>2 DEF SafeInv, UiInv, IdleInv, StreamHasItsPlace, ShownSessionIsActive, On
  <1>5. ListenedInv'
    BY <1>1, <1>2 DEF SafeInv, ListenedInv
  <1> QED BY <1>3, <1>4, <1>5 DEF SafeInv

-----------------------------------------------------------------------------
(***************************************************************************)
(* The theorems.                                                           *)
(***************************************************************************)
\* In the first state nothing runs and the first session is shown.
LEMMA SafeInit == Init => SafeInv
  <1>1. SUFFICES ASSUME Init PROVE SafeInv
    OBVIOUS
  <1> DEFINE u == [OffUi EXCEPT !.state = "on"]
  <1>2. db = InitialStore /\ ui = Loaded(u, InitialStore) /\ worker = [w \in Workers |-> Unused]
    BY <1>1 DEF Init
  <1>3. u \in Ui /\ u.handle = 0
    BY EndedTyped DEF OffUi
  <1> HIDE DEF u
  <1>4. /\ ui.handle = 0 /\ ui.session = InitialStore.active /\ ~ui.pending
        /\ ui.status = IF ActiveRuns(InitialStore) = <<>> THEN "Idle"
                       ELSE Last(ActiveRuns(InitialStore)).status
    BY <1>2, <1>3, InitialStoreTyped, LoadedFacts
  <1>5. 1 \in SessionIds
    BY SessionStoreAssumption DEF SessionIds
  <1>6. /\ \A s \in SessionIds : InitialStore.runs[s] = <<>>
        /\ \A run \in RunIds : InitialStore.steps[run] = <<>>
        /\ InitialStore.active = 1 /\ InitialStore.sessions = {1}
    BY DEF InitialStore
  <1>7. StoreInv(db)
    <2>1. ASSUME NEW run \in RunIds PROVE ~RunExists(InitialStore, run)
      <3>1. run[1] \in SessionIds
        BY DEF RunIds
      <3> QED BY <1>6, <3>1 DEF RunExists
    <2> QED BY <1>2, <1>6, <2>1 DEF StoreInv, RunFits
  <1>8. ActiveRuns(db) = <<>> /\ ActiveExists(db)
    BY <1>2, <1>5, <1>6 DEF ActiveRuns, ActiveExists
  <1>9. \A w \in Workers : worker[w].pc = "unused"
    BY <1>2 DEF Unused
  <1>10. OneWorker /\ \A w \in Workers : worker[w].pc = "done" => ui.handle = w
    BY <1>9 DEF OneWorker, Live
  <1>11. UiInv /\ IdleInv
    BY <1>2, <1>4, <1>8 DEF UiInv, IdleInv, ShownSessionIsActive, NewestHas
  <1>12. ListenedInv /\ StreamHasItsPlace
    BY <1>4 DEF ListenedInv, StreamHasItsPlace
  <1> QED BY <1>7, <1>10, <1>11, <1>12 DEF SafeInv

\* Every step of the UI, of its user and of the workers keeps the invariant.
LEMMA SafeStep ==
    ASSUME Orderly
    PROVE  TypeInv /\ SafeInv /\ [Next]_vars => SafeInv'
  <1>1. ASSUME TypeInv, SafeInv, Next PROVE SafeInv'
    BY <1>1, UserSafe, TakeEventSafe, FindNoEventSafe, TakeResultSafe, WorkSafe DEF Next, Loop
  <1>2. ASSUME SafeInv, UNCHANGED vars PROVE SafeInv'
    <2>1. db' = db /\ ui' = ui /\ worker' = worker
      BY <1>2 DEF vars
    <2> QED BY <1>2, <2>1 DEF SafeInv, OneWorker, Live, UiInv, IdleInv, ListenedInv,
                              StreamHasItsPlace, ShownSessionIsActive, On
  <1> QED BY <1>1, <1>2

\* The invariant of an orderly user's UI.
LEMMA OrderlyIsSafe ==
    ASSUME Orderly
    PROVE  Spec => [](TypeInv /\ SafeInv)
  <1>1. TypeInv /\ SafeInv /\ [Next]_vars => SafeInv'
    BY SafeStep
  <1> QED BY <1>1, TypeInit, SafeInit, TypeStep, PTL DEF Spec

\* While the user gives no session command during a run, at most one background
\* run executes, and the UI shows it and can cancel it: no reload of a session,
\* no cancellation and no restart of the UI leaves a second one behind.
THEOREM RunsDoNotOverlap ==
    ASSUME Orderly
    PROVE  Spec => []OneWorker
  <1>1. SafeInv => OneWorker
    BY DEF SafeInv
  <1> QED BY <1>1, OrderlyIsSafe, PTL

\* The conversation on the screen is that of the session that the next request
\* goes to, also after the session shown was deleted or archived, and after a
\* run of it ended.
THEOREM ShownSessionStaysActive ==
    ASSUME Orderly
    PROVE  Spec => []ShownSessionIsActive
  <1>1. SafeInv => ShownSessionIsActive
    BY DEF SafeInv, UiInv
  <1> QED BY <1>1, OrderlyIsSafe, PTL

\* Streamed text goes to a message of its own run.
THEOREM TextHasItsPlace ==
    ASSUME Orderly
    PROVE  Spec => []StreamHasItsPlace
  <1>1. SafeInv => StreamHasItsPlace
    BY DEF SafeInv
  <1> QED BY <1>1, OrderlyIsSafe, PTL

\* No event of a run is taken for one that was seen before: every request counts
\* from one again, and the number kept from an earlier request is either reset
\* or followed by the start of a run.
THEOREM EventsAreSeen ==
    ASSUME Orderly
    PROVE  Spec => []NoEventIsDropped
  <1>1. ASSUME TypeInv, SafeInv PROVE NoEventIsDropped
    <2> DEFINE r == worker[ui.handle]
               n == Len(r.events)
    <2>1. SUFFICES ASSUME On, ui.handle # 0, r.events # <<>>
                   PROVE  Head(r.events).kind = "RunStarted" \/ Head(r.events).seq > ui.lastSeq
      BY DEF NoEventIsDropped
    <2>2. r \in Worker /\ EventsFit(r, db, ui.lastSeq)
      BY <1>1, <2>1, ListeningFacts
    <2>3. r.events \in Seq(Event) /\ r.seq \in Nat
      BY <2>2 DEF Worker
    <2>4. Head(r.events) = r.events[1] /\ n \in Nat \ {0}
      BY <2>1, <2>3, HeadFacts
    <2>5. r.events[1].seq = (r.seq - n) + 1
      <3>1. 1 \in 1..n
        BY <2>4
      <3> QED BY <2>2, <3>1 DEF EventsFit
    <2>6. ui.lastSeq = r.seq - n \/ r.events[1].kind = "RunStarted"
      BY <2>2, <2>4 DEF EventsFit
    <2> HIDE DEF n
    <2> QED BY <2>3, <2>4, <2>5, <2>6
  <1> QED BY <1>1, OrderlyIsSafe, PTL

\* Every run begins with its request, and holds nothing of a deleted run that
\* had its number.  One without steps is Running, and either its worker is about
\* to record the request or none executes it: a quit between the two transactions
\* of a start leaves such a run, and nobody goes on with it or settles it.
THEOREM RunsBeginWithTheirRequest ==
    ASSUME Orderly
    PROVE  Spec => []RunBeginsWithItsRequest
  <1>1. ASSUME TypeInv, SafeInv PROVE RunBeginsWithItsRequest
    <2>1. SUFFICES ASSUME NEW run \in RunIds, RunExists(db, run)
                   PROVE  \/ BeginsWell(db, run)
                          \/ /\ JustCreated(db, run)
                             /\ \A w \in Live : worker[w].run = run => At(w, "open")
      BY DEF RunBeginsWithItsRequest, BeginsWell, JustCreated
    <2>2. BeginsWell(db, run) \/ JustCreated(db, run)
      BY <1>1, <2>1 DEF SafeInv, StoreInv, RunFits
    <2>3. ASSUME JustCreated(db, run), NEW w \in Live, worker[w].run = run
          PROVE  worker[w].pc = "open"
      <3>1. w \in Workers /\ worker[w].pc \in LivePc
        BY DEF Live, LivePc
      <3>2. Listened(worker[w], db) /\ WorkerFits(worker[w])
        BY <1>1, <3>1, LiveFacts
      <3>3. worker[w].pc \notin {"serve", "send"}
        BY <2>3, <3>2 DEF Listened, JustCreated
      <3>4. worker[w].pc \notin {"begin", "create"}
        <4>1. run[1] # 0 /\ NoRun[1] = 0
          BY DEF RunIds, SessionIds, NoRun
        <4> QED BY <2>3, <3>2, <4>1 DEF WorkerFits
      <3> QED BY <3>1, <3>3, <3>4 DEF LivePc
    <2> QED BY <2>2, <2>3 DEF At
  <1> QED BY <1>1, OrderlyIsSafe, PTL

-----------------------------------------------------------------------------
(***************************************************************************)
(* Whose steps change a run.                                               *)
(***************************************************************************)
\* No run is other than it was, unless its session lost all that it had.
RunsStay(d, e) ==
    /\ \A s \in SessionIds : e.runs[s] = <<>> \/ e.runs[s] = d.runs[s]
    /\ \A run \in RunIds : e.steps[run] = <<>> \/ e.steps[run] = d.steps[run]

\* A session command writes no run.
LEMMA SessionRowsStay ==
    ASSUME NEW d, StoreTyped(d), NEW s \in SessionIds
    PROVE  /\ RunsStay(d, d)
           /\ RunsStay(d, WithActive(d, s))
           /\ RunsStay(d, WithArchived(d, s))
           /\ RunsStay(d, WithNewSession(d))
           /\ RunsStay(d, WithoutSession(d, s))
  <1>1. /\ WithActive(d, s).runs = d.runs /\ WithActive(d, s).steps = d.steps
        /\ WithArchived(d, s).runs = d.runs /\ WithArchived(d, s).steps = d.steps
        /\ WithNewSession(d).runs = d.runs /\ WithNewSession(d).steps = d.steps
    BY DEF StoreTyped, Store, WithActive, WithArchived, WithNewSession
  <1> DEFINE e == WithoutSession(d, s)
  <1>2. /\ \A t \in SessionIds : e.runs[t] = IF t = s THEN <<>> ELSE d.runs[t]
        /\ \A run \in RunIds : e.steps[run] = IF run[1] = s THEN <<>> ELSE d.steps[run]
    BY DEF StoreTyped, Store, WithoutSession
  <1> HIDE DEF e
  <1>3. RunsStay(d, e)
    BY <1>2 DEF RunsStay
  <1> QED BY <1>1, <1>3 DEF RunsStay, e

\* Nor does a sequence of two of them.
LEMMA RunsStayTransitive ==
    ASSUME NEW d, NEW e, NEW f, RunsStay(d, e), RunsStay(e, f)
    PROVE  RunsStay(d, f)
  BY DEF RunsStay

\* The session that takes the place of another one is new.
LEMMA ReplacedStays ==
    ASSUME NEW d, StoreTyped(d), NextSession(d) <= MaxSessions
    PROVE  StoreTyped(Replaced(d)) /\ RunsStay(d, Replaced(d))
  <1>1. NextSession(d) \in SessionIds
    BY NextSessionTyped
  <1>2. StoreTyped(WithNewSession(d))
    BY <1>1, SessionRowsTyped
  <1>3. StoreTyped(Replaced(d)) /\ RunsStay(WithNewSession(d), Replaced(d))
    BY <1>1, <1>2, SessionRowsTyped, SessionRowsStay DEF Replaced
  <1>4. RunsStay(d, WithNewSession(d))
    BY <1>1, SessionRowsStay
  <1> QED BY <1>3, <1>4, RunsStayTransitive

\* What the user does changes no run.
LEMMA UserRunsStay ==
    ASSUME TypeInv, User
    PROVE  RunsStay(db, db')
  <1>1. StoreTyped(db)
    BY DEF TypeInv, TypeOK, StoreTyped
  <1>2. RunsStay(db, db)
    BY DEF RunsStay
  <1>3. ASSUME NEW d, Reload(d) \/ Exit(d) PROVE db' = d
    BY <1>3 DEF Reload, Exit
  <1>4. NextSession(db) <= MaxSessions =>
           RunsStay(db, WithActive(WithNewSession(db), NextSession(db)))
    BY <1>1, ReplacedStays DEF Replaced
  <1>5. ASSUME NEW request, StartRun(request) PROVE RunsStay(db, db')
    BY <1>2, <1>3, <1>4, <1>5, StartRunCases DEF SendsHere, SendsToNewSession
  <1>6. CASE Submit \/ Restart
    BY <1>5, <1>6 DEF Submit, Restart
  <1>7. CASE RequestChanges \/ CancelRun \/ NewSession \/ StartUi
    <2>1. db' = db
      BY <1>7 DEF RequestChanges, CancelRun, NewSession, StartUi
    <2> QED BY <1>2, <2>1
  <1>8. CASE CreateSession
    BY <1>2, <1>3, <1>4, <1>8 DEF CreateSession
  <1>9. CASE LikeSession \/ Quit
    BY <1>2, <1>3, <1>9 DEF LikeSession, Quit
  <1>10. ASSUME NEW s \in SessionIds, SwitchSession(s) PROVE RunsStay(db, db')
    BY <1>1, <1>2, <1>3, <1>10, SessionRowsStay DEF SwitchSession
  <1>11. ASSUME NEW s \in SessionIds, DeleteSession(s) PROVE RunsStay(db, db')
    <2>1. RunsStay(db, WithoutSession(db, s))
      BY <1>1, SessionRowsStay
    <2>2. NextSession(db) <= MaxSessions => RunsStay(db, WithoutSession(Replaced(db), s))
      BY <1>1, ReplacedStays, SessionRowsStay, RunsStayTransitive
    <2> QED BY <1>2, <1>3, <1>11, <2>1, <2>2 DEF DeleteSession
  <1>12. ASSUME NEW s \in SessionIds, ArchiveSession(s) PROVE RunsStay(db, db')
    <2> DEFINE d == WithArchived(db, s)
    <2>1. StoreTyped(d) /\ RunsStay(db, d)
      BY <1>1, SessionRowsTyped, SessionRowsStay
    <2>2. NextSession(d) = NextSession(db)
      BY <1>1 DEF WithArchived, NextSession, StoreTyped, Store
    <2>3. \/ Reload(d) \/ Exit(d)
          \/ NextSession(d) <= MaxSessions /\ Reload(Replaced(d))
      BY <1>12, <2>2 DEF ArchiveSession
    <2> HIDE DEF d
    <2>4. NextSession(d) <= MaxSessions => RunsStay(db, Replaced(d))
      BY <2>1, ReplacedStays, RunsStayTransitive
    <2> QED BY <1>3, <2>1, <2>3, <2>4
  <1> QED BY <1>6, <1>7, <1>8, <1>9, <1>10, <1>11, <1>12 DEF User

\* A run of which the worker w says something is its own.
OwnedBy(w, run) == w \in Live /\ (worker'[w].run = run \/ worker[w].run = run)

\* Two stores agree on a run.
Agree(d, e, run) ==
    RunExists(d, run) /\ RunExists(e, run)
    => e.runs[run[1]][run[2]] = d.runs[run[1]][run[2]]

\* A status is set in one run.
LEMMA StatusOfOthers ==
    ASSUME NEW d, StoreTyped(d), NEW run \in RunIds, RunExists(d, run), NEW v \in RunStatus,
           NEW other \in RunIds, other # run
    PROVE  Agree(d, WithStatus(d, run, v), other)
  <1>1. other[1] \in SessionIds /\ other = <<other[1], other[2]>>
    BY DEF RunIds
  <1> QED BY <1>1, WithStatusFacts DEF Agree, RunExists

\* Each step of a worker changes its own run only.
LEMMA WorkOfOthers ==
    ASSUME TypeInv, SafeInv, NEW w \in Workers, Work(w), NEW other \in RunIds,
           ~OwnedBy(w, other)
    PROVE  Agree(db, db', other)
  <1> DEFINE r == worker[w]
  <1>1. r.pc \in LivePc /\ w \in Live
    BY DEF Work, ResumeRun, FindNoWaitingRun, CreateRun, RecordRequest, ReceiveText, StreamText,
           ProposeChange, RecordResponse, CompleteRun, WaitForHumanInput, FailRun, StopCanceled, At, LivePc, Live
  <1>2. /\ w \in Requests /\ StoreTyped(db) /\ StoreInv(db)
        /\ r \in Worker /\ WorkerFits(r) /\ ActiveExists(db) /\ Listened(r, db)
    BY <1>1, LiveFacts
  <1>3. r.run # other /\ worker'[w].run # other
    BY <1>1 DEF OwnedBy
  <1>4. r.pc = "serve" =>
           r.run = NewestRun(db) /\ r.run \in RunIds /\ RunExists(db, r.run)
    BY ServingFacts
  <1>5. ASSUME db'.runs = db.runs PROVE Agree(db, db', other)
    BY <1>5 DEF Agree
  <1>6. CASE ResumeRun(w)
    <2> DEFINE run == NewestRun(db)
               next == [r EXCEPT !.pc = "serve", !.run = run]
    <2>1. CASE db' = WithStatus(db, run, "Running") /\ Becomes(w, next)
      <3>1. "Running" \in RunStatus /\ run \in RunIds /\ RunExists(db, run)
        BY <1>2, <1>6, ActiveRunsFacts DEF RunStatus, ResumeRun, NewestHas
      <3>2. worker'[w].run = run
        <4>1. next.run = run
          BY <1>2 DEF Worker
        <4> HIDE DEF next
        <4> QED BY <2>1, <4>1 DEF Becomes, TypeInv, TypeOK
      <3> QED BY <1>2, <1>3, <2>1, <3>1, <3>2, StatusOfOthers
    <2>2. CASE db' = db
      BY <1>5, <2>2
    <2> QED BY <1>6, <2>1, <2>2 DEF ResumeRun
  <1>7. CASE FindNoWaitingRun(w) \/ ReceiveText(w) \/ StreamText(w)
    <2>1. db' = db
      BY <1>7 DEF FindNoWaitingRun, ReceiveText, StreamText
    <2> QED BY <1>5, <2>1
  <1>8. CASE CreateRun(w)
    <2>1. r.pc = "create" /\ Len(ActiveRuns(db)) < MaxRuns /\ db' = WithRun(db, r.request)
      BY <1>8 DEF CreateRun, At
    <2>2. r.request \in Requests
      BY <1>2, <2>1 DEF WorkerFits
    <2> QED BY <1>2, <2>1, <2>2, WithRunGood DEF Agree
  <1>16. CASE RecordRequest(w)
    <2>1. r.pc = "open" /\ db' = Record(db, r.run, "UserMessage", r.request)
      BY <1>16 DEF RecordRequest, At
    <2>2. r.run \in RunIds /\ r.request \in Requests
      BY <1>2, <2>1 DEF WorkerFits
    <2> QED BY <1>2, <1>5, <2>1, <2>2, RecordTyped
  <1>9. ASSUME r.pc = "serve" PROVE Responded(w).runs = db.runs
    BY <1>2, <1>4, <1>9, RecordTyped DEF Responded
  <1>10. CASE ProposeChange(w) \/ RecordResponse(w)
    <2>1. db' = Responded(w) /\ r.pc = "serve"
      BY <1>10 DEF ProposeChange, RecordResponse, At
    <2> QED BY <1>5, <1>9, <2>1
  <1>11. ASSUME NEW d, NEW v \in RunStatus, StoreTyped(d), d.runs = db.runs, r.pc = "serve",
                Settle(w, d, v)
         PROVE  Agree(db, db', other)
    <2>1. RunExists(d, r.run)
      BY <1>4, <1>11 DEF RunExists
    <2>2. db' = WithStatus(d, r.run, v)
      BY <1>11, <2>1 DEF Settle
    <2>3. Agree(d, db', other)
      BY <1>3, <1>4, <1>11, <2>1, <2>2, StatusOfOthers
    <2> QED BY <1>11, <2>3 DEF Agree, RunExists
  <1>12. /\ "Completed" \in RunStatus /\ "WaitingForHumanInput" \in RunStatus
         /\ "Failed" \in RunStatus /\ "Canceled" \in RunStatus
    BY DEF RunStatus, Settled
  <1>13. CASE CompleteRun(w) \/ WaitForHumanInput(w)
    <2>1. r.pc = "serve"
          /\ (Settle(w, Responded(w), "Completed") \/ Settle(w, Responded(w), "WaitingForHumanInput"))
      BY <1>13 DEF CompleteRun, WaitForHumanInput, At
    <2>2. StoreTyped(Responded(w))
      BY <1>4, <2>1, RespondedTyped
    <2> QED BY <1>9, <1>11, <1>12, <2>1, <2>2
  <1>14. CASE FailRun(w)
    <2> DEFINE d == Record(db, r.run, "Error", w)
    <2>1. r.pc = "serve" /\ Settle(w, d, "Failed")
      BY <1>14 DEF FailRun, At
    <2>2. StoreTyped(d) /\ d.runs = db.runs
      BY <1>2, <1>4, <2>1, RecordTyped
    <2> HIDE DEF d
    <2> QED BY <1>11, <1>12, <2>1, <2>2
  <1>15. CASE StopCanceled(w)
    <2> DEFINE run == NewestRun(db)
               d == WithStatus(db, run, "Canceled")
               e == Record(d, run, "AssistantOutputCheckpoint", w)
    <2>1. /\ r.pc \in {"begin", "serve"}
          /\ IF NewestHas(db, "Running") THEN db' = IF r.partial THEN e ELSE d ELSE db' = db
      BY <1>15 DEF StopCanceled, At
    <2>2. CASE ~NewestHas(db, "Running")
      BY <1>5, <2>1, <2>2
    <2>3. CASE NewestHas(db, "Running")
      <3>1. r.pc = "serve"
        BY <1>2, <2>1, <2>3 DEF Listened
      <3>2. run = r.run /\ run \in RunIds /\ RunExists(db, run)
        BY <1>4, <3>1
      <3>3. StoreTyped(d) /\ Agree(db, d, other)
        BY <1>2, <1>3, <1>12, <3>2, StatusOfOthers, WithStatusTyped
      <3> HIDE DEF d, run
      <3>4. e.runs = d.runs
        BY <1>2, <3>2, <3>3, RecordTyped
      <3> HIDE DEF e
      <3> QED BY <2>1, <2>3, <3>3, <3>4 DEF Agree, RunExists
    <2> QED BY <2>2, <2>3
  <1> QED BY <1>6, <1>7, <1>8, <1>10, <1>13, <1>14, <1>15, <1>16 DEF Work

\* A run is written by a worker that executes it: no session command and no
\* cancellation writes the run of another, also when the runs were numbered
\* anew after a deletion.
THEOREM RunsAreTheirWorkers ==
    ASSUME Orderly
    PROVE  Spec => OnlyItsWorkerChangesARun
  <1> DEFINE Owned == \A run \in RunIds :
                 /\ RunExists(db, run) /\ RunExists(db', run)
                 /\ db'.runs[run[1]][run[2]] # db.runs[run[1]][run[2]]
                 => \E w \in Live : worker'[w].run = run \/ worker[w].run = run
  <1>1. ASSUME TypeInv, SafeInv, Next PROVE Owned
    <2>1. SUFFICES ASSUME NEW run \in RunIds, RunExists(db, run), RunExists(db', run),
                          db'.runs[run[1]][run[2]] # db.runs[run[1]][run[2]]
                   PROVE  \E w \in Workers : OwnedBy(w, run)
      BY DEF OwnedBy, Live
    <2>2. CASE User
      <3>1. run[1] \in SessionIds /\ run[2] \in DOMAIN db'.runs[run[1]]
        BY <2>1 DEF RunIds, RunExists
      <3>2. db'.runs[run[1]] = <<>> \/ db'.runs[run[1]] = db.runs[run[1]]
        BY <1>1, <2>2, <3>1, UserRunsStay DEF RunsStay
      <3>3. db'.runs[run[1]] # <<>>
        BY <3>1
      <3> QED BY <2>1, <3>2, <3>3
    <2>3. CASE Loop
      <3>1. db' = db
        BY <2>3 DEF Loop, TakeEvent, FindNoEvent, TakeResult
      <3> QED BY <2>1, <3>1
    <2>4. ASSUME NEW w \in Workers, Work(w) PROVE OwnedBy(w, run)
      BY <1>1, <2>1, <2>4, WorkOfOthers DEF Agree
    <2> QED BY <1>1, <2>2, <2>3, <2>4 DEF Next
  <1>2. TypeInv /\ SafeInv /\ [Next]_vars => [Owned]_vars
    BY <1>1
  <1> QED BY <1>2, OrderlyIsSafe, PTL DEF Spec, OnlyItsWorkerChangesARun

\* What the user does leaves the UI on or ends it.
LEMMA UserKeepsState ==
    ASSUME TypeInv, User
    PROVE  ui'.state \in {ui.state, "on", "off"}
  <1>1. StoreTyped(db) /\ ui \in Ui
    BY DEF TypeInv, TypeOK, StoreTyped
  <1>2. ASSUME NEW d, Exit(d) PROVE ui'.state = "off"
    BY <1>2 DEF Exit, OffUi
  <1>3. ASSUME NEW d, StoreTyped(d), Reload(d) PROVE ui'.state \in {ui.state, "off"}
    <2> DEFINE u == [ui EXCEPT !.drained = FALSE]
    <2>1. u \in Ui /\ u.state = ui.state
      BY <1>1 DEF Ui
    <2>2. ui' = Loaded(u, d) \/ Exit(d)
      BY <1>3 DEF Reload
    <2> HIDE DEF u
    <2> QED BY <1>2, <1>3, <2>1, <2>2, LoadedFacts
  <1>4. NextSession(db) <= MaxSessions =>
           StoreTyped(WithActive(WithNewSession(db), NextSession(db)))
    BY <1>1, ReplacedStays DEF Replaced
  <1>5. ASSUME NEW request \in Requests, StartRun(request) PROVE ui'.state \in {ui.state, "off"}
    <2> DEFINE w == NextRequest
               d == WithActive(WithNewSession(db), NextSession(db))
    <2>1. w \in Workers /\ (SendsHere(w, request) \/ SendsToNewSession(w, request, d) \/ Exit(db))
      BY <1>5, StartRunCases
    <2>2. CASE SendsHere(w, request)
      <3>1. ui' = [Begun(request) EXCEPT !.handle = w]
        BY <2>2 DEF SendsHere
      <3>2. Begun(request) \in Ui /\ Begun(request).state = ui.state
        BY BegunFacts
      <3> HIDE DEF w
      <3> QED BY <3>1, <3>2 DEF Ui
    <2>3. CASE SendsToNewSession(w, request, d)
      <3>1. StoreTyped(d)
        BY <1>4, <2>3 DEF SendsToNewSession
      <3>2. ui' = [Loaded(Begun(request), d) EXCEPT
                      !.messages = Append(@, Msg("User", {request})),
                      !.status = "Running",
                      !.handle = w]
        BY <2>3 DEF SendsToNewSession
      <3> HIDE DEF w, d
      <3> QED BY <2>1, <3>1, <3>2, SentToNewSession
    <2> QED BY <1>2, <2>1, <2>2, <2>3
  <1>6. CASE Submit
    <2>1. NextRequest \in Requests
      BY <1>6, StartRunCases, TuiRunsAssumption DEF Submit, Workers, Requests
    <2> QED BY <1>5, <1>6, <2>1 DEF Submit
  <1>7. CASE Restart
    BY <1>5, <1>7, RetryTargetsType DEF Restart
  <1>8. CASE RequestChanges \/ CancelRun \/ NewSession
    BY <1>1, <1>8 DEF RequestChanges, CancelRun, NewSession, Ui
  <1>9. CASE CreateSession
    BY <1>2, <1>3, <1>4, <1>9 DEF CreateSession
  <1>10. CASE LikeSession \/ Quit
    BY <1>1, <1>2, <1>3, <1>10 DEF LikeSession, Quit
  <1>11. ASSUME NEW s \in SessionIds, SwitchSession(s) PROVE ui'.state \in {ui.state, "off"}
    BY <1>1, <1>2, <1>3, <1>11, SessionRowsTyped DEF SwitchSession
  <1>12. ASSUME NEW s \in SessionIds, DeleteSession(s) PROVE ui'.state \in {ui.state, "off"}
    <2>1. StoreTyped(WithoutSession(db, s))
      BY <1>1, WithoutSessionTyped
    <2>2. NextSession(db) <= MaxSessions => StoreTyped(WithoutSession(Replaced(db), s))
      BY <1>1, ReplacedStays, WithoutSessionTyped
    <2> QED BY <1>2, <1>3, <1>12, <2>1, <2>2 DEF DeleteSession
  <1>13. ASSUME NEW s \in SessionIds, ArchiveSession(s) PROVE ui'.state \in {ui.state, "off"}
    <2> DEFINE d == WithArchived(db, s)
    <2>1. StoreTyped(d)
      BY <1>1, SessionRowsTyped
    <2>2. NextSession(d) = NextSession(db)
      BY <1>1 DEF WithArchived, NextSession, StoreTyped, Store
    <2>3. \/ Reload(d) \/ Exit(d)
          \/ NextSession(d) <= MaxSessions /\ Reload(Replaced(d))
      BY <1>13, <2>2 DEF ArchiveSession
    <2> HIDE DEF d
    <2>4. NextSession(d) <= MaxSessions => StoreTyped(Replaced(d))
      BY <2>1, ReplacedStays
    <2> QED BY <1>2, <1>3, <2>1, <2>3, <2>4
  <1>14. CASE StartUi
    <2> DEFINE u == [OffUi EXCEPT !.state = "on"]
    <2>1. u \in Ui /\ u.state = "on"
      BY EndedTyped DEF OffUi
    <2>2. ui' = Loaded(u, db)
      BY <1>14 DEF StartUi
    <2> HIDE DEF u
    <2> QED BY <1>1, <2>1, <2>2, LoadedFacts
  <1> QED BY <1>6, <1>7, <1>8, <1>9, <1>10, <1>11, <1>12, <1>13, <1>14 DEF User

\* The UI does not stop at a piece of text without a place to show it.
THEOREM TextStopsNothing ==
    ASSUME Orderly
    PROVE  Spec => []UiDoesNotPanic
  <1>1. Init => UiDoesNotPanic
    <2>1. SUFFICES ASSUME Init PROVE ui.state = "on"
      BY DEF UiDoesNotPanic
    <2> DEFINE u == [OffUi EXCEPT !.state = "on"]
    <2>2. ui = Loaded(u, InitialStore)
      BY <2>1 DEF Init
    <2>3. u \in Ui /\ u.state = "on"
      BY EndedTyped DEF OffUi
    <2> HIDE DEF u
    <2> QED BY <2>2, <2>3, InitialStoreTyped, LoadedFacts
  <1>2. TypeInv /\ SafeInv /\ UiDoesNotPanic /\ [Next]_vars => UiDoesNotPanic'
    <2>1. SUFFICES ASSUME TypeInv, SafeInv, ui.state # "panicked", [Next]_vars
                   PROVE  ui'.state # "panicked"
      BY DEF UiDoesNotPanic
    <2>2. CASE User
      BY <2>1, <2>2, UserKeepsState
    <2>3. CASE TakeEvent
      <3> DEFINE event == Head(worker[ui.handle].events)
      <3>1. ui.handle \in Workers /\ worker[ui.handle].events \in Seq(Event)
            /\ worker[ui.handle].events # <<>>
        BY <2>1, <2>3, ListeningFacts DEF TakeEvent, Worker
      <3>2. event \in Event /\ ~Panics(event)
        BY <2>1, <2>3, <3>1, HeadFacts, NeverPanics DEF TakeEvent
      <3>3. ui' = Shown(event)
        BY <2>3, <3>2 DEF TakeEvent
      <3> HIDE DEF event
      <3> QED BY <2>1, <3>1, <3>2, <3>3, ShownFacts
    <2>4. CASE FindNoEvent
      BY <2>1, <2>4 DEF FindNoEvent, TypeInv, TypeOK, Ui
    <2>5. CASE TakeResult
      BY <2>1, <2>5, ResultFacts
    <2>6. ASSUME NEW w \in Workers, Work(w) PROVE ui' = ui
      BY <2>6 DEF Work, ResumeRun, FindNoWaitingRun, CreateRun, RecordRequest, ReceiveText,
                  StreamText, ProposeChange, RecordResponse, CompleteRun, WaitForHumanInput, FailRun,
                  StopCanceled
    <2> QED BY <2>1, <2>2, <2>3, <2>4, <2>5, <2>6 DEF Next, Loop, vars
  <1> QED BY <1>1, <1>2, OrderlyIsSafe, PTL DEF Spec

-----------------------------------------------------------------------------
(***************************************************************************)
(* What the conversation tells of a run.  The invariants, of which those   *)
(* on authors and messages hold as long as nothing is repeated.            *)
(***************************************************************************)
RequestOf(d, run) == d.runs[run[1]][run[2]].request

\* The worker of request w recorded something in this run.
Wrote(d, w, run) ==
    \E i \in DOMAIN d.steps[run] :
        d.steps[run][i].kind # "UserMessage" /\ d.steps[run][i].by = w

\* The workers that have a run, or had one.
Acted == {w \in Workers : worker[w].pc \notin {"unused", "begin", "create"}}

\* A request has one run, and a worker writes to one run.
AuthorsInv(d, acted) ==
    /\ \A run \in RunIds : RunExists(d, run) => RequestOf(d, run) \in acted
    /\ \A run, other \in RunIds :
          /\ RunExists(d, run) /\ RunExists(d, other)
          /\ RequestOf(d, run) = RequestOf(d, other)
          => run = other
    /\ \A w \in Requests, run \in RunIds : Wrote(d, w, run) => w \in acted
    /\ \A w \in Requests, run, other \in RunIds :
          Wrote(d, w, run) /\ Wrote(d, w, other) => run = other

WritesToItsRun(d) ==
    \A w \in Workers, run \in RunIds :
        worker[w].pc \in {"open", "serve", "send"} /\ Wrote(d, w, run) => worker[w].run = run

\* What the user wrote is shown once, and everything else by whom it is.
Asks(w, m) == m \in {Msg("User", {w}), Msg("User", {Feedback(w)})}

Known(m, sent, acted) ==
    IF m.role = "User" THEN \E w \in sent : Asks(w, m) ELSE \E w \in acted : m.of = {w}

ConversationInv(messages, sent, acted) ==
    /\ \A i \in DOMAIN messages : Known(messages[i], sent, acted)
    /\ \A i, j \in DOMAIN messages :
          messages[i].role = "User" /\ messages[i] = messages[j] => i = j

\* Request w is shown, and before all that these workers said.
AskedBy(messages, w, i) == \E j \in 1..i : Asks(w, messages[j])

AskedFirst(messages, w, authors) ==
    /\ \E j \in DOMAIN messages : Asks(w, messages[j])
    /\ \A i \in DOMAIN messages :
          messages[i].role # "User" /\ (\E v \in authors : messages[i].of = {v})
          => AskedBy(messages, w, i)

\* Those of the newest run, and the worker that may have something to say of it.
Authors(d, handle) == {w \in Requests : w = handle \/ Wrote(d, w, NewestRun(d))}

\* A run that is Running and that nobody is listened to for may have no steps yet.
AskedInv ==
    /\ /\ On /\ ~ui.pending /\ ActiveRuns(db) # <<>>
       /\ ui.handle # 0 \/ ~NewestHas(db, "Running")
       => AskedFirst(ui.messages, RequestOf(db, NewestRun(db)), Authors(db, ui.handle))
    /\ ui.handle # 0 => \E j \in DOMAIN ui.messages : Asks(ui.handle, ui.messages[j])

OnceInv ==
    /\ AuthorsInv(db, Acted)
    /\ WritesToItsRun(db)
    /\ ConversationInv(ui.messages, Sent, Acted)
    /\ AskedInv

\* Requests are numbered as they are sent.
SentInv == \E n \in 0..MaxRequests : Sent = 1..n

EndsWith(messages, run) ==
    \E k \in Nat : /\ Len(messages) = k + Len(run)
                  /\ \A p \in 1..Len(run) : messages[k + p] = run[p]

\* The conversation ends with the run that the UI says is over, and a result that
\* is on its way holds that run.
EndsInv ==
    /\ On /\ ui.handle = 0 /\ ~ui.pending /\ ui.status \in {"Completed", "WaitingForHumanInput"}
          => EndsWith(ui.messages, MessagesOf(db.steps[NewestRun(db)]))
    /\ ui.handle # 0 /\ worker[ui.handle].pc = "done" /\ worker[ui.handle].outcome # "Error"
          => worker[ui.handle].result = MessagesOf(db.steps[worker[ui.handle].run])

ToldInv == SentInv /\ EndsInv /\ (NothingIsRepeated => OnceInv)

-----------------------------------------------------------------------------
(***************************************************************************)
(* Where the steps of a run are among those of its session.                *)
(***************************************************************************)
\* What is in front of the n-th sequence.
Before(g, n) == IF n = 1 THEN 0 ELSE Len(g[n - 1])

Through(seqs, g, n) == Before(g, n) + Len(seqs[n])

\* The n-th value: what is in front, and the n-th sequence.
Follows(seqs, g, n) ==
    /\ g[n] = IF n = 1 THEN seqs[n] ELSE g[n - 1] \o seqs[n]
    /\ Len(g[n]) = Through(seqs, g, n)

\* The first k sequences and what they are one behind another have the same
\* elements, each at its place.
Placed(seqs, g, k) ==
    /\ \A n \in 1..k : \A p \in 1..Len(seqs[n]) :
          /\ Before(g, n) + p \in 1..Len(g[k])
          /\ g[k][Before(g, n) + p] = seqs[n][p]
    /\ \A i \in 1..Len(g[k]) : \E n \in 1..k : \E p \in 1..Len(seqs[n]) : i = Before(g, n) + p

\* The values of a flattening, one from the other.
LEMMA FlatteningFacts ==
    ASSUME NEW M, NEW N \in Nat, NEW seqs \in [1..N -> Seq(M)],
           NEW g, Flattening(seqs, g, N), NEW n \in 1..N
    PROVE  /\ seqs[n] \in Seq(M) /\ g[n] \in Seq(M)
           /\ Before(g, n) \in Nat
           /\ Follows(seqs, g, n)
  <1>1. seqs[n] \in Seq(M) /\ g[n] \in Seq(M) /\ Len(seqs[n]) \in Nat
    BY FlatteningType, LenProperties
  <1>2. g[n] = IF n = 1 THEN seqs[n] ELSE g[n - 1] \o seqs[n]
    BY DEF Flattening
  <1>3. CASE n = 1
    BY <1>1, <1>2, <1>3 DEF Before, Follows, Through
  <1>4. CASE n # 1
    <2>1. n - 1 \in 1..N
      BY <1>4
    <2>2. g[n - 1] \in Seq(M) /\ Len(g[n - 1]) \in Nat
      BY <2>1, FlatteningType, LenProperties
    <2>3. g[n] = g[n - 1] \o seqs[n]
      BY <1>2, <1>4
    <2>4. Len(g[n]) = Len(g[n - 1]) + Len(seqs[n])
      BY <1>1, <2>2, <2>3, ConcatProperties
    <2> QED BY <1>1, <1>2, <1>4, <2>2, <2>4 DEF Before, Follows, Through
  <1> QED BY <1>3, <1>4

\* Everything is at its place, however many sequences there are.
LEMMA FlatteningPlaces ==
    ASSUME NEW M, NEW N \in Nat, NEW seqs \in [1..N -> Seq(M)],
           NEW g, Flattening(seqs, g, N), NEW k \in 1..N
    PROVE  Placed(seqs, g, k)
  <1> DEFINE T == {i \in 1..N : ~Placed(seqs, g, i)}
  <1>1. SUFFICES ASSUME T # {} PROVE FALSE
    OBVIOUS
  <1>2. PICK i \in T : \A j \in T : i <= j
    <2>1. T \in SUBSET Nat
      OBVIOUS
    <2> HIDE DEF T
    <2> QED BY <1>1, <2>1, LeastOf
  <1>3. i \in 1..N /\ ~Placed(seqs, g, i)
    BY <1>2
  <1>4. \A n \in 1..N : Before(g, n) \in Nat /\ Len(seqs[n]) \in Nat /\ Len(g[n]) \in Nat
    BY FlatteningFacts, LenProperties
  <1> HIDE DEF T
  <1>5. CASE i = 1
    <2>0. 1 \in 1..N
      BY <1>3, <1>5
    <2>1. g[1] = seqs[1] /\ Before(g, 1) = 0
      <3>1. Follows(seqs, g, 1)
        BY <2>0, FlatteningFacts
      <3> QED BY <3>1 DEF Before, Follows
    <2>2. \A n \in 1..1 : n = 1
      OBVIOUS
    <2>3. \A p \in 1..Len(seqs[1]) : Before(g, 1) + p = p
      BY <2>1
    <2>4. Placed(seqs, g, 1)
      BY <2>1, <2>2, <2>3 DEF Placed
    <2> QED BY <1>3, <1>5, <2>4
  <1>6. CASE i # 1
    <2> DEFINE h == i - 1
    <2>1. h \in 1..N /\ ~(i <= h) /\ \A n \in 1..i : n \in 1..h \/ n = i
      BY <1>3, <1>6
    <2>2. Placed(seqs, g, h)
      BY <1>2, <2>1 DEF T
    <2>3. /\ g[i] = g[h] \o seqs[i] /\ Before(g, i) = Len(g[h])
          /\ g[h] \in Seq(M) /\ seqs[i] \in Seq(M)
      <3>1. Follows(seqs, g, i) /\ g[h] \in Seq(M) /\ seqs[i] \in Seq(M)
        BY <1>3, <2>1, FlatteningFacts
      <3> QED BY <1>6, <3>1 DEF Follows, Before
    <2> HIDE DEF h
    <2>4. /\ Len(g[i]) = Len(g[h]) + Len(seqs[i])
          /\ \A j \in 1..Len(g[h]) : g[i][j] = g[h][j]
          /\ \A p \in 1..Len(seqs[i]) : g[i][Len(g[h]) + p] = seqs[i][p]
      BY <2>3, <1>4, <1>3, <2>1, ConcatProperties
    <2>6. Len(g[h]) \in Nat /\ Len(seqs[i]) \in Nat
      BY <1>3, <1>4, <2>1
    <2>7. ASSUME NEW n \in 1..i, NEW p \in 1..Len(seqs[n])
          PROVE  Before(g, n) + p \in 1..Len(g[i]) /\ g[i][Before(g, n) + p] = seqs[n][p]
      <3>1. CASE n \in 1..h
        <4>1. Before(g, n) + p \in 1..Len(g[h]) /\ g[h][Before(g, n) + p] = seqs[n][p]
          BY <2>2, <3>1 DEF Placed
        <4> DEFINE place == Before(g, n) + p
        <4>2. place \in 1..Len(g[h]) /\ g[h][place] = seqs[n][p]
          BY <4>1
        <4> HIDE DEF place
        <4>3. place \in 1..Len(g[i]) /\ g[i][place] = g[h][place]
          BY <1>3, <2>4, <2>6, <4>2
        <4> QED BY <4>2, <4>3 DEF place
      <3>2. CASE n = i
        <4>1. p \in 1..Len(seqs[i]) /\ Before(g, n) + p = Len(g[h]) + p
          BY <2>3, <3>2
        <4>2. Len(g[h]) + p \in 1..Len(g[i])
          BY <1>3, <2>4, <2>6, <4>1
        <4>3. g[i][Len(g[h]) + p] = seqs[i][p]
          BY <2>4, <4>1
        <4> QED BY <3>2, <4>1, <4>2, <4>3
      <3> QED BY <2>1, <3>1, <3>2
    <2>8. ASSUME NEW j \in 1..Len(g[i])
          PROVE  \E n \in 1..i : \E p \in 1..Len(seqs[n]) : j = Before(g, n) + p
      <3>1. CASE j \in 1..Len(g[h])
        <4>1. PICK n \in 1..h : \E p \in 1..Len(seqs[n]) : j = Before(g, n) + p
          BY <2>2, <3>1 DEF Placed
        <4>2. n \in 1..i
          BY <1>3, <2>1 DEF h
        <4> QED BY <4>1, <4>2
      <3>2. CASE j \notin 1..Len(g[h])
        <4>1. j - Len(g[h]) \in 1..Len(seqs[i]) /\ j = Len(g[h]) + (j - Len(g[h]))
          BY <1>3, <2>4, <2>6, <3>2
        <4>2. i \in 1..i
          BY <1>3
        <4> QED BY <2>3, <4>1, <4>2
      <3> QED BY <3>1, <3>2
    <2> QED BY <1>3, <2>7, <2>8 DEF Placed
  <1> QED BY <1>5, <1>6

\* If nothing follows the k-th sequence, what they are ends with it.
LEMMA FlatteningEnds ==
    ASSUME NEW M, NEW N \in Nat, NEW seqs \in [1..N -> Seq(M)],
           NEW g, Flattening(seqs, g, N), NEW k \in 1..N,
           \A n \in 1..N : n > k => seqs[n] = <<>>
    PROVE  Len(g[N]) = Through(seqs, g, k)
  <1>1. N \in 1..N
    OBVIOUS
  <1>2. Len(g[k]) = Through(seqs, g, k) /\ Len(g[k]) \in Nat /\ Len(g[N]) \in Nat
    <2>1. Follows(seqs, g, k) /\ g[k] \in Seq(M)
      BY FlatteningFacts
    <2>2. g[N] \in Seq(M)
      BY <1>1, FlatteningFacts
    <2> QED BY <2>1, <2>2, LenProperties DEF Follows
  <1>3. Placed(seqs, g, k) /\ Placed(seqs, g, N)
    BY <1>1, FlatteningPlaces
  <1>4. \A n \in 1..N : n \in 1..k \/ Len(seqs[n]) = 0
    <2>1. SUFFICES ASSUME NEW n \in 1..N, n \notin 1..k PROVE Len(seqs[n]) = 0
      OBVIOUS
    <2>2. n > k
      BY <2>1
    <2>3. seqs[n] = <<>>
      BY <2>2
    <2> QED BY <2>3
  <1>5. \A i \in 1..Len(g[N]) : i \in 1..Len(g[k])
    <2>1. SUFFICES ASSUME NEW i \in 1..Len(g[N]) PROVE i \in 1..Len(g[k])
      OBVIOUS
    <2>2. PICK n \in 1..N : \E p \in 1..Len(seqs[n]) : i = Before(g, n) + p
      BY <1>3 DEF Placed
    <2>3. PICK p \in 1..Len(seqs[n]) : i = Before(g, n) + p
      BY <2>2
    <2>4. n \in 1..k
      BY <1>4, <2>3
    <2> QED BY <1>3, <2>3, <2>4 DEF Placed
  <1>6. \A i \in 1..Len(g[k]) : i \in 1..Len(g[N])
    <2>1. SUFFICES ASSUME NEW i \in 1..Len(g[k]) PROVE i \in 1..Len(g[N])
      OBVIOUS
    <2>2. PICK n \in 1..k : \E p \in 1..Len(seqs[n]) : i = Before(g, n) + p
      BY <1>3 DEF Placed
    <2>3. n \in 1..N
      OBVIOUS
    <2> QED BY <1>3, <2>2, <2>3 DEF Placed
  <1>7. Len(g[N]) = Len(g[k])
    <2>1. Len(g[N]) # 0 => Len(g[N]) \in 1..Len(g[k])
      <3>1. Len(g[N]) # 0 => Len(g[N]) \in 1..Len(g[N])
        BY <1>2
      <3> QED BY <1>5, <3>1
    <2>2. Len(g[k]) # 0 => Len(g[k]) \in 1..Len(g[N])
      <3>1. Len(g[k]) # 0 => Len(g[k]) \in 1..Len(g[k])
        BY <1>2
      <3> QED BY <1>6, <3>1
    <2> QED BY <1>2, <2>1, <2>2
  <1> QED BY <1>2, <1>7

\* Sequences one behind another are the last value of a flattening.
LEMMA FlattenSeqIs ==
    ASSUME NEW M, NEW N \in Nat, N # 0, NEW seqs \in [1..N -> Seq(M)]
    PROVE  \E g : Flattening(seqs, g, N) /\ FlattenSeq(seqs) = g[N]
  <1> DEFINE flatten == CHOOSE g : Flattening(seqs, g, N)
  <1>1. seqs \in Seq(Seq(M)) /\ Len(seqs) = N
    BY IsASeq
  <1>2. FlattenSeq(seqs) = flatten[N]
    BY <1>1 DEF FlattenSeq, Flattening
  <1>3. Flattening(seqs, flatten, N)
    BY FlatteningExists
  <1> HIDE DEF flatten
  <1> QED BY <1>2, <1>3

\* A message of a history, at the place of its step.
MessageOf(step) == Msg(RoleOf[step.kind], {step.by})

\* So they are.
LEMMA MessageIs ==
    ASSUME NEW log \in Seq(Step), NEW i \in 1..Len(log)
    PROVE  /\ MessagesOf(log)[i] = MessageOf(log[i])
           /\ log[i] \in Step
           /\ DOMAIN MessagesOf(log) = 1..Len(log) /\ DOMAIN log = 1..Len(log)
  <1>1. DOMAIN log = 1..Len(log)
    BY LenProperties
  <1>2. log[i] \in Step
    BY ElementOfSeq
  <1> QED BY <1>1, <1>2 DEF MessagesOf, MessageOf

\* The messages of a session are those of its runs, run n behind at[n] others.
PlacedRuns(d, s, messages, at) ==
    /\ at \in [1..MaxRuns -> Nat]
    /\ \A n \in 1..MaxRuns : \A p \in 1..Len(d.steps[<<s, n>>]) :
          /\ at[n] + p \in 1..Len(messages)
          /\ messages[at[n] + p] = MessageOf(d.steps[<<s, n>>][p])
    /\ \A i \in 1..Len(messages) : \E n \in 1..MaxRuns : \E p \in 1..Len(d.steps[<<s, n>>]) :
          i = at[n] + p
    /\ \A k \in 1..MaxRuns :
          (\A n \in 1..MaxRuns : n > k => d.steps[<<s, n>>] = <<>>)
          => Len(messages) = at[k] + Len(d.steps[<<s, k>>])

\* So they are for every session.
LEMMA RunsArePlaced ==
    ASSUME NEW d, StoreTyped(d), NEW s \in SessionIds
    PROVE  \E at : PlacedRuns(d, s, MessagesOf(SessionSteps(d, s)), at)
  <1> DEFINE logs == [n \in 1..MaxRuns |-> d.steps[<<s, n>>]]
             all == SessionSteps(d, s)
             messages == MessagesOf(all)
  <1>1. d.steps \in [RunIds -> Seq(Step)]
    BY DEF StoreTyped, Store
  <1>2. \A n \in 1..MaxRuns : <<s, n>> \in RunIds
    BY DEF RunIds
  <1>3. logs \in [1..MaxRuns -> Seq(Step)] /\ MaxRuns \in Nat /\ MaxRuns # 0
    BY <1>1, <1>2, SessionStoreAssumption
  <1>4. all = FlattenSeq(logs) /\ \A n \in 1..MaxRuns : logs[n] = d.steps[<<s, n>>]
    BY DEF SessionSteps
  <1>5. all \in Seq(Step)
    BY SessionStepsType
  <1> HIDE DEF logs, all
  <1>6. PICK g : Flattening(logs, g, MaxRuns) /\ all = g[MaxRuns]
    BY <1>3, <1>4, FlattenSeqIs
  <1>7. MaxRuns \in 1..MaxRuns
    BY <1>3
  <1>8. Placed(logs, g, MaxRuns)
    BY <1>3, <1>6, <1>7, FlatteningPlaces
  <1> DEFINE at == [n \in 1..MaxRuns |-> Before(g, n)]
  <1>9. at \in [1..MaxRuns -> Nat] /\ \A n \in 1..MaxRuns : at[n] = Before(g, n)
    <2>1. \A n \in 1..MaxRuns : Before(g, n) \in Nat
      BY <1>3, <1>6, FlatteningFacts
    <2> QED BY <2>1
  <1> HIDE DEF at
  <1>10. Len(messages) = Len(all)
    BY <1>5, MessagesOfType
  <1>11. \A i \in 1..Len(all) : messages[i] = MessageOf(all[i])
    BY <1>5, MessageIs
  <1> HIDE DEF messages
  <1>12. ASSUME NEW n \in 1..MaxRuns, NEW p \in 1..Len(d.steps[<<s, n>>])
         PROVE  /\ at[n] + p \in 1..Len(messages)
                /\ messages[at[n] + p] = MessageOf(d.steps[<<s, n>>][p])
    <2> DEFINE place == at[n] + p
    <2>1. p \in 1..Len(logs[n])
      BY <1>4, <1>12
    <2>2. place \in 1..Len(all) /\ all[place] = logs[n][p]
      BY <1>6, <1>8, <1>9, <2>1 DEF Placed
    <2> HIDE DEF place
    <2>3. place \in 1..Len(messages) /\ messages[place] = MessageOf(d.steps[<<s, n>>][p])
      BY <1>4, <1>10, <1>11, <2>2
    <2> QED BY <2>3 DEF place
  <1>13. ASSUME NEW i \in 1..Len(messages)
         PROVE  \E n \in 1..MaxRuns : \E p \in 1..Len(d.steps[<<s, n>>]) : i = at[n] + p
    <2>1. PICK n \in 1..MaxRuns : \E p \in 1..Len(logs[n]) : i = Before(g, n) + p
      BY <1>6, <1>8, <1>10 DEF Placed
    <2> QED BY <1>4, <1>9, <2>1
  <1>14. ASSUME NEW k \in 1..MaxRuns, \A n \in 1..MaxRuns : n > k => d.steps[<<s, n>>] = <<>>
         PROVE  Len(messages) = at[k] + Len(d.steps[<<s, k>>])
    <2>1. \A n \in 1..MaxRuns : n > k => logs[n] = <<>>
      BY <1>4, <1>14
    <2>2. Len(g[MaxRuns]) = Through(logs, g, k)
      BY <1>3, <1>6, <2>1, FlatteningEnds
    <2> QED BY <1>4, <1>6, <1>9, <1>10, <2>2 DEF Through
  <1>15. PlacedRuns(d, s, messages, at)
    BY <1>9, <1>12, <1>13, <1>14 DEF PlacedRuns
  <1> QED BY <1>15 DEF messages, all

\* Messages with one name each are told apart by role and name.
LEMMA MsgFacts ==
    /\ \A role, of : Msg(role, of).role = role /\ Msg(role, of).of = of
    /\ \A a, b : Msg("User", {a}) = Msg("User", {b}) => a = b
  <1>1. \A role, of : Msg(role, of).role = role /\ Msg(role, of).of = of
    BY DEF Msg
  <1>2. ASSUME NEW a, NEW b, Msg("User", {a}) = Msg("User", {b}) PROVE a = b
    <2>1. {a} = {b}
      BY <1>1, <1>2
    <2> QED BY <2>1
  <1> QED BY <1>1, <1>2

\* Step p of a run is its request, or names who wrote it.
ShowsRequest(d, run, p) ==
    /\ d.steps[run][p].kind = "UserMessage"
    /\ MessageOf(d.steps[run][p]) = Msg("User", {RequestOf(d, run)})

ShowsText(d, run, p) ==
    \E w \in Requests : /\ MessageOf(d.steps[run][p]).role # "User"
                        /\ MessageOf(d.steps[run][p]).of = {w}
                        /\ Wrote(d, w, run)

\* The first step of a run is its request, and the others name who wrote them.
LEMMA StepsFacts ==
    ASSUME NEW d, StoreTyped(d), StoreInv(d), NEW run \in RunIds, NEW p \in 1..Len(d.steps[run])
    PROVE  /\ RunExists(d, run)
           /\ IF p = 1 THEN ShowsRequest(d, run, p) ELSE ShowsText(d, run, p)
  <1> DEFINE log == d.steps[run]
             step == log[p]
  <1>1. log \in Seq(Step)
    BY DEF StoreTyped, Store
  <1>2. DOMAIN log = 1..Len(log) /\ Len(log) \in Nat /\ step \in Step
    BY <1>1, LenProperties, ElementOfSeq
  <1>3. RunExists(d, run)
    <2>1. Len(log) # 0
      BY <1>2
    <2>2. log # <<>>
      BY <2>1
    <2> QED BY <2>2 DEF StoreInv, RunFits
  <1>4. BeginsWell(d, run)
    <2>1. log # <<>>
      BY <1>2
    <2> QED BY <1>3, <2>1 DEF StoreInv, RunFits, JustCreated
  <1>5. log[1] = [kind |-> "UserMessage", by |-> RequestOf(d, run)]
        /\ \A i \in 2..Len(log) : log[i].kind # "UserMessage"
    BY <1>4 DEF BeginsWell, RequestOf
  <1> HIDE DEF log
  <1>6. CASE p = 1
    <2>1. step.kind = "UserMessage" /\ step.by = RequestOf(d, run)
      BY <1>5, <1>6
    <2>2. MessageOf(step) = Msg("User", {RequestOf(d, run)})
      BY <2>1 DEF MessageOf, RoleOf
    <2> QED BY <1>3, <1>6, <2>1, <2>2 DEF log, ShowsRequest
  <1>7. CASE p # 1
    <2>1. p \in 2..Len(log) /\ p \in DOMAIN log
      BY <1>2, <1>7 DEF log
    <2>2. step.kind # "UserMessage"
      BY <1>5, <2>1
    <2>3. RoleOf[step.kind] # "User" /\ step.by \in Requests
      BY <1>2, <2>2 DEF Step, RoleOf
    <2>4. MessageOf(step).role # "User" /\ MessageOf(step).of = {step.by}
      BY <2>3, MsgFacts DEF MessageOf
    <2>5. Wrote(d, step.by, run)
      BY <2>1, <2>2 DEF Wrote, log
    <2> QED BY <1>3, <1>7, <2>3, <2>4, <2>5 DEF log, ShowsText
  <1> QED BY <1>6, <1>7

\* A run that has steps has a first one.
LEMMA FirstStep ==
    ASSUME NEW d, StoreTyped(d), NEW run \in RunIds, d.steps[run] # <<>>
    PROVE  1 \in 1..Len(d.steps[run])
  <1>1. d.steps[run] \in Seq(Step)
    BY DEF StoreTyped, Store
  <1>2. Len(d.steps[run]) \in Nat /\ Len(d.steps[run]) # 0
    BY <1>1, LenProperties
  <1> QED BY <1>2

\* What a load of the session shows ends with the newest run.
LEMMA LoadedEnds ==
    ASSUME NEW d, StoreTyped(d), StoreInv(d), ActiveRuns(d) # <<>>
    PROVE  EndsWith(MessagesOf(SessionSteps(d, d.active)), MessagesOf(d.steps[NewestRun(d)]))
  <1> DEFINE messages == MessagesOf(SessionSteps(d, d.active))
             k == Len(ActiveRuns(d))
             log == d.steps[NewestRun(d)]
             run == MessagesOf(log)
  <1>1. d.active \in SessionIds /\ k \in 1..MaxRuns /\ NewestRun(d) \in RunIds
        /\ NewestRun(d) = <<d.active, k>>
    BY ActiveRunsFacts DEF NewestRun
  <1>2. PICK at : PlacedRuns(d, d.active, messages, at)
    BY <1>1, RunsArePlaced
  <1> HIDE DEF messages, k
  <1>3. ASSUME NEW n \in 1..MaxRuns, n > k PROVE d.steps[<<d.active, n>>] = <<>>
    <2>1. <<d.active, n>> \in RunIds
      BY <1>1 DEF RunIds
    <2>2. ~RunExists(d, <<d.active, n>>)
      <3> DEFINE R == [request : Requests, status : RunStatus]
      <3>1. ActiveRuns(d) \in Seq(R)
        BY ActiveRunsFacts
      <3> HIDE DEF R
      <3>2. DOMAIN ActiveRuns(d) = 1..k
        BY <3>1, LenProperties DEF k
      <3>3. n \notin 1..k
        BY <1>1, <1>3
      <3> QED BY <3>2, <3>3 DEF RunExists, ActiveRuns
    <2> QED BY <2>1, <2>2 DEF StoreInv, RunFits
  <1>4. Len(messages) = at[k] + Len(log) /\ at[k] \in Nat
    BY <1>1, <1>2, <1>3 DEF PlacedRuns
  <1>5. log \in Seq(Step)
    BY <1>1 DEF StoreTyped, Store
  <1>6. Len(run) = Len(log)
    BY <1>5, MessagesOfType
  <1>7. ASSUME NEW p \in 1..Len(run) PROVE messages[at[k] + p] = run[p]
    <2>1. run[p] = MessageOf(log[p])
      BY <1>5, <1>6, <1>7, MessageIs
    <2>2. messages[at[k] + p] = MessageOf(d.steps[<<d.active, k>>][p])
      BY <1>1, <1>2, <1>6, <1>7 DEF PlacedRuns
    <2> QED BY <1>1, <2>1, <2>2
  <1> HIDE DEF run, log
  <1>8. EndsWith(messages, run)
    BY <1>4, <1>6, <1>7 DEF EndsWith
  <1> QED BY <1>8 DEF messages, run, log

\* Where a message of a loaded session comes from.
CameFrom(d, s, at, messages, i, n, p) ==
    /\ <<s, n>> \in RunIds
    /\ p \in 1..Len(d.steps[<<s, n>>])
    /\ i = at[n] + p
    /\ messages[i] = MessageOf(d.steps[<<s, n>>][p])

\* Every one of them comes from a step of a run.
LEMMA MessagesCame ==
    ASSUME NEW d, NEW s \in SessionIds, NEW messages, NEW at, PlacedRuns(d, s, messages, at),
           NEW i \in 1..Len(messages)
    PROVE  \E n \in 1..MaxRuns : \E p \in Nat : CameFrom(d, s, at, messages, i, n, p)
  <1>1. PICK n \in 1..MaxRuns : \E p \in 1..Len(d.steps[<<s, n>>]) : i = at[n] + p
    BY DEF PlacedRuns
  <1>2. PICK p \in 1..Len(d.steps[<<s, n>>]) : i = at[n] + p
    BY <1>1
  <1>3. messages[at[n] + p] = MessageOf(d.steps[<<s, n>>][p])
    BY DEF PlacedRuns
  <1>4. <<s, n>> \in RunIds /\ p \in Nat
    BY DEF RunIds
  <1> QED BY <1>2, <1>3, <1>4 DEF CameFrom

\* What a load of the session shows is known, and no request is there twice.
LEMMA LoadedConversation ==
    ASSUME NEW d, StoreTyped(d), StoreInv(d), NEW acted, NEW sent, AuthorsInv(d, acted),
           acted \subseteq sent
    PROVE  ConversationInv(MessagesOf(SessionSteps(d, d.active)), sent, acted)
  <1> DEFINE s == d.active
             messages == MessagesOf(SessionSteps(d, s))
  <1>1. s \in SessionIds
    BY ActiveRunsFacts
  <1>2. PICK at : PlacedRuns(d, s, messages, at)
    BY <1>1, RunsArePlaced
  <1>3. DOMAIN messages = 1..Len(messages)
    <2>1. messages \in Seq(Message)
      BY <1>1, SessionStepsType, MessagesOfType
    <2> HIDE DEF messages
    <2> QED BY <2>1, LenProperties
  <1> HIDE DEF messages, s
  <1>4. ASSUME NEW i \in 1..Len(messages), NEW n \in 1..MaxRuns, NEW p \in Nat,
               CameFrom(d, s, at, messages, i, n, p)
        PROVE  /\ RunExists(d, <<s, n>>)
               /\ Known(messages[i], sent, acted)
               /\ messages[i].role = "User" =>
                     p = 1 /\ messages[i] = Msg("User", {RequestOf(d, <<s, n>>)})
    <2> DEFINE run == <<s, n>>
               step == d.steps[run][p]
    <2>1. run \in RunIds /\ p \in 1..Len(d.steps[run]) /\ messages[i] = MessageOf(step)
      BY <1>4 DEF CameFrom
    <2> HIDE DEF run
    <2>2. RunExists(d, run)
      BY <2>1, StepsFacts
    <2>3. CASE p = 1
      <3>0. ShowsRequest(d, run, p)
        BY <2>1, <2>3, StepsFacts
      <3>1. messages[i] = Msg("User", {RequestOf(d, run)})
        BY <2>1, <3>0 DEF ShowsRequest
      <3>2. RequestOf(d, run) \in sent
        BY <2>1, <2>2 DEF AuthorsInv
      <3>3. Known(messages[i], sent, acted)
        BY <3>1, <3>2, MsgFacts DEF Known, Asks
      <3> QED BY <2>2, <2>3, <3>1, <3>3 DEF run
    <2>4. CASE p # 1
      <3>0. ShowsText(d, run, p)
        BY <2>1, <2>4, StepsFacts
      <3>1. PICK w \in Requests : /\ messages[i].role # "User" /\ messages[i].of = {w}
                                  /\ Wrote(d, w, run)
        BY <2>1, <3>0 DEF ShowsText
      <3>2. w \in acted
        BY <2>1, <3>1 DEF AuthorsInv
      <3>3. Known(messages[i], sent, acted)
        BY <3>1, <3>2 DEF Known
      <3> QED BY <2>2, <3>1, <3>3 DEF run
    <2> QED BY <2>3, <2>4
  <1>5. ASSUME NEW i \in 1..Len(messages) PROVE Known(messages[i], sent, acted)
    <2>1. PICK n \in 1..MaxRuns : \E p \in Nat : CameFrom(d, s, at, messages, i, n, p)
      BY <1>1, <1>2, MessagesCame
    <2> QED BY <1>4, <2>1
  <1>6. ASSUME NEW i \in 1..Len(messages), NEW j \in 1..Len(messages),
               messages[i].role = "User", messages[i] = messages[j]
        PROVE  i = j
    <2>1. PICK n \in 1..MaxRuns, p \in Nat : CameFrom(d, s, at, messages, i, n, p)
      BY <1>1, <1>2, MessagesCame
    <2>2. PICK m \in 1..MaxRuns, q \in Nat : CameFrom(d, s, at, messages, j, m, q)
      BY <1>1, <1>2, MessagesCame
    <2>3. /\ p = 1 /\ q = 1 /\ RunExists(d, <<s, n>>) /\ RunExists(d, <<s, m>>)
          /\ messages[i] = Msg("User", {RequestOf(d, <<s, n>>)})
          /\ messages[j] = Msg("User", {RequestOf(d, <<s, m>>)})
      BY <1>4, <1>6, <2>1, <2>2
    <2>4. RequestOf(d, <<s, n>>) = RequestOf(d, <<s, m>>)
      BY <1>6, <2>3, MsgFacts
    <2>5. <<s, n>> = <<s, m>>
      BY <2>1, <2>2, <2>3, <2>4 DEF AuthorsInv, CameFrom
    <2>6. n = m
      BY <2>5
    <2> QED BY <2>1, <2>2, <2>3, <2>6 DEF CameFrom
  <1>7. ConversationInv(messages, sent, acted)
    BY <1>3, <1>5, <1>6 DEF ConversationInv
  <1> QED BY <1>7 DEF messages, s

\* It shows the request of the newest run before what was said in that run.
LEMMA LoadedAsked ==
    ASSUME NEW d, StoreTyped(d), StoreInv(d), NEW acted, AuthorsInv(d, acted),
           ActiveRuns(d) # <<>>, ~NewestHas(d, "Running")
    PROVE  AskedFirst(MessagesOf(SessionSteps(d, d.active)), RequestOf(d, NewestRun(d)),
                      Authors(d, 0))
  <1> DEFINE s == d.active
             messages == MessagesOf(SessionSteps(d, s))
             k == Len(ActiveRuns(d))
             run == <<s, k>>
             w == RequestOf(d, run)
  <1>1. s \in SessionIds /\ k \in 1..MaxRuns /\ run = NewestRun(d) /\ run \in RunIds
        /\ RunExists(d, run)
    BY ActiveRunsFacts DEF NewestRun
  <1>2. PICK at : PlacedRuns(d, s, messages, at)
    BY <1>1, RunsArePlaced
  <1>3. DOMAIN messages = 1..Len(messages)
    <2>1. messages \in Seq(Message)
      BY <1>1, SessionStepsType, MessagesOfType
    <2> HIDE DEF messages
    <2> QED BY <2>1, LenProperties
  <1> HIDE DEF messages, w
  <1> DEFINE first == at[k] + 1
  <1>4. first \in 1..Len(messages) /\ Asks(w, messages[first])
    <2>1. 1 \in 1..Len(d.steps[run])
      <3>1. d.steps[run] # <<>>
        BY <1>1, NewestHasSteps
      <3> QED BY <1>1, <3>1, FirstStep
    <2>2. MessageOf(d.steps[run][1]) = Msg("User", {w})
      <3>1. ShowsRequest(d, run, 1)
        BY <1>1, <2>1, StepsFacts
      <3> QED BY <3>1 DEF ShowsRequest, w
    <2>3. first \in 1..Len(messages) /\ messages[first] = MessageOf(d.steps[run][1])
      BY <1>1, <1>2, <2>1 DEF PlacedRuns
    <2> HIDE DEF first
    <2> QED BY <2>2, <2>3 DEF Asks
  <1>5. ASSUME NEW i \in 1..Len(messages), NEW v \in Authors(d, 0),
               messages[i].role # "User", messages[i].of = {v}
        PROVE  AskedBy(messages, w, i)
    <2>1. Wrote(d, v, run) /\ v \in Requests
      <3>1. 0 \notin Requests
        BY DEF Requests
      <3> QED BY <1>1, <3>1 DEF Authors
    <2>2. PICK n \in 1..MaxRuns, p \in Nat : CameFrom(d, s, at, messages, i, n, p)
      BY <1>1, <1>2, MessagesCame
    <2> DEFINE other == <<s, n>>
               step == d.steps[other][p]
    <2>3. other \in RunIds /\ p \in 1..Len(d.steps[other]) /\ i = at[n] + p
          /\ messages[i] = MessageOf(step)
      BY <2>2 DEF CameFrom
    <2>4. IF p = 1 THEN ShowsRequest(d, other, p) ELSE ShowsText(d, other, p)
      <3> HIDE DEF other
      <3> QED BY <2>3, StepsFacts
    <2> HIDE DEF other
    <2>5. CASE p = 1
      <3>1. messages[i] = Msg("User", {RequestOf(d, other)})
        BY <2>3, <2>4, <2>5 DEF ShowsRequest
      <3> QED BY <1>5, <3>1, MsgFacts
    <2>6. CASE p # 1
      <3>1. PICK u \in Requests : messages[i].of = {u} /\ Wrote(d, u, other)
        BY <2>3, <2>4, <2>6 DEF ShowsText
      <3>2. u = v
        BY <1>5, <3>1
      <3>3. other = run
        BY <1>1, <2>1, <2>3, <3>1, <3>2 DEF AuthorsInv
      <3>4. n = k /\ at[k] \in Nat
        BY <1>1, <1>2, <3>3 DEF PlacedRuns, other
      <3>5. first \in 1..i
        BY <2>2, <2>3, <3>4
      <3> HIDE DEF first
      <3> QED BY <1>4, <3>5 DEF AskedBy
    <2> QED BY <2>5, <2>6
  <1>6. AskedFirst(messages, w, Authors(d, 0))
    BY <1>3, <1>4, <1>5 DEF AskedFirst
  <1> QED BY <1>1, <1>6 DEF messages, w

-----------------------------------------------------------------------------
(***************************************************************************)
(* What becomes of a conversation: messages are appended to it, one is     *)
(* taken out of it, and its end is replaced by a run.                      *)
(***************************************************************************)
\* The places of a longer conversation.
LEMMA AppendPlaces ==
    ASSUME NEW messages \in Seq(Message), NEW m \in Message
    PROVE  /\ Append(messages, m) \in Seq(Message)
           /\ Len(messages) \in Nat
           /\ DOMAIN messages = 1..Len(messages)
           /\ DOMAIN Append(messages, m) = 1..(Len(messages) + 1)
           /\ Append(messages, m)[Len(messages) + 1] = m
           /\ \A i \in 1..Len(messages) : Append(messages, m)[i] = messages[i]
           /\ \A i \in 1..(Len(messages) + 1) : i \in 1..Len(messages) \/ i = Len(messages) + 1
  BY AppendProperties, LenProperties

\* What is known stays known.
LEMMA KnownStays ==
    ASSUME NEW m, NEW sent, NEW acted, NEW sent2, NEW acted2,
           Known(m, sent, acted), sent \subseteq sent2, acted \subseteq acted2
    PROVE  Known(m, sent2, acted2)
  BY DEF Known

\* So a conversation stays what it is while requests are sent and workers act.
LEMMA ConversationStays ==
    ASSUME NEW messages, NEW sent, NEW acted, NEW sent2, NEW acted2,
           ConversationInv(messages, sent, acted), sent \subseteq sent2, acted \subseteq acted2
    PROVE  ConversationInv(messages, sent2, acted2)
  BY KnownStays DEF ConversationInv

\* A message is appended that is no request shown before.
LEMMA AppendConversation ==
    ASSUME NEW messages \in Seq(Message), NEW m \in Message,
           NEW sent, NEW acted, NEW sent2, NEW acted2,
           ConversationInv(messages, sent, acted), sent \subseteq sent2, acted \subseteq acted2,
           Known(m, sent2, acted2),
           m.role = "User" => \A i \in DOMAIN messages : messages[i] # m
    PROVE  ConversationInv(Append(messages, m), sent2, acted2)
  <1> DEFINE longer == Append(messages, m)
             n == Len(messages)
  <1>1. /\ DOMAIN longer = 1..(n + 1) /\ longer[n + 1] = m /\ DOMAIN messages = 1..n
        /\ \A i \in 1..n : longer[i] = messages[i]
        /\ \A i \in 1..(n + 1) : i \in 1..n \/ i = n + 1
    BY AppendPlaces
  <1> HIDE DEF longer, n
  <1>2. \A i \in 1..n : Known(messages[i], sent2, acted2)
    BY <1>1, KnownStays DEF ConversationInv
  <1>3. \A i \in 1..(n + 1) : Known(longer[i], sent2, acted2)
    BY <1>1, <1>2
  <1>4. \A i, j \in 1..n : messages[i].role = "User" /\ messages[i] = messages[j] => i = j
    BY <1>1 DEF ConversationInv
  <1>5. \A i \in 1..n : m.role = "User" => messages[i] # m
    BY <1>1
  <1>6. \A i, j \in 1..(n + 1) : longer[i].role = "User" /\ longer[i] = longer[j] => i = j
    BY <1>1, <1>4, <1>5
  <1> QED BY <1>1, <1>3, <1>6 DEF ConversationInv, longer

\* Whatever is appended comes after the request.
LEMMA AppendAsked ==
    ASSUME NEW messages \in Seq(Message), NEW m \in Message
    PROVE  /\ \A w : (\E j \in DOMAIN messages : Asks(w, messages[j]))
                     => \E j \in DOMAIN Append(messages, m) : Asks(w, Append(messages, m)[j])
           /\ \A w : Asks(w, m)
                     => \E j \in DOMAIN Append(messages, m) : Asks(w, Append(messages, m)[j])
           /\ \A w, authors : AskedFirst(messages, w, authors)
                     => AskedFirst(Append(messages, m), w, authors)
  <1> DEFINE longer == Append(messages, m)
             n == Len(messages)
  <1>1. /\ DOMAIN longer = 1..(n + 1) /\ longer[n + 1] = m /\ DOMAIN messages = 1..n
        /\ \A i \in 1..n : longer[i] = messages[i]
        /\ \A i \in 1..(n + 1) : i \in 1..n \/ i = n + 1
        /\ n \in Nat
    BY AppendPlaces
  <1>2. n + 1 \in 1..(n + 1) /\ \A i \in 1..n : i \in 1..(n + 1)
    BY <1>1
  <1> HIDE DEF longer, n
  <1>3. ASSUME NEW w, NEW j \in DOMAIN messages, Asks(w, messages[j])
        PROVE  j \in DOMAIN longer /\ Asks(w, longer[j])
    BY <1>1, <1>2, <1>3
  <1>4. ASSUME NEW w, NEW authors, AskedFirst(messages, w, authors)
        PROVE  AskedFirst(longer, w, authors)
    <2>1. PICK j \in DOMAIN messages : Asks(w, messages[j])
      BY <1>4 DEF AskedFirst
    <2>2. j \in 1..n /\ j \in DOMAIN longer /\ Asks(w, longer[j])
      BY <1>1, <1>3, <2>1
    <2>3. ASSUME NEW i \in DOMAIN longer, longer[i].role # "User",
                 \E v \in authors : longer[i].of = {v}
          PROVE  AskedBy(longer, w, i)
      <3>1. CASE i \in 1..n
        <4>1. messages[i].role # "User" /\ \E v \in authors : messages[i].of = {v}
          BY <1>1, <2>3, <3>1
        <4>2. AskedBy(messages, w, i)
          BY <1>1, <1>4, <3>1, <4>1 DEF AskedFirst
        <4>3. PICK k \in 1..i : Asks(w, messages[k])
          BY <4>2 DEF AskedBy
        <4>4. k \in 1..n
          BY <1>1, <3>1
        <4>5. Asks(w, longer[k])
          BY <1>1, <4>3, <4>4
        <4> QED BY <4>3, <4>5 DEF AskedBy
      <3>2. CASE i = n + 1
        <4>1. j \in 1..i
          BY <1>1, <2>2, <3>2
        <4> QED BY <2>2, <4>1 DEF AskedBy
      <3> QED BY <1>1, <2>3, <3>1, <3>2
    <2> QED BY <2>2, <2>3 DEF AskedFirst
  <1>5. \A w : Asks(w, m) => \E j \in DOMAIN longer : Asks(w, longer[j])
    BY <1>1, <1>2
  <1> QED BY <1>3, <1>4, <1>5 DEF longer

\* Those who say less are asked before as well.
LEMMA AskedOfFewer ==
    ASSUME NEW messages, NEW w, NEW authors, NEW fewer, AskedFirst(messages, w, authors),
           fewer \subseteq authors
    PROVE  AskedFirst(messages, w, fewer)
  BY DEF AskedFirst

\* A sequence and another one behind it.
Joins(all, front, back) ==
    /\ Len(all) = Len(front) + Len(back)
    /\ \A i \in 1..Len(front) : all[i] = front[i]
    /\ \A p \in 1..Len(back) : all[Len(front) + p] = back[p]

\* The places of both.
LEMMA JoinPlaces ==
    ASSUME NEW M, NEW front \in Seq(M), NEW back \in Seq(M)
    PROVE  front \o back \in Seq(M) /\ Joins(front \o back, front, back)
  <1> DEFINE all == front \o back
             n == Len(front)
             m == Len(back)
  <1>1. /\ all \in Seq(M) /\ Len(all) = n + m
        /\ \A i \in 1..(n + m) : all[i] = IF i <= n THEN front[i] ELSE back[i - n]
    BY ConcatProperties
  <1>2. n \in Nat /\ m \in Nat
    BY LenProperties
  <1> HIDE DEF all, n, m
  <1>3. \A i \in 1..n : all[i] = front[i]
    BY <1>1, <1>2
  <1>4. ASSUME NEW p \in 1..m PROVE all[n + p] = back[p]
    <2> DEFINE i == n + p
    <2>1. i \in 1..(n + m) /\ ~(i <= n) /\ i - n = p
      BY <1>2
    <2> HIDE DEF i
    <2>2. all[i] = back[p]
      BY <1>1, <2>1
    <2> QED BY <2>2 DEF i
  <1> QED BY <1>1, <1>3, <1>4 DEF Joins, all, n, m

\* The places of a conversation without one of its messages.
RemovedAt(i, place) == IF i < place THEN i ELSE i + 1

\* They are those of the conversation, but for that one, in the same order.
LEMMA RemovePlaces ==
    ASSUME NEW messages \in Seq(Message), NEW place \in DOMAIN messages
    PROVE  /\ RemoveAt(messages, place) \in Seq(Message)
           /\ DOMAIN RemoveAt(messages, place) = 1..(Len(messages) - 1)
           /\ \A i \in 1..(Len(messages) - 1) :
                 /\ RemovedAt(i, place) \in 1..Len(messages)
                 /\ RemoveAt(messages, place)[i] = messages[RemovedAt(i, place)]
           /\ \A i \in 1..Len(messages) : i # place =>
                 \E j \in 1..(Len(messages) - 1) : i = RemovedAt(j, place)
           /\ \A i, j \in 1..(Len(messages) - 1) :
                 /\ RemovedAt(i, place) = RemovedAt(j, place) => i = j
                 /\ RemovedAt(i, place) <= RemovedAt(j, place) => i <= j
  <1> DEFINE n == Len(messages)
             front == SubSeq(messages, 1, place - 1)
             back == SubSeq(messages, place + 1, n)
             kept == front \o back
  <1>1. n \in Nat /\ place \in 1..n /\ DOMAIN messages = 1..n
    BY LenProperties
  <1>2. /\ front \in Seq(Message) /\ Len(front) = place - 1
        /\ \A i \in 1..(place - 1) : front[i] = messages[i]
    BY <1>1, SubSeqProperties
  <1>3. /\ back \in Seq(Message) /\ Len(back) = n - place
        /\ \A i \in 1..(n - place) : back[i] = messages[place + i]
    <2>1. back \in Seq(Message)
      BY <1>1
    <2>2. Len(back) = n - place
      BY <1>1
    <2>3. \A i \in 1..(n - place) : back[i] = messages[place + i]
      BY <1>1
    <2> QED BY <2>1, <2>2, <2>3
  <1> HIDE DEF front, back, n
  <1>4. /\ kept \in Seq(Message) /\ Len(kept) = n - 1
        /\ \A i \in 1..(place - 1) : kept[i] = front[i]
        /\ \A i \in 1..(n - place) : kept[(place - 1) + i] = back[i]
    <2>1. kept \in Seq(Message) /\ Joins(kept, front, back)
      <3> DEFINE M == Message
      <3>1. front \in Seq(M) /\ back \in Seq(M)
        BY <1>2, <1>3
      <3> HIDE DEF M
      <3>2. kept \in Seq(M) /\ Joins(kept, front, back)
        BY <3>1, JoinPlaces
      <3> QED BY <3>2 DEF M
    <2> HIDE DEF kept
    <2>2. Len(kept) = n - 1
      BY <1>1, <1>2, <1>3, <2>1 DEF Joins
    <2> QED BY <1>2, <1>3, <2>1, <2>2 DEF Joins
  <1>5. RemoveAt(messages, place) = kept
    BY DEF RemoveAt, front, back, n
  <1> HIDE DEF kept
  <1>6. ASSUME NEW i \in 1..(n - 1)
        PROVE  RemovedAt(i, place) \in 1..n /\ kept[i] = messages[RemovedAt(i, place)]
    <2>1. CASE i < place
      <3>1. i \in 1..(place - 1)
        BY <1>1, <2>1
      <3> QED BY <1>1, <1>2, <1>4, <2>1, <3>1 DEF RemovedAt
    <2>2. CASE ~(i < place)
      <3> DEFINE j == i - (place - 1)
      <3>1. j \in 1..(n - place) /\ i = (place - 1) + j /\ place + j = i + 1
        BY <1>1, <2>2
      <3> HIDE DEF j
      <3>2. kept[i] = messages[i + 1]
        BY <1>3, <1>4, <3>1
      <3> QED BY <1>1, <2>2, <3>2 DEF RemovedAt
    <2> QED BY <2>1, <2>2
  <1>7. ASSUME NEW i \in 1..n, i # place
        PROVE  \E j \in 1..(n - 1) : i = RemovedAt(j, place)
    <2>1. CASE i < place
      <3>1. i \in 1..(n - 1)
        BY <1>1, <2>1
      <3> QED BY <2>1, <3>1 DEF RemovedAt
    <2>2. CASE ~(i < place)
      <3>1. i - 1 \in 1..(n - 1) /\ ~(i - 1 < place) /\ i = (i - 1) + 1
        BY <1>1, <1>7, <2>2
      <3> QED BY <3>1 DEF RemovedAt
    <2> QED BY <2>1, <2>2
  <1>8. \A i, j \in 1..(n - 1) :
           /\ RemovedAt(i, place) = RemovedAt(j, place) => i = j
           /\ RemovedAt(i, place) <= RemovedAt(j, place) => i <= j
    BY <1>1 DEF RemovedAt
  <1>9. DOMAIN kept = 1..(n - 1)
    BY <1>4, LenProperties
  <1> QED BY <1>4, <1>5, <1>6, <1>7, <1>8, <1>9 DEF n

\* A message that is no request is taken out.
LEMMA RemoveConversation ==
    ASSUME NEW messages \in Seq(Message), NEW place \in DOMAIN messages,
           messages[place].role # "User"
    PROVE  /\ \A sent, acted : ConversationInv(messages, sent, acted)
                               => ConversationInv(RemoveAt(messages, place), sent, acted)
           /\ \A w, authors : AskedFirst(messages, w, authors)
                              => AskedFirst(RemoveAt(messages, place), w, authors)
  <1> DEFINE kept == RemoveAt(messages, place)
             n == Len(messages)
  <1>1. /\ DOMAIN messages = 1..n /\ n \in Nat
        /\ DOMAIN kept = 1..(n - 1)
        /\ \A i \in 1..(n - 1) : /\ RemovedAt(i, place) \in 1..n
                                 /\ kept[i] = messages[RemovedAt(i, place)]
        /\ \A i \in 1..n : i # place => \E j \in 1..(n - 1) : i = RemovedAt(j, place)
        /\ \A i, j \in 1..(n - 1) :
              /\ RemovedAt(i, place) = RemovedAt(j, place) => i = j
              /\ RemovedAt(i, place) <= RemovedAt(j, place) => i <= j
    BY RemovePlaces, LenProperties
  <1> HIDE DEF kept, n
  <1>2. ASSUME NEW sent, NEW acted, ConversationInv(messages, sent, acted)
        PROVE  ConversationInv(kept, sent, acted)
    <2>1. \A i \in DOMAIN kept : Known(kept[i], sent, acted)
      BY <1>1, <1>2 DEF ConversationInv
    <2>2. ASSUME NEW i \in DOMAIN kept, NEW j \in DOMAIN kept,
                 kept[i].role = "User", kept[i] = kept[j]
          PROVE  i = j
      <3>1. RemovedAt(i, place) = RemovedAt(j, place)
        BY <1>1, <1>2, <2>2 DEF ConversationInv
      <3> QED BY <1>1, <3>1
    <2> QED BY <2>1, <2>2 DEF ConversationInv
  <1>3. ASSUME NEW w, NEW j \in DOMAIN messages, Asks(w, messages[j])
        PROVE  \E i \in DOMAIN kept : j = RemovedAt(i, place) /\ Asks(w, kept[i])
    <2>1. j # place
      BY <1>3, MsgFacts DEF Asks
    <2>2. PICK i \in 1..(n - 1) : j = RemovedAt(i, place)
      BY <1>1, <2>1
    <2> QED BY <1>1, <1>3, <2>2
  <1>4. ASSUME NEW w, NEW authors, AskedFirst(messages, w, authors)
        PROVE  AskedFirst(kept, w, authors)
    <2>1. PICK j \in DOMAIN messages : Asks(w, messages[j])
      BY <1>4 DEF AskedFirst
    <2>2. \E i \in DOMAIN kept : Asks(w, kept[i])
      BY <1>3, <2>1
    <2>3. ASSUME NEW i \in DOMAIN kept, kept[i].role # "User",
                 \E v \in authors : kept[i].of = {v}
          PROVE  AskedBy(kept, w, i)
      <3> DEFINE at == RemovedAt(i, place)
      <3>1. at \in DOMAIN messages /\ kept[i] = messages[at]
        BY <1>1
      <3>2. AskedBy(messages, w, at)
        BY <1>4, <2>3, <3>1 DEF AskedFirst
      <3>3. PICK k \in 1..at : Asks(w, messages[k])
        BY <3>2 DEF AskedBy
      <3>4. k \in DOMAIN messages /\ at \in 1..n
        BY <1>1, <3>1
      <3>5. PICK h \in DOMAIN kept : k = RemovedAt(h, place) /\ Asks(w, kept[h])
        BY <1>3, <3>3, <3>4
      <3>6. RemovedAt(h, place) <= RemovedAt(i, place)
        BY <3>3, <3>4, <3>5
      <3>7. h <= i
        BY <1>1, <2>3, <3>5, <3>6
      <3>8. h \in 1..i
        BY <1>1, <2>3, <3>5, <3>7
      <3> QED BY <3>5, <3>8 DEF AskedBy
    <2> QED BY <2>2, <2>3 DEF AskedFirst
  <1> QED BY <1>2, <1>4 DEF kept

\* Only the first message of a run is a request.
Begins(run) ==
    /\ 1 \in DOMAIN run
    /\ \A p \in DOMAIN run : run[p].role = "User" <=> p = 1

\* The first base messages, and behind them the run.
MergesAt(all, messages, run, base) ==
    /\ base \in 0..Len(messages)
    /\ DOMAIN all = 1..(base + Len(run)) /\ Len(all) = base + Len(run)
    /\ \A i \in 1..base : all[i] = messages[i]
    /\ \A p \in 1..Len(run) : all[base + p] = run[p]

Unlike(messages, m, base) == \A i \in 1..base : messages[i] # m

\* That is what merge_run_messages makes, and the request of the run is not among
\* the first messages, when no request is shown twice.
LEMMA MergedPlaces ==
    ASSUME NEW messages \in Seq(Message), NEW run \in Seq(Message), Begins(run)
    PROVE  \E base \in Nat :
              /\ MergesAt(Merged(messages, run), messages, run, base)
              /\ (\A i, j \in DOMAIN messages :
                     messages[i].role = "User" /\ messages[i] = messages[j] => i = j)
                 => Unlike(messages, run[1], base)
  <1> DEFINE asked == {i \in DOMAIN run : run[i].role = "User"}
             least == CHOOSE i \in asked : \A j \in asked : i <= j
             same  == {i \in DOMAIN messages : asked # {} /\ messages[i] = run[least]}
             last  == CHOOSE i \in same : \A j \in same : i >= j
             base  == IF same = {} THEN Len(messages) ELSE last - 1
             front == SubSeq(messages, 1, base)
             n == Len(messages)
  <1>1. Merged(messages, run) = front \o run
    BY DEF Merged
  <1>2. asked = {1} /\ run[1].role = "User"
    BY DEF Begins
  <1>3. least = 1
    BY <1>2
  <1>4. n \in Nat /\ DOMAIN messages = 1..n /\ Len(run) \in Nat
    BY LenProperties
  <1>5. same = {i \in 1..n : messages[i] = run[1]}
    BY <1>2, <1>3, <1>4
  <1> HIDE DEF asked, least, same
  <1>6. same # {} => last \in same
    <2> SUFFICES ASSUME same # {} PROVE last \in same
      OBVIOUS
    <2>1. same \in SUBSET (1..n)
      BY <1>5
    <2>2. PICK m \in same : \A k \in same : k <= m
      BY <1>4, <2>1, LastOf
    <2>3. \A j \in same : m >= j
      BY <2>1, <2>2
    <2> QED BY <2>3
  <1> HIDE DEF last
  <1>7. base \in 0..n
    BY <1>4, <1>5, <1>6
  <1>8. (\A i, j \in DOMAIN messages :
            messages[i].role = "User" /\ messages[i] = messages[j] => i = j)
        => Unlike(messages, run[1], base)
    <2> SUFFICES ASSUME \A i, j \in 1..n :
                           messages[i].role = "User" /\ messages[i] = messages[j] => i = j,
                        NEW i \in 1..base
                 PROVE  messages[i] # run[1]
      BY <1>4 DEF Unlike
    <2>1. i \in 1..n
      BY <1>4, <1>7
    <2>2. CASE same = {}
      BY <1>5, <2>1, <2>2
    <2>3. CASE same # {}
      <3>1. last \in 1..n /\ messages[last] = run[1] /\ base = last - 1
        BY <1>5, <1>6, <2>3
      <3>2. i # last
        BY <1>4, <3>1
      <3> QED BY <1>2, <2>1, <3>1, <3>2
    <2> QED BY <2>2, <2>3
  <1> HIDE DEF base
  <1>9. front \in Seq(Message) /\ Len(front) = base /\ \A i \in 1..base : front[i] = messages[i]
    BY <1>4, <1>7, SubSeqProperties
  <1> HIDE DEF front
  <1>10. Joins(front \o run, front, run) /\ front \o run \in Seq(Message)
    <2> DEFINE M == Message
    <2>1. front \in Seq(M) /\ run \in Seq(M)
      BY <1>9
    <2> HIDE DEF M
    <2>2. front \o run \in Seq(M) /\ Joins(front \o run, front, run)
      BY <2>1, JoinPlaces
    <2> QED BY <2>2 DEF M
  <1> DEFINE all == Merged(messages, run)
  <1>11. Joins(all, front, run) /\ all \in Seq(Message)
    BY <1>1, <1>10
  <1> HIDE DEF all
  <1>12. DOMAIN all = 1..Len(all)
    BY <1>11, LenProperties
  <1>13. MergesAt(all, messages, run, base)
    BY <1>7, <1>9, <1>11, <1>12 DEF MergesAt, Joins, n
  <1> QED BY <1>4, <1>7, <1>8, <1>13 DEF all

\* The conversation ends with the run.
LEMMA MergedEnds ==
    ASSUME NEW messages \in Seq(Message), NEW run \in Seq(Message), Begins(run)
    PROVE  EndsWith(Merged(messages, run), run)
  <1>1. PICK base \in Nat : MergesAt(Merged(messages, run), messages, run, base)
    BY MergedPlaces
  <1> QED BY <1>1 DEF EndsWith, MergesAt

\* The places of the conversation and those of the run.
LEMMA MergedFrom ==
    ASSUME NEW all, NEW messages, NEW run, NEW base \in Nat, Len(run) \in Nat,
           MergesAt(all, messages, run, base), NEW i \in DOMAIN all
    PROVE  i \in 1..base \/ \E p \in 1..Len(run) : i = base + p
  <1>1. CASE i <= base
    BY <1>1 DEF MergesAt
  <1>2. CASE ~(i <= base)
    <2>1. i - base \in 1..Len(run) /\ i = base + (i - base)
      BY <1>2 DEF MergesAt
    <2> QED BY <2>1
  <1> QED BY <1>1, <1>2

\* No request is there twice, and what the run tells is known.
LEMMA MergedConversation ==
    ASSUME NEW messages \in Seq(Message), NEW run \in Seq(Message), Begins(run),
           NEW sent, NEW acted, ConversationInv(messages, sent, acted),
           \A p \in DOMAIN run : Known(run[p], sent, acted)
    PROVE  ConversationInv(Merged(messages, run), sent, acted)
  <1> DEFINE all == Merged(messages, run)
  <1>1. PICK base \in Nat : MergesAt(all, messages, run, base) /\ Unlike(messages, run[1], base)
    BY MergedPlaces DEF ConversationInv
  <1>2. DOMAIN messages = 1..Len(messages) /\ Len(messages) \in Nat
        /\ DOMAIN run = 1..Len(run) /\ Len(run) \in Nat
    BY LenProperties
  <1> HIDE DEF all
  <1>3. \A i \in 1..base : i \in DOMAIN messages /\ all[i] = messages[i]
    BY <1>1, <1>2 DEF MergesAt
  <1>4. \A p \in 1..Len(run) : all[base + p] = run[p] /\ p \in DOMAIN run
    BY <1>1, <1>2 DEF MergesAt
  <1>5. ASSUME NEW i \in DOMAIN all PROVE Known(all[i], sent, acted)
    <2>1. CASE i \in 1..base
      BY <1>3, <2>1 DEF ConversationInv
    <2>2. CASE \E p \in 1..Len(run) : i = base + p
      BY <1>4, <2>2
    <2> QED BY <1>1, <1>2, <1>5, <2>1, <2>2, MergedFrom
  <1>6. ASSUME NEW i \in DOMAIN all, i \notin 1..base, all[i].role = "User"
        PROVE  i = base + 1 /\ all[i] = run[1]
    <2>1. PICK p \in 1..Len(run) : i = base + p
      BY <1>1, <1>2, <1>6, MergedFrom
    <2>2. all[i] = run[p]
      BY <1>4, <2>1
    <2>3. p = 1
      BY <1>4, <1>6, <2>2 DEF Begins
    <2> QED BY <2>1, <2>2, <2>3
  <1>7. ASSUME NEW i \in DOMAIN all, NEW j \in DOMAIN all, all[i].role = "User", all[i] = all[j]
        PROVE  i = j
    <2>1. CASE i \in 1..base /\ j \in 1..base
      BY <1>3, <1>7, <2>1 DEF ConversationInv
    <2>2. CASE i \in 1..base /\ j \notin 1..base
      BY <1>1, <1>3, <1>6, <1>7, <2>2 DEF Unlike
    <2>3. CASE i \notin 1..base /\ j \in 1..base
      BY <1>1, <1>3, <1>6, <1>7, <2>3 DEF Unlike
    <2>4. CASE i \notin 1..base /\ j \notin 1..base
      BY <1>6, <1>7, <2>4
    <2> QED BY <2>1, <2>2, <2>3, <2>4
  <1> QED BY <1>5, <1>7 DEF ConversationInv, all

\* The request of the run comes before the rest of it.
LEMMA MergedAsked ==
    ASSUME NEW messages \in Seq(Message), NEW run \in Seq(Message), Begins(run),
           NEW w, NEW authors, AskedFirst(messages, w, authors), Asks(w, run[1])
    PROVE  AskedFirst(Merged(messages, run), w, authors)
  <1> DEFINE all == Merged(messages, run)
  <1>1. PICK base \in Nat : MergesAt(all, messages, run, base)
    BY MergedPlaces
  <1>2. DOMAIN messages = 1..Len(messages) /\ Len(messages) \in Nat
        /\ DOMAIN run = 1..Len(run) /\ Len(run) \in Nat
    BY LenProperties
  <1> HIDE DEF all
  <1>3. \A i \in 1..base : i \in DOMAIN messages /\ all[i] = messages[i]
    BY <1>1, <1>2 DEF MergesAt
  <1> DEFINE first == base + 1
  <1>4. first \in DOMAIN all /\ all[first] = run[1]
    BY <1>1, <1>2 DEF MergesAt, Begins
  <1>5. ASSUME NEW i \in DOMAIN all, all[i].role # "User", \E v \in authors : all[i].of = {v}
        PROVE  AskedBy(all, w, i)
    <2>1. CASE i \in 1..base
      <3>1. AskedBy(messages, w, i)
        BY <1>3, <1>5, <2>1 DEF AskedFirst
      <3>2. PICK k \in 1..i : Asks(w, messages[k])
        BY <3>1 DEF AskedBy
      <3>3. k \in 1..base
        BY <2>1
      <3>4. Asks(w, all[k])
        BY <1>3, <3>2, <3>3
      <3> QED BY <3>2, <3>4 DEF AskedBy
    <2>2. CASE \E p \in 1..Len(run) : i = base + p
      <3>1. first \in 1..i
        BY <1>2, <2>2
      <3> HIDE DEF first
      <3> QED BY <1>4, <3>1 DEF AskedBy
    <2> QED BY <1>1, <1>2, <1>5, <2>1, <2>2, MergedFrom
  <1>6. \E j \in DOMAIN all : Asks(w, all[j])
    <2> HIDE DEF first
    <2> QED BY <1>4
  <1> QED BY <1>5, <1>6 DEF AskedFirst, all

-----------------------------------------------------------------------------
(***************************************************************************)
(* Who wrote what, as the store changes.                                   *)
(***************************************************************************)
\* By whom a store was changed, and where: a run is gone or as it was, but for the
\* steps that these workers added to that one.
ChangedBy(d, e, by, run) ==
    \A other \in RunIds :
        /\ RunExists(e, other) => RunExists(d, other) /\ RequestOf(e, other) = RequestOf(d, other)
        /\ \A w \in Requests :
              Wrote(e, w, other) => Wrote(d, w, other) \/ (w \in by /\ other = run)

\* A store that is not changed.
LEMMA SameStore ==
    ASSUME NEW d
    PROVE  \A by, run : ChangedBy(d, d, by, run)
  BY DEF ChangedBy

\* Two changes, one after the other.
LEMMA ChangedTwice ==
    ASSUME NEW d, NEW e, NEW f, NEW by, NEW run, ChangedBy(d, e, by, run), ChangedBy(e, f, by, run)
    PROVE  ChangedBy(d, f, by, run)
  BY DEF ChangedBy

\* What the user does to the store.
LEMMA ChangedByUser ==
    ASSUME NEW d, NEW e, RunsStay(d, e), NEW by, NEW at
    PROVE  ChangedBy(d, e, by, at)
  <1>1. ASSUME NEW run \in RunIds, RunExists(e, run)
        PROVE  RunExists(d, run) /\ RequestOf(e, run) = RequestOf(d, run)
    <2>1. run[1] \in SessionIds /\ e.runs[run[1]] # <<>>
      BY <1>1 DEF RunIds, RunExists
    <2>2. e.runs[run[1]] = d.runs[run[1]]
      BY <2>1 DEF RunsStay
    <2> QED BY <1>1, <2>2 DEF RunExists, RequestOf
  <1>2. ASSUME NEW run \in RunIds, NEW w, Wrote(e, w, run)
        PROVE  Wrote(d, w, run)
    <2>1. e.steps[run] # <<>>
      BY <1>2 DEF Wrote
    <2>2. e.steps[run] = d.steps[run]
      BY <2>1 DEF RunsStay
    <2> QED BY <1>2, <2>2 DEF Wrote
  <1> QED BY <1>1, <1>2 DEF ChangedBy

\* A status is set.
LEMMA ChangedByStatus ==
    ASSUME NEW d, StoreTyped(d), NEW run \in RunIds, NEW v \in RunStatus, RunExists(d, run),
           NEW by, NEW at
    PROVE  ChangedBy(d, WithStatus(d, run, v), by, at)
  <1> DEFINE e == WithStatus(d, run, v)
  <1>1. /\ e.steps = d.steps
        /\ \A s \in SessionIds : DOMAIN e.runs[s] = DOMAIN d.runs[s]
        /\ \A s \in SessionIds : \A n \in DOMAIN d.runs[s] :
              e.runs[s][n].request = d.runs[s][n].request
    BY WithStatusFacts
  <1> HIDE DEF e
  <1>2. ASSUME NEW other \in RunIds, RunExists(e, other)
        PROVE  RunExists(d, other) /\ RequestOf(e, other) = RequestOf(d, other)
    <2>1. other[1] \in SessionIds
      BY DEF RunIds
    <2> QED BY <1>1, <1>2, <2>1 DEF RunExists, RequestOf
  <1>3. \A other \in RunIds, w \in Requests : Wrote(e, w, other) => Wrote(d, w, other)
    BY <1>1 DEF Wrote
  <1>4. ChangedBy(d, e, by, at)
    BY <1>2, <1>3 DEF ChangedBy
  <1> QED BY <1>4 DEF e

\* The run has one step more, and the others have those that they had.
OneMore(d, e, run, step) ==
    LET n == Len(d.steps[run])
    IN  /\ n \in Nat
        /\ DOMAIN d.steps[run] = 1..n
        /\ DOMAIN e.steps[run] = 1..(n + 1)
        /\ \A i \in 1..n : e.steps[run][i] = d.steps[run][i]
        /\ e.steps[run][n + 1] = step
        /\ \A i \in 1..(n + 1) : i \in 1..n \/ i = n + 1
        /\ \A other \in RunIds : other # run => e.steps[other] = d.steps[other]

\* So it is after a step was recorded.
LEMMA RecordPlaces ==
    ASSUME NEW d, StoreTyped(d), NEW run \in RunIds, NEW by \in Requests,
           NEW kind \in {"UserMessage", "AssistantResponse", "AssistantOutputCheckpoint", "Error"}
    PROVE  OneMore(d, Record(d, run, kind, by), run, [kind |-> kind, by |-> by])
  <1> DEFINE e == Record(d, run, kind, by)
             step == [kind |-> kind, by |-> by]
             log == d.steps[run]
             n == Len(log)
  <1>1. step \in Step
    BY DEF Step
  <1>2. e.steps = [d.steps EXCEPT ![run] = Append(@, step)]
    BY RecordSteps
  <1>3. d.steps \in [RunIds -> Seq(Step)]
    BY DEF StoreTyped, Store
  <1> HIDE DEF e, step
  <1>4. e.steps[run] = Append(log, step) /\ log \in Seq(Step)
        /\ \A other \in RunIds : other # run => e.steps[other] = d.steps[other]
    BY <1>2, <1>3
  <1> HIDE DEF log
  <1>5. /\ n \in Nat /\ DOMAIN log = 1..n /\ DOMAIN Append(log, step) = 1..(n + 1)
        /\ \A i \in 1..n : Append(log, step)[i] = log[i]
        /\ Append(log, step)[n + 1] = step
        /\ \A i \in 1..(n + 1) : i \in 1..n \/ i = n + 1
    BY <1>1, <1>4, AppendProperties, LenProperties
  <1>6. OneMore(d, e, run, step)
    BY <1>4, <1>5 DEF OneMore, log
  <1> QED BY <1>6 DEF e, step

\* A step is recorded that is no request.
LEMMA ChangedByRecord ==
    ASSUME NEW d, StoreTyped(d), NEW run \in RunIds, NEW w \in Requests,
           NEW kind \in {"AssistantResponse", "AssistantOutputCheckpoint", "Error"}
    PROVE  ChangedBy(d, Record(d, run, kind, w), {w}, run)
  <1> DEFINE e == Record(d, run, kind, w)
             n == Len(d.steps[run])
  <1>1. e.runs = d.runs
    BY RecordTyped
  <1> DEFINE step == [kind |-> kind, by |-> w]
  <1>0. OneMore(d, e, run, step)
    BY RecordPlaces
  <1> HIDE DEF e
  <1>2. /\ DOMAIN d.steps[run] = 1..n
        /\ DOMAIN e.steps[run] = 1..(n + 1)
        /\ \A i \in 1..n : e.steps[run][i] = d.steps[run][i]
        /\ e.steps[run][n + 1] = [kind |-> kind, by |-> w]
        /\ \A i \in 1..(n + 1) : i \in 1..n \/ i = n + 1
        /\ \A other \in RunIds : other # run => e.steps[other] = d.steps[other]
    BY <1>0 DEF OneMore
  <1> HIDE DEF n, step
  <1>3. ASSUME NEW other \in RunIds, NEW v \in Requests, Wrote(e, v, other)
        PROVE  Wrote(d, v, other) \/ (v \in {w} /\ other = run)
    <2>1. CASE other = run
      <3>1. PICK i \in 1..(n + 1) : e.steps[run][i].kind # "UserMessage" /\ e.steps[run][i].by = v
        BY <1>2, <1>3, <2>1 DEF Wrote
      <3>2. CASE i \in 1..n
        BY <1>2, <2>1, <3>1, <3>2 DEF Wrote
      <3>3. CASE i = n + 1
        BY <1>2, <2>1, <3>1, <3>3
      <3> QED BY <1>2, <3>2, <3>3
    <2>2. CASE other # run
      BY <1>2, <1>3, <2>2 DEF Wrote
    <2> QED BY <2>1, <2>2
  <1>4. ChangedBy(d, e, {w}, run)
    BY <1>1, <1>3 DEF ChangedBy, RunExists, RequestOf
  <1> QED BY <1>4 DEF e

\* A request is recorded, which nobody but the user wrote.
LEMMA ChangedByRequest ==
    ASSUME NEW d, StoreTyped(d), NEW run \in RunIds, NEW request \in Requests, NEW by, NEW at
    PROVE  ChangedBy(d, Record(d, run, "UserMessage", request), by, at)
  <1> DEFINE kind == "UserMessage"
             e == Record(d, run, kind, request)
             step == [kind |-> kind, by |-> request]
             n == Len(d.steps[run])
  <1>1. e.runs = d.runs
    BY RequestTyped
  <1>2. kind \in {"UserMessage", "AssistantResponse", "AssistantOutputCheckpoint", "Error"}
    OBVIOUS
  <1>3. OneMore(d, e, run, step)
    <2> HIDE DEF kind
    <2> QED BY <1>2, RecordPlaces
  <1>4. step.kind = "UserMessage"
    OBVIOUS
  <1> HIDE DEF e, step, kind
  <1>5. /\ DOMAIN d.steps[run] = 1..n
        /\ DOMAIN e.steps[run] = 1..(n + 1)
        /\ \A i \in 1..n : e.steps[run][i] = d.steps[run][i]
        /\ e.steps[run][n + 1] = step
        /\ \A i \in 1..(n + 1) : i \in 1..n \/ i = n + 1
        /\ \A other \in RunIds : other # run => e.steps[other] = d.steps[other]
    BY <1>3 DEF OneMore
  <1> HIDE DEF n
  <1>6. ASSUME NEW other \in RunIds, NEW v \in Requests, Wrote(e, v, other)
        PROVE  Wrote(d, v, other)
    <2>1. CASE other = run
      <3>1. PICK i \in 1..(n + 1) : e.steps[run][i].kind # "UserMessage" /\ e.steps[run][i].by = v
        BY <1>5, <1>6, <2>1 DEF Wrote
      <3>2. i \in 1..n
        BY <1>4, <1>5, <3>1
      <3> QED BY <1>5, <2>1, <3>1, <3>2 DEF Wrote
    <2>2. CASE other # run
      BY <1>5, <1>6, <2>2 DEF Wrote
    <2> QED BY <2>1, <2>2
  <1>7. ChangedBy(d, e, by, at)
    BY <1>1, <1>6 DEF ChangedBy, RunExists, RequestOf
  <1> QED BY <1>7 DEF e, kind

\* A worker that has a run and wrote to no other one may write to it.
LEMMA AuthorsKept ==
    ASSUME NEW d, NEW e, NEW acted, NEW acted2, NEW by, NEW run, AuthorsInv(d, acted),
           acted \subseteq acted2, ChangedBy(d, e, by, run),
           \A w \in by : w \in acted2 /\ \A other \in RunIds : Wrote(d, w, other) => other = run
    PROVE  AuthorsInv(e, acted2)
  <1>1. \A other \in RunIds : RunExists(e, other) => RequestOf(e, other) \in acted2
    BY DEF AuthorsInv, ChangedBy
  <1>2. \A other, another \in RunIds :
           /\ RunExists(e, other) /\ RunExists(e, another)
           /\ RequestOf(e, other) = RequestOf(e, another)
           => other = another
    BY DEF AuthorsInv, ChangedBy
  <1>3. \A w \in Requests, other \in RunIds : Wrote(e, w, other) => w \in acted2
    BY DEF AuthorsInv, ChangedBy
  <1>4. ASSUME NEW w \in Requests, NEW other \in RunIds, NEW another \in RunIds,
               Wrote(e, w, other), Wrote(e, w, another)
        PROVE  other = another
    <2>1. Wrote(d, w, other) \/ (w \in by /\ other = run)
      BY <1>4 DEF ChangedBy
    <2>2. Wrote(d, w, another) \/ (w \in by /\ another = run)
      BY <1>4 DEF ChangedBy
    <2> QED BY <2>1, <2>2 DEF AuthorsInv
  <1> QED BY <1>1, <1>2, <1>3, <1>4 DEF AuthorsInv

\* A run is created for a request that had none.
LEMMA CreatedAuthors ==
    ASSUME NEW d, StoreTyped(d), StoreInv(d), ActiveExists(d), NEW w \in Requests,
           Len(ActiveRuns(d)) < MaxRuns, NEW acted, NEW acted2, AuthorsInv(d, acted),
           acted \subseteq acted2, w \notin acted, w \in acted2
    PROVE  /\ AuthorsInv(WithRun(d, w), acted2)
           /\ NewestRun(WithRun(d, w)) = NewRun(d)
           /\ RequestOf(WithRun(d, w), NewRun(d)) = w
           /\ \A v \in Requests, run \in RunIds : Wrote(WithRun(d, w), v, run) => Wrote(d, v, run)
           /\ \A v \in Requests : ~Wrote(WithRun(d, w), v, NewRun(d))
  <1> DEFINE e == WithRun(d, w)
             run == NewRun(d)
  <1>1. /\ run \in RunIds /\ NewestRun(e) = run
        /\ e.steps = d.steps /\ d.steps[run] = <<>>
        /\ e.runs[run[1]][run[2]].request = w
        /\ \A other \in RunIds : other # run => (RunExists(e, other) <=> RunExists(d, other))
        /\ \A other \in RunIds : RunExists(d, other) =>
              e.runs[other[1]][other[2]] = d.runs[other[1]][other[2]]
    BY WithRunGood
  <1> HIDE DEF e, run
  <1>2. \A v \in Requests, other \in RunIds : Wrote(e, v, other) => Wrote(d, v, other)
    BY <1>1 DEF Wrote
  <1>3. \A v \in Requests : ~Wrote(e, v, run)
    BY <1>1 DEF Wrote
  <1>4. RequestOf(e, run) = w
    BY <1>1 DEF RequestOf
  <1>5. ASSUME NEW other \in RunIds, other # run, RunExists(e, other)
        PROVE  RunExists(d, other) /\ RequestOf(e, other) = RequestOf(d, other)
    BY <1>1, <1>5 DEF RequestOf
  <1>6. \A other \in RunIds : RunExists(e, other) => RequestOf(e, other) \in acted2
    BY <1>4, <1>5 DEF AuthorsInv
  <1>7. ASSUME NEW other \in RunIds, NEW another \in RunIds, RunExists(e, other),
               RunExists(e, another), RequestOf(e, other) = RequestOf(e, another)
        PROVE  other = another
    <2>1. \A v \in RunIds : RunExists(e, v) /\ v # run => RequestOf(e, v) # w
      BY <1>5 DEF AuthorsInv
    <2>2. CASE other # run /\ another # run
      BY <1>5, <1>7, <2>2 DEF AuthorsInv
    <2> QED BY <1>4, <1>7, <2>1, <2>2
  <1>8. AuthorsInv(e, acted2)
    BY <1>2, <1>6, <1>7 DEF AuthorsInv
  <1> QED BY <1>1, <1>2, <1>3, <1>4, <1>8 DEF e, run

-----------------------------------------------------------------------------
(***************************************************************************)
(* Who was sent, and who acted.                                            *)
(***************************************************************************)
\* No thread begins, and none takes back what it was or did.
ThreadsStay ==
    \A v \in Workers :
        /\ worker'[v].pc = "unused" <=> worker[v].pc = "unused"
        /\ worker[v].pc # "unused" => worker'[v].request = worker[v].request
        /\ worker[v].pc \notin {"unused", "begin", "create"}
           => worker'[v].pc \notin {"unused", "begin", "create"}

\* The requests are then those that they were.
LEMMA ThreadsThatStay ==
    ASSUME ThreadsStay
    PROVE  /\ Sent' = Sent /\ Acted \subseteq Acted'
           /\ NothingIsRepeated' => NothingIsRepeated
           /\ SentInv => SentInv'
  <1>1. Sent' = Sent /\ Acted \subseteq Acted'
    BY DEF ThreadsStay, Sent, Acted
  <1>2. NothingIsRepeated' => NothingIsRepeated
    BY <1>1 DEF ThreadsStay, NothingIsRepeated, Sent
  <1> QED BY <1>1, <1>2 DEF SentInv

\* Who acted was sent.
LEMMA ActedWereSent == Acted \subseteq Sent
  BY DEF Acted, Sent

\* A request is the next one, and unless it repeats another one it is its own.
LEMMA StartedThread ==
    ASSUME TypeInv, SentInv, NextRequest \in Workers, NEW request, Start(NextRequest, request)
    PROVE  /\ NextRequest \notin Sent
           /\ Sent' = Sent \union {NextRequest} /\ Acted' = Acted
           /\ NothingIsRepeated' => NothingIsRepeated /\ request = NextRequest
           /\ SentInv'
           /\ worker'[NextRequest].pc = "begin"
  <1> DEFINE w == NextRequest
             r == [Unused EXCEPT !.pc = "begin", !.request = request]
  <1>1. PICK n \in 0..MaxRequests : Sent = 1..n
    BY DEF SentInv
  <1>2. n \in Nat /\ Cardinality(1..n) = n
    BY <1>1, TuiRunsAssumption, FS_Interval
  <1>3. w = n + 1
    BY <1>1, <1>2 DEF NextRequest
  <1>4. w \notin Sent /\ n + 1 \in 0..MaxRequests /\ Sent \union {w} = 1..(n + 1)
    BY <1>1, <1>2, <1>3, TuiRunsAssumption DEF Workers
  <1>5. worker' = [worker EXCEPT ![w] = r] /\ worker \in [Workers -> Worker]
    BY DEF Start, TypeInv, TypeOK
  <1>6. r.pc = "begin" /\ r.request = request
    BY DEF Unused
  <1> HIDE DEF r, w
  <1>7. w \in Workers /\ worker'[w] = r /\ \A v \in Workers : v # w => worker'[v] = worker[v]
    BY <1>5 DEF w
  <1>8. worker[w].pc = "unused"
    BY <1>4, <1>7 DEF Sent
  <1>9. Sent' = Sent \union {w}
    BY <1>6, <1>7 DEF Sent
  <1>10. Acted' = Acted
    BY <1>6, <1>7, <1>8 DEF Acted
  <1>11. ASSUME NothingIsRepeated' PROVE NothingIsRepeated /\ request = w
    <2>1. \A v \in Sent' : worker'[v].request = v
      BY <1>11 DEF NothingIsRepeated
    <2>2. request = w
      BY <1>6, <1>7, <1>9, <2>1
    <2>3. \A v \in Sent : worker[v].request = v
      BY <1>4, <1>7, <1>9, <2>1 DEF Sent
    <2> QED BY <2>2, <2>3 DEF NothingIsRepeated
  <1>12. SentInv'
    BY <1>4, <1>9 DEF SentInv
  <1> QED BY <1>4, <1>6, <1>7, <1>9, <1>10, <1>11, <1>12 DEF w

\* The end of the process.
LEMMA KilledStay ==
    ASSUME worker' = Killed
    PROVE  ThreadsStay
  <1>1. SUFFICES ASSUME NEW v \in Workers
                 PROVE  /\ worker'[v].pc = "unused" <=> worker[v].pc = "unused"
                        /\ worker[v].pc # "unused" => worker'[v].request = worker[v].request
                        /\ worker[v].pc \notin {"unused", "begin", "create"}
                           => worker'[v].pc \notin {"unused", "begin", "create"}
    BY DEF ThreadsStay
  <1>2. CASE worker[v].pc = "unused"
    BY <1>2 DEF Killed, Unused
  <1>3. CASE worker[v].pc # "unused"
    BY <1>3 DEF Killed, Unused
  <1> QED BY <1>2, <1>3

-----------------------------------------------------------------------------
(***************************************************************************)
(* What the UI shows as a request is sent, and of a session that is loaded.*)
(***************************************************************************)
\* A load shows the messages of the session.
LEMMA LoadedMessages ==
    ASSUME NEW u \in Ui, NEW d
    PROVE  Loaded(u, d).messages = MessagesOf(SessionSteps(d, d.active))
  <1> DEFINE messages == MessagesOf(SessionSteps(d, d.active))
             runs == [n \in DOMAIN ActiveRuns(d) |-> ActiveRuns(d)[n].request]
             status == IF ActiveRuns(d) = <<>> THEN "Idle" ELSE Last(ActiveRuns(d)).status
  <1>1. Loaded(u, d) = [u EXCEPT !.session = d.active, !.pending = FALSE,
                                 !.messages = messages, !.runs = runs, !.status = status]
    BY DEF Loaded
  <1> HIDE DEF messages, runs, status
  <1>2. Loaded(u, d).messages = messages
    BY <1>1 DEF Ui
  <1> QED BY <1>2 DEF messages

\* A request is shown below the others.
LEMMA BegunMessages ==
    ASSUME TypeInv, NEW request
    PROVE  Begun(request).messages = Append(ui.messages, Msg("User", {request}))
  <1> DEFINE longer == Append(ui.messages, Msg("User", {request}))
  <1>1. ui \in Ui
    BY DEF TypeInv, TypeOK
  <1>2. Begun(request) = [ui EXCEPT !.status = "Running", !.stream = 0, !.lastSeq = 0,
                                    !.messages = longer, !.drained = FALSE]
    BY <1>1 DEF Begun, Ui
  <1> HIDE DEF longer
  <1>3. Begun(request).messages = longer
    BY <1>1, <1>2 DEF Ui
  <1> QED BY <1>3 DEF longer

\* A request sent to the session shown, and one that opens a session.
LEMMA SentMessages ==
    ASSUME TypeInv, NEW w \in Workers, NEW request \in Requests
    PROVE  /\ ui' = [Begun(request) EXCEPT !.handle = w]
              => ui'.messages = Append(ui.messages, Msg("User", {request})) /\ ui'.handle = w
           /\ \A d : /\ StoreTyped(d)
                     /\ ui' = [Loaded(Begun(request), d) EXCEPT
                                  !.messages = Append(@, Msg("User", {request})),
                                  !.status = "Running",
                                  !.handle = w]
                     => /\ ui'.messages = Append(MessagesOf(SessionSteps(d, d.active)),
                                                 Msg("User", {request}))
                        /\ ui'.handle = w
  <1> DEFINE u == Begun(request)
             m == Msg("User", {request})
  <1>1. u \in Ui /\ u.messages = Append(ui.messages, m)
    BY BegunFacts, BegunMessages
  <1> HIDE DEF u, m
  <1>2. ui' = [u EXCEPT !.handle = w] => ui'.messages = u.messages /\ ui'.handle = w
    BY <1>1 DEF Ui
  <1>3. ASSUME NEW d, StoreTyped(d),
               ui' = [Loaded(u, d) EXCEPT !.messages = Append(@, m), !.status = "Running",
                                          !.handle = w]
        PROVE  ui'.messages = Append(MessagesOf(SessionSteps(d, d.active)), m) /\ ui'.handle = w
    <2> DEFINE v == Loaded(u, d)
               longer == Append(v.messages, m)
    <2>1. v \in Ui /\ v.messages = MessagesOf(SessionSteps(d, d.active))
      BY <1>1, <1>3, LoadedFacts, LoadedMessages
    <2>2. ui' = [v EXCEPT !.messages = longer, !.status = "Running", !.handle = w]
      BY <1>3, <2>1 DEF Ui
    <2> HIDE DEF v, longer
    <2>3. ui'.messages = longer /\ ui'.handle = w
      BY <2>1, <2>2 DEF Ui
    <2> QED BY <2>1, <2>3 DEF longer
  <1> QED BY <1>1, <1>2, <1>3 DEF u, m

\* What the user types for a revision is no request, and no two are one.
LEMMA AskingFacts ==
    ASSUME NEW w \in Workers, NEW v \in Workers, NEW m, Asks(w, m)
    PROVE  m.role = "User" /\ (Asks(v, m) => v = w)
  <1>1. m.role = "User"
    BY MsgFacts DEF Asks
  <1>2. ASSUME Asks(v, m) PROVE v = w
    <2>1. v \in 1..MaxRequests /\ w \in 1..MaxRequests /\ MaxRequests \in Nat
      BY TuiRunsAssumption DEF Workers
    <2>2. \/ v = w \/ v = Feedback(w) \/ Feedback(v) = w \/ Feedback(v) = Feedback(w)
      BY <1>2, MsgFacts DEF Asks
    <2> QED BY <2>1, <2>2 DEF Feedback
  <1> QED BY <1>1, <1>2

-----------------------------------------------------------------------------
(***************************************************************************)
(* The invariant as a conversation is left, loaded and continued.          *)
(***************************************************************************)
NobodyWrites == \A v \in Workers : worker[v].pc \notin {"open", "serve", "send"}

\* There is no conversation.
LEMMA NothingShown ==
    ASSUME AuthorsInv(db', Acted'), NobodyWrites', ui'.messages = <<>>, ui'.handle = 0,
           ui'.state # "on" \/ ui'.pending
    PROVE  OnceInv' /\ EndsInv'
  <1>1. WritesToItsRun(db)' /\ AskedInv' /\ EndsInv'
    BY DEF NobodyWrites, WritesToItsRun, AskedInv, EndsInv, On
  <1>2. ConversationInv(ui'.messages, Sent', Acted')
    BY DEF ConversationInv
  <1> QED BY <1>1, <1>2 DEF OnceInv

\* The session that is shown was loaded.
LEMMA SessionShown ==
    ASSUME StoreTyped(db'), StoreInv(db'), IdleInv', NobodyWrites', ui'.handle = 0,
           ui'.messages = MessagesOf(SessionSteps(db', db'.active))
    PROVE  EndsInv' /\ (AuthorsInv(db', Acted') => OnceInv')
  <1> DEFINE d == db'
             messages == MessagesOf(SessionSteps(d, d.active))
  <1>1. EndsInv'
    <2>1. ASSUME On', ~ui'.pending, ui'.status \in {"Completed", "WaitingForHumanInput"}
          PROVE  EndsWith(messages, MessagesOf(d.steps[NewestRun(d)]))
      <3>1. ActiveRuns(d) # <<>>
        BY <2>1 DEF IdleInv, NewestHas
      <3> HIDE DEF d
      <3> QED BY <3>1, LoadedEnds DEF d
    <2> QED BY <2>1 DEF EndsInv
  <1>2. ASSUME AuthorsInv(d, Acted') PROVE OnceInv'
    <2>1. Acted' \subseteq Sent'
      BY DEF Acted, Sent
    <2>2. ConversationInv(messages, Sent', Acted')
      <3> DEFINE sent == Sent'
                 acted == Acted'
      <3> HIDE DEF d, sent, acted
      <3> QED BY <1>2, <2>1, LoadedConversation DEF d, sent, acted
    <2>3. ActiveRuns(d) # <<>> /\ ~NewestHas(d, "Running")
          => AskedFirst(messages, RequestOf(d, NewestRun(d)), Authors(d, 0))
      <3> DEFINE acted == Acted'
      <3> HIDE DEF d, acted
      <3> QED BY <1>2, LoadedAsked DEF d, acted
    <2>4. AskedInv'
      BY <2>3 DEF AskedInv
    <2> QED BY <1>2, <2>2, <2>4 DEF OnceInv, NobodyWrites, WritesToItsRun
  <1> QED BY <1>1, <1>2

\* A request is shown that was not shown before.
LEMMA RequestShown ==
    ASSUME AuthorsInv(db', Acted'), NobodyWrites',
           NEW base \in Seq(Message), ConversationInv(base, Sent, Acted),
           NEW w \in Workers, w \notin Sent, Sent' = Sent \union {w}, Acted' = Acted,
           NEW m \in Message, Asks(w, m),
           ui'.messages = Append(base, m), ui'.handle = w,
           ActiveRuns(db') # <<>> =>
              AskedFirst(base, RequestOf(db', NewestRun(db')), Authors(db', 0))
    PROVE  OnceInv'
  <1> DEFINE longer == Append(base, m)
             n == Len(base)
  <1>1. /\ DOMAIN longer = 1..(n + 1) /\ longer[n + 1] = m /\ DOMAIN base = 1..n
        /\ \A i \in 1..n : longer[i] = base[i]
        /\ \A i \in 1..(n + 1) : i \in 1..n \/ i = n + 1
        /\ n \in Nat
    BY AppendPlaces
  <1>2. m.role = "User" /\ Sent \subseteq Workers
    BY AskingFacts DEF Sent
  <1>3. ASSUME NEW i \in DOMAIN base PROVE base[i] # m
    <2>1. Known(base[i], Sent, Acted)
      BY DEF ConversationInv
    <2>2. ASSUME base[i] = m PROVE FALSE
      <3>1. PICK v \in Sent : Asks(v, m)
        BY <1>2, <2>1, <2>2 DEF Known
      <3>2. v = w
        BY <1>2, <3>1, AskingFacts
      <3> QED BY <3>1, <3>2
    <2> QED BY <2>2
  <1>4. ConversationInv(longer, Sent', Acted')
    <2>1. Known(m, Sent', Acted')
      BY <1>2 DEF Known
    <2> HIDE DEF longer
    <2> DEFINE sent == Sent
               sent2 == Sent'
               acted == Acted
    <2> HIDE DEF sent, sent2, acted
    <2>2. ConversationInv(Append(base, m), sent2, acted)
      BY <1>3, <2>1, AppendConversation DEF sent, sent2, acted
    <2> QED BY <2>2 DEF longer, sent2, acted
  <1>5. ASSUME NEW asked, AskedFirst(base, asked, Authors(db', 0))
        PROVE  AskedFirst(longer, asked, Authors(db', w))
    <2>1. AskedFirst(longer, asked, Authors(db', 0))
      BY <1>5, AppendAsked
    <2>2. ASSUME NEW i \in DOMAIN longer, longer[i].role # "User", longer[i].of = {w}
          PROVE  FALSE
      <3>1. Known(longer[i], Sent', Acted')
        <4> HIDE DEF longer
        <4> QED BY <1>4 DEF ConversationInv
      <3>2. w \in Acted
        <4> HIDE DEF longer
        <4> QED BY <2>2, <3>1 DEF Known
      <3> QED BY <3>2, ActedWereSent
    <2>3. \A v \in Authors(db', w) : v = w \/ v \in Authors(db', 0)
      BY DEF Authors
    <2> HIDE DEF longer
    <2>4. ASSUME NEW i \in DOMAIN longer, longer[i].role # "User",
                 NEW v \in Authors(db', w), longer[i].of = {v}
          PROVE  AskedBy(longer, asked, i)
      <3>1. v \in Authors(db', 0)
        BY <2>2, <2>3, <2>4
      <3> QED BY <2>1, <2>4, <3>1 DEF AskedFirst
    <2> QED BY <2>1, <2>4 DEF AskedFirst
  <1>6. \E j \in DOMAIN longer : Asks(w, longer[j])
    BY AppendAsked
  <1> HIDE DEF longer
  <1>7. AskedInv'
    BY <1>5, <1>6 DEF AskedInv, longer
  <1> QED BY <1>4, <1>7 DEF OnceInv, NobodyWrites, WritesToItsRun, longer

-----------------------------------------------------------------------------
(***************************************************************************)
(* The steps of the user.                                                  *)
(***************************************************************************)
\* The authors after what the user does to the store.
LEMMA AuthorsOfUser ==
    ASSUME RunsStay(db, db'), NEW acted, Acted \subseteq acted, AuthorsInv(db, Acted)
    PROVE  AuthorsInv(db', acted)
  <1>1. ChangedBy(db, db', {}, NoRun)
    BY ChangedByUser
  <1> DEFINE d == db
             e == db'
             old == Acted
  <1> HIDE DEF d, e, old
  <1>2. AuthorsInv(e, acted)
    BY <1>1, AuthorsKept DEF d, e, old
  <1> QED BY <1>2 DEF e

\* The end of the UI.
LEMMA ExitTold ==
    ASSUME ToldInv, NEW d, RunsStay(db, d), Exit(d)
    PROVE  ToldInv'
  <1>1. db' = d /\ ui' = OffUi /\ worker' = Killed
    BY DEF Exit
  <1>2. ui'.handle = 0 /\ ui'.state # "on" /\ ui'.messages = <<>>
    BY <1>1 DEF OffUi
  <1>3. NobodyWrites'
    BY <1>1, KilledThreads DEF NobodyWrites
  <1>4. Acted \subseteq Acted' /\ SentInv' /\ (NothingIsRepeated' => NothingIsRepeated)
    BY <1>1, KilledStay, ThreadsThatStay DEF ToldInv
  <1>5. EndsInv'
    BY <1>2 DEF EndsInv, On
  <1>6. ASSUME NothingIsRepeated' PROVE OnceInv'
    <2>1. OnceInv
      BY <1>4, <1>6 DEF ToldInv
    <2>2. AuthorsInv(db', Acted')
      BY <1>1, <1>4, <2>1, AuthorsOfUser DEF OnceInv
    <2> QED BY <1>2, <1>3, <2>2, NothingShown
  <1> QED BY <1>4, <1>5, <1>6 DEF ToldInv

\* A session is loaded while nothing runs.
LEMMA LoadTold ==
    ASSUME ToldInv, TypeInv', SafeInv', RunsStay(db, db'), ThreadsStay, NobodyWrites',
           ui'.handle = 0, ui'.messages = MessagesOf(SessionSteps(db', db'.active))
    PROVE  ToldInv'
  <1>1. Acted \subseteq Acted' /\ SentInv' /\ (NothingIsRepeated' => NothingIsRepeated)
    BY ThreadsThatStay DEF ToldInv
  <1>2. StoreTyped(db') /\ StoreInv(db') /\ IdleInv'
    BY DEF TypeInv, TypeOK, StoreTyped, RunsFit, SafeInv
  <1>3. EndsInv' /\ (AuthorsInv(db', Acted') => OnceInv')
    BY <1>2, SessionShown
  <1>4. ASSUME NothingIsRepeated' PROVE OnceInv'
    BY <1>1, <1>3, <1>4, AuthorsOfUser DEF ToldInv, OnceInv
  <1> QED BY <1>1, <1>3, <1>4 DEF ToldInv

\* Threads that are left as they are.
LEMMA SameThreads ==
    ASSUME TypeInv, SafeInv, ui.handle = 0, worker' = worker
    PROVE  ThreadsStay /\ NobodyWrites'
  BY ThreadsAreGone DEF ThreadsStay, NobodyWrites

\* A session command between runs.
LEMMA ReloadTold ==
    ASSUME TypeInv, SafeInv, ToldInv, TypeInv', SafeInv', ui.handle = 0,
           NEW d, StoreTyped(d), RunsStay(db, d), Reload(d)
    PROVE  ToldInv'
  <1>1. CASE ActiveExists(d)
    <2> DEFINE u == [ui EXCEPT !.drained = FALSE]
    <2>1. u \in Ui /\ u.handle = 0
      BY DEF TypeInv, TypeOK, Ui
    <2>2. db' = d /\ ui' = Loaded(u, d) /\ worker' = worker
      BY <1>1 DEF Reload
    <2> HIDE DEF u
    <2>3. ui'.handle = 0 /\ ui'.messages = MessagesOf(SessionSteps(db', db'.active))
      BY <2>1, <2>2, LoadedFacts, LoadedMessages
    <2> QED BY <2>2, <2>3, SameThreads, LoadTold
  <1>2. CASE ~ActiveExists(d)
    BY <1>2, ExitTold DEF Reload
  <1> QED BY <1>1, <1>2

\* A request that is sent while nothing runs is the only thread.
LEMMA StartedAlone ==
    ASSUME TypeInv, SafeInv, ui.handle = 0, NEW w \in Workers, NEW request, Start(w, request)
    PROVE  NobodyWrites'
  <1> DEFINE r == [Unused EXCEPT !.pc = "begin", !.request = request]
  <1>1. worker' = [worker EXCEPT ![w] = r] /\ worker \in [Workers -> Worker]
    BY DEF Start, TypeInv, TypeOK
  <1>2. r.pc = "begin"
    BY DEF Unused
  <1> HIDE DEF r
  <1> QED BY <1>1, <1>2, ThreadsAreGone DEF NobodyWrites

\* A request is shown below what the session showed.
LEMMA RequestTold ==
    ASSUME TypeInv, SafeInv, ToldInv, ui.handle = 0, NextRequest \in Workers,
           NEW request, Start(NextRequest, request), RunsStay(db, db'),
           NEW base \in Seq(Message), NEW m \in Message,
           request = NextRequest => Asks(NextRequest, m),
           ui'.messages = Append(base, m), ui'.handle = NextRequest,
           OnceInv => ConversationInv(base, Sent, Acted),
           OnceInv /\ ActiveRuns(db') # <<>> =>
              AskedFirst(base, RequestOf(db', NewestRun(db')), Authors(db', 0))
    PROVE  ToldInv'
  <1> DEFINE w == NextRequest
  <1>1. /\ w \notin Sent /\ Sent' = Sent \union {w} /\ Acted' = Acted /\ SentInv'
        /\ NothingIsRepeated' => NothingIsRepeated /\ request = w
        /\ worker'[w].pc = "begin"
    BY StartedThread DEF ToldInv
  <1>2. NobodyWrites'
    BY StartedAlone
  <1> HIDE DEF w
  <1>3. EndsInv'
    <2>1. w # 0
      BY TuiRunsAssumption DEF w, Workers
    <2> QED BY <1>1, <2>1 DEF EndsInv, w
  <1>4. ASSUME NothingIsRepeated' PROVE OnceInv'
    <2>1. OnceInv /\ Asks(w, m)
      BY <1>1, <1>4 DEF ToldInv, w
    <2>2. AuthorsInv(db', Acted')
      BY <1>1, <2>1, AuthorsOfUser DEF OnceInv
    <2> QED BY <1>1, <1>2, <2>1, <2>2, RequestShown DEF w
  <1> QED BY <1>1, <1>3, <1>4 DEF ToldInv

\* Sending a request.
LEMMA StartRunTold ==
    ASSUME TypeInv, SafeInv, ToldInv, NEW request \in Requests, StartRun(request)
    PROVE  ToldInv'
  <1> DEFINE w == NextRequest
             n == NextSession(db)
             d == WithActive(WithNewSession(db), n)
             m == Msg("User", {request})
  <1>1. /\ w \in Workers /\ On /\ ~Busy /\ StoreTyped(db) /\ StoreInv(db)
        /\ ui \in Ui
    BY StartRunCases DEF TypeInv, TypeOK, StoreTyped, SafeInv
  <1>2. ui.handle = 0
    BY <1>1, NotListening
  <1>3. m \in Message /\ (request = w => Asks(w, m))
    BY BegunFacts DEF Asks
  <1> HIDE DEF w, m
  <1>4. RunsStay(db, db)
    BY DEF RunsStay
  <1>5. CASE SendsHere(w, request)
    <2>1. ~ui.pending /\ Start(w, request) /\ db' = db
          /\ ui'.messages = Append(ui.messages, m) /\ ui'.handle = w
      BY <1>1, <1>5, SentMessages DEF SendsHere, m
    <2>2. ui.messages \in Seq(Message)
      BY <1>1 DEF Ui
    <2>3. OnceInv => ConversationInv(ui.messages, Sent, Acted)
      BY DEF OnceInv
    <2>4. OnceInv /\ ActiveRuns(db) # <<>> =>
             AskedFirst(ui.messages, RequestOf(db, NewestRun(db)), Authors(db, 0))
      <3>1. ~NewestHas(db, "Running")
        BY <1>1, <1>2, <2>1 DEF SafeInv, IdleInv, Busy
      <3> QED BY <1>1, <1>2, <2>1, <3>1 DEF OnceInv, AskedInv
    <2> QED BY <1>1, <1>2, <1>3, <1>4, <2>1, <2>2, <2>3, <2>4, RequestTold DEF w
  <1>6. CASE SendsToNewSession(w, request, d)
    <2> DEFINE base == MessagesOf(SessionSteps(d, d.active))
    <2>1. /\ NextSessionIsFree(db) /\ n <= MaxSessions
          /\ Start(w, request) /\ db' = d
          /\ ui' = [Loaded(Begun(request), d) EXCEPT
                     !.messages = Append(@, Msg("User", {request})),
                     !.status = "Running",
                     !.handle = w]
      BY <1>6 DEF SendsToNewSession
    <2>2. n \in SessionIds
      BY <1>1, <2>1, NextSessionTyped
    <2>3. StoreTyped(d) /\ StoreInv(d)
      BY <1>1, <2>2, SessionRowsTyped, SessionRowsGood
    <2>4. RunsStay(db, d)
      BY <1>1, <2>1, ReplacedStays DEF Replaced
    <2>5. d.active = n /\ d.runs = db.runs
      BY <1>1 DEF WithActive, WithNewSession, StoreTyped, Store
    <2>6. ActiveRuns(d) = <<>>
      BY <1>1, <2>1, <2>2, <2>5 DEF StoreInv, NextSessionIsFree, ActiveRuns
    <2> HIDE DEF d, n
    <2>7. ui'.messages = Append(base, m) /\ ui'.handle = w
      BY <1>1, <2>1, <2>3, SentMessages DEF m
    <2>8. base \in Seq(Message)
      BY <2>3, ActiveRunsFacts, SessionStepsType, MessagesOfType
    <2>9. ASSUME OnceInv PROVE ConversationInv(base, Sent, Acted)
      <3>1. AuthorsInv(d, Acted)
        BY <2>1, <2>4, <2>9, AuthorsOfUser DEF OnceInv
      <3> DEFINE sent == Sent
                 acted == Acted
      <3>2. acted \subseteq sent
        BY ActedWereSent
      <3> HIDE DEF sent, acted
      <3> QED BY <2>3, <3>1, <3>2, LoadedConversation DEF sent, acted
    <2> HIDE DEF base
    <2> QED BY <1>1, <1>2, <1>3, <2>1, <2>4, <2>6, <2>7, <2>8, <2>9, RequestTold DEF w
  <1>7. CASE Exit(db)
    BY <1>4, <1>7, ExitTold
  <1> QED BY <1>5, <1>6, <1>7, StartRunCases DEF w

\* Asking for a revision.
LEMMA RequestChangesTold ==
    ASSUME Orderly, TypeInv, SafeInv, ToldInv, RequestChanges
    PROVE  ToldInv'
  <1> DEFINE w == NextRequest
             m == Msg("User", {Feedback(w)})
             longer == Append(ui.messages, m)
  <1>1. /\ On /\ ui.status = "Completed" /\ w \in Workers
        /\ Start(w, w) /\ db' = db
        /\ ui' = [ui EXCEPT !.review = FALSE, !.status = "Running",
                            !.messages = longer, !.handle = w, !.drained = FALSE]
    <2>1. ui' = [ui EXCEPT !.review = FALSE, !.status = "Running",
                            !.messages = Append(@, Msg("User", {Feedback(w)})),
                            !.handle = w, !.drained = FALSE]
      BY DEF RequestChanges
    <2>2. ui \in Ui
      BY DEF TypeInv, TypeOK
    <2>3. ui' = [ui EXCEPT !.review = FALSE, !.status = "Running",
                            !.messages = longer, !.handle = w, !.drained = FALSE]
      BY <2>1, <2>2 DEF Ui
    <2> QED BY <2>3 DEF RequestChanges, Orderly
  <1>2. m \in Message /\ Asks(w, m)
    <2>1. Feedback(w) \in Requests
      BY <1>1, TuiRunsAssumption DEF Feedback, Requests, Workers
    <2> QED BY <2>1 DEF Message, Msg, Asks
  <1> HIDE DEF w, m, longer
  <1>3. /\ ui'.messages = longer /\ ui'.handle = w /\ ui.messages \in Seq(Message)
    <2>1. ui \in Ui
      BY DEF TypeInv, TypeOK
    <2> QED BY <1>1, <2>1 DEF Ui
  <1>4. ui.handle = 0
    BY <1>1, NotListening DEF Busy
  <1>5. ~ui.pending
    BY <1>1 DEF SafeInv, UiInv
  <1>6. RunsStay(db, db)
    BY DEF RunsStay
  <1>7. OnceInv => ConversationInv(ui.messages, Sent, Acted)
    BY DEF OnceInv
  <1>8. OnceInv /\ ActiveRuns(db) # <<>> =>
           AskedFirst(ui.messages, RequestOf(db, NewestRun(db)), Authors(db, 0))
    <2>1. ~NewestHas(db, "Running")
      BY <1>1, <1>4, <1>5 DEF SafeInv, IdleInv
    <2> QED BY <1>1, <1>4, <1>5, <2>1 DEF OnceInv, AskedInv
  <1> QED BY <1>1, <1>2, <1>3, <1>4, <1>6, <1>7, <1>8, RequestTold DEF w, longer

\* Nothing that the invariant speaks of is changed.
LEMMA SameTold ==
    ASSUME ToldInv, db' = db,
           ui'.state = ui.state, ui'.status = ui.status, ui'.pending = ui.pending,
           ui'.messages = ui.messages, ui'.handle = ui.handle,
           \A v \in Workers : /\ worker'[v].pc = worker[v].pc
                              /\ worker'[v].request = worker[v].request
                              /\ worker'[v].run = worker[v].run
                              /\ worker'[v].outcome = worker[v].outcome
                              /\ worker'[v].result = worker[v].result,
           ui.handle \in {0} \union Workers
    PROVE  ToldInv'
  <1>1. Sent' = Sent /\ Acted' = Acted
    BY DEF Sent, Acted
  <1>2. SentInv'
    BY <1>1 DEF ToldInv, SentInv
  <1>3. EndsInv'
    <2>1. EndsInv
      BY DEF ToldInv
    <2> QED BY <2>1 DEF EndsInv, On
  <1>4. ASSUME NothingIsRepeated' PROVE OnceInv'
    <2>1. NothingIsRepeated
      BY <1>1, <1>4 DEF NothingIsRepeated, Sent
    <2>2. AuthorsInv(db, Acted) /\ WritesToItsRun(db) /\ AskedInv
          /\ ConversationInv(ui.messages, Sent, Acted)
      BY <2>1 DEF ToldInv, OnceInv
    <2>3. WritesToItsRun(db)'
      BY <2>2 DEF WritesToItsRun
    <2>4. AskedInv'
      BY <2>2 DEF AskedInv, On
    <2>5. AuthorsInv(db', Acted') /\ ConversationInv(ui'.messages, Sent', Acted')
      BY <1>1, <2>2
    <2> QED BY <2>3, <2>4, <2>5 DEF OnceInv
  <1> QED BY <1>2, <1>3, <1>4 DEF ToldInv

\* What an orderly user does.
LEMMA UserTold ==
    ASSUME Orderly, TypeInv, SafeInv, ToldInv, TypeInv', SafeInv', User
    PROVE  ToldInv'
  <1>1. StoreTyped(db) /\ StoreInv(db) /\ ui \in Ui /\ RunsStay(db, db)
    BY DEF TypeInv, TypeOK, StoreTyped, SafeInv, RunsStay
  <1>2. ASSUME Submit PROVE ToldInv'
    <2>1. NextRequest \in Workers
      BY <1>2, StartRunCases DEF Submit
    <2>2. NextRequest \in Requests
      BY <2>1, TuiRunsAssumption DEF Workers, Requests
    <2> QED BY <1>2, <2>2, StartRunTold DEF Submit
  <1>3. ASSUME Restart PROVE ToldInv'
    BY <1>3, RetryTargetsType, StartRunTold DEF Restart
  <1>4. ASSUME RequestChanges PROVE ToldInv'
    BY <1>4, RequestChangesTold
  <1>5. ASSUME CancelRun PROVE ToldInv'
    <2> DEFINE w == ui.handle
               r == worker[w]
               next == [r EXCEPT !.canceled = TRUE]
    <2>1. ui \in Ui /\ worker \in [Workers -> Worker] /\ w \in Workers
      <3>1. ui \in Ui /\ worker \in [Workers -> Worker]
        BY DEF TypeInv, TypeOK
      <3> QED BY <1>5, <3>1 DEF CancelRun, Ui
    <2>2. db' = db /\ worker' = [worker EXCEPT ![w] = next] /\ ui' = [ui EXCEPT !.drained = FALSE]
      BY <1>5, <2>1 DEF CancelRun
    <2>3. r \in Worker
      BY <2>1
    <2>4. /\ next.pc = r.pc /\ next.request = r.request /\ next.run = r.run
          /\ next.outcome = r.outcome /\ next.result = r.result
      BY <2>3 DEF Worker
    <2>5. /\ ui'.state = ui.state /\ ui'.status = ui.status /\ ui'.pending = ui.pending
          /\ ui'.messages = ui.messages /\ ui'.handle = ui.handle
      BY <2>1, <2>2 DEF Ui
    <2> HIDE DEF next
    <2>6. \A v \in Workers : worker'[v] = IF v = w THEN next ELSE worker[v]
      BY <2>1, <2>2
    <2> QED BY <2>1, <2>2, <2>4, <2>5, <2>6, SameTold
  <1>6. ASSUME NewSession PROVE ToldInv'
    <2> DEFINE idle == "Idle"
               none == <<>>
    <2>1. /\ On /\ ~Busy /\ db' = db /\ worker' = worker
          /\ ui' = [ui EXCEPT !.pending = TRUE, !.session = 0, !.messages = none,
                              !.status = idle, !.drained = FALSE]
      BY <1>6 DEF NewSession
    <2>2. ui.handle = 0
      BY <2>1, NotListening
    <2>3. ui'.pending /\ ui'.messages = <<>> /\ ui'.handle = 0
      BY <1>1, <2>1, <2>2 DEF Ui
    <2>4. ThreadsStay /\ NobodyWrites'
      BY <2>1, <2>2, SameThreads
    <2>5. Acted \subseteq Acted' /\ SentInv' /\ (NothingIsRepeated' => NothingIsRepeated)
      BY <2>4, ThreadsThatStay DEF ToldInv
    <2>6. EndsInv'
      BY <2>3 DEF EndsInv
    <2>7. ASSUME NothingIsRepeated' PROVE OnceInv'
      <3>1. AuthorsInv(db', Acted')
        BY <1>1, <2>1, <2>5, <2>7, AuthorsOfUser DEF ToldInv, OnceInv
      <3> QED BY <2>3, <2>4, <3>1, NothingShown
    <2> QED BY <2>5, <2>6, <2>7 DEF ToldInv
  <1>7. ASSUME CreateSession PROVE ToldInv'
    <2>0. ui.handle = 0
      BY <1>7, NotListening DEF CreateSession
    <2>1. CASE NextSessionIsFree(db)
      <3> DEFINE d == Replaced(db)
      <3>1. NextSession(db) <= MaxSessions /\ Reload(d)
        BY <1>7, <2>1 DEF CreateSession, Replaced
      <3>2. StoreTyped(d) /\ RunsStay(db, d)
        BY <1>1, <3>1, ReplacedStays
      <3> HIDE DEF d
      <3> QED BY <2>0, <3>1, <3>2, ReloadTold
    <2>2. CASE ~NextSessionIsFree(db)
      BY <1>1, <1>7, <2>2, ExitTold DEF CreateSession
    <2> QED BY <2>1, <2>2
  <1>8. ASSUME NEW command, Allowed(command) PROVE ui.handle = 0
    BY <1>8, NotListening DEF Allowed, Orderly
  <1>9. ASSUME LikeSession PROVE ToldInv'
    BY <1>1, <1>8, <1>9, ReloadTold DEF LikeSession
  <1>10. ASSUME NEW s \in SessionIds, SwitchSession(s) PROVE ToldInv'
    <2>1. StoreTyped(WithActive(db, s)) /\ RunsStay(db, WithActive(db, s)) /\ ui.handle = 0
      BY <1>1, <1>8, <1>10, SessionRowsTyped, SessionRowsStay DEF SwitchSession
    <2>2. Reload(WithActive(db, s)) => ToldInv'
      BY <2>1, ReloadTold
    <2>3. Exit(db) => ToldInv'
      BY <1>1, ExitTold
    <2> QED BY <1>10, <2>2, <2>3 DEF SwitchSession
  <1>11. ASSUME NEW s \in SessionIds, DeleteSession(s) PROVE ToldInv'
    <2>1. ui.handle = 0
      BY <1>8, <1>11 DEF DeleteSession
    <2>2. Reload(WithoutSession(db, s)) => ToldInv'
      BY <1>1, <2>1, WithoutSessionTyped, SessionRowsStay, ReloadTold
    <2>3. NextSession(db) <= MaxSessions /\ Reload(WithoutSession(Replaced(db), s)) => ToldInv'
      <3> SUFFICES ASSUME NextSession(db) <= MaxSessions, Reload(WithoutSession(Replaced(db), s))
                   PROVE  ToldInv'
        OBVIOUS
      <3> DEFINE d == Replaced(db)
                 e == WithoutSession(d, s)
      <3>1. StoreTyped(d) /\ RunsStay(db, d)
        BY <1>1, ReplacedStays
      <3> HIDE DEF d
      <3>2. StoreTyped(e) /\ RunsStay(d, e)
        BY <3>1, WithoutSessionTyped, SessionRowsStay
      <3>3. Reload(e)
        BY DEF d
      <3> HIDE DEF e
      <3>4. RunsStay(db, e)
        BY <3>1, <3>2, RunsStayTransitive
      <3> QED BY <2>1, <3>2, <3>3, <3>4, ReloadTold
    <2>4. Exit(db) => ToldInv'
      BY <1>1, ExitTold
    <2> QED BY <1>11, <2>2, <2>3, <2>4 DEF DeleteSession
  <1>12. ASSUME NEW s \in SessionIds, ArchiveSession(s) PROVE ToldInv'
    <2> DEFINE d == WithArchived(db, s)
    <2>1. ui.handle = 0
      BY <1>8, <1>12 DEF ArchiveSession
    <2>2. StoreTyped(d) /\ RunsStay(db, d)
      BY <1>1, SessionRowsTyped, SessionRowsStay
    <2>3. NextSession(d) = NextSession(db)
      BY <1>1 DEF WithArchived, NextSession, StoreTyped, Store
    <2>4. \/ Reload(d) \/ Exit(d)
          \/ NextSession(d) <= MaxSessions /\ Reload(Replaced(d))
      BY <1>12, <2>3 DEF ArchiveSession
    <2> HIDE DEF d
    <2>5. NextSession(d) <= MaxSessions => StoreTyped(Replaced(d)) /\ RunsStay(db, Replaced(d))
      BY <2>2, ReplacedStays, RunsStayTransitive
    <2> QED BY <2>1, <2>2, <2>4, <2>5, ReloadTold, ExitTold
  <1>13. ASSUME Quit PROVE ToldInv'
    BY <1>1, <1>13, ExitTold DEF Quit
  <1>14. ASSUME StartUi PROVE ToldInv'
    <2> DEFINE u == [OffUi EXCEPT !.state = "on"]
    <2>1. u \in Ui /\ u.handle = 0
      BY EndedTyped DEF OffUi
    <2>2. ui' = Loaded(u, db) /\ db' = db /\ worker' = worker /\ ~On
      BY <1>14 DEF StartUi, On
    <2>3. ui.handle = 0
      BY <2>2, NotListening
    <2> HIDE DEF u
    <2>4. ui'.handle = 0 /\ ui'.messages = MessagesOf(SessionSteps(db', db'.active))
      BY <1>1, <2>1, <2>2, LoadedFacts, LoadedMessages
    <2> QED BY <1>1, <2>2, <2>3, <2>4, SameThreads, LoadTold
  <1> QED BY <1>2, <1>3, <1>4, <1>5, <1>6, <1>7, <1>9, <1>10, <1>11, <1>12, <1>13, <1>14 DEF User

-----------------------------------------------------------------------------
(***************************************************************************)
(* The steps of the UI loop.                                               *)
(***************************************************************************)
\* The worker that is listened to, and its threads, as a step of the loop leaves them.
LEMMA ListenedThread ==
    ASSUME TypeInv, ui.handle \in Workers, NEW next, worker' = [worker EXCEPT ![ui.handle] = next],
           next.pc = worker[ui.handle].pc \/ (next.pc = "gone" /\ worker[ui.handle].pc = "done"),
           next.request = worker[ui.handle].request
    PROVE  ThreadsStay /\ Acted' = Acted /\ worker'[ui.handle] = next
           /\ \A v \in Workers : v # ui.handle => worker'[v] = worker[v]
  <1> DEFINE w == ui.handle
  <1>1. worker'[w] = next /\ \A v \in Workers : v # w => worker'[v] = worker[v]
    BY DEF TypeInv, TypeOK
  <1> HIDE DEF w
  <1>2. ThreadsStay
    BY <1>1 DEF ThreadsStay, w
  <1>3. Acted' = Acted
    BY <1>1 DEF Acted, w
  <1> QED BY <1>1, <1>2, <1>3 DEF w

\* Text that arrives names the worker that is listened to, which has a run.
LEMMA TakeEventTold ==
    ASSUME TypeInv, SafeInv, ToldInv, TakeEvent
    PROVE  ToldInv'
  <1> DEFINE w == ui.handle
             r == worker[w]
             event == Head(r.events)
             next == [r EXCEPT !.events = Tail(r.events)]
             m == Msg("Assistant", {w})
  <1>1. On /\ w # 0 /\ r.events # <<>> /\ db' = db
    BY DEF TakeEvent
  <1>2. /\ ui \in Ui /\ w \in Workers /\ r \in Worker /\ ui.messages \in Seq(Message)
        /\ EventsFit(r, db, ui.lastSeq) /\ Listened(r, db)
    BY <1>1, ListeningFacts DEF Ui
  <1>3. event \in Event
    <2>1. r.events \in Seq(Event)
      BY <1>2 DEF Worker
    <2> QED BY <1>1, <2>1, HeadFacts
  <1>4. ~Panics(event)
    BY <1>1, NeverPanics
  <1>5. ui' = Shown(event) /\ worker' = [worker EXCEPT ![w] = next]
    <2>1. worker' = [worker EXCEPT ![w].events = Tail(@)]
      BY <1>4 DEF TakeEvent
    <2>2. worker \in [Workers -> Worker]
      BY DEF TypeInv, TypeOK
    <2> QED BY <1>2, <1>4, <2>1, <2>2 DEF TakeEvent
  <1>6. /\ next.pc = r.pc /\ next.request = r.request /\ next.run = r.run
        /\ next.outcome = r.outcome /\ next.result = r.result
    BY <1>2 DEF Worker
  <1>7. w \in Acted
    <2>1. Len(r.events) \in Nat \ {0} /\ Len(r.events) <= r.seq /\ r.seq \in Nat
      <3>1. r.events \in Seq(Event) /\ r.seq \in Nat
        BY <1>2 DEF Worker
      <3> QED BY <1>1, <1>2, <3>1, HeadFacts DEF EventsFit
    <2>2. r.seq # 0
      BY <2>1
    <2>3. r.pc \notin {"unused", "begin", "create"}
      BY <1>2, <2>2 DEF EventsFit, Listened
    <2> QED BY <1>2, <2>3 DEF Acted
  <1> HIDE DEF next
  <1>8. /\ ThreadsStay /\ Acted' = Acted /\ worker'[w] = next
        /\ \A v \in Workers : v # w => worker'[v] = worker[v]
    BY <1>2, <1>5, <1>6, ListenedThread
  <1>9. /\ ui'.state = ui.state /\ ui'.status = ui.status /\ ui'.pending = ui.pending
        /\ ui'.handle = w
        /\ ui'.messages = ui.messages \/ ui'.messages = Append(ui.messages, m)
    <2> HIDE DEF event
    <2>1. /\ Shown(event).state = ui.state /\ Shown(event).status = ui.status
          /\ Shown(event).pending = ui.pending /\ Shown(event).handle = ui.handle
          /\ \/ Shown(event).messages = ui.messages
             \/ Shown(event).messages = Append(ui.messages, m)
             \/ /\ ui.stream \in DOMAIN ui.messages
                /\ Shown(event).messages =
                      [ui.messages EXCEPT ![ui.stream] =
                          [ui.messages[ui.stream] EXCEPT !.of =
                              ui.messages[ui.stream].of \union {ui.handle}]]
      BY <1>2, <1>3, <1>4, ShownFacts
    <2>2. ASSUME ui.stream \in DOMAIN ui.messages
          PROVE  [ui.messages EXCEPT ![ui.stream] =
                     [ui.messages[ui.stream] EXCEPT !.of =
                         ui.messages[ui.stream].of \union {ui.handle}]] = ui.messages
      <3> DEFINE n == Len(ui.messages)
      <3>1. ui.stream \in 1..n /\ n \in Nat
        BY <1>2, <2>2, LenProperties
      <3>2. ui.messages[ui.stream] = m
        BY <1>1, <2>2, <3>1 DEF SafeInv, StreamHasItsPlace
      <3>3. [m EXCEPT !.of = m.of \union {w}] = m
        BY DEF Msg
      <3> QED BY <1>2, <2>2, <3>2, <3>3
    <2> QED BY <1>5, <2>1, <2>2
  <1>10. \A v \in Workers : /\ worker'[v].pc = worker[v].pc
                            /\ worker'[v].request = worker[v].request
                            /\ worker'[v].run = worker[v].run
                            /\ worker'[v].outcome = worker[v].outcome
                            /\ worker'[v].result = worker[v].result
    BY <1>6, <1>8
  <1>11. CASE ui'.messages = ui.messages
    BY <1>1, <1>2, <1>9, <1>10, <1>11, SameTold
  <1>12. CASE ui'.messages = Append(ui.messages, m)
    <2>1. Sent' = Sent /\ SentInv' /\ (NothingIsRepeated' => NothingIsRepeated)
      BY <1>8, ThreadsThatStay DEF ToldInv
    <2>2. m \in Message /\ m.role # "User" /\ m.of = {w}
      <3>1. w \in Requests
        BY <1>2, TuiRunsAssumption DEF Workers, Requests
      <3> QED BY <3>1, MsgFacts DEF Message, Msg
    <2> HIDE DEF m, r, event
    <2>3. EndsInv'
      <3>1. EndsInv
        BY DEF ToldInv
      <3> QED BY <1>1, <1>2, <1>9, <1>10, <3>1 DEF EndsInv
    <2>4. ASSUME NothingIsRepeated' PROVE OnceInv'
      <3>1. AuthorsInv(db, Acted) /\ WritesToItsRun(db) /\ AskedInv
            /\ ConversationInv(ui.messages, Sent, Acted)
        BY <2>1, <2>4 DEF ToldInv, OnceInv
      <3>2. WritesToItsRun(db)'
        BY <1>1, <1>10, <3>1 DEF WritesToItsRun
      <3>3. Known(m, Sent, Acted)
        BY <1>7, <2>2 DEF Known
      <3>4. ConversationInv(ui'.messages, Sent', Acted')
        <4> DEFINE sent == Sent
                   acted == Acted
        <4> HIDE DEF sent, acted
        <4>1. ConversationInv(Append(ui.messages, m), sent, acted)
          BY <1>2, <2>2, <3>1, <3>3, AppendConversation DEF sent, acted
        <4> QED BY <1>8, <1>12, <2>1, <4>1 DEF sent, acted
      <3>5. AskedInv'
        <4>1. \E j \in DOMAIN ui'.messages : Asks(w, ui'.messages[j])
          BY <1>1, <1>2, <1>12, <2>2, <3>1, AppendAsked DEF AskedInv
        <4>2. \A asked, authors : AskedFirst(ui.messages, asked, authors)
                                  => AskedFirst(ui'.messages, asked, authors)
          BY <1>2, <1>12, <2>2, AppendAsked
        <4>3. On' /\ ~ui'.pending /\ ActiveRuns(db') # <<>> =>
                 AskedFirst(ui'.messages, RequestOf(db', NewestRun(db')), Authors(db', ui'.handle))
          BY <1>1, <1>9, <3>1, <4>2 DEF AskedInv, On
        <4> QED BY <1>9, <4>1, <4>3 DEF AskedInv
      <3> QED BY <1>1, <1>8, <3>1, <3>2, <3>4, <3>5 DEF OnceInv
    <2> QED BY <2>1, <2>3, <2>4 DEF ToldInv
  <1> QED BY <1>9, <1>11, <1>12

\* The conversation that a result is merged with.
Kept == IF ui.stream \in DOMAIN ui.messages
        THEN RemoveAt(ui.messages, ui.stream) ELSE ui.messages

\* The conversation after a result is taken.
LEMMA ResultMessages ==
    ASSUME TypeInv, TakeResult
    PROVE  \/ ui'.status = "Canceled" /\ ui'.messages = ui.messages
           \/ ui'.status = "Failed" /\ ui'.messages = Append(ui.messages, Msg("Error", {ui.handle}))
           \/ /\ worker[ui.handle].outcome # "Error"
              /\ ui'.messages = Merged(Kept, worker[ui.handle].result)
  <1> DEFINE w == ui.handle
             u == IF worker[w].canceled THEN [ui EXCEPT !.status = "Canceled"]
                  ELSE IF worker[w].outcome = "Error"
                    THEN [ui EXCEPT !.status = "Failed",
                                    !.messages = Append(@, Msg("Error", {w}))]
                  ELSE Finished(w)
  <1>1. ui' = [u EXCEPT !.handle = 0, !.drained = FALSE] /\ w \in Workers
    BY ResultFacts DEF TakeResult
  <1>2. ui \in Ui
    BY DEF TypeInv, TypeOK
  <1>3. CASE worker[w].canceled
    <2> DEFINE canceled == "Canceled"
    <2>1. u = [ui EXCEPT !.status = canceled]
      BY <1>3
    <2> HIDE DEF canceled, u
    <2>2. ui'.messages = ui.messages /\ ui'.status = canceled
      BY <1>1, <1>2, <2>1 DEF Ui
    <2> QED BY <2>2 DEF canceled
  <1>4. CASE ~worker[w].canceled /\ worker[w].outcome = "Error"
    <2> DEFINE failed == "Failed"
               longer == Append(ui.messages, Msg("Error", {w}))
    <2>1. u = [ui EXCEPT !.status = failed, !.messages = longer]
      BY <1>2, <1>4 DEF Ui
    <2> HIDE DEF failed, longer, u
    <2>2. ui'.messages = longer /\ ui'.status = failed
      BY <1>1, <1>2, <2>1 DEF Ui
    <2> QED BY <2>2 DEF failed, longer
  <1>5. CASE ~worker[w].canceled /\ worker[w].outcome # "Error"
    <2> DEFINE merged == Merged(Kept, worker[w].result)
               status == worker[w].outcome
               session == worker[w].run[1]
    <2>1. u = [ui EXCEPT !.status = status, !.session = session, !.stream = 0,
                         !.messages = merged]
      BY <1>5 DEF Finished, Kept
    <2> HIDE DEF merged, status, session, u
    <2>2. ui'.messages = merged
      BY <1>1, <1>2, <2>1 DEF Ui
    <2> QED BY <1>5, <2>2 DEF merged
  <1> QED BY <1>3, <1>4, <1>5

KnownAll(run, sent, acted) == \A p \in DOMAIN run : Known(run[p], sent, acted)

\* The messages of a run, but the first, name who wrote them to it.
NamesAuthors(d, run, shown) ==
    \A p \in DOMAIN shown : p # 1 =>
        \E w \in Requests : shown[p].role # "User" /\ shown[p].of = {w} /\ Wrote(d, w, run)

\* A run that is merged begins with its request, and nothing else in it is one.
LEMMA RunShown ==
    ASSUME NEW d, StoreTyped(d), StoreInv(d), NEW run \in RunIds, d.steps[run] # <<>>
    PROVE  /\ MessagesOf(d.steps[run]) \in Seq(Message)
           /\ Begins(MessagesOf(d.steps[run]))
           /\ Asks(RequestOf(d, run), MessagesOf(d.steps[run])[1])
           /\ NamesAuthors(d, run, MessagesOf(d.steps[run]))
           /\ \A sent, acted : acted \subseteq sent /\ AuthorsInv(d, acted)
                               => KnownAll(MessagesOf(d.steps[run]), sent, acted)
  <1> DEFINE log == d.steps[run]
             shown == MessagesOf(log)
  <1>1. log \in Seq(Step)
    BY DEF StoreTyped, Store
  <1>2. shown \in Seq(Message)
    BY <1>1, MessagesOfType
  <1>3. 1 \in 1..Len(log)
    BY FirstStep
  <1>4. \A p \in 1..Len(log) :
           IF p = 1 THEN ShowsRequest(d, run, p) ELSE ShowsText(d, run, p)
    BY StepsFacts
  <1>5. DOMAIN shown = 1..Len(log)
    BY <1>1, <1>3, MessageIs
  <1>6. \A p \in 1..Len(log) : shown[p] = MessageOf(d.steps[run][p])
    BY <1>1, MessageIs
  <1> HIDE DEF log, shown
  <1>7. shown[1] = Msg("User", {RequestOf(d, run)})
    BY <1>3, <1>4, <1>6 DEF ShowsRequest
  <1>8. \A p \in 1..Len(log) : p # 1 =>
           \E w \in Requests : /\ shown[p].role # "User" /\ shown[p].of = {w}
                               /\ Wrote(d, w, run)
    BY <1>4, <1>6 DEF ShowsText
  <1>9. Begins(shown)
    <2>1. shown[1].role = "User"
      BY <1>7, MsgFacts
    <2> QED BY <1>3, <1>5, <1>8, <2>1 DEF Begins
  <1>10. ASSUME NEW sent, NEW acted, acted \subseteq sent, AuthorsInv(d, acted)
         PROVE  KnownAll(shown, sent, acted)
    <2>1. RequestOf(d, run) \in sent
      BY <1>3, <1>10, StepsFacts DEF AuthorsInv, log
    <2>2. Known(shown[1], sent, acted)
      BY <1>7, <2>1, MsgFacts DEF Known, Asks
    <2>3. ASSUME NEW p \in 1..Len(log), p # 1 PROVE Known(shown[p], sent, acted)
      <3>1. PICK w \in Requests : /\ shown[p].role # "User" /\ shown[p].of = {w}
                                  /\ Wrote(d, w, run)
        BY <1>8, <2>3
      <3>2. w \in acted
        BY <1>10, <3>1 DEF AuthorsInv
      <3> QED BY <3>1, <3>2 DEF Known
    <2> QED BY <1>5, <2>2, <2>3 DEF KnownAll
  <1>11. NamesAuthors(d, run, shown)
    BY <1>5, <1>8 DEF NamesAuthors
  <1> QED BY <1>2, <1>7, <1>9, <1>10, <1>11 DEF shown, log, Asks

\* A result replaces what was shown of its run, and an error is added.
LEMMA TakeResultTold ==
    ASSUME TypeInv, SafeInv, ToldInv, TakeResult
    PROVE  ToldInv'
  <1> DEFINE w == ui.handle
             r == worker[w]
             next == [Unused EXCEPT !.pc = "gone", !.request = r.request]
             run == r.run
             result == r.result
             m == Msg("Error", {w})
  <1>1. /\ w \in Workers /\ w # 0 /\ On /\ db' = db /\ r.pc = "done"
        /\ worker' = [worker EXCEPT ![w] = next]
        /\ ui'.state = ui.state /\ ui'.pending = ui.pending /\ ui'.handle = 0
    BY ResultFacts DEF TakeResult
  <1>2. /\ ui \in Ui /\ ui.messages \in Seq(Message) /\ ~ui.pending /\ Listened(r, db)
    BY <1>1, ListeningFacts DEF Ui
  <1>3. StoreTyped(db) /\ StoreInv(db)
    BY DEF TypeInv, TypeOK, StoreTyped, SafeInv
  <1>4. next.pc = "gone" /\ next.request = r.request
    BY DEF Unused
  <1> HIDE DEF next
  <1>5. /\ ThreadsStay /\ Acted' = Acted /\ worker'[w] = next
        /\ \A v \in Workers : v # w => worker'[v] = worker[v]
    BY <1>1, <1>4, ListenedThread
  <1>6. Sent' = Sent /\ SentInv' /\ (NothingIsRepeated' => NothingIsRepeated)
    BY <1>5, ThreadsThatStay DEF ToldInv
  <1>7. NobodyWrites'
    <2>1. \A v \in Workers : v # w => worker[v].pc \in {"unused", "gone"}
      BY <1>1, ListeningFacts
    <2> QED BY <1>4, <1>5, <2>1 DEF NobodyWrites
  <1>8. w \in Acted
    BY <1>1 DEF Acted
  <1>9. m \in Message /\ m.role # "User" /\ m.of = {w}
    <2>1. w \in Requests
      BY <1>1, TuiRunsAssumption DEF Workers, Requests
    <2> QED BY <2>1, MsgFacts DEF Message, Msg
  <1>10. \/ ui'.status = "Canceled" /\ ui'.messages = ui.messages
         \/ ui'.status = "Failed" /\ ui'.messages = Append(ui.messages, m)
         \/ r.outcome # "Error" /\ ui'.messages = Merged(Kept, result)
    BY ResultMessages
  <1>11. ASSUME r.outcome # "Error"
         PROVE  /\ run = NewestRun(db) /\ run \in RunIds /\ db.steps[run] # <<>>
                /\ result = MessagesOf(db.steps[run]) /\ ActiveRuns(db) # <<>>
    <2>1. run = NewestRun(db) /\ ActiveRuns(db) # <<>> /\ ~NewestHas(db, "Running")
      BY <1>1, <1>2, <1>11 DEF Listened, NewestHas
    <2>2. result = MessagesOf(db.steps[run])
      BY <1>1, <1>11 DEF ToldInv, EndsInv
    <2> QED BY <1>3, <2>1, <2>2, ActiveRunsFacts, NewestHasSteps
  <1>12. ASSUME r.outcome # "Error"
         PROVE  /\ result \in Seq(Message) /\ Begins(result)
                /\ Asks(RequestOf(db, run), result[1])
                /\ \A sent, acted : acted \subseteq sent /\ AuthorsInv(db, acted)
                                    => KnownAll(result, sent, acted)
    BY <1>3, <1>11, <1>12, RunShown
  <1> HIDE DEF r, m, run, result
  <1>13. Kept \in Seq(Message)
    BY <1>2, RemoveAtType DEF Kept
  <1>14. /\ \A sent, acted : ConversationInv(ui.messages, sent, acted)
                             => ConversationInv(Kept, sent, acted)
         /\ \A asked, authors : AskedFirst(ui.messages, asked, authors)
                                => AskedFirst(Kept, asked, authors)
    <2>1. CASE ui.stream \in DOMAIN ui.messages
      <3>1. ui.stream # 0
        BY <1>2, <2>1, LenProperties
      <3>2. ui.messages[ui.stream] = Msg("Assistant", {w})
        BY <1>1, <3>1 DEF SafeInv, StreamHasItsPlace
      <3>3. ui.messages[ui.stream].role # "User"
        BY <3>2, MsgFacts
      <3> QED BY <1>2, <2>1, <3>3, RemoveConversation DEF Kept
    <2>2. CASE ui.stream \notin DOMAIN ui.messages
      BY <2>2 DEF Kept
    <2> QED BY <2>1, <2>2
  <1>15. EndsInv'
    <2>1. ASSUME ui'.status \in {"Completed", "WaitingForHumanInput"}
          PROVE  EndsWith(ui'.messages, MessagesOf(db.steps[NewestRun(db)]))
      <3>1. r.outcome # "Error" /\ ui'.messages = Merged(Kept, result)
        BY <1>10, <2>1
      <3>2. EndsWith(Merged(Kept, result), result)
        BY <1>12, <1>13, <3>1, MergedEnds
      <3> QED BY <1>11, <3>1, <3>2
    <2> QED BY <1>1, <2>1 DEF EndsInv
  <1>16. ASSUME NothingIsRepeated' PROVE OnceInv'
    <2>1. AuthorsInv(db, Acted) /\ AskedInv /\ ConversationInv(ui.messages, Sent, Acted)
      BY <1>6, <1>16 DEF ToldInv, OnceInv
    <2>2. AuthorsInv(db', Acted') /\ WritesToItsRun(db)'
      BY <1>1, <1>5, <1>7, <2>1 DEF NobodyWrites, WritesToItsRun
    <2> DEFINE sent == Sent
               acted == Acted
               asked == RequestOf(db, NewestRun(db))
               authors == Authors(db, w)
    <2>3. ConversationInv(ui.messages, sent, acted) /\ AuthorsInv(db, acted) /\ acted \subseteq sent
      BY <2>1, ActedWereSent
    <2>4. ActiveRuns(db) # <<>> => AskedFirst(ui.messages, asked, authors)
      BY <1>1, <1>2, <2>1 DEF AskedInv
    <2>5. Known(m, sent, acted)
      BY <1>8, <1>9 DEF Known
    <2> HIDE DEF sent, acted, asked, authors
    <2>6. ASSUME ui'.messages = ui.messages
          PROVE  /\ ConversationInv(ui'.messages, sent, acted)
                 /\ ActiveRuns(db) # <<>> => AskedFirst(ui'.messages, asked, authors)
      BY <2>3, <2>4, <2>6
    <2>7. ASSUME ui'.messages = Append(ui.messages, m)
          PROVE  /\ ConversationInv(ui'.messages, sent, acted)
                 /\ ActiveRuns(db) # <<>> => AskedFirst(ui'.messages, asked, authors)
      <3>1. ConversationInv(Append(ui.messages, m), sent, acted)
        BY <1>2, <1>9, <2>3, <2>5, AppendConversation
      <3>2. ActiveRuns(db) # <<>> => AskedFirst(Append(ui.messages, m), asked, authors)
        BY <1>2, <1>9, <2>4, AppendAsked
      <3> QED BY <2>7, <3>1, <3>2
    <2>8. ASSUME r.outcome # "Error", ui'.messages = Merged(Kept, result)
          PROVE  /\ ConversationInv(ui'.messages, sent, acted)
                 /\ ActiveRuns(db) # <<>> => AskedFirst(ui'.messages, asked, authors)
      <3>1. KnownAll(result, sent, acted) /\ result \in Seq(Message) /\ Begins(result)
            /\ Asks(asked, result[1])
        BY <1>11, <1>12, <2>3, <2>8 DEF asked
      <3>2. ConversationInv(Merged(Kept, result), sent, acted)
        BY <1>13, <1>14, <2>3, <3>1, MergedConversation DEF KnownAll
      <3>3. ActiveRuns(db) # <<>> => AskedFirst(Merged(Kept, result), asked, authors)
        BY <1>13, <1>14, <2>4, <3>1, MergedAsked
      <3> QED BY <2>8, <3>2, <3>3
    <2>9. /\ ConversationInv(ui'.messages, sent, acted)
          /\ ActiveRuns(db) # <<>> => AskedFirst(ui'.messages, asked, authors)
      BY <1>10, <2>6, <2>7, <2>8
    <2>10. Authors(db, 0) \subseteq authors
      BY DEF Authors, authors, Requests
    <2>11. ActiveRuns(db) # <<>> => AskedFirst(ui'.messages, asked, Authors(db, 0))
      BY <2>9, <2>10, AskedOfFewer
    <2>12. AskedInv'
      BY <1>1, <2>11 DEF AskedInv, asked
    <2>13. ConversationInv(ui'.messages, Sent', Acted')
      BY <1>5, <1>6, <2>9 DEF sent, acted
    <2> QED BY <2>2, <2>12, <2>13 DEF OnceInv
  <1> QED BY <1>6, <1>15, <1>16 DEF ToldInv

-----------------------------------------------------------------------------
(***************************************************************************)
(* The steps of the workers.                                               *)
(***************************************************************************)
\* What becomes of the thread of a worker; a run that is over is in its result.
GoesOn(w, next) ==
    /\ worker' = [worker EXCEPT ![w] = next]
    /\ next.request = worker[w].request
    /\ next.pc \in {"create", "open", "serve", "send", "done"}
    /\ worker[w].pc # "begin" => next.pc # "create"
    /\ next.pc = "done" /\ next.outcome # "Error"
       => next.result = MessagesOf(db'.steps[next.run])

\* Only a worker that serves its run writes, and to that run; no run is created.
Writing(w) == IF worker[w].pc = "serve" THEN {w} ELSE {}

KeepsRuns(w) ==
    /\ ChangedBy(db, db', Writing(w), NewestRun(db))
    /\ NewestRun(db') = NewestRun(db)
    /\ ActiveRuns(db') = <<>> <=> ActiveRuns(db) = <<>>

\* A store that stays as it is.
LEMMA SameRuns ==
    ASSUME db' = db, NEW w
    PROVE  KeepsRuns(w)
  BY SameStore DEF KeepsRuns

\* The end of a worker.
LEMMA EndGoesOn ==
    ASSUME TypeInv, NEW w \in Workers, ui.handle = w, worker[w].pc \in LivePc,
           NEW outcome, NEW result, Ends(w, outcome, result),
           outcome # "Error" => result = MessagesOf(db'.steps[worker[w].run])
    PROVE  \E next : GoesOn(w, next)
  <1> DEFINE next == EndOf(w, outcome, result)
             done == "done"
  <1>1. worker' = [worker EXCEPT ![w] = next] /\ worker[w] \in Worker
    BY DEF Ends, Becomes, EndOf, TypeInv, TypeOK
  <1>2. next = [worker[w] EXCEPT !.pc = done, !.outcome = outcome, !.result = result]
    BY DEF EndOf
  <1> HIDE DEF next, done
  <1>3. /\ next.pc = done /\ next.outcome = outcome /\ next.result = result
        /\ next.request = worker[w].request /\ next.run = worker[w].run
    BY <1>1, <1>2 DEF Worker
  <1>4. GoesOn(w, next)
    BY <1>1, <1>3 DEF GoesOn, done
  <1> QED BY <1>4

\* A response is written by the worker, and to its run.
LEMMA RespondedChanged ==
    ASSUME TypeInv, SafeInv, NEW w \in Workers, worker[w].pc = "serve"
    PROVE  ChangedBy(db, Responded(w), {w}, worker[w].run)
  <1>1. StoreTyped(db) /\ w \in Requests /\ worker[w].run \in RunIds
    BY LiveFacts, ServingFacts DEF LivePc
  <1>2. ChangedBy(db, Record(db, worker[w].run, "AssistantResponse", w), {w}, worker[w].run)
    BY <1>1, ChangedByRecord
  <1> QED BY <1>2, SameStore DEF Responded

\* So is what it writes as it settles the run, which its result then tells.
LEMMA SettleTold ==
    ASSUME TypeInv, SafeInv, NEW w \in Workers, worker[w].pc = "serve",
           NEW d, StoreTyped(d), d.runs = db.runs, d.active = db.active,
           ChangedBy(db, d, {w}, worker[w].run),
           NEW v \in {"Completed", "WaitingForHumanInput", "Failed"}, Settle(w, d, v)
    PROVE  (\E next : GoesOn(w, next)) /\ KeepsRuns(w)
  <1> DEFINE run == worker[w].run
             e == WithStatus(d, run, v)
  <1>1. run = NewestRun(db) /\ ActiveRuns(db) # <<>> /\ run \in RunIds /\ RunExists(db, run)
    BY ServingFacts
  <1>2. run = NewestRun(d) /\ ActiveRuns(d) # <<>> /\ RunExists(d, run)
    BY <1>1, NewestAfterRecord
  <1>3. v \in RunStatus
    BY DEF RunStatus, Settled
  <1>4. db' = e
    BY <1>2 DEF Settle
  <1>5. NewestRun(e) = NewestRun(d) /\ ActiveRuns(e) # <<>>
    BY <1>2, <1>3, NewestAfterStatus DEF NewestHas
  <1>6. e.steps = d.steps
    BY <1>1, <1>2, <1>3, WithStatusFacts
  <1>7. ChangedBy(d, e, {w}, run)
    BY <1>1, <1>2, <1>3, ChangedByStatus
  <1>8. \/ Ends(w, "Error", <<>>)
        \/ v # "Failed" /\ Ends(w, v, MessagesOf(d.steps[run]))
    BY <1>2 DEF Settle
  <1> HIDE DEF e, run
  <1>9. ui.handle = w /\ worker[w].pc \in LivePc
    BY LiveFacts DEF LivePc
  <1>10. \E next : GoesOn(w, next)
    <2>1. CASE Ends(w, "Error", <<>>)
      BY <1>9, <2>1, EndGoesOn
    <2>2. CASE Ends(w, v, MessagesOf(d.steps[run]))
      <3>1. MessagesOf(d.steps[run]) = MessagesOf(db'.steps[worker[w].run])
        BY <1>4, <1>6 DEF run
      <3> QED BY <1>9, <2>2, <3>1, EndGoesOn
    <2> QED BY <1>8, <2>1, <2>2
  <1>11. ChangedBy(db, e, {w}, run)
    <2>1. ChangedBy(db, d, {w}, run)
      BY DEF run
    <2> QED BY <1>7, <2>1, ChangedTwice
  <1>12. KeepsRuns(w)
    BY <1>1, <1>2, <1>4, <1>5, <1>11 DEF KeepsRuns, Writing
  <1> QED BY <1>10, <1>12

\* What a worker does, unless it creates its run.
LEMMA WorkGoesOn ==
    ASSUME TypeInv, SafeInv, NEW w \in Workers, Work(w)
    PROVE  (\E next : GoesOn(w, next)) /\ (worker[w].pc # "create" => KeepsRuns(w))
  <1> DEFINE r == worker[w]
             Goal == (\E next : GoesOn(w, next)) /\ (r.pc # "create" => KeepsRuns(w))
  <1>0. r.pc \in LivePc
    BY DEF Work, ResumeRun, FindNoWaitingRun, CreateRun, RecordRequest, ReceiveText, StreamText,
           ProposeChange, RecordResponse, CompleteRun, WaitForHumanInput, FailRun, StopCanceled, At, LivePc
  <1>1. /\ ui.handle = w /\ w \in Requests /\ StoreTyped(db)
        /\ r \in Worker /\ WorkerFits(r) /\ Listened(r, db)
    BY <1>0, LiveFacts
  <1>2. r.pc \in {"serve", "send"} =>
           r.run = NewestRun(db) /\ ActiveRuns(db) # <<>>
           /\ r.run \in RunIds /\ RunExists(db, r.run)
    BY ServingFacts
  <1>3. ASSUME ResumeRun(w) PROVE Goal
    <2> DEFINE run == NewestRun(db)
               d == WithStatus(db, run, "Running")
               serve == "serve"
               next == [r EXCEPT !.pc = serve, !.run = run]
    <2>1. r.pc = "begin" /\ ActiveRuns(db) # <<>>
      BY <1>3 DEF ResumeRun, At, NewestHas
    <2>2. CASE db' = d /\ Becomes(w, next)
      <3>1. "Running" \in RunStatus /\ run \in RunIds /\ RunExists(db, run)
        BY <1>1, <2>1, ActiveRunsFacts DEF RunStatus
      <3>2. NewestRun(d) = run /\ ActiveRuns(d) # <<>>
        BY <1>1, <2>1, <3>1, NewestAfterStatus DEF NewestHas
      <3>3. ChangedBy(db, d, Writing(w), run)
        BY <1>1, <3>1, ChangedByStatus
      <3> HIDE DEF d, run
      <3>4. KeepsRuns(w)
        BY <2>1, <2>2, <3>2, <3>3 DEF KeepsRuns, run
      <3> HIDE DEF serve
      <3>5. next.pc = serve /\ next.request = r.request
        BY <1>1 DEF Worker
      <3> HIDE DEF next
      <3>6. GoesOn(w, next)
        BY <2>2, <3>5 DEF GoesOn, Becomes, serve
      <3> QED BY <3>4, <3>6
    <2>3. CASE db' = db /\ Ends(w, "Error", <<>>)
      BY <1>0, <1>1, <2>3, EndGoesOn, SameRuns
    <2> QED BY <1>3, <2>2, <2>3 DEF ResumeRun
  <1>4. ASSUME FindNoWaitingRun(w) PROVE Goal
    <2> DEFINE create == "create"
               next == [r EXCEPT !.pc = create]
    <2>1. r.pc = "begin" /\ db' = db /\ worker' = [worker EXCEPT ![w] = next]
      BY <1>4 DEF FindNoWaitingRun, At, Becomes
    <2> HIDE DEF create
    <2>2. next.pc = create /\ next.request = r.request
      BY <1>1 DEF Worker
    <2> HIDE DEF next
    <2>3. GoesOn(w, next)
      BY <2>1, <2>2 DEF GoesOn, create
    <2> QED BY <2>1, <2>3, SameRuns
  <1>5. ASSUME CreateRun(w) PROVE Goal
    <2> DEFINE open == "open"
               run == NewRun(db)
               next == [r EXCEPT !.pc = open, !.run = run]
    <2>1. r.pc = "create" /\ worker' = [worker EXCEPT ![w] = next]
      BY <1>5 DEF CreateRun, At, Becomes
    <2> HIDE DEF open, run
    <2>2. next.pc = open /\ next.request = r.request
      BY <1>1 DEF Worker
    <2> HIDE DEF next
    <2>3. GoesOn(w, next)
      BY <2>1, <2>2 DEF GoesOn, open
    <2> QED BY <2>1, <2>3
  <1>16. ASSUME RecordRequest(w) PROVE Goal
    <2> DEFINE e == Emitting(r, w, "RunStarted")
               serve == "serve"
               next == [e EXCEPT !.pc = serve]
    <2>1. /\ r.pc = "open" /\ worker' = [worker EXCEPT ![w] = next]
          /\ db' = Record(db, r.run, "UserMessage", r.request)
      BY <1>16 DEF RecordRequest, At, Becomes
    <2>2. e \in Worker /\ e.request = r.request
      BY <1>1, EmittingFacts
    <2> HIDE DEF e, serve
    <2>3. next.pc = serve /\ next.request = r.request
      BY <2>2 DEF Worker
    <2> HIDE DEF next
    <2>4. GoesOn(w, next)
      BY <2>1, <2>3 DEF GoesOn, serve
    <2>5. r.run \in RunIds /\ r.request \in Requests
      BY <1>1, <2>1 DEF WorkerFits
    <2>6. ChangedBy(db, db', Writing(w), NewestRun(db))
      BY <1>1, <2>1, <2>5, ChangedByRequest
    <2>7. db'.runs = db.runs /\ db'.active = db.active
      <3> DEFINE d == Record(db, r.run, "UserMessage", r.request)
      <3>1. StoreTyped(db)
        BY <1>1
      <3>2. d.runs = db.runs /\ d.active = db.active
        BY <2>5, <3>1, RequestTyped
      <3> QED BY <2>1, <3>2
    <2>8. NewestRun(db') = NewestRun(db) /\ ActiveRuns(db') = ActiveRuns(db)
      BY <2>7, NewestAfterRecord
    <2> QED BY <2>4, <2>6, <2>8 DEF KeepsRuns
  <1>6. ASSUME ReceiveText(w) PROVE Goal
    <2> DEFINE send == "send"
               next == [r EXCEPT !.pc = send, !.deltas = r.deltas + 1]
    <2>1. r.pc = "serve" /\ db' = db /\ worker' = [worker EXCEPT ![w] = next]
      BY <1>1, <1>6 DEF ReceiveText, At, Becomes, Worker
    <2> HIDE DEF send
    <2>2. next.pc = send /\ next.request = r.request
      BY <1>1 DEF Worker
    <2> HIDE DEF next
    <2>3. GoesOn(w, next)
      BY <2>1, <2>2 DEF GoesOn, send
    <2> QED BY <2>1, <2>3, SameRuns
  <1>7. ASSUME StreamText(w) PROVE Goal
    <2> DEFINE e == Emitting(r, w, "AssistantTextDelta")
               serve == "serve"
               next == [e EXCEPT !.pc = serve, !.partial = TRUE, !.fresh = TRUE]
    <2>1. r.pc = "send" /\ db' = db /\ worker' = [worker EXCEPT ![w] = next]
      BY <1>7 DEF StreamText, At, Becomes
    <2>2. e \in Worker /\ e.request = r.request
      BY <1>1, EmittingFacts
    <2> HIDE DEF e, serve
    <2>3. next.pc = serve /\ next.request = r.request
      BY <2>2 DEF Worker
    <2> HIDE DEF next
    <2>4. GoesOn(w, next)
      BY <2>1, <2>3 DEF GoesOn, serve
    <2> QED BY <2>1, <2>4, SameRuns
  <1>8. ASSUME r.pc = "serve", db' = Responded(w) PROVE KeepsRuns(w)
    <2>1. ChangedBy(db, db', {w}, r.run)
      BY <1>8, RespondedChanged
    <2>2. db'.runs = db.runs /\ db'.active = db.active
      BY <1>2, <1>8, RespondedTyped
    <2>3. NewestRun(db') = NewestRun(db) /\ ActiveRuns(db') = ActiveRuns(db)
      BY <2>2, NewestAfterRecord
    <2> QED BY <1>2, <1>8, <2>1, <2>3 DEF KeepsRuns, Writing
  <1>9. ASSUME ProposeChange(w) PROVE Goal
    <2> DEFINE e == Emitting(r, w, "ToolOutput")
               serve == "serve"
               next == [e EXCEPT !.fresh = FALSE, !.proposed = TRUE]
    <2>1. r.pc = serve /\ db' = Responded(w) /\ worker' = [worker EXCEPT ![w] = next]
      BY <1>9 DEF ProposeChange, At, Becomes
    <2>2. e \in Worker /\ e.request = r.request /\ e.pc = serve
      BY <1>1, <2>1, EmittingFacts
    <2> HIDE DEF e, serve
    <2>3. next.pc = serve /\ next.request = r.request
      BY <2>2 DEF Worker
    <2> HIDE DEF next
    <2>4. GoesOn(w, next)
      BY <2>1, <2>3 DEF GoesOn, serve
    <2> QED BY <1>8, <2>1, <2>4 DEF serve
  <1>10. ASSUME RecordResponse(w) PROVE Goal
    <2> DEFINE serve == "serve"
               next == [r EXCEPT !.fresh = FALSE]
    <2>1. r.pc = serve /\ db' = Responded(w) /\ worker' = [worker EXCEPT ![w] = next]
      BY <1>10 DEF RecordResponse, At, Becomes
    <2> HIDE DEF serve
    <2>3. next.pc = serve /\ next.request = r.request
      BY <1>1, <2>1 DEF Worker
    <2> HIDE DEF next
    <2>4. GoesOn(w, next)
      BY <2>1, <2>3 DEF GoesOn, serve
    <2> QED BY <1>8, <2>1, <2>4 DEF serve
  <1>11. ASSUME NEW v \in {"Completed", "WaitingForHumanInput"}, r.pc = "serve",
                Settle(w, Responded(w), v)
         PROVE  Goal
    <2> DEFINE d == Responded(w)
    <2>1. StoreTyped(d) /\ d.runs = db.runs /\ d.active = db.active /\ ChangedBy(db, d, {w}, r.run)
      BY <1>2, <1>11, RespondedChanged, RespondedTyped
    <2> HIDE DEF d
    <2> QED BY <1>11, <2>1, SettleTold DEF d
  <1>12. ASSUME CompleteRun(w) PROVE Goal
    BY <1>11, <1>12 DEF CompleteRun, At
  <1>13. ASSUME WaitForHumanInput(w) PROVE Goal
    BY <1>11, <1>13 DEF WaitForHumanInput, At
  <1>14. ASSUME FailRun(w) PROVE Goal
    <2> DEFINE d == Record(db, r.run, "Error", w)
    <2>1. r.pc = "serve" /\ Settle(w, d, "Failed")
      BY <1>14 DEF FailRun, At
    <2>2. StoreTyped(d) /\ d.runs = db.runs /\ d.active = db.active
      BY <1>1, <1>2, <2>1, RecordTyped
    <2>3. ChangedBy(db, d, {w}, r.run)
      BY <1>1, <1>2, <2>1, ChangedByRecord
    <2> HIDE DEF d
    <2> QED BY <2>1, <2>2, <2>3, SettleTold
  <1>15. ASSUME StopCanceled(w) PROVE Goal
    <2> DEFINE run == NewestRun(db)
               d == WithStatus(db, run, "Canceled")
               e == Record(d, run, "AssistantOutputCheckpoint", w)
    <2>1. /\ IF NewestHas(db, "Running") THEN db' = IF r.partial THEN e ELSE d ELSE db' = db
          /\ Ends(w, "Error", <<>>) /\ r.pc \in {"begin", "serve"}
      BY <1>15 DEF StopCanceled, At
    <2>2. \E next : GoesOn(w, next)
      BY <1>0, <1>1, <2>1, EndGoesOn
    <2>3. CASE NewestHas(db, "Running")
      <3>1. ActiveRuns(db) # <<>> /\ "Canceled" \in RunStatus
        BY <2>3 DEF NewestHas, RunStatus, Settled
      <3>2. run \in RunIds /\ RunExists(db, run)
        BY <1>1, <3>1, ActiveRunsFacts
      <3>3. StoreTyped(d) /\ ChangedBy(db, d, {w}, run)
        BY <1>1, <3>1, <3>2, WithStatusTyped, ChangedByStatus
      <3>4. NewestRun(d) = run /\ ActiveRuns(d) # <<>>
        BY <1>1, <3>1, NewestAfterStatus DEF NewestHas
      <3>5. Writing(w) = {w}
        BY <1>1, <2>1, <2>3 DEF Writing, Listened
      <3> HIDE DEF d, run
      <3>6. ChangedBy(d, e, {w}, run)
        BY <1>1, <3>2, <3>3, ChangedByRecord
      <3>7. e.runs = d.runs /\ e.active = d.active
        BY <1>1, <3>2, <3>3, RecordTyped
      <3> HIDE DEF e
      <3>8. NewestRun(e) = run /\ ActiveRuns(e) # <<>>
        BY <3>4, <3>7, NewestAfterRecord
      <3>9. ChangedBy(db, e, {w}, run)
        BY <3>3, <3>6, ChangedTwice
      <3>10. (ChangedBy(db, db', {w}, run)) /\ NewestRun(db') = run /\ ActiveRuns(db') # <<>>
        BY <2>1, <2>3, <3>3, <3>4, <3>8, <3>9
      <3>11. KeepsRuns(w)
        BY <3>1, <3>5, <3>10 DEF KeepsRuns, run
      <3> QED BY <2>2, <3>11
    <2>4. CASE ~NewestHas(db, "Running")
      BY <2>1, <2>2, <2>4, SameRuns
    <2> QED BY <2>3, <2>4
  <1> QED BY <1>3, <1>4, <1>5, <1>6, <1>7, <1>9, <1>10, <1>12, <1>13, <1>14, <1>15, <1>16 DEF Work

\* The threads as one worker goes on.
LEMMA OneGoesOn ==
    ASSUME TypeInv, SafeInv, NEW w \in Workers, worker[w].pc \in LivePc, NEW next, GoesOn(w, next)
    PROVE  /\ ThreadsStay
           /\ worker'[w] = next /\ \A v \in Workers : v # w => worker'[v] = worker[v]
           /\ worker[w].pc # "begin" => w \in Acted'
           /\ \A v \in Workers : worker'[v].pc \in {"open", "serve", "send"} => v = w
  <1>1. worker'[w] = next /\ \A v \in Workers : v # w => worker'[v] = worker[v]
    BY DEF GoesOn, TypeInv, TypeOK
  <1>2. ThreadsStay
    BY <1>1 DEF ThreadsStay, GoesOn, LivePc
  <1>3. worker[w].pc # "begin" => w \in Acted'
    BY <1>1 DEF GoesOn, Acted
  <1>4. \A v \in Workers : v # w => worker[v].pc \notin LivePc
    BY LiveFacts
  <1> QED BY <1>1, <1>2, <1>3, <1>4 DEF LivePc

\* Who wrote what, after a step of a worker that creates no run.
LEMMA WriterTold ==
    ASSUME TypeInv, SafeInv, TypeInv', SafeInv', OnceInv, NEW w \in Workers,
           worker[w].pc \in {"begin", "open", "serve", "send"}, KeepsRuns(w), ui' = ui,
           NEW next, GoesOn(w, next)
    PROVE  AuthorsInv(db', Acted') /\ WritesToItsRun(db)' /\ AskedInv'
  <1> DEFINE d == db
             e == db'
             old == Acted
             new == Acted'
             run == NewestRun(d)
             by == Writing(w)
  <1>1. /\ ui.handle = w /\ ui.handle # 0 /\ w \in Requests /\ On
    BY LiveFacts DEF LivePc
  <1>2. /\ worker'[w] = next
        /\ worker[w].pc # "begin" => w \in new
        /\ \A v \in Workers : worker'[v].pc \in {"open", "serve", "send"} => v = w
        /\ old \subseteq new
    BY OneGoesOn, ThreadsThatStay DEF LivePc
  <1>3. /\ AuthorsInv(d, old) /\ WritesToItsRun(d) /\ AskedInv
    BY DEF OnceInv
  <1>4. ChangedBy(d, e, by, run) /\ NewestRun(e) = run /\ (ActiveRuns(e) = <<>> <=> ActiveRuns(d) = <<>>)
    BY DEF KeepsRuns
  <1>5. worker'[w].pc \in {"open", "serve", "send"} => worker'[w].run = NewestRun(e)
    <2>1. worker'[w].pc \in LivePc => Listened(worker'[w], e)
      BY <1>1 DEF SafeInv, ListenedInv
    <2> QED BY <2>1 DEF Listened, LivePc
  <1>6. worker[w].pc \in {"open", "serve", "send"} => worker[w].run = run
    <2>1. Listened(worker[w], d)
      BY LiveFacts DEF LivePc
    <2> QED BY <2>1 DEF Listened
  <1>7. StoreTyped(e)
    BY DEF TypeInv, TypeOK, StoreTyped
  <1>8. worker[w].pc = "begin" => w \notin old
    BY DEF Acted
  <1>9. \A other \in RunIds : Wrote(d, w, other) => other = run /\ worker[w].pc # "begin"
    BY <1>1, <1>3, <1>6, <1>8 DEF AuthorsInv, WritesToItsRun
  <1> HIDE DEF old, new, e, run
  <1>10. AuthorsInv(e, new)
    <2>1. \A v \in by : v \in new /\ \A other \in RunIds : Wrote(d, v, other) => other = run
      BY <1>2, <1>9 DEF Writing
    <2> HIDE DEF by, d
    <2> QED BY <1>2, <1>3, <1>4, <2>1, AuthorsKept
  <1>11. WritesToItsRun(db)'
    <2>1. SUFFICES ASSUME worker'[w].pc \in {"open", "serve", "send"},
                          NEW other \in RunIds, Wrote(e, w, other)
                   PROVE  worker'[w].run = other
      BY <1>2 DEF WritesToItsRun, e
    <2>2. Wrote(d, w, other) \/ other = run
      BY <1>1, <1>4, <2>1 DEF ChangedBy
    <2>3. other = run
      BY <1>9, <2>2
    <2> QED BY <1>4, <1>5, <2>1, <2>3
  <1>12. ASSUME ~ui.pending, ActiveRuns(e) # <<>>
         PROVE  AskedFirst(ui.messages, RequestOf(e, NewestRun(e)), Authors(e, w))
    <2>1. run \in RunIds /\ RunExists(e, run)
      BY <1>4, <1>7, <1>12, ActiveRunsFacts
    <2>2. RequestOf(e, run) = RequestOf(d, run)
      BY <1>4, <2>1 DEF ChangedBy
    <2>3. Authors(e, w) \subseteq Authors(d, w)
      <3>1. \A v \in Requests : Wrote(e, v, run) => Wrote(d, v, run) \/ v \in by
        BY <1>4, <2>1 DEF ChangedBy
      <3> QED BY <1>4, <3>1 DEF Authors, Writing, run
    <2>4. AskedFirst(ui.messages, RequestOf(d, run), Authors(d, w))
      BY <1>1, <1>3, <1>4, <1>12 DEF AskedInv, run
    <2> QED BY <1>4, <2>2, <2>3, <2>4, AskedOfFewer
  <1>13. AskedInv'
    BY <1>1, <1>3, <1>12 DEF AskedInv, On, e
  <1> QED BY <1>10, <1>11, <1>13 DEF e, new

\* Who wrote what, after a run was created: nobody in that run.
LEMMA CreatorTold ==
    ASSUME TypeInv, SafeInv, TypeInv', SafeInv', OnceInv, NEW w \in Workers,
           worker[w].pc = "create", worker[w].request = w, CreateRun(w),
           NEW next, GoesOn(w, next)
    PROVE  AuthorsInv(db', Acted') /\ WritesToItsRun(db)' /\ AskedInv'
  <1> DEFINE d == db
             e == db'
             old == Acted
             new == Acted'
             run == NewRun(d)
  <1>1. /\ ui.handle = w /\ ui.handle # 0 /\ w \in Requests /\ On
        /\ StoreTyped(d) /\ StoreInv(d) /\ ActiveExists(d)
    BY LiveFacts DEF LivePc
  <1>2. /\ worker'[w] = next /\ w \in new
        /\ \A v \in Workers : worker'[v].pc \in {"open", "serve", "send"} => v = w
        /\ old \subseteq new
    BY OneGoesOn, ThreadsThatStay DEF LivePc
  <1>3. /\ AuthorsInv(d, old) /\ AskedInv /\ ConversationInv(ui.messages, Sent, old)
    BY DEF OnceInv
  <1>4. w \notin old
    BY DEF Acted
  <1>5. e = WithRun(d, w) /\ Len(ActiveRuns(d)) < MaxRuns /\ ui' = ui
    BY DEF CreateRun
  <1> HIDE DEF old, new, e, d, run
  <1>6. /\ AuthorsInv(e, new) /\ NewestRun(e) = run /\ RequestOf(e, run) = w
        /\ \A v \in Requests, other \in RunIds : Wrote(e, v, other) => Wrote(d, v, other)
        /\ \A v \in Requests : ~Wrote(e, v, run)
    BY <1>1, <1>2, <1>3, <1>4, <1>5, CreatedAuthors DEF run
  <1>7. WritesToItsRun(db)'
    <2>1. \A other \in RunIds : ~Wrote(e, w, other)
      BY <1>1, <1>3, <1>4, <1>6 DEF AuthorsInv
    <2> QED BY <1>2, <2>1 DEF WritesToItsRun, e
  <1>8. AskedFirst(ui.messages, w, Authors(e, w))
    <2>1. \E j \in DOMAIN ui.messages : Asks(w, ui.messages[j])
      BY <1>1, <1>3 DEF AskedInv
    <2>2. \A v \in Authors(e, w) : v = w
      BY <1>6 DEF Authors
    <2>3. ASSUME NEW i \in DOMAIN ui.messages, ui.messages[i].role # "User",
                 ui.messages[i].of = {w}
          PROVE  FALSE
      <3>1. Known(ui.messages[i], Sent, old)
        BY <1>3 DEF ConversationInv
      <3>2. w \in old
        BY <2>3, <3>1 DEF Known
      <3> QED BY <1>4, <3>2
    <2> QED BY <2>1, <2>2, <2>3 DEF AskedFirst
  <1>9. AskedInv'
    <2>1. ui'.handle = w /\ ui'.messages = ui.messages
      BY <1>1, <1>5
    <2>2. \E j \in DOMAIN ui.messages : Asks(w, ui.messages[j])
      BY <1>1, <1>3 DEF AskedInv
    <2>3. RequestOf(e, NewestRun(e)) = w
      BY <1>6
    <2> QED BY <1>8, <2>1, <2>2, <2>3 DEF AskedInv, e
  <1> QED BY <1>6, <1>7, <1>9 DEF e, new

\* What a worker does.
LEMMA WorkTold ==
    ASSUME TypeInv, SafeInv, ToldInv, TypeInv', SafeInv', NEW w \in Workers, Work(w)
    PROVE  ToldInv'
  <1>1. worker[w].pc \in LivePc
    BY DEF Work, ResumeRun, FindNoWaitingRun, CreateRun, RecordRequest, ReceiveText, StreamText,
           ProposeChange, RecordResponse, CompleteRun, WaitForHumanInput, FailRun, StopCanceled, At, LivePc
  <1>2. ui' = ui
    BY DEF Work, ResumeRun, FindNoWaitingRun, CreateRun, RecordRequest, ReceiveText, StreamText,
           ProposeChange, RecordResponse, CompleteRun, WaitForHumanInput, FailRun, StopCanceled
  <1>3. ui.handle = w /\ ui.handle # 0
    BY <1>1, LiveFacts
  <1>4. PICK next : GoesOn(w, next)
    BY WorkGoesOn
  <1>5. ThreadsStay /\ worker'[w] = next
    BY <1>1, <1>4, OneGoesOn
  <1>6. /\ Sent' = Sent /\ Acted \subseteq Acted' /\ SentInv'
        /\ (NothingIsRepeated' => NothingIsRepeated)
    BY <1>5, ThreadsThatStay DEF ToldInv
  <1>7. EndsInv'
    BY <1>2, <1>3, <1>4, <1>5 DEF EndsInv, GoesOn
  <1>8. ASSUME NothingIsRepeated' PROVE OnceInv'
    <2>1. OnceInv /\ worker[w].request = w
      <3>1. w \in Sent
        BY <1>1 DEF Sent, LivePc
      <3> QED BY <1>6, <1>8, <3>1 DEF ToldInv, NothingIsRepeated
    <2>2. AuthorsInv(db', Acted') /\ WritesToItsRun(db)' /\ AskedInv'
      <3>1. CASE worker[w].pc = "create"
        <4>1. CreateRun(w)
          BY <3>1 DEF Work, ResumeRun, FindNoWaitingRun, RecordRequest, ReceiveText, StreamText, ProposeChange,
                      RecordResponse, CompleteRun, WaitForHumanInput, FailRun, StopCanceled, At
        <4> QED BY <1>4, <2>1, <3>1, <4>1, CreatorTold
      <3>2. CASE worker[w].pc # "create"
        <4>1. KeepsRuns(w) /\ worker[w].pc \in {"begin", "open", "serve", "send"}
          BY <1>1, <3>2, WorkGoesOn DEF LivePc
        <4> QED BY <1>2, <1>4, <2>1, <4>1, WriterTold
      <3> QED BY <3>1, <3>2
    <2>3. ConversationInv(ui'.messages, Sent', Acted')
      <3>1. ConversationInv(ui.messages, Sent, Acted)
        BY <2>1 DEF OnceInv
      <3> QED BY <1>2, <1>6, <3>1, ConversationStays
    <2> QED BY <2>2, <2>3 DEF OnceInv
  <1> QED BY <1>6, <1>7, <1>8 DEF ToldInv

-----------------------------------------------------------------------------
(***************************************************************************)
(* The invariant says that the conversation ends with the run, and that    *)
(* nothing of the run is shown before.                                     *)
(***************************************************************************)
\* The reverse of a sequence.
LEMMA ReverseIs ==
    ASSUME NEW M, NEW s \in Seq(M)
    PROVE  /\ Reverse(s) \in Seq(M) /\ Len(Reverse(s)) = Len(s) /\ Len(s) \in Nat
           /\ \A i \in 1..Len(s) : Reverse(s)[i] = s[(Len(s) - i) + 1]
  <1> DEFINE n == Len(s)
             r == [i \in 1..n |-> s[(n - i) + 1]]
  <1>1. n \in Nat /\ s \in [1..n -> M]
    BY LenProperties
  <1>2. \A i \in 1..n : (n - i) + 1 \in 1..n
    BY <1>1
  <1>3. Reverse(s) = r
    BY DEF Reverse
  <1>4. r \in [1..n -> M]
    BY <1>1, <1>2
  <1>5. \A i \in 1..n : r[i] = s[(n - i) + 1]
    OBVIOUS
  <1> HIDE DEF r, n
  <1>6. r \in Seq(M) /\ Len(r) = n
    BY <1>1, <1>4
  <1> QED BY <1>1, <1>3, <1>5, <1>6 DEF n

\* What ends with a run has it as a suffix.
LEMMA EndIsSuffix ==
    ASSUME NEW M, NEW messages \in Seq(M), NEW run \in Seq(M), EndsWith(messages, run)
    PROVE  IsSuffix(run, messages)
  <1> DEFINE m == Len(run)
             n == Len(messages)
             back == Reverse(run)
             all == Reverse(messages)
  <1>1. PICK k \in Nat : n = k + m /\ \A p \in 1..m : messages[k + p] = run[p]
    BY DEF EndsWith
  <1>2. /\ back \in Seq(M) /\ Len(back) = m /\ m \in Nat
        /\ \A i \in 1..m : back[i] = run[(m - i) + 1]
    BY ReverseIs
  <1>3. /\ all \in Seq(M) /\ Len(all) = n /\ n \in Nat
        /\ \A i \in 1..n : all[i] = messages[(n - i) + 1]
    BY ReverseIs
  <1> HIDE DEF m, n, back, all
  <1>4. ASSUME NEW i \in 1..m PROVE i \in 1..n /\ back[i] = all[i]
    <2>1. i \in 1..n /\ (m - i) + 1 \in 1..m /\ (n - i) + 1 = k + ((m - i) + 1)
      BY <1>1, <1>2, <1>3
    <2>2. messages[k + ((m - i) + 1)] = run[(m - i) + 1]
      BY <1>1, <2>1
    <2> QED BY <1>2, <1>3, <2>1, <2>2
  <1>5. \A i \in 1..m : back[i] \in M /\ all[i] \in M
    BY <1>2, <1>3, <1>4, ElementOfSeq
  <1> DEFINE b == SubSeq(back, 1, m)
             a == SubSeq(all, 1, m)
  <1>6. b \in Seq(M) /\ Len(b) = m /\ \A i \in 1..m : b[i] = back[i]
    BY <1>2, <1>5, SubSeqProperties
  <1>7. a \in Seq(M) /\ Len(a) = m /\ \A i \in 1..m : a[i] = all[i]
    BY <1>2, <1>5, SubSeqProperties
  <1> HIDE DEF a, b
  <1>8. a = b
    BY <1>4, <1>6, <1>7, SeqEqual
  <1>9. IsPrefix(back, all)
    BY <1>1, <1>2, <1>3, <1>8 DEF IsPrefix, a, b
  <1> QED BY <1>9 DEF IsSuffix, back, all

\* The run is behind k other messages.
Behind(messages, run, k) ==
    Len(messages) = k + Len(run) /\ \A p \in 1..Len(run) : messages[k + p] = run[p]

\* A message is shown as often as the run tells it.
AsOften(messages, run, m) ==
    Cardinality({i \in DOMAIN messages : messages[i] = m})
    = Cardinality({i \in DOMAIN run : run[i] = m})

\* So it is if it is not among those others.
LEMMA ShownAsTold ==
    ASSUME NEW M, NEW messages \in Seq(M), NEW run \in Seq(M), NEW k \in Nat,
           Behind(messages, run, k), NEW m, Unlike(messages, m, k)
    PROVE  AsOften(messages, run, m)
  <1> DEFINE S == {i \in DOMAIN run : run[i] = m}
             T == {i \in DOMAIN messages : messages[i] = m}
             n == Len(run)
             f == [p \in S |-> k + p]
  <1>0. Len(messages) = k + n /\ \A p \in 1..n : messages[k + p] = run[p]
    BY DEF Behind
  <1>1. DOMAIN run = 1..n /\ n \in Nat /\ DOMAIN messages = 1..(k + n)
    BY <1>0, LenProperties
  <1>2. S = {i \in 1..n : run[i] = m} /\ T = {i \in 1..(k + n) : messages[i] = m}
    BY <1>1
  <1> HIDE DEF n
  <1>3. IsFiniteSet(S)
    <2>1. IsFiniteSet(1..n) /\ S \in SUBSET (1..n)
      BY <1>1, <1>2, FS_Interval
    <2> HIDE DEF S
    <2> QED BY <2>1, FS_Subset
  <1>4. \A p \in 1..n : k + p \in 1..(k + n) /\ messages[k + p] = run[p]
    BY <1>0, <1>1
  <1> HIDE DEF S, T
  <1>5. ASSUME NEW t \in T PROVE \E p \in S : t = k + p
    <2>1. t \in 1..(k + n) /\ t \notin 1..k /\ messages[t] = m
      BY <1>2 DEF Unlike
    <2>2. t - k \in 1..n /\ t = k + (t - k)
      BY <1>1, <2>1
    <2>3. run[t - k] = m
      BY <1>4, <2>1, <2>2
    <2> QED BY <1>2, <2>2, <2>3
  <1>6. f \in [S -> T]
    BY <1>2, <1>4
  <1>7. \A p \in S : f[p] = k + p /\ p \in 1..n
    BY <1>2
  <1> HIDE DEF f
  <1>8. \A p, q \in S : f[p] = f[q] => p = q
    BY <1>7
  <1>9. \A t \in T : \E p \in S : f[p] = t
    BY <1>5, <1>7
  <1>10. f \in Bijection(S, T)
    BY <1>6, <1>8, <1>9 DEF Bijection, Injection, Surjection, IsInjective
  <1>11. ExistsBijection(S, T)
    BY <1>10 DEF ExistsBijection
  <1> QED BY <1>3, <1>11, FS_Bijection DEF AsOften, S, T

\* Nothing of the newest run is before it in the conversation.
LEMMA NotShownBefore ==
    ASSUME NEW d, StoreTyped(d), StoreInv(d), ActiveRuns(d) # <<>>, d.steps[NewestRun(d)] # <<>>,
           NEW messages \in Seq(Message), NEW sent, NEW acted,
           ConversationInv(messages, sent, acted),
           NEW asked, asked = RequestOf(d, NewestRun(d)),
           AskedFirst(messages, asked, Authors(d, 0)),
           \A i \in DOMAIN messages : messages[i] # Msg("User", {Feedback(asked)}),
           NEW run, run = MessagesOf(d.steps[NewestRun(d)]),
           NEW k \in Nat, Behind(messages, run, k), NEW p \in DOMAIN run
    PROVE  Unlike(messages, run[p], k)
  <1>0. SUFFICES ASSUME NEW i \in 1..k PROVE messages[i] # run[p]
    BY DEF Unlike
  <1>1. NewestRun(d) \in RunIds
    BY ActiveRunsFacts
  <1>2. /\ run \in Seq(Message) /\ Begins(run) /\ Asks(asked, run[1])
        /\ NamesAuthors(d, NewestRun(d), run)
    BY <1>1, RunShown
  <1>3. /\ DOMAIN run = 1..Len(run) /\ Len(run) \in Nat
        /\ DOMAIN messages = 1..Len(messages)
    BY LenProperties, <1>2
  <1>4. 1 \in 1..Len(run)
    BY <1>2, <1>3 DEF Begins
  <1> DEFINE first == k + 1
  <1>5. first \in DOMAIN messages /\ messages[first] = run[1] /\ i \in DOMAIN messages /\ i # first
        /\ \A j \in 1..i : j \in DOMAIN messages /\ j # first
    BY <1>3, <1>4 DEF Behind
  <1> HIDE DEF first
  <1>6. run[1].role = "User"
    BY <1>2 DEF Begins
  <1>7. \A j \in DOMAIN messages : messages[j] = run[1] => j = first
    BY <1>5, <1>6 DEF ConversationInv
  <1>8. \A j \in DOMAIN messages : Asks(asked, messages[j]) => messages[j] = run[1]
    BY <1>2, <1>5 DEF Asks
  <1>9. CASE p = 1
    BY <1>5, <1>7, <1>9
  <1>10. CASE p # 1
    <2>1. SUFFICES ASSUME messages[i] = run[p] PROVE FALSE
      OBVIOUS
    <2>2. PICK w \in Requests : /\ run[p].role # "User" /\ run[p].of = {w}
                                /\ Wrote(d, w, NewestRun(d))
      BY <1>2, <1>10 DEF NamesAuthors
    <2>3. w \in Authors(d, 0)
      BY <2>2 DEF Authors
    <2>4. AskedBy(messages, asked, i)
      BY <1>5, <2>1, <2>2, <2>3 DEF AskedFirst
    <2>5. PICK j \in 1..i : Asks(asked, messages[j])
      BY <2>4 DEF AskedBy
    <2> QED BY <1>5, <1>7, <1>8, <2>5
  <1> QED BY <1>9, <1>10

\* So a run that is over is shown as it is stored, and once.
LEMMA ToldFinished ==
    ASSUME TypeInv, SafeInv, ToldInv
    PROVE  FinishedRunIsShown
  <1> DEFINE messages == ui.messages
             run == MessagesOf(db.steps[NewestRun(db)])
             asked == Last(ActiveRuns(db)).request
             shown(m) == Cardinality({i \in DOMAIN messages : messages[i] = m})
             told(m) == Cardinality({i \in DOMAIN run : run[i] = m})
  <1>1. SUFFICES ASSUME /\ On /\ ui.handle = 0 /\ ~ui.pending
                        /\ ui.status \in {"Completed", "WaitingForHumanInput"}
                 PROVE  /\ NewestHas(db, ui.status)
                        /\ IsSuffix(run, messages)
                        /\ NothingIsRepeated /\ Msg("User", {Feedback(asked)}) \notin ToSet(messages)
                           => \A m \in ToSet(run) : shown(m) = told(m)
    BY DEF FinishedRunIsShown
  <1>2. StoreTyped(db) /\ StoreInv(db) /\ messages \in Seq(Message)
    BY DEF TypeInv, TypeOK, StoreTyped, SafeInv, Ui
  <1>3. NewestHas(db, ui.status)
    BY <1>1 DEF SafeInv, IdleInv
  <1>4. ActiveRuns(db) # <<>> /\ ~NewestHas(db, "Running") /\ db.steps[NewestRun(db)] # <<>>
    <2>1. ActiveRuns(db) # <<>> /\ ~NewestHas(db, "Running")
      BY <1>1, <1>3 DEF NewestHas
    <2> QED BY <1>2, <2>1, NewestHasSteps
  <1>5. /\ NewestRun(db) \in RunIds /\ RunExists(db, NewestRun(db))
        /\ asked = RequestOf(db, NewestRun(db))
    BY <1>2, <1>4, ActiveRunsFacts DEF RequestOf, NewestRun, ActiveRuns
  <1>6. run \in Seq(Message)
    BY <1>2, <1>4, <1>5, RunShown
  <1>7. EndsWith(messages, run)
    BY <1>1 DEF ToldInv, EndsInv
  <1> HIDE DEF messages, run, asked
  <1>8. IsSuffix(run, messages)
    BY <1>2, <1>6, <1>7, EndIsSuffix
  <1>9. ASSUME NothingIsRepeated, Msg("User", {Feedback(asked)}) \notin ToSet(messages),
               NEW m \in ToSet(run)
        PROVE  shown(m) = told(m)
    <2>1. ConversationInv(messages, Sent, Acted) /\ AskedFirst(messages, asked, Authors(db, 0))
      BY <1>1, <1>4, <1>5, <1>9 DEF ToldInv, OnceInv, AskedInv, messages
    <2>2. \A i \in DOMAIN messages : messages[i] # Msg("User", {Feedback(asked)})
      BY <1>9 DEF ToSet
    <2>3. PICK k \in Nat : Behind(messages, run, k)
      BY <1>7 DEF EndsWith, Behind
    <2>4. PICK p \in DOMAIN run : run[p] = m
      BY <1>9 DEF ToSet
    <2> DEFINE sent == Sent
               acted == Acted
    <2>5. ConversationInv(messages, sent, acted)
      BY <2>1
    <2> HIDE DEF sent, acted
    <2>6. Unlike(messages, run[p], k)
      BY <1>2, <1>4, <1>5, <2>1, <2>2, <2>3, <2>4, <2>5, NotShownBefore DEF run
    <2>7. AsOften(messages, run, m)
      BY <1>2, <1>6, <2>3, <2>4, <2>6, ShownAsTold
    <2> QED BY <2>7 DEF AsOften
  <1> QED BY <1>3, <1>8, <1>9

-----------------------------------------------------------------------------
(***************************************************************************)
(* The invariant holds at first, and every step keeps it.                  *)
(***************************************************************************)
\* At first there is nothing to tell.
LEMMA ToldInit == Init => ToldInv
  <1>1. SUFFICES ASSUME Init PROVE ToldInv
    OBVIOUS
  <1> DEFINE u == [OffUi EXCEPT !.state = "on"]
             d == InitialStore
  <1>2. db = d /\ ui = Loaded(u, d) /\ worker = [w \in Workers |-> Unused]
    BY <1>1 DEF Init
  <1>3. u \in Ui /\ u.handle = 0
    BY EndedTyped DEF OffUi
  <1>4. StoreTyped(d) /\ StoreInv(d)
    <2>1. StoreInv(db)
      BY <1>1, SafeInit DEF SafeInv
    <2> QED BY <1>2, <2>1, InitialStoreTyped
  <1>5. 1 \in SessionIds
    BY SessionStoreAssumption DEF SessionIds
  <1>6. /\ \A s \in SessionIds : d.runs[s] = <<>>
        /\ \A run \in RunIds : d.steps[run] = <<>>
        /\ d.active = 1
    BY DEF InitialStore
  <1>7. ActiveRuns(d) = <<>>
    BY <1>5, <1>6 DEF ActiveRuns
  <1> HIDE DEF u, d
  <1>8. /\ ui.handle = 0 /\ ui.status = "Idle"
        /\ ui.messages = MessagesOf(SessionSteps(d, d.active))
    BY <1>2, <1>3, <1>4, <1>7, LoadedFacts, LoadedMessages
  <1>9. Sent = {} /\ Acted = {}
    BY <1>2 DEF Sent, Acted, Unused
  <1>10. SentInv
    <2>1. 0 \in 0..MaxRequests /\ 1..0 = {}
      BY TuiRunsAssumption
    <2> QED BY <1>9, <2>1 DEF SentInv
  <1>11. EndsInv
    BY <1>8 DEF EndsInv
  <1>12. AuthorsInv(d, {})
    <2>1. \A run \in RunIds : ~RunExists(d, run)
      <3>1. \A run \in RunIds : run[1] \in SessionIds
        BY DEF RunIds
      <3> QED BY <1>6, <3>1 DEF RunExists
    <2>2. \A w \in Requests, run \in RunIds : ~Wrote(d, w, run)
      BY <1>6 DEF Wrote
    <2> QED BY <2>1, <2>2 DEF AuthorsInv
  <1>13. ConversationInv(ui.messages, Sent, Acted)
    <2> DEFINE none == {}
    <2>1. none \subseteq none /\ AuthorsInv(d, none)
      BY <1>12
    <2> HIDE DEF none
    <2>2. ConversationInv(MessagesOf(SessionSteps(d, d.active)), none, none)
      BY <1>4, <2>1, LoadedConversation
    <2> QED BY <1>8, <1>9, <2>2 DEF none
  <1>14. WritesToItsRun(db)
    BY <1>2 DEF WritesToItsRun, Unused
  <1>15. AskedInv
    BY <1>2, <1>7, <1>8 DEF AskedInv
  <1>16. OnceInv
    BY <1>2, <1>9, <1>12, <1>13, <1>14, <1>15 DEF OnceInv
  <1> QED BY <1>10, <1>11, <1>16 DEF ToldInv

\* Every step of an orderly user, of the loop and of the workers keeps it.
LEMMA ToldStep ==
    ASSUME Orderly
    PROVE  TypeInv /\ SafeInv /\ ToldInv /\ [Next]_vars => ToldInv'
  <1>1. SUFFICES ASSUME TypeInv, SafeInv, ToldInv, [Next]_vars PROVE ToldInv'
    OBVIOUS
  <1>2. TypeInv' /\ SafeInv'
    BY <1>1, TypeStep, SafeStep
  <1>3. ui \in Ui /\ ui.handle \in {0} \union Workers
    BY <1>1 DEF TypeInv, TypeOK, Ui
  <1>4. CASE User
    BY <1>1, <1>2, <1>4, UserTold
  <1>5. CASE TakeEvent
    BY <1>1, <1>5, TakeEventTold
  <1>6. CASE TakeResult
    BY <1>1, <1>6, TakeResultTold
  <1>7. CASE FindNoEvent
    <2>1. db' = db /\ worker' = worker /\ ui' = [ui EXCEPT !.drained = TRUE]
      BY <1>7 DEF FindNoEvent
    <2>2. /\ ui'.state = ui.state /\ ui'.status = ui.status /\ ui'.pending = ui.pending
          /\ ui'.messages = ui.messages /\ ui'.handle = ui.handle
      BY <1>3, <2>1 DEF Ui
    <2> QED BY <1>1, <1>3, <2>1, <2>2, SameTold
  <1>8. CASE \E w \in Workers : Work(w)
    BY <1>1, <1>2, <1>8, WorkTold
  <1>9. CASE UNCHANGED vars
    BY <1>1, <1>3, <1>9, SameTold DEF vars
  <1> QED BY <1>1, <1>4, <1>5, <1>6, <1>7, <1>8, <1>9 DEF Next, Loop

\* When the UI says that a run ended or asks the human, the conversation ends with
\* that run as the store has it; and unless a request is repeated or the run was
\* asked for with feedback, merging it has removed every trace of it that was
\* streamed to the screen before, wherever reloads, errors and cancellations left it.
THEOREM FinishedRunsAreShown ==
    ASSUME Orderly
    PROVE  Spec => []FinishedRunIsShown
  <1>1. TypeInv /\ SafeInv /\ [Next]_vars => SafeInv'
    BY SafeStep
  <1>2. TypeInv /\ SafeInv /\ ToldInv /\ [Next]_vars => ToldInv'
    BY ToldStep
  <1>3. TypeInv /\ SafeInv /\ ToldInv => FinishedRunIsShown
    BY ToldFinished
  <1> QED BY <1>1, <1>2, <1>3, TypeInit, SafeInit, ToldInit, TypeStep, PTL DEF Spec
=============================================================================
