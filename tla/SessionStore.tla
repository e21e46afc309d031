---------------------------- MODULE SessionStore ----------------------------
(***************************************************************************)
(* The tables of one workspace (state/store.rs) as a value, and the        *)
(* operations on them as functions of that value, each one transaction.    *)
(* Sessions are named by their number, a run by its session and its own    *)
(* number.  Steps are rows of their own: nothing ties them to a run, nor a *)
(* run to a session, except the prefix of its id.                          *)
(***************************************************************************)
EXTENDS Naturals, Sequences, FiniteSets, SequencesExt

CONSTANTS
    MaxSessions,    \* bound: the highest session number
    MaxRuns         \* bound: runs of one session

ASSUME SessionStoreAssumption ==
    /\ MaxSessions \in Nat \ {0}
    /\ MaxRuns \in Nat \ {0}

SessionIds == 1..MaxSessions
RunIds == SessionIds \X (1..MaxRuns)

Settled == {"Completed", "Failed", "Canceled"}
RunStatus == {"Running", "WaitingForHumanInput"} \union Settled

(***************************************************************************)
(* The database after init_workspace: one session, which is active.        *)
(***************************************************************************)
InitialStore ==
    [sessions |-> {1}, archived |-> {}, active |-> 1,
     runs |-> [s \in SessionIds |-> <<>>],
     steps |-> [run \in RunIds |-> <<>>]]

\* load_active_session finds the session the workspace points to.
ActiveExists(db) == db.active \in db.sessions

\* create_session numbers the new session by counting the rows, and the insert
\* fails if that id is taken.
NextSession(db) == Cardinality(db.sessions) + 1
NextSessionIsFree(db) == NextSession(db) \notin db.sessions
WithNewSession(db) == [db EXCEPT !.sessions = @ \union {NextSession(db)}]

WithActive(db, s) == [db EXCEPT !.active = s]
WithArchived(db, s) == [db EXCEPT !.archived = @ \union {s}]

WithoutSessionRow(db, s) ==     \* mutant: the steps of its runs stay
    [db EXCEPT !.sessions = @ \ {s}, !.archived = @ \ {s}, !.runs[s] = <<>>]

\* delete_session removes everything whose id starts with that of the session,
\* and leaves the workspace's pointer as it is.
WithoutSession(db, s) ==
    [db EXCEPT !.sessions = @ \ {s},
               !.archived = @ \ {s},
               !.runs[s] = <<>>,
               !.steps = [run \in RunIds |-> IF run[1] = s THEN <<>> ELSE @[run]]]

\* create_run in the active session, whether its row exists or not
NewRun(db) == <<db.active, Len(db.runs[db.active]) + 1>>
WithRun(db, request) ==
    [db EXCEPT !.runs[db.active] =
        Append(@, [request |-> request, status |-> "Running"])]

\* append_step, whether the run exists or not
WithStep(db, run, step) == [db EXCEPT !.steps[run] = Append(@, step)]

\* update_run_status fails with MissingRun when the run is gone.
RunExists(db, run) == run[2] \in DOMAIN db.runs[run[1]]
WithStatus(db, run, v) == [db EXCEPT !.runs[run[1]][run[2]].status = v]

\* load_session_runs: the newest run of the active session, if it has this status
ActiveRuns(db) == db.runs[db.active]
NewestHas(db, v) == ActiveRuns(db) # <<>> /\ Last(ActiveRuns(db)).status = v
NewestRun(db) == <<db.active, Len(ActiveRuns(db))>>

\* load_session_steps: every step of the session, in the order of their ids
SessionSteps(db, s) == FlattenSeq([n \in 1..MaxRuns |-> db.steps[<<s, n>>]])
=============================================================================
