---------------------------- MODULE RunLifecycle ----------------------------
(***************************************************************************)
(* What a session promises about its runs, with everything the agent loop  *)
(* does in between left out.  A run is created Running; only the newest    *)
(* run of the session ever changes; it may be suspended for a human answer *)
(* and resumed; once Completed, Failed or Canceled it never changes; and   *)
(* no new run is created while the newest one waits for a human.           *)
(* RunLoop is shown to implement this module.                              *)
(***************************************************************************)
EXTENDS Naturals

CONSTANT MaxRuns    \* bound: runs the session may hold

VARIABLES
    status,         \* status[r], "None" for a run that is not created yet
    latest          \* the newest run of the session, 0 when there is none

vars == <<status, latest>>

Runs == 1..MaxRuns
Settled == {"Completed", "Failed", "Canceled"}
RunStatus == {"Running", "WaitingForHumanInput"} \union Settled

Init ==
    /\ status = [r \in Runs |-> "None"]
    /\ latest = 0

(***************************************************************************)
(* A request creates the next run, unless the newest run waits: then the   *)
(* request is that run's answer.                                           *)
(***************************************************************************)
Create ==
    /\ latest < MaxRuns
    /\ latest > 0 => status[latest] # "WaitingForHumanInput"
    /\ latest' = latest + 1
    /\ status' = [status EXCEPT ![latest + 1] = "Running"]

Move(from, to) ==
    /\ latest > 0
    /\ status[latest] = from
    /\ status' = [status EXCEPT ![latest] = to]
    /\ UNCHANGED latest

Suspend == Move("Running", "WaitingForHumanInput")
Resume  == Move("WaitingForHumanInput", "Running")
Settle  == \E outcome \in Settled : Move("Running", outcome)

Next == Create \/ Suspend \/ Resume \/ Settle

Spec == Init /\ [][Next]_vars
=============================================================================
