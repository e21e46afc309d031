----------------------------- MODULE CodeChange -----------------------------
(***************************************************************************)
(* Code change proposals (jux-core/code_change): the tool that prepares one *)
(* in a worker thread, the review the terminal UI keeps of the latest, and *)
(* the user's decision, which the UI carries out file by file while other  *)
(* programs go on writing the same files.                                  *)
(*                                                                         *)
(* Every read and every write of a file is a step.  The request that a     *)
(* returned change starts is TuiRuns' RequestChanges.                      *)
(***************************************************************************)
EXTENDS Naturals, Sequences, SequencesExt, FiniteSets

CONSTANTS
    Files,          \* relative paths whose components are all normal
    Outside,        \* paths that WorkspaceRelativePath refuses
    Sensitive,      \* those of Files that is_sensitive_path holds for
    Proposals,      \* what the model may propose: sequences of file contents
    EditedTo,       \* contents that other programs save
    MaxProposals,   \* bound: proposals of the agent
    MaxEdits        \* bound: saves by other programs

ProposedFileContent == [path : Files \union Outside, new_content : {"new", "newer"}]

ASSUME CodeChangeAssumption ==
    /\ Files \intersect Outside = {}
    /\ Sensitive \subseteq Files
    /\ Proposals \subseteq Seq(ProposedFileContent)
    /\ EditedTo \subseteq {"absent", "empty", "old", "edited", "binary"}
    /\ MaxProposals \in Nat /\ MaxEdits \in Nat

VARIABLES
    disk,       \* disk[f]: the content of a file, or "absent"
    agent,      \* the propose_code_change call of the worker
    review,     \* code_change_review of the UI's model
    ui,         \* the UI loop, inside or outside of apply
    edits,      \* number of saves so far
    late        \* history: files saved since apply last compared them

vars == <<disk, agent, review, ui, edits, late>>

Content == {"absent", "empty", "old", "edited", "binary", "new", "newer"}

-----------------------------------------------------------------------------
\* fs::read_to_string: a missing file is taken for an empty one, what is not
\* UTF-8 is an error.
Readable(f) == disk[f] # "binary"
Read(f) == IF disk[f] = "absent" THEN "empty" ELSE disk[f]

FileChange == [path : Files, original_content : Content, new_content : Content]

Paths(files) == {files[i].path : i \in DOMAIN files}
PolicyOf(files) == IF Paths(files) \intersect Sensitive = {} THEN "Confirm" ELSE "Deny"

Idle == [pc |-> "idle", todo |-> <<>>, files |-> <<>>, calls |-> 0]
NoReview == [status |-> "None", files |-> <<>>, policy |-> "Confirm"]
Waiting == [state |-> "on", pc |-> "idle", next |-> 1, conflicts |-> <<>>,
            result |-> "None", selected |-> 0]

Init ==
    /\ disk \in [Files -> {"absent", "old"}]
    /\ agent = Idle
    /\ review = NoReview
    /\ ui = Waiting
    /\ edits = 0
    /\ late = {}

-----------------------------------------------------------------------------
(***************************************************************************)
(* The tool call.  CodeChangeProposal::prepare reads the files in turn; an *)
(* error is the tool's result, and the agent may propose again.            *)
(***************************************************************************)
Call(p) ==
    /\ agent.pc = "idle" /\ agent.calls < MaxProposals
    /\ agent' = [agent EXCEPT !.pc = "prepare", !.todo = p, !.files = <<>>, !.calls = @ + 1]
    /\ UNCHANGED <<disk, review, ui, edits, late>>

PrepareFile ==
    /\ agent.pc = "prepare" /\ agent.todo # <<>>
    /\ LET file == Head(agent.todo)
       IN  agent' = IF file.path \in Outside
                    THEN [agent EXCEPT !.pc = "idle"]
                    ELSE IF ~Readable(file.path)
                    THEN [agent EXCEPT !.pc = "idle"]
                    ELSE [agent EXCEPT !.todo = Tail(@),
                             !.files = Append(@, [path |-> file.path,
                                                  original_content |-> Read(file.path),
                                                  new_content |-> file.new_content])]
    /\ UNCHANGED <<disk, review, ui, edits, late>>

FinishProposal ==
    /\ agent.pc = "prepare" /\ agent.todo = <<>>
    /\ agent' = [agent EXCEPT !.pc = "sent"]
    /\ UNCHANGED <<disk, review, ui, edits, late>>

\* apply_agent_event, ToolOutput of the tool: the latest proposal is the one
\* on review, whatever has become of the one before.
TakeProposal ==
    /\ ui.state = "on" /\ ui.pc = "idle" /\ agent.pc = "sent"
    /\ review' = [status |-> "Pending", files |-> agent.files, policy |-> PolicyOf(agent.files)]
    /\ ui' = [ui EXCEPT !.selected = 0, !.result = "None"]
    /\ agent' = [agent EXCEPT !.pc = "idle"]
    /\ UNCHANGED <<disk, edits, late>>

-----------------------------------------------------------------------------
(***************************************************************************)
(* The user's decision.  A command that finds the review in another state  *)
(* is an error, and an error ends run_app_loop and the program.            *)
(***************************************************************************)
CanDecide == ui.state = "on" /\ ui.pc = "idle" /\ review # NoReview
Decidable == review.status = "Pending"

Exit ==
    /\ ui' = [Waiting EXCEPT !.state = "off"]
    /\ review' = NoReview
    /\ agent' = [Idle EXCEPT !.calls = agent.calls]

\* apply_code_change_review: approve, and if it may be, apply
Accept ==
    /\ CanDecide /\ Decidable
    /\ IF review.policy = "Deny"
         THEN ui' = [ui EXCEPT !.result = "Denied"] /\ UNCHANGED review
         ELSE /\ review' = [review EXCEPT !.status = "Approved"]
              /\ ui' = [ui EXCEPT !.pc = "compare", !.next = 1, !.conflicts = <<>>]
    /\ UNCHANGED <<disk, agent, edits, late>>

Reject ==
    /\ CanDecide /\ Decidable
    /\ review' = [review EXCEPT !.status = "Rejected"]
    /\ ui' = [ui EXCEPT !.result = "Rejected"]
    /\ UNCHANGED <<disk, agent, edits, late>>

RequestChanges ==
    /\ CanDecide /\ Decidable
    /\ review' = [review EXCEPT !.status = "ChangesRequested"]
    /\ ui' = [ui EXCEPT !.result = "ChangesRequested"]
    /\ UNCHANGED <<disk, agent, edits, late>>

DecideAgain ==
    /\ CanDecide /\ ~Decidable
    /\ Exit
    /\ UNCHANGED <<disk, edits, late>>

\* Left and right choose the file whose diff is shown.
SelectFile ==
    /\ CanDecide /\ review.files # <<>>
    /\ LET count == Len(review.files)
       IN  \/ ui' = [ui EXCEPT !.selected = IF @ = 0 THEN count - 1 ELSE @ - 1]
           \/ ui' = [ui EXCEPT !.selected = (@ + 1) % count]
    /\ UNCHANGED <<disk, agent, review, edits, late>>

-----------------------------------------------------------------------------
(***************************************************************************)
(* CodeChangeReview::apply: every file is compared with what it was when   *)
(* the proposal was prepared, then every file is written.                  *)
(***************************************************************************)
Applying(pc) == ui.state = "on" /\ ui.pc = pc
Current == review.files[ui.next]

CompareFile ==
    /\ Applying("compare") /\ ui.next <= Len(review.files)
    /\ IF Readable(Current.path)
         THEN /\ ui' = [ui EXCEPT
                   !.next = @ + 1,
                   !.conflicts = IF Read(Current.path) = Current.original_content
                                 THEN @ ELSE Append(@, Current.path)]
              /\ late' = late \ {Current.path}
              /\ UNCHANGED <<agent, review>>
         ELSE Exit /\ UNCHANGED late
    /\ UNCHANGED <<disk, edits>>

ComparedFirstOnly ==                \* mutant: a conflict in a later file is overlooked
    /\ Applying("compare") /\ ui.next = Len(review.files) + 1
    /\ IF ui.conflicts # <<>> /\ ui.conflicts[1] = review.files[1].path
         THEN /\ review' = [review EXCEPT !.status = "Conflict"]
              /\ ui' = [ui EXCEPT !.pc = "idle", !.result = "Conflict"]
         ELSE ui' = [ui EXCEPT !.pc = "write", !.next = 1] /\ UNCHANGED review
    /\ UNCHANGED <<disk, agent, edits, late>>

Compared ==
    /\ Applying("compare") /\ ui.next = Len(review.files) + 1
    /\ IF ui.conflicts # <<>>
         THEN /\ review' = [review EXCEPT !.status = "Conflict"]
              /\ ui' = [ui EXCEPT !.pc = "idle", !.result = "Conflict"]
         ELSE ui' = [ui EXCEPT !.pc = "write", !.next = 1] /\ UNCHANGED review
    /\ UNCHANGED <<disk, agent, edits, late>>

WriteFile ==
    /\ Applying("write") /\ ui.next <= Len(review.files)
    /\ disk' = [disk EXCEPT ![Current.path] = Current.new_content]
    /\ ui' = [ui EXCEPT !.next = @ + 1]
    /\ UNCHANGED <<agent, review, edits, late>>

\* No directory, no permission, or no space once the file is truncated: what
\* was written before stays.
FailToWrite ==
    /\ Applying("write") /\ ui.next <= Len(review.files)
    /\ disk' \in {disk, [disk EXCEPT ![Current.path] = "empty"]}
    /\ Exit
    /\ UNCHANGED <<edits, late>>

FinishWritingEarly ==               \* mutant: the last file is forgotten
    /\ Applying("write") /\ ui.next >= Len(review.files)
    /\ review' = [review EXCEPT !.status = "Applied"]
    /\ ui' = [ui EXCEPT !.pc = "idle", !.result = "Applied"]
    /\ UNCHANGED <<disk, agent, edits, late>>

FinishWriting ==
    /\ Applying("write") /\ ui.next = Len(review.files) + 1
    /\ review' = [review EXCEPT !.status = "Applied"]
    /\ ui' = [ui EXCEPT !.pc = "idle", !.result = "Applied"]
    /\ UNCHANGED <<disk, agent, edits, late>>

-----------------------------------------------------------------------------
\* An editor, or a tool of the agent, saves or removes a file.
Edit(f) ==
    /\ edits < MaxEdits
    /\ \E c \in EditedTo \ {disk[f]} : disk' = [disk EXCEPT ![f] = c]
    /\ edits' = edits + 1
    /\ late' = late \union {f}
    /\ UNCHANGED <<agent, review, ui>>

\* The program ends at any point, between two writes too, and starts again:
\* the review is kept in memory only.
Die ==
    /\ ui.state = "on"
    /\ Exit
    /\ UNCHANGED <<disk, edits, late>>

Start ==
    /\ ui.state = "off"
    /\ ui' = Waiting
    /\ UNCHANGED <<disk, agent, review, edits, late>>

Agent == PrepareFile \/ FinishProposal \/ \E p \in Proposals : Call(p)
User == Accept \/ Reject \/ RequestChanges \/ DecideAgain \/ SelectFile
Apply == CompareFile \/ Compared \/ WriteFile \/ FailToWrite \/ FinishWriting

Next ==
    \/ (ui.state = "on" /\ Agent) \/ TakeProposal \/ User \/ Apply
    \/ Die \/ Start
    \/ \E f \in Files : Edit(f)

Spec == Init /\ [][Next]_vars

-----------------------------------------------------------------------------
(***************************************************************************)
(* Properties.                                                             *)
(***************************************************************************)
Status == {"None", "Pending", "Rejected", "ChangesRequested", "Approved",
           "Applied", "Conflict"}

Review == [status : Status, files : Seq(FileChange), policy : {"Confirm", "Deny"}]

AgentState == [pc : {"idle", "prepare", "sent"}, calls : Nat,
               todo : Seq(ProposedFileContent), files : Seq(FileChange)]

Results == {"None", "Denied", "Rejected", "ChangesRequested", "Conflict", "Applied"}

UiState == [state : {"on", "off"}, pc : {"idle", "compare", "write"}, next : Nat \ {0},
            conflicts : Seq(Files), selected : Nat, result : Results]

\* Every variable has its type.
TypeOK ==
    /\ disk \in [Files -> Content]
    /\ agent \in AgentState
    /\ review \in Review
    /\ ui \in UiState
    /\ edits \in Nat
    /\ late \subseteq Files

\* A file is about to be overwritten only if it still is what the user saw in
\* the diff, in one of them if the change lists the file twice: or else it was
\* saved by someone after the comparison, or written by the same change before
\* (CodeChangeReview::apply).
OverwritesOnlyWhatWasShown ==
    ui.pc = "write" =>
        \A i \in ui.next..Len(review.files) :
            LET path == review.files[i].path
            IN  \/ path \in late
                \/ \E j \in DOMAIN review.files :
                      /\ review.files[j].path = path
                      /\ j < ui.next \/ Read(path) = review.files[j].original_content

\* After "Applied", every file of the change has its last proposed content,
\* except those that someone else saved since they were compared.
AppliedIsOnDisk ==
    review.status = "Applied" =>
        \A i \in DOMAIN review.files :
            LET path == review.files[i].path
            IN  \/ path \in late
                \/ \E j \in DOMAIN review.files \ 1..(i - 1) :
                      /\ review.files[j].path = path
                      /\ disk[path] = review.files[j].new_content

\* What the screen says became of the change on review is what became of it,
\* also when another proposal has taken its place.
ResultBelongsToReview ==
    /\ ui.result = "None" \/ ui.result = review.status
       \/ (ui.result = "Denied" /\ review.status = "Pending" /\ review.policy = "Deny")
    /\ review.status \in {"Rejected", "ChangesRequested", "Applied", "Conflict"} =>
          ui.result = review.status

\* The files change under ReviewPromise's terms.
Verdict == [None |-> "none", Pending |-> "open", Rejected |-> "rejected",
            ChangesRequested |-> "returned", Approved |-> "approved",
            Applied |-> "applied", Conflict |-> "conflict"]

Touched ==
    IF ui.pc = "write" THEN Paths(SubSeq(review.files, 1, ui.next - 1))
    ELSE IF review.status = "Applied" THEN Paths(review.files) ELSE {}

Promise == INSTANCE ReviewPromise WITH
    verdict <- Verdict[review.status],
    denied  <- review.policy = "Deny",
    change  <- Paths(review.files),
    touched <- Touched

KeepsPromise == Promise!Spec
=============================================================================
