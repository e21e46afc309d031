-------------------------- MODULE CodeChangeProofs --------------------------
(***************************************************************************)
(* Theorems about CodeChange, for any files, any proposals, any number of  *)
(* saves by other programs, and any point at which the program dies.       *)
(***************************************************************************)
EXTENDS CodeChange, SequenceTheorems, TLAPS

-----------------------------------------------------------------------------
(***************************************************************************)
(* Types.                                                                  *)
(***************************************************************************)

\* The UI in the middle of a change, and the agent in the middle of a call.
LEMMA UiUpdate ==
    ASSUME NEW u \in UiState, NEW pc \in {"idle", "compare", "write"},
           NEW n \in Nat \ {0}, NEW c \in Seq(Files)
    PROVE  [u EXCEPT !.pc = pc, !.next = n, !.conflicts = c] \in UiState
  BY Zenon DEF UiState

\* Every update of the agent's state is well typed.
LEMMA AgentUpdate ==
    ASSUME NEW a \in AgentState, NEW pc \in {"idle", "prepare", "sent"}, NEW calls \in Nat,
           NEW todo \in Seq(ProposedFileContent), NEW files \in Seq(FileChange)
    PROVE  [a EXCEPT !.pc = pc, !.calls = calls, !.todo = todo, !.files = files] \in AgentState
  BY Zenon DEF AgentState

\* What is left after the program ended has its type.
LEMMA ExitType ==
    ASSUME TypeOK, Exit
    PROVE  agent' \in AgentState /\ review' \in Review /\ ui' \in UiState
  <1>1. <<>> \in Seq(FileChange) /\ <<>> \in Seq(ProposedFileContent) /\ <<>> \in Seq(Files)
    OBVIOUS
  <1>2. agent' = [pc |-> "idle", todo |-> <<>>, files |-> <<>>, calls |-> agent.calls]
    BY DEF Exit, Idle
  <1>3. agent.calls \in Nat
    BY DEF TypeOK, AgentState
  <1>4. agent' \in AgentState
    BY <1>1, <1>2, <1>3 DEF AgentState
  <1>5. review' \in Review
    BY <1>1 DEF Exit, NoReview, Review, Status
  <1>6. ui' = [state |-> "off", pc |-> "idle", next |-> 1, conflicts |-> <<>>,
               result |-> "None", selected |-> 0]
    BY DEF Exit, Waiting
  <1>7. ui' \in UiState
    BY <1>1, <1>6 DEF UiState, Results
  <1> QED BY <1>4, <1>5, <1>7

\* A step of the agent keeps the types.
LEMMA AgentType ==
    ASSUME TypeOK, Agent
    PROVE  TypeOK'
  <1>1. ASSUME NEW p \in Proposals, Call(p) PROVE TypeOK'
    <2>1. p \in Seq(ProposedFileContent) /\ <<>> \in Seq(FileChange)
      BY CodeChangeAssumption
    <2>2. agent \in AgentState /\ agent.calls + 1 \in Nat
      BY DEF TypeOK, AgentState
    <2>3. agent' = [agent EXCEPT !.pc = "prepare", !.calls = agent.calls + 1,
                                 !.todo = p, !.files = <<>>]
      BY <1>1, <2>2 DEF Call, AgentState
    <2>4. agent' \in AgentState
      BY <2>1, <2>2, <2>3, AgentUpdate
    <2> QED BY <1>1, <2>4 DEF TypeOK, Call
  <1>2. CASE PrepareFile
    <2> DEFINE file == Head(agent.todo)
               change == [path |-> file.path, original_content |-> Read(file.path),
                          new_content |-> file.new_content]
    <2>1. agent.todo \in Seq(ProposedFileContent) /\ agent.todo # <<>>
      BY <1>2 DEF TypeOK, AgentState, UiState, Results, PrepareFile
    <2>2. file \in ProposedFileContent /\ Tail(agent.todo) \in Seq(ProposedFileContent)
      BY <2>1
    <2>3. CASE file.path \in Outside \/ ~Readable(file.path)
      BY <1>2, <2>3 DEF TypeOK, AgentState, UiState, Results, PrepareFile
    <2>4. CASE file.path \notin Outside /\ Readable(file.path)
      <3>1. file.path \in Files /\ file.new_content \in Content
        BY <2>2, <2>4 DEF ProposedFileContent, Content
      <3>2. Read(file.path) \in Content
        BY <3>1 DEF Read, TypeOK, Content
      <3>3. change \in FileChange
        BY <3>1, <3>2 DEF FileChange
      <3>4. Append(agent.files, change) \in Seq(FileChange)
        BY <3>3 DEF TypeOK, AgentState, UiState, Results
      <3>5. agent' = [agent EXCEPT !.todo = Tail(@), !.files = Append(@, change)]
        BY <1>2, <2>4 DEF PrepareFile
      <3> HIDE DEF change
      <3> QED BY <1>2, <2>2, <3>4, <3>5 DEF TypeOK, AgentState, UiState, Results, PrepareFile
    <2> QED BY <2>3, <2>4
  <1>3. CASE FinishProposal
    BY <1>3 DEF TypeOK, AgentState, UiState, Results, FinishProposal
  <1> QED BY <1>1, <1>2, <1>3 DEF Agent

\* A decision keeps the types.
LEMMA UserType ==
    ASSUME TypeOK, User
    PROVE  TypeOK'
  <1>1. CASE Accept
    <2>1. CASE review.policy = "Deny"
      BY <1>1, <2>1 DEF TypeOK, UiState, Results, Accept
    <2>2. CASE review.policy # "Deny"
      <3>1. <<>> \in Seq(Files)
        OBVIOUS
      <3>2. ui' = [ui EXCEPT !.pc = "compare", !.next = 1, !.conflicts = <<>>]
            /\ review' = [review EXCEPT !.status = "Approved"]
        BY <1>1, <2>2 DEF Accept
      <3>3. ui \in UiState /\ "compare" \in {"idle", "compare", "write"} /\ 1 \in Nat \ {0}
        BY DEF TypeOK
      <3>4. ui' \in UiState
        BY <3>1, <3>2, <3>3, UiUpdate, Zenon
      <3>5. review' \in Review
        BY <3>2 DEF TypeOK, Review, Status
      <3> QED BY <1>1, <3>5, <3>4 DEF TypeOK, Accept
    <2> QED BY <2>1, <2>2
  <1>2. CASE Reject
    BY <1>2 DEF TypeOK, AgentState, UiState, Results, Reject, Review, Status
  <1>3. CASE RequestChanges
    BY <1>3 DEF TypeOK, AgentState, UiState, Results, RequestChanges, Review, Status
  <1>4. CASE DecideAgain
    BY <1>4, ExitType DEF TypeOK, AgentState, UiState, Results, DecideAgain
  <1>5. CASE SelectFile
    <2>1. Len(review.files) \in Nat \ {0}
      BY <1>5, EmptySeq DEF SelectFile, TypeOK, Review
    <2>2. ui.selected \in Nat /\ (ui.selected + 1) % Len(review.files) \in Nat
      BY <2>1 DEF TypeOK, AgentState, UiState, Results
    <2>3. \/ ui' = [ui EXCEPT !.selected = IF ui.selected = 0 THEN Len(review.files) - 1
                                           ELSE ui.selected - 1]
          \/ ui' = [ui EXCEPT !.selected = (ui.selected + 1) % Len(review.files)]
      BY <1>5 DEF SelectFile
    <2>4. (IF ui.selected = 0 THEN Len(review.files) - 1 ELSE ui.selected - 1) \in Nat
      BY <2>1, <2>2
    <2>5. PICK n \in Nat : ui' = [ui EXCEPT !.selected = n]
      BY <2>2, <2>3, <2>4, Zenon
    <2> QED BY <1>5, <2>5 DEF TypeOK, UiState, SelectFile
  <1> QED BY <1>1, <1>2, <1>3, <1>4, <1>5 DEF User

\* Carrying out a change keeps the types.
LEMMA ApplyType ==
    ASSUME TypeOK, Apply
    PROVE  TypeOK'
  <1>1. ASSUME ui.next <= Len(review.files) PROVE Current \in FileChange
    BY <1>1 DEF TypeOK, AgentState, UiState, Results, Review, Current
  <1>2. CASE CompareFile
    <2>1. Current.path \in Files
      BY <1>1, <1>2 DEF CompareFile, FileChange
    <2>2. CASE Readable(Current.path)
      <3>1. ui.conflicts \in Seq(Files) /\ Append(ui.conflicts, Current.path) \in Seq(Files)
        BY <2>1 DEF TypeOK, UiState
      <3>2. ui' = [ui EXCEPT !.next = ui.next + 1,
                             !.conflicts = IF Read(Current.path) = Current.original_content
                                           THEN ui.conflicts
                                           ELSE Append(ui.conflicts, Current.path)]
        BY <1>2, <2>2 DEF CompareFile
      <3>3. PICK c \in Seq(Files) : ui' = [ui EXCEPT !.next = ui.next + 1, !.conflicts = c]
        BY <3>1, <3>2
      <3>4. ui.pc = "compare" /\ ui.next + 1 \in Nat \ {0} /\ ui \in UiState
        BY <1>2 DEF CompareFile, Applying, TypeOK, UiState
      <3>5. ui' = [ui EXCEPT !.pc = "compare", !.next = ui.next + 1, !.conflicts = c]
        BY <3>3, <3>4 DEF UiState
      <3>6. "compare" \in {"idle", "compare", "write"}
        OBVIOUS
      <3>7. ui' \in UiState
        BY <3>4, <3>5, <3>6, UiUpdate, Zenon
      <3> QED BY <1>2, <2>2, <3>7 DEF TypeOK, CompareFile
    <2>3. CASE ~Readable(Current.path)
      BY <1>2, <2>3, ExitType DEF TypeOK, AgentState, UiState, Results, CompareFile
    <2> QED BY <2>2, <2>3
  <1>3. CASE Compared
    <2>1. CASE ui.conflicts # <<>>
      BY <1>3, <2>1 DEF TypeOK, UiState, Results, Compared, Review, Status
    <2>2. CASE ui.conflicts = <<>>
      <3>1. ui' = [ui EXCEPT !.pc = "write", !.next = 1] /\ UNCHANGED review
        BY <1>3, <2>2 DEF Compared
      <3>2. ui' = [ui EXCEPT !.pc = "write", !.next = 1, !.conflicts = ui.conflicts]
        BY <3>1 DEF TypeOK, UiState
      <3>3. /\ ui \in UiState /\ ui.conflicts \in Seq(Files)
            /\ "write" \in {"idle", "compare", "write"} /\ 1 \in Nat \ {0}
        BY DEF TypeOK, UiState
      <3>4. ui' \in UiState
        BY <3>2, <3>3, UiUpdate, Zenon
      <3> QED BY <1>3, <3>1, <3>4 DEF TypeOK, Compared
    <2> QED BY <2>1, <2>2
  <1>4. CASE WriteFile
    <2>1. Current.path \in Files /\ Current.new_content \in Content
      BY <1>1, <1>4 DEF WriteFile, FileChange
    <2>2. disk' \in [Files -> Content]
      BY <1>4, <2>1 DEF TypeOK, WriteFile
    <2>3. ui' = [ui EXCEPT !.next = ui.next + 1]
      BY <1>4 DEF WriteFile
    <2>4. ui' \in UiState
      BY <2>3 DEF TypeOK, UiState
    <2> QED BY <1>4, <2>2, <2>4 DEF TypeOK, WriteFile
  <1>5. CASE FailToWrite
    <2>1. disk' \in [Files -> Content]
      BY <1>1, <1>5 DEF FailToWrite, FileChange, TypeOK, Content
    <2> QED BY <1>5, <2>1, ExitType DEF TypeOK, AgentState, UiState, Results, FailToWrite
  <1>6. CASE FinishWriting
    BY <1>6 DEF TypeOK, AgentState, UiState, Results, FinishWriting, Review, Status
  <1> QED BY <1>2, <1>3, <1>4, <1>5, <1>6 DEF Apply

\* Every step keeps the types.
LEMMA TypeStep ==
    ASSUME TypeOK, [Next]_vars
    PROVE  TypeOK'
  <1>1. CASE TakeProposal
    <2>1. agent.files \in Seq(FileChange) /\ PolicyOf(agent.files) \in {"Confirm", "Deny"}
      BY DEF TypeOK, AgentState, UiState, Results, PolicyOf
    <2> QED BY <1>1, <2>1 DEF TypeOK, AgentState, UiState, Results, TakeProposal, Review, Status
  <1>2. CASE Die
    BY <1>2, ExitType DEF TypeOK, AgentState, UiState, Results, Die
  <1>3. CASE Start
    <2>1. <<>> \in Seq(Files)
      OBVIOUS
    <2> QED BY <1>3, <2>1 DEF TypeOK, AgentState, UiState, Results, Start, Waiting
  <1>4. ASSUME NEW f \in Files, Edit(f) PROVE TypeOK'
    <2>1. EditedTo \subseteq Content
      BY CodeChangeAssumption DEF Content
    <2> QED BY <1>4, <2>1 DEF TypeOK, AgentState, UiState, Results, Edit
  <1>5. CASE UNCHANGED vars
    BY <1>5 DEF TypeOK, AgentState, UiState, Results, vars
  <1> QED BY <1>1, <1>2, <1>3, <1>4, <1>5, AgentType, UserType, ApplyType DEF Next

\* Every reachable state of a review has its types (the types of the code).
THEOREM TypeCorrect == Spec => []TypeOK
  <1>1. Init => TypeOK
    <2>1. <<>> \in Seq(FileChange) /\ <<>> \in Seq(ProposedFileContent) /\ <<>> \in Seq(Files)
      OBVIOUS
    <2> QED BY <2>1 DEF Init, TypeOK, AgentState, UiState, Results, Idle, NoReview, Waiting, Review, Status, Content
  <1> QED BY <1>1, TypeStep, PTL DEF Spec

-----------------------------------------------------------------------------
(***************************************************************************)
(* Overwriting.  What the comparison has found out holds until the file is *)
(* written, but for the files saved meanwhile, and what was written holds  *)
(* in the same way until the review is given up.                           *)
(***************************************************************************)

\* The change is under way exactly while its review is Approved, and with the
\* program goes the review.
UnderWay ==
    /\ review.status = "Approved" <=> ui.pc # "idle"
    /\ ui.state = "off" => ui.pc = "idle" /\ review.status = "None"

ReadsAsShown(path) ==
    \E j \in DOMAIN review.files :
        review.files[j].path = path /\ Read(path) = review.files[j].original_content

\* The files compared so far.
ComparedSoFar ==
    ui.pc = "compare" /\ ui.conflicts = <<>> =>
        \A i \in DOMAIN review.files :
            i < ui.next => \/ review.files[i].path \in late
                           \/ ReadsAsShown(review.files[i].path)

\* The number of files written so far, and one.
Done == CASE ui.pc = "write" -> ui.next
          [] ui.pc # "write" /\ review.status = "Applied" -> Len(review.files) + 1
          [] OTHER -> 1

\* They have the content of the last that was written to the same path.
WrittenSoFar ==
    \A i \in DOMAIN review.files :
        i < Done =>
            \/ review.files[i].path \in late
            \/ \E j \in DOMAIN review.files :
                  /\ i <= j /\ j < Done
                  /\ review.files[j].path = review.files[i].path
                  /\ disk[review.files[i].path] = review.files[j].new_content

SafetyInv ==
    /\ TypeOK
    /\ UnderWay /\ ComparedSoFar /\ OverwritesOnlyWhatWasShown /\ WrittenSoFar

\* Where no change is under way and none was carried out, there is nothing to
\* show.
LEMMA NothingToShow ==
    ASSUME TypeOK', ui'.pc = "idle", review'.status \notin {"Approved", "Applied"},
           ui'.state = "on" \/ review'.status = "None"
    PROVE  SafetyInv'
  <1>1. UnderWay'
    BY DEF UnderWay
  <1>2. ComparedSoFar' /\ OverwritesOnlyWhatWasShown'
    BY DEF ComparedSoFar, OverwritesOnlyWhatWasShown
  <1>3. Done' = 1
    BY DEF Done
  <1>4. DOMAIN review'.files = 1..Len(review'.files) /\ Len(review'.files) \in Nat
    BY DEF TypeOK, Review
  <1>5. WrittenSoFar'
    BY <1>3, <1>4 DEF WrittenSoFar
  <1> QED BY <1>1, <1>2, <1>5 DEF SafetyInv

\* Nor do the steps of others change what holds.
LEMMA NothingTouched ==
    ASSUME SafetyInv, TypeOK', UNCHANGED <<disk, review, late>>,
           ui'.pc = ui.pc, ui'.next = ui.next, ui'.conflicts = ui.conflicts,
           ui'.state = "on" \/ ui' = ui
    PROVE  SafetyInv'
  <1>1. UnderWay'
    BY DEF SafetyInv, UnderWay
  <1>2. ComparedSoFar'
    BY DEF SafetyInv, ComparedSoFar, ReadsAsShown, Read
  <1>3. OverwritesOnlyWhatWasShown'
    BY DEF SafetyInv, OverwritesOnlyWhatWasShown, Read
  <1>4. Done' = Done
    BY DEF Done
  <1>5. WrittenSoFar'
    BY <1>4 DEF SafetyInv, WrittenSoFar
  <1> QED BY <1>1, <1>2, <1>3, <1>5 DEF SafetyInv

\* After the program ended there is no review.
LEMMA ExitSafe ==
    ASSUME TypeOK', Exit
    PROVE  SafetyInv'
  <1>1. ui'.pc = "idle" /\ review'.status = "None"
    BY DEF Exit, Waiting, NoReview
  <1> QED BY <1>1, NothingToShow

\* Comparing a file.
LEMMA CompareSafe ==
    ASSUME SafetyInv, TypeOK', CompareFile
    PROVE  SafetyInv'
  <1>1. CASE ~Readable(Current.path)
    BY <1>1, ExitSafe DEF CompareFile
  <1>2. CASE Readable(Current.path)
    <2>1. /\ ui.pc = "compare" /\ ui.state = "on" /\ ui.next \in DOMAIN review.files
          /\ UNCHANGED <<disk, review>> /\ late' = late \ {Current.path}
      BY <1>2 DEF CompareFile, Applying, SafetyInv, TypeOK, UiState, Review
    <2>2. ui' = [ui EXCEPT !.next = ui.next + 1,
                           !.conflicts = IF Read(Current.path) = Current.original_content
                                         THEN ui.conflicts
                                         ELSE Append(ui.conflicts, Current.path)]
      BY <1>2 DEF CompareFile
    <2>3. /\ ui'.pc = "compare" /\ ui'.state = "on" /\ ui'.next = ui.next + 1
          /\ ui'.conflicts = IF Read(Current.path) = Current.original_content
                             THEN ui.conflicts ELSE Append(ui.conflicts, Current.path)
      BY <2>1, <2>2 DEF SafetyInv, TypeOK, UiState
    <2>4. UnderWay'
      BY <2>1, <2>3 DEF SafetyInv, UnderWay
    <2>5. ASSUME ui'.conflicts = <<>>,
                 NEW i \in DOMAIN review.files, i < ui.next + 1
          PROVE  review.files[i].path \in late' \/ ReadsAsShown(review.files[i].path)'
      <3>1. ui.conflicts \in Seq(Files) /\ Append(ui.conflicts, Current.path) # <<>>
        <4>1. ui.conflicts \in Seq(Files)
          BY DEF SafetyInv, TypeOK, UiState
        <4>2. review.files[ui.next] \in FileChange
          BY <2>1 DEF SafetyInv, TypeOK, Review
        <4>3. Current.path \in Files
          BY <4>2 DEF Current, FileChange
        <4>4. Append(ui.conflicts, Current.path) # <<>>
          BY <4>1, <4>3, AppendProperties
        <4> QED BY <4>1, <4>4
      <3>2. Read(Current.path) = Current.original_content /\ ui.conflicts = <<>>
        BY <2>3, <2>5, <3>1
      <3>3. CASE review.files[i].path = Current.path
        <4>1. review.files[ui.next].path = review.files[i].path
              /\ Read(review.files[i].path) = review.files[ui.next].original_content
          BY <3>2, <3>3 DEF Current
        <4> QED BY <2>1, <4>1 DEF ReadsAsShown, Read
      <3>4. CASE review.files[i].path # Current.path
        <4>1. i # ui.next
          BY <3>4 DEF Current
        <4>2. i < ui.next
          <5>1. i \in Nat /\ ui.next \in Nat
            BY DEF SafetyInv, TypeOK, UiState, Review
          <5> QED BY <2>5, <4>1, <5>1
        <4>3. review.files[i].path \in late \/ ReadsAsShown(review.files[i].path)
          BY <2>1, <3>2, <4>2 DEF SafetyInv, ComparedSoFar
        <4> QED BY <2>1, <3>4, <4>3 DEF ReadsAsShown, Read
      <3> QED BY <3>3, <3>4
    <2>6. ComparedSoFar'
      BY <2>1, <2>3, <2>5 DEF ComparedSoFar
    <2>7. OverwritesOnlyWhatWasShown'
      BY <2>3 DEF OverwritesOnlyWhatWasShown
    <2>8. Done' = 1
      BY <2>1, <2>3 DEF SafetyInv, UnderWay, Done
    <2>9. WrittenSoFar'
      BY <2>1, <2>8 DEF WrittenSoFar, SafetyInv, TypeOK, Review
    <2> QED BY <2>4, <2>6, <2>7, <2>9 DEF SafetyInv
  <1> QED BY <1>1, <1>2

\* Writing a file.
LEMMA WriteSafe ==
    ASSUME SafetyInv, TypeOK', WriteFile
    PROVE  SafetyInv'
  <1>1. /\ ui.pc = "write" /\ ui.state = "on" /\ ui.next \in DOMAIN review.files
        /\ ui.next \in Nat /\ DOMAIN review.files \subseteq Nat
        /\ UNCHANGED <<review, late>>
        /\ disk' = [disk EXCEPT ![Current.path] = Current.new_content]
    BY DEF WriteFile, Applying, SafetyInv, TypeOK, UiState, Review
  <1>2. Current = review.files[ui.next] /\ Current.path \in DOMAIN disk
    BY <1>1 DEF Current, SafetyInv, TypeOK, Review, FileChange
  <1>3. ui' = [ui EXCEPT !.next = ui.next + 1]
    BY DEF WriteFile
  <1>4. ui'.pc = "write" /\ ui'.state = "on" /\ ui'.next = ui.next + 1
    BY <1>1, <1>3 DEF SafetyInv, TypeOK, UiState
  <1>5. \A path : path # Current.path => disk'[path] = disk[path]
    BY <1>1 DEF SafetyInv, TypeOK
  <1>6. disk'[Current.path] = Current.new_content
    BY <1>1, <1>2
  <1>7. UnderWay' /\ ComparedSoFar'
    BY <1>1, <1>4 DEF SafetyInv, UnderWay, ComparedSoFar
  <1>8. OverwritesOnlyWhatWasShown'
    <2> SUFFICES ASSUME NEW i \in (ui.next + 1)..Len(review.files)
                 PROVE  LET path == review.files[i].path
                        IN  \/ path \in late'
                            \/ \E j \in DOMAIN review.files :
                                  /\ review.files[j].path = path
                                  /\ j < ui.next + 1
                                     \/ Read(path)' = review.files[j].original_content
      BY <1>1, <1>4 DEF OverwritesOnlyWhatWasShown
    <2> DEFINE path == review.files[i].path
    <2>1. CASE path = Current.path
      BY <1>1, <1>2, <2>1
    <2>2. CASE path # Current.path
      <3>1. i \in ui.next..Len(review.files)
        BY <1>1
      <3>2. \/ path \in late
            \/ \E j \in DOMAIN review.files :
                  /\ review.files[j].path = path
                  /\ j < ui.next \/ Read(path) = review.files[j].original_content
        BY <1>1, <3>1 DEF SafetyInv, OverwritesOnlyWhatWasShown
      <3>3. Read(path)' = Read(path)
        BY <1>1, <1>5, <2>2 DEF Read
      <3> QED BY <1>1, <3>2, <3>3
    <2> QED BY <2>1, <2>2
  <1>9. Done = ui.next /\ Done' = ui.next + 1
    BY <1>1, <1>4 DEF Done
  <1>10. WrittenSoFar'
    <2> SUFFICES ASSUME NEW i \in DOMAIN review.files, i < ui.next + 1
                 PROVE  \/ review.files[i].path \in late
                        \/ \E j \in DOMAIN review.files :
                              /\ i <= j /\ j < ui.next + 1
                              /\ review.files[j].path = review.files[i].path
                              /\ disk'[review.files[i].path] = review.files[j].new_content
      BY <1>1, <1>9 DEF WrittenSoFar
    <2>1. CASE review.files[i].path = Current.path
      <3>1. i <= ui.next /\ ui.next < ui.next + 1
        BY <1>1
      <3> QED BY <1>1, <1>2, <1>6, <2>1, <3>1
    <2>2. CASE review.files[i].path # Current.path
      <3>1. i < ui.next
        BY <1>1, <1>2, <2>2
      <3>2. \/ review.files[i].path \in late
            \/ \E j \in DOMAIN review.files :
                  /\ i <= j /\ j < ui.next
                  /\ review.files[j].path = review.files[i].path
                  /\ disk[review.files[i].path] = review.files[j].new_content
        BY <1>9, <3>1 DEF SafetyInv, WrittenSoFar
      <3> QED BY <1>1, <1>5, <2>2, <3>2
    <2> QED BY <2>1, <2>2
  <1> QED BY <1>7, <1>8, <1>10 DEF SafetyInv

\* The other steps of carrying out a change.
LEMMA ApplySafe ==
    ASSUME SafetyInv, TypeOK', Apply
    PROVE  SafetyInv'
  <1>1. CASE Compared
    <2>1. CASE ui.conflicts # <<>>
      <3>1. ui'.pc = "idle" /\ review'.status = "Conflict" /\ ui'.state = "on"
        BY <1>1, <2>1 DEF Compared, Applying, SafetyInv, TypeOK, UiState, Review
      <3> QED BY <3>1, NothingToShow
    <2>2. CASE ui.conflicts = <<>>
      <3>1. /\ ui.pc = "compare" /\ ui.state = "on" /\ ui.next = Len(review.files) + 1
            /\ UNCHANGED <<disk, review, late>>
        BY <1>1, <2>2 DEF Compared, Applying
      <3>2. ui' = [ui EXCEPT !.pc = "write", !.next = 1]
        BY <1>1, <2>2 DEF Compared
      <3>3. ui'.pc = "write" /\ ui'.state = "on" /\ ui'.next = 1
        BY <3>1, <3>2 DEF SafetyInv, TypeOK, UiState
      <3>4. DOMAIN review.files = 1..Len(review.files) /\ Len(review.files) \in Nat
        BY DEF SafetyInv, TypeOK, Review
      <3>5. \A i \in DOMAIN review.files :
               review.files[i].path \in late \/ ReadsAsShown(review.files[i].path)
        BY <2>2, <3>1, <3>4 DEF SafetyInv, ComparedSoFar
      <3>6. OverwritesOnlyWhatWasShown'
        BY <3>1, <3>3, <3>4, <3>5 DEF OverwritesOnlyWhatWasShown, ReadsAsShown, Read
      <3>7. UnderWay' /\ ComparedSoFar'
        BY <3>1, <3>3 DEF SafetyInv, UnderWay, ComparedSoFar
      <3>8. Done' = 1
        BY <3>3 DEF Done
      <3>9. WrittenSoFar'
        BY <3>1, <3>4, <3>8 DEF WrittenSoFar
      <3> QED BY <3>6, <3>7, <3>9 DEF SafetyInv
    <2> QED BY <2>1, <2>2
  <1>2. CASE FailToWrite
    BY <1>2, ExitSafe DEF FailToWrite
  <1>3. CASE FinishWriting
    <2>1. /\ ui.pc = "write" /\ ui.next = Len(review.files) + 1
          /\ UNCHANGED <<disk, late>> /\ review'.files = review.files
          /\ review'.status = "Applied" /\ ui'.pc = "idle" /\ ui'.state = "on"
      BY <1>3 DEF FinishWriting, Applying, SafetyInv, TypeOK, UiState, Review
    <2>2. UnderWay' /\ ComparedSoFar' /\ OverwritesOnlyWhatWasShown'
      BY <2>1 DEF UnderWay, ComparedSoFar, OverwritesOnlyWhatWasShown
    <2>3. Done' = Done
      BY <2>1 DEF Done
    <2>4. WrittenSoFar'
      BY <2>1, <2>3 DEF SafetyInv, WrittenSoFar
    <2> QED BY <2>2, <2>4 DEF SafetyInv
  <1> QED BY <1>1, <1>2, <1>3, CompareSafe, WriteSafe DEF Apply

\* A decision.
LEMMA UserSafe ==
    ASSUME SafetyInv, TypeOK', User
    PROVE  SafetyInv'
  <1>1. ASSUME CanDecide PROVE ui.pc = "idle" /\ ui.state = "on"
    BY <1>1 DEF CanDecide
  <1>2. CASE Accept
    <2>1. CASE review.policy = "Deny"
      <3>1. /\ UNCHANGED <<disk, review, late>>
            /\ ui' = [ui EXCEPT !.result = "Denied"] /\ ui.state = "on"
        BY <1>1, <1>2, <2>1 DEF Accept
      <3>2. /\ ui'.pc = ui.pc /\ ui'.next = ui.next /\ ui'.conflicts = ui.conflicts
            /\ ui'.state = "on"
        BY <3>1 DEF SafetyInv, TypeOK, UiState
      <3> QED BY <3>1, <3>2, NothingTouched
    <2>2. CASE review.policy # "Deny"
      <3>1. /\ review' = [review EXCEPT !.status = "Approved"]
            /\ ui' = [ui EXCEPT !.pc = "compare", !.next = 1, !.conflicts = <<>>]
            /\ ui.state = "on" /\ UNCHANGED <<disk, late>>
        BY <1>1, <1>2, <2>2 DEF Accept
      <3>2. /\ ui'.pc = "compare" /\ ui'.next = 1 /\ ui'.state = "on"
            /\ review'.status = "Approved"
        BY <3>1 DEF SafetyInv, TypeOK, UiState, Review
      <3>3. DOMAIN review'.files = 1..Len(review'.files) /\ Len(review'.files) \in Nat
        BY DEF TypeOK, Review
      <3>4. Done' = 1
        BY <3>2 DEF Done
      <3>5. UnderWay' /\ ComparedSoFar' /\ OverwritesOnlyWhatWasShown' /\ WrittenSoFar'
        BY <3>2, <3>3, <3>4 DEF UnderWay, ComparedSoFar, OverwritesOnlyWhatWasShown, WrittenSoFar
      <3> QED BY <3>5 DEF SafetyInv
    <2> QED BY <2>1, <2>2
  <1>3. CASE Reject \/ RequestChanges
    <2>1. /\ ui'.pc = "idle" /\ ui'.state = "on"
          /\ review'.status \in {"Rejected", "ChangesRequested"}
      BY <1>1, <1>3 DEF Reject, RequestChanges, SafetyInv, TypeOK, UiState, Review
    <2> QED BY <2>1, NothingToShow
  <1>4. CASE DecideAgain
    BY <1>4, ExitSafe DEF DecideAgain
  <1>5. CASE SelectFile
    <2>1. /\ UNCHANGED <<disk, review, late>> /\ ui.state = "on"
          /\ \E n : ui' = [ui EXCEPT !.selected = n]
      BY <1>1, <1>5 DEF SelectFile
    <2>2. /\ ui'.pc = ui.pc /\ ui'.next = ui.next /\ ui'.conflicts = ui.conflicts
          /\ ui'.state = "on"
      BY <2>1 DEF SafetyInv, TypeOK, UiState
    <2> QED BY <2>1, <2>2, NothingTouched
  <1> QED BY <1>2, <1>3, <1>4, <1>5 DEF User

\* A save by another program.
LEMMA EditSafe ==
    ASSUME SafetyInv, TypeOK', NEW f \in Files, Edit(f)
    PROVE  SafetyInv'
  <1>1. UNCHANGED <<review, ui>> /\ late' = late \union {f}
    BY DEF Edit
  <1>2. \A path : path # f => disk'[path] = disk[path]
    BY DEF Edit, SafetyInv, TypeOK
  <1>3. \A path : path # f => Read(path)' = Read(path)
    BY <1>2 DEF Read
  <1>4. Done' = Done
    BY <1>1 DEF Done
  <1>5. UnderWay'
    BY <1>1 DEF SafetyInv, UnderWay
  <1>6. \A path : path # f /\ ReadsAsShown(path) => ReadsAsShown(path)'
    BY <1>1, <1>3 DEF ReadsAsShown
  <1>7. ComparedSoFar'
    BY <1>1, <1>6 DEF SafetyInv, ComparedSoFar
  <1>8. OverwritesOnlyWhatWasShown'
    BY <1>1, <1>3 DEF SafetyInv, OverwritesOnlyWhatWasShown
  <1>9. WrittenSoFar'
    BY <1>1, <1>2, <1>4 DEF SafetyInv, WrittenSoFar
  <1> QED BY <1>5, <1>7, <1>8, <1>9 DEF SafetyInv

\* Every step keeps the safety invariant.
LEMMA SafetyStep ==
    ASSUME SafetyInv, [Next]_vars
    PROVE  SafetyInv'
  <1>1. TypeOK'
    BY TypeStep DEF SafetyInv
  <1>2. CASE ui.state = "on" /\ Agent
    <2>1. UNCHANGED <<disk, review, ui, late>>
      BY <1>2 DEF Agent, Call, PrepareFile, FinishProposal
    <2> QED BY <1>1, <1>2, <2>1, NothingTouched
  <1>3. CASE TakeProposal
    <2>1. review'.status = "Pending" /\ ui'.pc = "idle" /\ ui'.state = "on"
      BY <1>3 DEF TakeProposal, SafetyInv, TypeOK, UiState
    <2> QED BY <1>1, <2>1, NothingToShow
  <1>4. CASE Die
    BY <1>1, <1>4, ExitSafe DEF Die
  <1>5. CASE Start
    <2>1. review'.status = "None" /\ ui'.pc = "idle" /\ ui'.state = "on"
      BY <1>5 DEF Start, Waiting, SafetyInv, UnderWay
    <2> QED BY <1>1, <2>1, NothingToShow
  <1>6. CASE UNCHANGED vars
    BY <1>1, <1>6, NothingTouched DEF vars
  <1> QED BY <1>1, <1>2, <1>3, <1>4, <1>5, <1>6, UserSafe, ApplySafe, EditSafe DEF Next

\* The safety invariant, which the three theorems below it rest on.
LEMMA SafetyCorrect == Spec => []SafetyInv
  <1>1. Init => SafetyInv
    <2> SUFFICES ASSUME Init PROVE SafetyInv
      OBVIOUS
    <2>1. TypeOK
      <3>1. /\ <<>> \in Seq(FileChange) /\ <<>> \in Seq(ProposedFileContent)
            /\ <<>> \in Seq(Files)
        OBVIOUS
      <3> QED BY <3>1 DEF Init, TypeOK, AgentState, UiState, Results, Idle, NoReview, Waiting,
                        Review, Status, Content
    <2>2. UnderWay /\ ComparedSoFar /\ OverwritesOnlyWhatWasShown
      BY DEF Init, Waiting, NoReview, UnderWay, ComparedSoFar, OverwritesOnlyWhatWasShown
    <2>3. WrittenSoFar
      BY DEF Init, Waiting, NoReview, WrittenSoFar
    <2> QED BY <2>1, <2>2, <2>3 DEF SafetyInv
  <1> QED BY <1>1, SafetyStep, PTL DEF Spec

\* Whatever is proposed, and however often others save, a file is overwritten
\* only while it reads as the user saw it, but for saves since the comparison
\* (CodeChangeReview::apply).
THEOREM NothingUnseenIsOverwritten == Spec => []OverwritesOnlyWhatWasShown
  <1>1. SafetyInv => OverwritesOnlyWhatWasShown
    BY DEF SafetyInv
  <1> QED BY <1>1, SafetyCorrect, PTL

\* A change that is reported as applied is on disk, but for saves since the
\* comparison (CodeChangeReview::apply).
THEOREM AppliedChangeIsOnDisk == Spec => []AppliedIsOnDisk
  <1>1. SafetyInv => AppliedIsOnDisk
    <2> SUFFICES ASSUME SafetyInv, review.status = "Applied", NEW i \in DOMAIN review.files
                 PROVE  \/ review.files[i].path \in late
                        \/ \E j \in DOMAIN review.files \ 1..(i - 1) :
                              /\ review.files[j].path = review.files[i].path
                              /\ disk[review.files[i].path] = review.files[j].new_content
      BY DEF AppliedIsOnDisk
    <2>1. DOMAIN review.files = 1..Len(review.files) /\ Len(review.files) \in Nat
      BY DEF SafetyInv, TypeOK, Review
    <2>2. ui.pc # "write"
      BY DEF SafetyInv, UnderWay
    <2>3. Done = Len(review.files) + 1
      BY <2>2 DEF Done
    <2>4. i < Done
      BY <2>1, <2>3
    <2>5. \/ review.files[i].path \in late
          \/ \E j \in DOMAIN review.files :
                /\ i <= j
                /\ review.files[j].path = review.files[i].path
                /\ disk[review.files[i].path] = review.files[j].new_content
      BY <2>4 DEF SafetyInv, WrittenSoFar
    <2> QED BY <2>1, <2>5
  <1> QED BY <1>1, SafetyCorrect, PTL

-----------------------------------------------------------------------------
(***************************************************************************)
(* The result on screen.                                                   *)
(***************************************************************************)

\* What has become of it when none is on its way.
Settled == {"Rejected", "ChangesRequested", "Applied", "Conflict"}

\* Where the review is not settled, the screen shows nothing of one that is.
LEMMA NothingShown ==
    ASSUME ui'.result = "None", review'.status \notin Settled
    PROVE  ResultBelongsToReview'
  BY DEF ResultBelongsToReview, Settled

\* Where neither changes, both still agree.
LEMMA SameResult ==
    ASSUME ResultBelongsToReview, review' = review, ui'.result = ui.result
    PROVE  ResultBelongsToReview'
  BY DEF ResultBelongsToReview

\* The end of the program takes the result with the review.
LEMMA ExitShowsNothing ==
    ASSUME Exit
    PROVE  ResultBelongsToReview'
  BY NothingShown DEF Exit, Waiting, NoReview, Settled

\* A decision, and what is carried out of it.
LEMMA DecisionShows ==
    ASSUME SafetyInv, ResultBelongsToReview, User \/ Apply
    PROVE  ResultBelongsToReview'
  <1>1. ui \in UiState /\ review \in Review
    BY DEF SafetyInv, TypeOK
  <1>2. CASE Accept
    <2>1. review.status = "Pending"
      BY <1>2 DEF Accept, Decidable
    <2>2. CASE review.policy = "Deny"
      <3>1. ui'.result = "Denied" /\ review' = review
        BY <1>1, <1>2, <2>2 DEF Accept, UiState
      <3> QED BY <2>1, <2>2, <3>1 DEF ResultBelongsToReview
    <2>3. CASE review.policy # "Deny"
      <3>1. ui.result = "None"
        BY <1>1, <2>1, <2>3 DEF ResultBelongsToReview, UiState, Results
      <3>2. ui'.result = ui.result /\ review'.status = "Approved"
        BY <1>1, <1>2, <2>3 DEF Accept, UiState, Review
      <3> QED BY <3>1, <3>2, NothingShown DEF Settled
    <2> QED BY <2>2, <2>3
  <1>3. CASE Reject \/ RequestChanges
    <2>1. ui'.result = review'.status
      BY <1>1, <1>3 DEF Reject, RequestChanges, UiState, Review
    <2> QED BY <2>1 DEF ResultBelongsToReview
  <1>4. CASE DecideAgain
    BY <1>4, ExitShowsNothing DEF DecideAgain
  <1>5. CASE SelectFile \/ WriteFile
    <2>1. review' = review /\ ui'.result = ui.result
      BY <1>1, <1>5 DEF SelectFile, WriteFile, UiState
    <2> QED BY <2>1, SameResult
  <1>6. CASE CompareFile
    <2>1. Exit \/ (review' = review /\ ui'.result = ui.result)
      BY <1>1, <1>6 DEF CompareFile, UiState
    <2> QED BY <2>1, SameResult, ExitShowsNothing
  <1>7. CASE FailToWrite
    BY <1>7, ExitShowsNothing DEF FailToWrite
  <1>8. CASE Compared \/ FinishWriting
    <2>1. \/ ui'.result = review'.status
          \/ review' = review /\ ui'.result = ui.result
      BY <1>1, <1>8 DEF Compared, FinishWriting, UiState, Review
    <2> QED BY <2>1, SameResult DEF ResultBelongsToReview
  <1> QED BY <1>2, <1>3, <1>4, <1>5, <1>6, <1>7, <1>8 DEF User, Apply

\* Every step leaves the result with its review.
LEMMA ResultStep ==
    ASSUME SafetyInv, ResultBelongsToReview, [Next]_vars
    PROVE  ResultBelongsToReview'
  <1>1. ui \in UiState /\ review \in Review
    BY DEF SafetyInv, TypeOK
  <1>2. CASE (ui.state = "on" /\ Agent) \/ (\E f \in Files : Edit(f)) \/ UNCHANGED vars
    <2>1. PrepareFile \/ FinishProposal => UNCHANGED <<review, ui>>
      BY Zenon DEF PrepareFile, FinishProposal
    <2>2. (\E p \in Proposals : Call(p)) => UNCHANGED <<review, ui>>
      BY Zenon DEF Call
    <2>3. (\E f \in Files : Edit(f)) \/ UNCHANGED vars => UNCHANGED <<review, ui>>
      BY Zenon DEF Edit, vars
    <2>4. review' = review /\ ui' = ui
      BY <1>2, <2>1, <2>2, <2>3 DEF Agent
    <2> QED BY <2>4, SameResult
  <1>3. CASE TakeProposal
    <2>1. ui'.result = "None" /\ review'.status = "Pending"
      BY <1>1, <1>3 DEF TakeProposal, UiState
    <2> QED BY <2>1, NothingShown DEF Settled
  <1>4. CASE Die
    BY <1>4, ExitShowsNothing DEF Die
  <1>5. CASE Start
    <2>1. ui'.result = "None" /\ review' = review /\ review.status = "None"
      BY <1>5 DEF Start, Waiting, SafetyInv, UnderWay
    <2> QED BY <2>1, NothingShown DEF Settled
  <1> QED BY <1>2, <1>3, <1>4, <1>5, DecisionShows DEF Next

\* What the screen says became of the change on review is what became of it, also
\* when another proposal has taken its place.
THEOREM ResultsAreOfTheirReview == Spec => []ResultBelongsToReview
  <1>1. Init => ResultBelongsToReview
    BY DEF Init, ResultBelongsToReview, NoReview, Waiting
  <1>2. SafetyInv /\ ResultBelongsToReview /\ [Next]_vars => ResultBelongsToReview'
    BY ResultStep
  <1> QED BY <1>1, <1>2, SafetyCorrect, PTL DEF Spec

-----------------------------------------------------------------------------
(***************************************************************************)
(* Refinement.                                                             *)
(***************************************************************************)

\* The paths of a prefix of a change.
LEMMA PathsOfPrefix ==
    ASSUME NEW s \in Seq(FileChange), NEW n \in 0..Len(s)
    PROVE  Paths(SubSeq(s, 1, n)) = {s[i].path : i \in 1..n}
  <1>1. Len(s) \in Nat /\ 1 \in 1..(Len(s) + 1) /\ n \in Nat
    OBVIOUS
  <1>2. /\ SubSeq(s, 1, n) \in Seq(FileChange)
        /\ Len(SubSeq(s, 1, n)) = n
        /\ \A i \in 1..n : SubSeq(s, 1, n)[i] = s[i]
    BY <1>1
  <1>3. DOMAIN SubSeq(s, 1, n) = 1..n
    BY <1>2
  <1> QED BY <1>2, <1>3 DEF Paths

\* The end of the program forgets the review.
LEMMA ExitForgets ==
    ASSUME Exit
    PROVE  Promise!Next
  <1>1. ui'.pc = "idle" /\ review' = NoReview
    BY DEF Exit, Waiting
  <1>2. Touched' = {} /\ Paths(review'.files) = {}
    BY <1>1 DEF Touched, NoReview, Paths
  <1>3. Promise!Forget
    BY <1>1, <1>2 DEF Promise!Forget, NoReview, Verdict
  <1> QED BY <1>3 DEF Promise!Next

\* A step that leaves the review alone, and what is written of it, is none of
\* the promise's.
LEMMA ReviewUntouched ==
    ASSUME UNCHANGED review, Touched' = Touched
    PROVE  UNCHANGED Promise!vars
  BY DEF Promise!vars

\* Applying a review is a step of the promise, or none.
LEMMA ApplyKeepsPromise ==
    ASSUME SafetyInv, Apply
    PROVE  [Promise!Next]_(Promise!vars)
  <1>1. /\ review.files \in Seq(FileChange) /\ Len(review.files) \in Nat
        /\ DOMAIN review.files = 1..Len(review.files) /\ ui.next \in Nat \ {0}
    BY DEF SafetyInv, TypeOK, Review, UiState
  <1>2. ui.pc # "idle" => review.status = "Approved"
    BY DEF SafetyInv, UnderWay
  <1>3. CASE CompareFile
    <2>1. ui.pc = "compare"
      BY <1>3 DEF CompareFile, Applying
    <2>2. CASE Readable(Current.path)
      <3>1. ui'.pc = "compare" /\ UNCHANGED review
        BY <1>3, <2>1, <2>2 DEF CompareFile, SafetyInv, TypeOK, UiState
      <3>2. Touched' = Touched
        BY <1>2, <2>1, <3>1 DEF Touched
      <3> QED BY <3>1, <3>2, ReviewUntouched
    <2>3. CASE ~Readable(Current.path)
      BY <1>3, <2>3, ExitForgets DEF CompareFile
    <2> QED BY <2>2, <2>3
  <1>4. CASE Compared
    <2>1. ui.pc = "compare" /\ Touched = {} /\ review.status = "Approved"
      BY <1>2, <1>4 DEF Compared, Applying, Touched
    <2>2. CASE ui.conflicts # <<>>
      <3>1. ui'.pc = "idle" /\ review' = [review EXCEPT !.status = "Conflict"]
        BY <1>4, <2>2 DEF Compared, SafetyInv, TypeOK, UiState
      <3>2. /\ review'.status = "Conflict" /\ review'.files = review.files
            /\ review'.policy = review.policy
        BY <3>1 DEF SafetyInv, TypeOK, Review
      <3>3. Touched' = {}
        BY <3>1, <3>2 DEF Touched
      <3>4. Promise!Refuse
        BY <2>1, <3>2, <3>3 DEF Promise!Refuse, Verdict
      <3> QED BY <3>4 DEF Promise!Next
    <2>3. CASE ui.conflicts = <<>>
      <3>1. ui' = [ui EXCEPT !.pc = "write", !.next = 1] /\ UNCHANGED review
        BY <1>4, <2>3 DEF Compared
      <3>2. ui'.pc = "write" /\ ui'.next - 1 = 0
        BY <3>1 DEF SafetyInv, TypeOK, UiState
      <3>3. Paths(SubSeq(review.files, 1, 0)) = {}
        BY <1>1, PathsOfPrefix
      <3>4. Touched' = {}
        BY <3>1, <3>2, <3>3 DEF Touched
      <3> QED BY <2>1, <3>1, <3>4, ReviewUntouched
    <2> QED BY <2>2, <2>3
  <1>5. CASE WriteFile
    <2>1. /\ ui.pc = "write" /\ review.status = "Approved" /\ ui.next \in 1..Len(review.files)
          /\ ui' = [ui EXCEPT !.next = ui.next + 1] /\ UNCHANGED review
      BY <1>1, <1>2, <1>5 DEF WriteFile, Applying
    <2>2. ui'.pc = "write" /\ ui'.next = ui.next + 1
      BY <2>1 DEF SafetyInv, TypeOK, UiState
    <2>3. ui.next - 1 \in 0..Len(review.files) /\ ui.next \in 0..Len(review.files)
          /\ (ui.next + 1) - 1 = ui.next
      BY <1>1, <2>1
    <2>4. Touched = {review.files[i].path : i \in 1..(ui.next - 1)}
      BY <1>1, <2>1, <2>3, PathsOfPrefix DEF Touched
    <2>5. Touched' = Paths(SubSeq(review.files, 1, ui.next))
      BY <2>1, <2>2, <2>3 DEF Touched
    <2>6. Touched' = {review.files[i].path : i \in 1..ui.next}
      BY <1>1, <2>3, <2>5, PathsOfPrefix
    <2>7. 1..ui.next = 1..(ui.next - 1) \union {ui.next}
      BY <1>1
    <2>8. Touched' = Touched \union {review.files[ui.next].path}
      BY <2>4, <2>6, <2>7
    <2>9. review.files[ui.next].path \in Paths(review.files)
      BY <1>1, <2>1 DEF Paths
    <2>10. Verdict[review.status] = "approved"
      BY <2>1 DEF Verdict
    <2>11. \E f \in Paths(review.files) : Touched' = Touched \union {f}
      BY <2>8, <2>9
    <2>12. Verdict[review.status]' = Verdict[review.status]
           /\ (review.policy = "Deny")' = (review.policy = "Deny")
           /\ Paths(review.files)' = Paths(review.files)
      BY <2>1
    <2>13. Promise!Touch
      BY <2>10, <2>11, <2>12 DEF Promise!Touch
    <2> QED BY <2>13 DEF Promise!Next
  <1>6. CASE FailToWrite
    BY <1>6, ExitForgets DEF FailToWrite
  <1>7. CASE FinishWriting
    <2>1. /\ ui.pc = "write" /\ review.status = "Approved" /\ ui.next - 1 = Len(review.files)
          /\ review' = [review EXCEPT !.status = "Applied"] /\ ui'.pc = "idle"
      BY <1>1, <1>2, <1>7 DEF FinishWriting, Applying, SafetyInv, TypeOK, UiState
    <2>2. /\ review'.status = "Applied" /\ review'.files = review.files
          /\ review'.policy = review.policy
      BY <2>1 DEF SafetyInv, TypeOK, Review
    <2>3. Touched = {review.files[i].path : i \in 1..Len(review.files)}
      BY <1>1, <2>1, PathsOfPrefix DEF Touched
    <2>4. Touched = Paths(review.files)
      BY <1>1, <2>3 DEF Paths
    <2>5. Touched' = Paths(review.files)
      BY <2>1, <2>2 DEF Touched
    <2>6. Promise!Complete
      BY <2>1, <2>2, <2>4, <2>5 DEF Promise!Complete, Verdict
    <2> QED BY <2>6 DEF Promise!Next
  <1> QED BY <1>3, <1>4, <1>5, <1>6, <1>7 DEF Apply

\* So is what the user does.
LEMMA UserKeepsPromise ==
    ASSUME SafetyInv, User
    PROVE  [Promise!Next]_(Promise!vars)
  <1>1. CASE Accept
    <2>1. ui.pc = "idle" /\ review.status = "Pending" /\ Touched = {}
      BY <1>1 DEF Accept, CanDecide, Decidable, Touched
    <2>2. CASE review.policy = "Deny"
      <3>1. UNCHANGED review /\ ui'.pc = "idle"
        BY <1>1, <2>1, <2>2 DEF Accept, SafetyInv, TypeOK, UiState
      <3>2. Touched' = {}
        BY <2>1, <3>1 DEF Touched
      <3> QED BY <2>1, <3>1, <3>2, ReviewUntouched
    <2>3. CASE review.policy # "Deny"
      <3>1. /\ review' = [review EXCEPT !.status = "Approved"]
            /\ ui' = [ui EXCEPT !.pc = "compare", !.next = 1, !.conflicts = <<>>]
        BY <1>1, <2>3 DEF Accept
      <3>2. /\ review'.status = "Approved" /\ review'.files = review.files
            /\ review'.policy = review.policy /\ ui'.pc = "compare"
        BY <3>1 DEF SafetyInv, TypeOK, Review, UiState
      <3>3. Touched' = {}
        BY <3>2 DEF Touched
      <3>4. Promise!Approve
        BY <2>1, <2>3, <3>2, <3>3 DEF Promise!Approve, Verdict
      <3> QED BY <3>4 DEF Promise!Next
    <2> QED BY <2>2, <2>3
  <1>2. CASE Reject \/ RequestChanges
    <2>1. ui.pc = "idle" /\ review.status = "Pending" /\ Touched = {}
      BY <1>2 DEF Reject, RequestChanges, CanDecide, Decidable, Touched
    <2>2. /\ review'.status \in {"Rejected", "ChangesRequested"}
          /\ review'.files = review.files /\ review'.policy = review.policy /\ ui'.pc = "idle"
      BY <1>2, <2>1 DEF Reject, RequestChanges, SafetyInv, TypeOK, Review, UiState
    <2>3. Touched' = {}
      BY <2>2 DEF Touched
    <2>4. Promise!Decline
      BY <2>1, <2>2, <2>3 DEF Promise!Decline, Verdict
    <2> QED BY <2>4 DEF Promise!Next
  <1>3. CASE DecideAgain
    BY <1>3, ExitForgets DEF DecideAgain
  <1>4. CASE SelectFile
    <2>1. UNCHANGED review /\ ui.pc = "idle" /\ \E n : ui' = [ui EXCEPT !.selected = n]
      BY <1>4 DEF SelectFile, CanDecide
    <2>2. ui'.pc = "idle"
      BY <2>1 DEF SafetyInv, TypeOK, UiState
    <2>3. Touched' = Touched
      BY <2>1, <2>2 DEF Touched
    <2> QED BY <2>1, <2>3, ReviewUntouched
  <1> QED BY <1>1, <1>2, <1>3, <1>4 DEF User

\* So is every step.
LEMMA PromiseStep ==
    ASSUME SafetyInv, [Next]_vars
    PROVE  [Promise!Next]_(Promise!vars)
  <1>1. CASE ui.state = "on" /\ Agent
    <2>1. UNCHANGED <<review, ui>>
      BY <1>1 DEF Agent, Call, PrepareFile, FinishProposal
    <2> QED BY <2>1, ReviewUntouched DEF Touched
  <1>2. CASE TakeProposal
    <2>1. /\ review.status # "Approved" /\ agent.files \in Seq(FileChange)
          /\ review' = [status |-> "Pending", files |-> agent.files, policy |-> PolicyOf(agent.files)]
          /\ ui'.pc = "idle"
      BY <1>2 DEF TakeProposal, SafetyInv, UnderWay, TypeOK, AgentState, UiState
    <2>2. Paths(agent.files) \subseteq Files
      <3>1. \A i \in DOMAIN agent.files : agent.files[i].path \in Files
        <4> SUFFICES ASSUME NEW i \in DOMAIN agent.files PROVE agent.files[i].path \in Files
          OBVIOUS
        <4>1. agent.files[i] \in FileChange
          BY <2>1
        <4> QED BY <4>1 DEF FileChange
      <3> QED BY <3>1 DEF Paths
    <2>3. Touched' = {}
      BY <2>1 DEF Touched
    <2>4. review.status \in Status
      BY DEF SafetyInv, TypeOK, Review
    <2>5. Promise!Propose
      BY <2>1, <2>2, <2>3, <2>4 DEF Promise!Propose, Verdict, Status
    <2> QED BY <2>5 DEF Promise!Next
  <1>3. CASE Die
    BY <1>3, ExitForgets DEF Die
  <1>4. CASE Start
    <2>1. UNCHANGED review /\ ui.pc = "idle" /\ ui'.pc = "idle"
      BY <1>4 DEF Start, Waiting, SafetyInv, UnderWay
    <2> QED BY <2>1, ReviewUntouched DEF Touched
  <1>5. ASSUME NEW f \in Files, Edit(f) PROVE UNCHANGED Promise!vars
    <2>1. UNCHANGED <<review, ui>>
      BY <1>5 DEF Edit
    <2> QED BY <2>1, ReviewUntouched DEF Touched
  <1>6. CASE UNCHANGED vars
    <2>1. UNCHANGED <<review, ui>>
      BY <1>6 DEF vars
    <2> QED BY <2>1, ReviewUntouched DEF Touched
  <1> QED BY <1>1, <1>2, <1>3, <1>4, <1>5, <1>6, UserKeepsPromise, ApplyKeepsPromise DEF Next

\* Reviewing a change file by file, with crashes and errors between any two
\* reads or writes, implements ReviewPromise: files are touched only for an
\* approved change, and all of them where it is reported as applied.
THEOREM ReviewKeepsPromise == Spec => KeepsPromise
  <1>1. Init => Promise!Init
    <2> SUFFICES ASSUME Init PROVE Promise!Init
      OBVIOUS
    <2>1. Touched = {} /\ Paths(review.files) = {}
      BY DEF Init, Touched, Waiting, NoReview, Paths
    <2> QED BY <2>1 DEF Init, NoReview, Promise!Init, Verdict
  <1>2. SafetyInv /\ [Next]_vars => [Promise!Next]_(Promise!vars)
    BY PromiseStep
  <1> QED BY <1>1, <1>2, SafetyCorrect, PTL DEF Spec, KeepsPromise, Promise!Spec
=============================================================================
