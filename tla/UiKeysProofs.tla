---------------------------- MODULE UiKeysProofs ----------------------------
(***************************************************************************)
(* What is proved of UiKeys, for every set of lines, sessions, skills and  *)
(* options: where the keys go, what cancels a run, where a line that was   *)
(* typed disappears to, and what is sent as an answer.                     *)
(***************************************************************************)
EXTENDS UiKeys, TLAPS, SequenceTheorems

-----------------------------------------------------------------------------
\* A command on sessions switches, or says what it did.
LEMMA SessionCommandSays ==
    ASSUME SessionCommand
    PROVE  out' = Says("shown") \/ \E s \in ToSet(Sessions) : Switches(s)
  BY DEF SessionCommand

\* A command on the review starts a run only with feedback, and says so.
LEMMA ReviewCommandSays ==
    ASSUME ReviewCommand
    PROVE  out' = Says("shown") \/ (Revises /\ out' = Says("StartRun"))
  BY DEF ReviewCommand

\* What the end of the handler of Enter says, and what it leaves of the line.
LEMMA SendsSays ==
    ASSUME NEW l, Sends(l)
    PROVE  /\ out' \in {Says("shown"), Says("none"), Says("StartRun")}
           /\ out' = Says("none") => line' = l
           /\ out' = Says("StartRun") => /\ l # ""
                                         /\ status = "Waiting" /\ question => Accepts(l)
  <1>0. Says("shown") # Says("none") /\ Says("StartRun") # Says("none")
        /\ Says("StartRun") # Says("shown")
    BY DEF Says
  <1>1. CASE status = "Waiting" /\ question /\ l # "" /\ ~Accepts(l)
    BY <1>0, <1>1 DEF Sends
  <1>2. CASE ~(status = "Waiting" /\ question /\ l # "" /\ ~Accepts(l)) /\ (l = "" \/ status = "Running")
    BY <1>0, <1>2 DEF Sends
  <1>3. CASE /\ ~(status = "Waiting" /\ question /\ l # "" /\ ~Accepts(l))
             /\ ~(l = "" \/ status = "Running")
    BY <1>0, <1>3 DEF Sends, StartsRun
  <1> QED BY <1>1, <1>2, <1>3

-----------------------------------------------------------------------------
(***************************************************************************)
(* Focus.                                                                  *)
(***************************************************************************)
Components == {"PromptInput", "Sidebar"}
Focus == [current : Components, modal : BOOLEAN, restore : Components]

FocusInv == focus \in Focus /\ sidebar \in BOOLEAN

\* Bringing the focus up to date, and moving it.
LEMMA FocusMoves ==
    ASSUME focus \in Focus
    PROVE  /\ Synced \in Focus
           /\ \A id \in Components : Focused(id) \in Focus
           /\ FocusedNext \in Focus
           /\ Order \subseteq Components
  <1>1. Order \subseteq Components /\ "PromptInput" \in Order
    BY DEF Order, Components
  <1>2. Synced \in Focus
    BY <1>1 DEF Synced, Focus, Components
  <1>3. \A id \in Components : Focused(id) \in Focus
    BY <1>2 DEF Focused, Focus
  <1>4. FocusedNext \in Focus
    BY <1>3 DEF FocusedNext, Components
  <1> QED BY <1>1, <1>2, <1>3, <1>4

\* Every step keeps a focus.
LEMMA FocusStep == FocusInv /\ [Next]_vars => FocusInv'
  <1>1. SUFFICES ASSUME FocusInv, [Next]_vars PROVE FocusInv'
    OBVIOUS
  <1>2. /\ focus \in Focus /\ sidebar \in BOOLEAN /\ Synced \in Focus
        /\ \A id \in Components : Focused(id) \in Focus
        /\ FocusedNext \in Focus /\ Order \subseteq Components
        /\ "PromptInput" \in Components /\ "Sidebar" \in Components
    BY <1>1, FocusMoves DEF FocusInv, Components
  <1>3. CASE Type \/ TypeInPicker \/ Space \/ PickerKey
    BY <1>2, <1>3 DEF Type, TypeInPicker, Space, PickerKey, KeyPressed, FocusInv, sideVars
  <1>4. CASE Paste
    BY <1>2, <1>4 DEF Paste, FocusInv, sideVars
  <1>5. CASE KeyEscape
    BY <1>2, <1>5 DEF KeyEscape, FocusInv
  <1>6. CASE KeyUp \/ KeyDown
    BY <1>2, <1>6 DEF KeyUp, KeyDown, Steps, KeyPressed, FocusInv
  <1>7. CASE KeyTab
    BY <1>2, <1>7 DEF KeyTab, KeyPressed, FocusInv, sideVars
  <1>8. CASE KeyLeftRight
    BY <1>2, <1>8 DEF KeyLeftRight, KeyPressed, FocusInv
  <1>9. CASE ClickDivider
    BY <1>2, <1>9 DEF ClickDivider, FocusInv
  <1>10. ASSUME KeyPressed, NEW command, Executes(command) PROVE FocusInv'
    BY <1>2, <1>10 DEF KeyPressed, Executes, FocusInv, sideVars
  <1>11. ASSUME KeyPressed, NEW s, Switches(s) PROVE FocusInv'
    BY <1>2, <1>11 DEF KeyPressed, Switches, FocusInv, sideVars
  <1>12. CASE KeyEnter
    <2>1. KeyPressed
      BY <1>12 DEF KeyEnter
    <2>2. CASE PickerEnter
      BY <1>2, <1>11, <2>1, <2>2 DEF PickerEnter, KeyPressed, FocusInv, sideVars
    <2>3. CASE LocalCommand
      BY <1>2, <2>1, <2>3 DEF LocalCommand, KeyPressed, FocusInv
    <2>4. CASE ReviewCommand
      BY <1>2, <2>1, <2>4 DEF ReviewCommand, KeyPressed, FocusInv, sideVars
    <2>5. CASE SessionCommand
      BY <1>2, <1>11, <2>1, <2>5 DEF SessionCommand, KeyPressed, FocusInv, sideVars
    <2>6. ASSUME NEW l, Sends(l) PROVE FocusInv'
      BY <1>2, <2>1, <2>6 DEF Sends, StartsRun, KeyPressed, FocusInv, sideVars
    <2> QED BY <1>10, <1>12, <2>1, <2>2, <2>3, <2>4, <2>5, <2>6 DEF KeyEnter
  <1>13. ASSUME NEW row, ClickSession(row) PROVE FocusInv'
    BY <1>11, <1>13 DEF ClickSession
  <1>14. CASE ClickSuggestion
    BY <1>10, <1>14 DEF ClickSuggestion
  <1>15. CASE ClickSkill
    BY <1>2, <1>15 DEF ClickSkill, FocusInv
  <1>16. CASE EscapeExpires \/ RunEnds \/ Propose \/ UNCHANGED vars
    BY <1>2, <1>16 DEF EscapeExpires, RunEnds, Propose, vars, FocusInv, sideVars
  <1> QED BY <1>1, <1>3, <1>4, <1>5, <1>6, <1>7, <1>8, <1>9, <1>12, <1>13, <1>14, <1>15, <1>16
          DEF Next

\* The invariant of the focus.
LEMMA FocusIsTyped == Spec => []FocusInv
  <1>1. Init => FocusInv
    <2> DEFINE first == [current |-> "PromptInput", modal |-> FALSE, restore |-> "PromptInput"]
    <2>1. first \in Focus
      BY DEF Focus, Components
    <2>2. Init => sidebar \in BOOLEAN /\ focus = first
      BY DEF Init
    <2> HIDE DEF first
    <2> QED BY <2>1, <2>2 DEF FocusInv
  <1> QED BY <1>1, FocusStep, PTL DEF Spec

\* Keys go to something that is on screen, also after the sidebar was hidden
\* while the overlay had the focus.
THEOREM KeysGoToWhatIsShown == Spec => []FocusIsShown
  <1>1. ASSUME FocusInv PROVE FocusIsShown
    <2>1. /\ Synced \in Focus /\ focus \in Focus /\ sidebar \in BOOLEAN
      BY <1>1, FocusMoves DEF FocusInv
    <2>2. Synced.modal <=> Overlay
      BY <2>1 DEF Synced, Focus
    <2>3. ~Overlay => Synced.current \in Order
      BY <2>1 DEF Synced, Focus, Order
    <2>4. CASE Overlay
      BY <2>2, <2>4 DEF Current, FocusIsShown
    <2>5. CASE ~Overlay
      <3>1. Current(Synced) = Synced.current
        BY <2>2, <2>5 DEF Current
      <3>2. Synced.current = "PromptInput" \/ (Synced.current = "Sidebar" /\ sidebar)
        BY <2>1, <2>3, <2>5 DEF Order
      <3> QED BY <2>5, <3>1, <3>2 DEF FocusIsShown
    <2> QED BY <2>4, <2>5
  <1> QED BY <1>1, FocusIsTyped, PTL

-----------------------------------------------------------------------------
(***************************************************************************)
(* Esc.                                                                    *)
(***************************************************************************)
\* What Esc asked is about the run, and nothing was on top of the conversation.
EscapeInv == escape = "interrupt" => armed /\ picker.rename = Nobody

\* Of all steps, only Esc asks or cancels.
EscapeGoal == EscapeInv' /\ (out'.what = "CancelRun" => armed)

\* What withdraws the question.
LEMMA Withdrawn ==
    ASSUME escape' = "none", out'.what # "CancelRun"
    PROVE  EscapeGoal
  BY DEF EscapeGoal, EscapeInv

\* Every step keeps the invariant, and cancels only what is armed.
LEMMA EscapeStep ==
    ASSUME EscapeInv, Next
    PROVE  EscapeGoal
  <1>1. \A what : Says(what).what = what
    BY DEF Says
  <1>2. CASE Type \/ TypeInPicker \/ Space \/ KeyUp \/ KeyDown
    <2>1. escape' = "none" /\ out' = Says("none")
      BY <1>2 DEF Type, TypeInPicker, Space, KeyUp, KeyDown, Steps, KeyPressed
    <2> QED BY <1>1, <2>1, Withdrawn
  <1>3. CASE PickerKey
    <2>1. escape' = "none" /\ out'.what \in {"ToggleSessionLiked", "TitleSession", "shown", "none"}
      BY <1>1, <1>3 DEF PickerKey, KeyPressed
    <2> QED BY <2>1, Withdrawn
  <1>4. CASE Paste \/ Propose
    <2>1. escape' = escape /\ armed' = armed /\ picker' = picker /\ out' = Says("none")
      BY <1>4 DEF Paste, Propose, sideVars
    <2> QED BY <1>1, <2>1 DEF EscapeGoal, EscapeInv
  <1>5. CASE EscapeExpires \/ RunEnds \/ ClickDivider \/ ClickSkill
    <2>1. escape' = "none" /\ out' = Says("none")
      BY <1>5 DEF EscapeExpires, RunEnds, ClickDivider, ClickSkill
    <2> QED BY <1>1, <2>1, Withdrawn
  <1>6. CASE KeyTab \/ KeyLeftRight
    <2>1. /\ out' = Says("none") /\ picker' = picker
          /\ \/ escape' = "none"
             \/ escape' = escape /\ armed' = armed
      BY <1>6 DEF KeyTab, KeyLeftRight, KeyPressed
    <2> QED BY <1>1, <2>1 DEF EscapeGoal, EscapeInv
  <1>7. CASE KeyEscape
    <2>1. CASE Suggestions # <<>> \/ panels \intersect {"log", "skill"} # {}
      <3>1. escape' = "none" /\ out' = Says("none")
        BY <1>7, <2>1 DEF KeyEscape
      <3> QED BY <1>1, <3>1, Withdrawn
    <2>2. CASE Suggestions = <<>> /\ panels \intersect {"log", "skill"} = {} /\ picker.rename # Nobody
      <3>1. escape' = escape /\ out' = Says("none")
        BY <1>7, <2>2 DEF KeyEscape
      <3> QED BY <1>1, <2>2, <3>1 DEF EscapeGoal, EscapeInv
    <2>3. CASE /\ Suggestions = <<>> /\ panels \intersect {"log", "skill"} = {}
               /\ picker.rename = Nobody /\ picker.on
      <3>1. escape' = "none" /\ out' = Says("none")
        BY <1>7, <2>3 DEF KeyEscape
      <3> QED BY <1>1, <3>1, Withdrawn
    <2>4. CASE /\ Suggestions = <<>> /\ panels \intersect {"log", "skill"} = {}
               /\ picker.rename = Nobody /\ ~picker.on
      <3> DEFINE action == IF status = "Running" THEN "interrupt" ELSE "clear"
      <3>1. /\ picker' = picker
            /\ IF escape # action
               THEN escape' = action /\ armed' = (action = "interrupt") /\ out' = Says("none")
               ELSE /\ escape' = "none"
                    /\ out' = IF action = "clear" THEN Says("shown") ELSE Says("CancelRun")
        BY <1>7, <2>4 DEF KeyEscape
      <3> QED BY <1>1, <2>4, <3>1 DEF EscapeGoal, EscapeInv
    <2> QED BY <2>1, <2>2, <2>3, <2>4
  <1>8. ASSUME NEW s, Switches(s) PROVE out'.what = "SwitchSession"
    BY <1>8 DEF Switches
  <1>9. ASSUME NEW command, Executes(command) PROVE out'.what \in {"shown", "StartRun"}
    BY <1>1, <1>9 DEF Executes
  <1>10. CASE KeyEnter
    <2>1. escape' = "none"
      BY <1>10 DEF KeyEnter, KeyPressed
    <2>2. PickerEnter => out'.what # "CancelRun"
      BY <1>1, <1>8 DEF PickerEnter
    <2>3. LocalCommand \/ ReviewCommand => out'.what # "CancelRun"
      BY <1>1, ReviewCommandSays DEF LocalCommand
    <2>4. SessionCommand => out'.what # "CancelRun"
      BY <1>1, <1>8, SessionCommandSays
    <2>5. ASSUME NEW l, Sends(l) PROVE out'.what # "CancelRun"
      <3>1. out'.what \in {"shown", "none", "StartRun"}
        BY <1>1, <2>5, SendsSays
      <3> QED BY <3>1
    <2>6. out'.what # "CancelRun"
      BY <1>9, <1>10, <2>2, <2>3, <2>4, <2>5 DEF KeyEnter
    <2> QED BY <2>1, <2>6, Withdrawn
  <1>11. ASSUME NEW row, ClickSession(row) PROVE EscapeGoal
    BY <1>8, <1>11, Withdrawn DEF ClickSession, KeyPressed
  <1>12. CASE ClickSuggestion
    BY <1>9, <1>12, Withdrawn DEF ClickSuggestion, KeyPressed
  <1> QED BY <1>2, <1>3, <1>4, <1>5, <1>6, <1>7, <1>10, <1>11, <1>12 DEF Next

\* The invariant of Esc.
LEMMA EscapeIsAsked == Spec => []EscapeInv
  <1>1. Init => EscapeInv
    BY DEF Init, EscapeInv
  <1>2. EscapeInv /\ [Next]_vars => EscapeInv'
    <2>1. ASSUME EscapeInv, UNCHANGED vars PROVE EscapeInv'
      BY <2>1 DEF vars, EscapeInv
    <2> QED BY <2>1, EscapeStep DEF EscapeGoal
  <1> QED BY <1>1, <1>2, PTL DEF Spec

\* A run is canceled only by an Esc that follows one which asked for it during
\* that very run, with no key that does something between the two.
THEOREM CancelingIsConfirmed == Spec => InterruptIsConfirmed
  <1>1. EscapeInv /\ [Next]_vars => [out'.what = "CancelRun" => armed]_vars
    BY EscapeStep DEF EscapeGoal
  <1> QED BY <1>1, EscapeIsAsked, PTL DEF Spec, InterruptIsConfirmed

-----------------------------------------------------------------------------
(***************************************************************************)
(* The line.                                                               *)
(***************************************************************************)
\* The slash commands that may be offered: a run is repeated or continued only
\* after one that failed or was canceled.
Fitting == {c \in {"/new", "/session", "/version", "/retry", "/continue"} :
               /\ c = "/retry" => status = "Failed"
               /\ c = "/continue" => status = "Canceled"}

\* The popup is a sequence of them.
LEMMA SuggestionsType == Suggestions \in Seq(Fitting)
  <1>1. ASSUME NEW j \in 1..5 PROVE Offered(j) \in Seq(Fitting)
    <2> DEFINE c == SlashCommands[j]
    <2>1. c \in {"/new", "/session", "/version", "/retry", "/continue"}
      BY DEF SlashCommands
    <2>2. Offered(j) = <<>> \/ (Offered(j) = <<c>> /\ c \in Fitting)
      BY <2>1 DEF Offered, Fitting
    <2> HIDE DEF c
    <2>3. c \in Fitting => <<c>> \in Seq(Fitting)
      OBVIOUS
    <2>4. <<>> \in Seq(Fitting)
      OBVIOUS
    <2> QED BY <2>2, <2>3, <2>4
  <1>2. /\ Offered(1) \in Seq(Fitting) /\ Offered(2) \in Seq(Fitting) /\ Offered(3) \in Seq(Fitting)
        /\ Offered(4) \in Seq(Fitting) /\ Offered(5) \in Seq(Fitting)
    BY <1>1
  <1>3. Offered(1) \o Offered(2) \o Offered(3) \o Offered(4) \o Offered(5) \in Seq(Fitting)
    BY <1>2, ConcatProperties
  <1> QED BY <1>3 DEF Suggestions

\* So is each of its elements.
LEMMA SuggestionsFit ==
    ASSUME NEW i \in DOMAIN Suggestions
    PROVE  /\ Suggestions[i] # ""
           /\ Suggestions[i] = "/retry" => status = "Failed"
           /\ Suggestions[i] = "/continue" => status = "Canceled"
  <1>1. Suggestions[i] \in Fitting
    BY SuggestionsType, ElementOfSeq, LenProperties
  <1> QED BY <1>1 DEF Fitting

\* The place of the highlighted command.
PopupInv == popup \in [selected : Nat, dismissed : BOOLEAN]

\* Every step keeps it a place.
LEMMA PopupStep == PopupInv /\ [Next]_vars => PopupInv'
  <1>1. SUFFICES ASSUME PopupInv, [Next]_vars PROVE PopupInv'
    OBVIOUS
  <1>2. NoPopup \in [selected : Nat, dismissed : BOOLEAN]
    BY DEF NoPopup
  <1>3. popup' \in {popup, NoPopup} => PopupInv'
    BY <1>1, <1>2 DEF PopupInv
  <1>4. CASE Type \/ Paste \/ TypeInPicker
    BY <1>3, <1>4 DEF Type, Paste, TypeInPicker
  <1>5. CASE Space \/ PickerKey \/ KeyTab \/ KeyLeftRight \/ ClickDivider \/ ClickSkill \/ RunEnds
             \/ Propose \/ EscapeExpires \/ UNCHANGED vars
    <2>1. popup' = popup
      BY <1>5 DEF Space, PickerKey, KeyTab, KeyLeftRight, ClickDivider, ClickSkill, RunEnds, Propose,
                  EscapeExpires, vars
    <2> QED BY <1>3, <2>1
  <1>6. CASE KeyEscape
    <2>1. popup' \in {popup, NoPopup, [popup EXCEPT !.dismissed = TRUE]}
      BY <1>6 DEF KeyEscape, LineCleared
    <2>2. [popup EXCEPT !.dismissed = TRUE] \in [selected : Nat, dismissed : BOOLEAN]
      BY <1>1 DEF PopupInv
    <2> QED BY <1>3, <2>1, <2>2 DEF PopupInv
  <1>7. ASSUME NEW direction, Steps(direction) PROVE PopupInv'
    <2> DEFINE i == Step(direction, popup.selected, Len(Suggestions))
    <2>1. popup' = popup \/ (Suggestions # <<>> /\ popup' = [popup EXCEPT !.selected = i])
      BY <1>1, <1>7 DEF Steps, PopupInv
    <2>2. Suggestions # <<>> => i \in Nat
      <3>1. SUFFICES ASSUME Suggestions # <<>> PROVE i \in Nat
        OBVIOUS
      <3>2. Len(Suggestions) \in Nat \ {0}
        BY <3>1, SuggestionsType, LenProperties, EmptySeq
      <3>3. popup.selected \in Nat
        BY <1>1 DEF PopupInv
      <3> HIDE DEF Suggestions
      <3> QED BY <3>2, <3>3 DEF Step
    <2> HIDE DEF i
    <2> QED BY <1>1, <1>3, <2>1, <2>2 DEF PopupInv
  <1>8. ASSUME NEW command, Executes(command) PROVE popup' = NoPopup
    BY <1>8 DEF Executes, LineCleared
  <1>9. CASE KeyEnter
    <2>1. PickerEnter => popup' = popup
      BY DEF PickerEnter, Switches
    <2>2. LocalCommand \/ ReviewCommand \/ SessionCommand => popup' = NoPopup
      BY DEF LocalCommand, ReviewCommand, SessionCommand, LineCleared
    <2>3. ASSUME NEW l, Sends(l) PROVE popup' \in {popup, NoPopup}
      BY <2>3 DEF Sends, StartsRun, LineCleared
    <2> QED BY <1>3, <1>8, <1>9, <2>1, <2>2, <2>3 DEF KeyEnter
  <1>10. ASSUME NEW row, ClickSession(row) PROVE PopupInv'
    BY <1>3, <1>10 DEF ClickSession
  <1>11. CASE ClickSuggestion
    BY <1>3, <1>8, <1>11 DEF ClickSuggestion
  <1> QED BY <1>1, <1>4, <1>5, <1>6, <1>7, <1>9, <1>10, <1>11 DEF Next, KeyUp, KeyDown

\* The invariant of the popup.
LEMMA PopupIsTyped == Spec => []PopupInv
  <1>1. Init => PopupInv
    <2>1. NoPopup \in [selected : Nat, dismissed : BOOLEAN]
      BY DEF NoPopup
    <2>2. Init => popup = NoPopup
      BY DEF Init
    <2> QED BY <2>1, <2>2 DEF PopupInv
  <1> QED BY <1>1, PopupStep, PTL DEF Spec

\* The command that Tab and Enter take.
LEMMA HighlightedFits ==
    ASSUME PopupInv, popup.selected < Len(Suggestions)
    PROVE  popup.selected + 1 \in DOMAIN Suggestions
  <1>1. popup.selected \in Nat
    BY DEF PopupInv
  <1>2. Len(Suggestions) \in Nat /\ DOMAIN Suggestions = 1..Len(Suggestions)
    BY SuggestionsType, LenProperties
  <1> QED BY <1>1, <1>2

\* What the user has typed disappears only into a command, a run, a message
\* that says why, or by two Esc.
THEOREM TypedLinesGoSomewhere == Spec => NothingTypedIsLost
  <1> DEFINE Goal == line # "" /\ line' = "" => out'.what # "none"
  <1>1. ASSUME PopupInv, Next PROVE Goal
    <2>1. \A what : Says(what).what = what
      BY DEF Says
    <2>2. CASE Type \/ TypeInPicker \/ KeyLeftRight
      BY <1>1, <2>2 DEF Type, TypeInPicker, KeyLeftRight
    <2>3. CASE Paste
      BY <2>3 DEF Paste
    <2>4. CASE Space \/ PickerKey \/ KeyUp \/ KeyDown \/ ClickDivider \/ ClickSkill \/ RunEnds \/ Propose
               \/ EscapeExpires
      <3>1. line' = line
        BY <2>4 DEF Space, PickerKey, KeyUp, KeyDown, Steps, ClickDivider, ClickSkill, RunEnds,
                    Propose, EscapeExpires
      <3> QED BY <3>1
    <2>5. CASE KeyEscape
      BY <2>1, <2>5 DEF KeyEscape
    <2>6. CASE KeyTab
      <3>1. popup.selected < Len(Suggestions) => Suggestions[popup.selected + 1] # ""
        BY <1>1, HighlightedFits, SuggestionsFit
      <3> QED BY <2>6, <3>1 DEF KeyTab
    <2>7. ASSUME NEW command, Executes(command) PROVE out'.what \in {"shown", "StartRun"}
      BY <2>1, <2>7 DEF Executes
    <2>8. ASSUME NEW s, Switches(s) PROVE out'.what = "SwitchSession"
      BY <2>8 DEF Switches
    <2>9. CASE KeyEnter
      <3>1. CASE PickerEnter
        BY <3>1, <2>8 DEF PickerEnter
      <3>2. CASE LocalCommand
        BY <2>1, <3>2 DEF LocalCommand
      <3>3. CASE ReviewCommand
        <4>1. out'.what \in {"shown", "StartRun"}
          BY <2>1, <3>3, ReviewCommandSays
        <4> QED BY <4>1
      <3>4. CASE SessionCommand
        <4>1. out'.what \in {"SwitchSession", "shown"}
          BY <2>1, <2>8, <3>4, SessionCommandSays
        <4> QED BY <4>1
      <3>5. CASE Sends(line)
        BY <2>1, <3>5, SendsSays
      <3>6. CASE line = ""
        BY <3>6
      <3> QED BY <2>7, <2>9, <3>1, <3>2, <3>3, <3>4, <3>5, <3>6 DEF KeyEnter
    <2>10. CASE ClickSuggestion
      BY <2>7, <2>10 DEF ClickSuggestion
    <2>11. ASSUME NEW row, ClickSession(row) PROVE Goal
      BY <2>8, <2>11 DEF ClickSession
    <2> QED BY <1>1, <2>2, <2>3, <2>4, <2>5, <2>6, <2>9, <2>10, <2>11 DEF Next
  <1>2. PopupInv /\ [Next]_vars => [Goal]_vars
    BY <1>1
  <1> QED BY <1>2, PopupIsTyped, PTL DEF Spec, NothingTypedIsLost

\* While the agent waits for an answer, a request goes to it only if the
\* question accepts it, whichever of the line and the options it comes from,
\* or if it is the feedback of a review, which the question is not asked about.
THEOREM AnswersAreAccepted == Spec => OnlyAnswersAreSent
  <1> DEFINE Goal == status = "Waiting" /\ question /\ out'.what = "StartRun" => Answers \/ Revises
  <1>1. ASSUME PopupInv, Next PROVE Goal
    <2>1. \A what : Says(what).what = what
      BY DEF Says
    <2>2. CASE Type \/ Paste \/ TypeInPicker \/ Space \/ KeyUp \/ KeyDown \/ KeyTab \/ KeyLeftRight
               \/ ClickDivider \/ ClickSkill \/ RunEnds \/ Propose \/ EscapeExpires
      <3>1. out' = Says("none")
        BY <2>2 DEF Type, Paste, TypeInPicker, Space, KeyUp, KeyDown, Steps, KeyTab, KeyLeftRight,
                    ClickDivider, ClickSkill, RunEnds, Propose, EscapeExpires
      <3> QED BY <2>1, <3>1
    <2>3. CASE PickerKey
      <3>1. out'.what \in {"ToggleSessionLiked", "TitleSession", "shown", "none"}
        BY <2>1, <2>3 DEF PickerKey
      <3> QED BY <3>1
    <2>4. CASE KeyEscape
      BY <2>1, <2>4 DEF KeyEscape
    <2>5. ASSUME NEW i \in DOMAIN Suggestions, Executes(Suggestions[i]) PROVE Goal
      <3>1. status = "Waiting" => Suggestions[i] \notin {"/retry", "/continue"}
        BY SuggestionsFit
      <3> QED BY <2>1, <2>5, <3>1 DEF Executes
    <2>6. ASSUME NEW s, Switches(s) PROVE out'.what = "SwitchSession"
      BY <2>6 DEF Switches
    <2>7. CASE KeyEnter
      <3>1. CASE PickerEnter
        <4>1. out'.what \in {"none", "RenameSession", "SwitchSession"}
          BY <2>1, <2>6, <3>1 DEF PickerEnter
        <4> QED BY <4>1
      <3>2. CASE LocalCommand
        BY <2>1, <3>2 DEF LocalCommand
      <3>3. CASE ReviewCommand
        <4>1. out'.what = "shown" \/ Revises
          BY <2>1, <3>3, ReviewCommandSays
        <4> QED BY <4>1
      <3>4. CASE SessionCommand
        <4>1. out'.what \in {"SwitchSession", "shown"}
          BY <2>1, <2>6, <3>4, SessionCommandSays
        <4> QED BY <4>1
      <3>5. CASE Sends(line)
        BY <2>1, <3>5, SendsSays DEF Answers
      <3>6. CASE line = "" /\ Sends(Options[option + 1])
        BY <2>1, <3>6, SendsSays DEF Answers
      <3>7. CASE popup.selected < Len(Suggestions) /\ Executes(Suggestions[popup.selected + 1])
        BY <1>1, <2>5, <3>7, HighlightedFits
      <3> QED BY <2>7, <3>1, <3>2, <3>3, <3>4, <3>5, <3>6, <3>7 DEF KeyEnter
    <2>8. CASE ClickSuggestion
      BY <2>5, <2>8 DEF ClickSuggestion
    <2>9. ASSUME NEW row, ClickSession(row) PROVE Goal
      BY <2>6, <2>9 DEF ClickSession
    <2> QED BY <1>1, <2>2, <2>3, <2>4, <2>7, <2>8, <2>9 DEF Next
  <1>2. PopupInv /\ [Next]_vars => [Goal]_vars
    BY <1>1
  <1> QED BY <1>2, PopupIsTyped, PTL DEF Spec, OnlyAnswersAreSent
=============================================================================
