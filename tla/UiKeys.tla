------------------------------- MODULE UiKeys -------------------------------
(***************************************************************************)
(* What a key or a click means in the terminal UI (tui/ui/mod.rs,          *)
(* tui/ui/controller.rs): which component has the focus, the confirmation  *)
(* overlay, the popup of slash commands, the commands that are typed, the  *)
(* side panels, the session picker, Esc, and the answer to the agent's     *)
(* question.  Characters and cursor are PromptEditor's; a line is typed in *)
(* one step here.  What the commands do to sessions and runs is TuiRuns',  *)
(* with Ctrl+D and Ctrl+A of the picker; what a review's decisions do is   *)
(* CodeChange's.  /quit and the key that quits are left out.               *)
(***************************************************************************)
EXTENDS Naturals, Sequences, SequencesExt, FiniteSets

CONSTANTS
    Lines,          \* what the user may have in the prompt
    Begins,         \* Begins[l]: the commands of the popup whose names begin so
    Spaced,         \* lines that hold a space
    Slashed,        \* lines that begin with "/"
    Sessions,       \* sessions in the order of their last change, newest first
    Found,          \* those that the search finds, once something is typed
    Skills,         \* sequence of the skills of the catalog
    Options         \* options of the agent's question, in its order

SlashCommands == <<"/new", "/session", "/version", "/retry", "/continue">>
LocalCommands == {"/clear", "/help", "/sessions", "/audit", "/skills", "/logs", "/search x"}
ReviewCommands == {"/review accept", "/review reject", "/review changes x"}
SessionCommands == {"/session new x", "/session rename x", "/session switch x"}

ASSUME UiKeysAssumption ==
    /\ ToSet(SlashCommands) \subseteq Lines /\ Begins \in [Lines -> SUBSET ToSet(SlashCommands)]
    /\ Spaced \subseteq Lines /\ Slashed \subseteq Lines /\ "" \in Lines \ Slashed
    /\ ToSet(Options) \subseteq Lines \ Slashed
    /\ Found \subseteq ToSet(Sessions)

VARIABLES
    status,     \* run_status of the model; "Idle" is Completed too
    question,   \* whether pending_human_input is there
    review,     \* code_change_review: "none", "pending" or "decided"
    liked,      \* sessions that are pinned
    line,       \* prompt.input
    popup,      \* selected_slash_command and slash_commands_dismissed
    escape,     \* pending_escape_action, until it expires
    panels,     \* the side panels whose flag is set
    sidebar,    \* sidebar_visible
    picker,     \* the session panel
    chosen,     \* selected_skill_names, and the skill the panel's cursor is at
    option,     \* selected_human_option
    focus,      \* FocusManager
    out,        \* what the last event came to
    armed       \* history: an Esc asked to interrupt this very run, and since
                \* then no key has reached the controller

sideVars == <<panels, sidebar, chosen>>
vars == <<status, question, review, liked, line, popup, escape, sideVars, picker, option,
          focus, out, armed>>

Statuses == {"Idle", "Running", "Waiting", "Failed", "Canceled"}
Nobody == "none"
ClosedPicker == [on |-> FALSE, selected |-> 0, search |-> FALSE, rename |-> Nobody]
NoPopup == [selected |-> 0, dismissed |-> FALSE]
Says(what) == [what |-> what, session |-> Nobody]

Init ==
    /\ status \in {"Idle", "Failed", "Canceled"} /\ question = FALSE /\ review = "none"
    /\ liked = {}
    /\ line = "" /\ popup = NoPopup /\ escape = "none"
    /\ panels = {} /\ sidebar = TRUE /\ picker = ClosedPicker
    /\ chosen = [names |-> {}, selected |-> 0] /\ option = 0
    /\ focus = [current |-> "PromptInput", modal |-> FALSE, restore |-> "PromptInput"]
    /\ out = Says("none") /\ armed = FALSE

-----------------------------------------------------------------------------
(***************************************************************************)
(* Focus.  Each event first brings the focus up to date with what is shown.*)
(***************************************************************************)
Order == IF sidebar THEN {"PromptInput", "Sidebar"} ELSE {"PromptInput"}
Overlay == question \/ review # "none"

SyncedKeepsFocus ==         \* mutant: a hidden sidebar keeps the focus
    IF Overlay /\ ~focus.modal THEN [focus EXCEPT !.modal = TRUE, !.restore = focus.current]
    ELSE IF ~Overlay /\ focus.modal THEN [focus EXCEPT !.modal = FALSE, !.current = focus.restore]
    ELSE focus

\* sync_focus: set_order, and open_modal or close_modal.
Synced ==
    LET InOrder(id) == IF id \in Order THEN id ELSE "PromptInput"
        current == IF focus.modal THEN focus.current ELSE InOrder(focus.current)
    IN  IF Overlay /\ ~focus.modal
        THEN [current |-> current, modal |-> TRUE, restore |-> current]
        ELSE IF ~Overlay /\ focus.modal
        THEN [focus EXCEPT !.modal = FALSE, !.current = InOrder(focus.restore),
                              !.restore = "PromptInput"]
        ELSE [focus EXCEPT !.current = current]

Current(f) == IF f.modal THEN "Overlay" ELSE f.current
Focused(id) == IF Synced.modal THEN Synced ELSE [Synced EXCEPT !.current = id]
\* focus_next, in either direction: there are two at most.
FocusedNext ==
    Focused(IF sidebar /\ Synced.current = "PromptInput" THEN "Sidebar" ELSE "PromptInput")

-----------------------------------------------------------------------------
\* Every key but Esc, and every mouse event, withdraws what Esc had asked.
KeyPressedKeepsEscape ==    \* mutant: only Esc itself looks at what it asked
    /\ focus' = Synced /\ armed' = FALSE /\ UNCHANGED escape

KeyPressed ==
    /\ focus' = Synced
    /\ escape' = "none"
    /\ armed' = FALSE

\* slash_command_suggestions, in the order of the list.
Offered(i) ==
    LET c == SlashCommands[i]
    IN  IF /\ c \in Begins[line]
           /\ c = "/retry" => status = "Failed"
           /\ c = "/continue" => status = "Canceled"
        THEN <<c>> ELSE <<>>
Suggestions ==
    IF popup.dismissed THEN <<>>
    ELSE Offered(1) \o Offered(2) \o Offered(3) \o Offered(4) \o Offered(5)
Listed ==                   \* filtered_sessions: the pinned ones first
    LET shown(s) == picker.search => s \in Found
    IN  SelectSeq(Sessions, LAMBDA s : s \in liked /\ shown(s))
        \o SelectSeq(Sessions, LAMBDA s : s \notin liked /\ shown(s))
Selected == IF picker.selected < Len(Listed) THEN Listed[picker.selected + 1] ELSE Nobody

\* clear_input.  What Esc asked is withdrawn by the caller.
LineCleared == line' = "" /\ popup' = NoPopup

\* load_active_session_history, after every command on sessions: the status and
\* the question are those the store has of the session that is active then.
Reloads == \E s \in Statuses : status' = s /\ question' = (s = "Waiting")

\* Steps of a list that wraps around.
Step(direction, i, n) == IF direction = "down" THEN (i + 1) % n
                         ELSE IF i = 0 THEN n - 1 ELSE i - 1

-----------------------------------------------------------------------------
\* Characters.  With the picker open they go to its search or to the new name,
\* with the skill panel open a space selects a skill, and with the audit panel
\* open "f" changes its filter: such a line cannot be typed.
Type ==
    \E l \in Lines \ {line, ""} :
        /\ ~picker.on
        /\ "skill" \in panels => l \notin Spaced
        /\ line = "" \/ Begins[l] \subseteq Begins[line]
        /\ line' = l /\ popup' = NoPopup
        /\ out' = Says("none") /\ KeyPressed
        /\ UNCHANGED <<status, question, review, liked, sideVars, picker, option>>

\* A paste that does not find the prompt in focus is dropped.  It withdraws
\* nothing.
Paste ==
    \E l \in Lines \ (Slashed \union {line, ""}) :
        /\ line = ""
        /\ focus' = Synced
        /\ IF Current(Synced) = "PromptInput" THEN line' = l /\ popup' = NoPopup
           ELSE UNCHANGED <<line, popup>>
        /\ out' = Says("none")
        /\ UNCHANGED <<status, question, review, liked, escape, sideVars, picker, option, armed>>

\* Characters and Backspace with the picker open; "/" leaves it for the prompt.
TypeInPicker ==
    /\ picker.on /\ KeyPressed /\ out' = Says("none")
    /\ \/ /\ line = ""
          /\ picker' = [ClosedPicker EXCEPT !.rename = picker.rename]
          /\ line' = "/" /\ popup' = NoPopup
       \/ /\ picker.rename = Nobody
          /\ \E found \in BOOLEAN : picker' = [picker EXCEPT !.search = found, !.selected = 0]
          /\ UNCHANGED <<line, popup>>
       \/ picker.rename # Nobody /\ UNCHANGED <<picker, line, popup>>
    /\ UNCHANGED <<status, question, review, liked, sideVars, option>>

Toggled(set, e) == IF e \in set THEN set \ {e} ELSE set \union {e}

Space ==
    /\ "skill" \in panels
    /\ chosen' = IF chosen.selected < Len(Skills)
                 THEN [chosen EXCEPT !.names = Toggled(@, Skills[chosen.selected + 1])] ELSE chosen
    /\ out' = Says("none") /\ KeyPressed
    /\ UNCHANGED <<status, question, review, liked, line, popup, panels, sidebar, picker, option>>

\* Ctrl with l, g, n and r.  All of these leave the picker open.
PickerKey ==
    /\ picker.on /\ KeyPressed
    /\ \/ /\ Selected # Nobody /\ liked' = Toggled(liked, Selected) /\ Reloads
          /\ out' = [what |-> "ToggleSessionLiked", session |-> Selected] /\ UNCHANGED picker
       \/ /\ Selected # Nobody /\ Reloads
          /\ out' = [what |-> "TitleSession", session |-> Selected] /\ UNCHANGED <<liked, picker>>
       \/ /\ status # "Running" /\ status' = "Idle" /\ question' = FALSE
          /\ out' = Says("shown") /\ UNCHANGED <<liked, picker>>
       \/ /\ picker' = [picker EXCEPT !.rename = Selected]
          /\ out' = Says("none") /\ UNCHANGED <<status, question, liked>>
    /\ UNCHANGED <<review, line, popup, sideVars, option>>

-----------------------------------------------------------------------------
\* Esc closes what is on top, or asks, or is the confirmation.
KeyEscape ==
    /\ focus' = Synced
    /\ UNCHANGED <<status, question, review, liked, sidebar, chosen, option>>
    /\ IF Suggestions # <<>>
       THEN /\ popup' = [popup EXCEPT !.dismissed = TRUE]
            /\ escape' = "none" /\ armed' = FALSE /\ out' = Says("none")
            /\ UNCHANGED <<line, panels, picker>>
       ELSE IF panels \intersect {"log", "skill"} # {}
       THEN /\ panels' = panels \ {IF "log" \in panels THEN "log" ELSE "skill"}
            /\ escape' = "none" /\ armed' = FALSE /\ out' = Says("none")
            /\ UNCHANGED <<line, popup, picker>>
       ELSE IF picker.rename # Nobody
       THEN /\ picker' = [picker EXCEPT !.rename = Nobody]
            /\ armed' = FALSE /\ out' = Says("none")
            /\ UNCHANGED <<line, popup, panels, escape>>
       ELSE IF picker.on
       THEN /\ picker' = ClosedPicker
            /\ escape' = "none" /\ armed' = FALSE /\ out' = Says("none")
            /\ UNCHANGED <<line, popup, panels>>
       ELSE LET action == IF status = "Running" THEN "interrupt" ELSE "clear"
            IN  /\ UNCHANGED <<panels, picker>>
                /\ IF escape # action
                   THEN /\ escape' = action /\ armed' = (action = "interrupt")
                        /\ out' = Says("none") /\ UNCHANGED <<line, popup>>
                   ELSE /\ escape' = "none" /\ armed' = FALSE
                        /\ IF action = "clear" THEN LineCleared /\ out' = Says("shown")
                           ELSE UNCHANGED <<line, popup>> /\ out' = Says("CancelRun")

\* A second passes.
EscapeExpires ==
    /\ escape # "none" /\ escape' = "none" /\ armed' = FALSE /\ out' = Says("none")
    /\ UNCHANGED <<status, question, review, liked, line, popup, sideVars, picker, option, focus>>

-----------------------------------------------------------------------------
\* Up and Down go to the first of these lists that is there; else they belong
\* to PromptEditor.
Steps(direction) ==
    /\ KeyPressed /\ out' = Says("none")
    /\ UNCHANGED <<status, question, review, liked, line, panels, sidebar>>
    /\ IF "audit" \in panels THEN UNCHANGED <<popup, picker, chosen, option>>
       ELSE IF picker.on
       THEN /\ picker' = IF Listed = <<>> THEN picker
                         ELSE [picker EXCEPT !.selected = Step(direction, @, Len(Listed))]
            /\ UNCHANGED <<popup, chosen, option>>
       ELSE IF "skill" \in panels /\ line = ""
       THEN /\ chosen' = IF Skills = <<>> THEN chosen
                         ELSE [chosen EXCEPT !.selected = Step(direction, @, Len(Skills))]
            /\ UNCHANGED <<popup, picker, option>>
       ELSE IF status = "Waiting" /\ line = ""
       THEN /\ option' = IF question /\ Options # <<>> THEN Step(direction, option, Len(Options))
                         ELSE option
            /\ UNCHANGED <<popup, picker, chosen>>
       ELSE /\ Suggestions # <<>>
            /\ popup' = [popup EXCEPT !.selected = Step(direction, @, Len(Suggestions))]
            /\ UNCHANGED <<picker, chosen, option>>

KeyUp == Steps("up")
KeyDown == Steps("down")

\* Tab completes the highlighted command.  On an empty line it moves the focus,
\* and never reaches the controller.
KeyTab ==
    /\ out' = Says("none")
    /\ \/ line = "" /\ focus' = FocusedNext /\ UNCHANGED <<line, escape, armed>>
       \/ /\ Suggestions # <<>> /\ KeyPressed
          /\ line' = IF popup.selected < Len(Suggestions) THEN Suggestions[popup.selected + 1]
                     ELSE line
    /\ UNCHANGED <<status, question, review, liked, popup, sideVars, picker, option>>

\* Left and Right, on an empty line: they move the focus, show the sidebar, or
\* choose a file of the review (CodeChange).
KeyLeftRight ==
    /\ line = "" /\ out' = Says("none")
    /\ \/ /\ ~Synced.modal /\ \E id \in Order : focus' = Focused(id)
          /\ UNCHANGED <<sidebar, escape, armed>>
       \/ /\ (Synced.modal \/ ~sidebar) /\ KeyPressed
          /\ sidebar' = (sidebar \/ review = "none")
       \/ Synced.modal /\ KeyPressed /\ UNCHANGED sidebar
    /\ UNCHANGED <<status, question, review, liked, line, popup, panels, picker, chosen, option>>

\* A click on the divider's arrow.
ClickDivider ==
    /\ sidebar' = ~sidebar
    /\ focus' = Focused(IF sidebar THEN "Sidebar" ELSE "PromptInput")
    /\ escape' = "none" /\ armed' = FALSE /\ out' = Says("none")
    /\ UNCHANGED <<status, question, review, liked, line, popup, panels, picker, chosen, option>>

-----------------------------------------------------------------------------
(***************************************************************************)
(* Enter.                                                                  *)
(***************************************************************************)
StartsRun ==
    /\ status' = "Running" /\ question' = FALSE
    /\ line' = "" /\ out' = Says("StartRun")
    /\ UNCHANGED <<review, liked, popup, sideVars, picker, option>>

Switches(session) ==
    /\ Reloads /\ picker' = ClosedPicker
    /\ out' = [what |-> "SwitchSession", session |-> session]
    /\ UNCHANGED <<review, liked, sideVars, option>>

\* execute_selected_slash_command
Executes(command) ==
    /\ LineCleared
    /\ IF command = "/new" /\ status # "Running"
       THEN /\ status' = "Idle" /\ picker' = [picker EXCEPT !.on = FALSE] /\ out' = Says("shown")
            /\ UNCHANGED <<question, review, liked, sideVars, option>>
       ELSE IF command = "/session"
       THEN /\ \E i \in 0..(Len(Sessions) - 1) :
                 picker' = [picker EXCEPT !.on = TRUE, !.search = FALSE, !.selected = i]
            /\ out' = Says("shown")
            /\ UNCHANGED <<status, question, review, liked, sideVars, option>>
       ELSE IF command \in {"/retry", "/continue"}
       THEN /\ status' = "Running" /\ out' = Says("StartRun")
            /\ UNCHANGED <<question, review, liked, sideVars, picker, option>>
       ELSE /\ out' = Says("shown")
            /\ UNCHANGED <<status, question, review, liked, sideVars, picker, option>>

PickerEnter ==
    IF picker.rename # Nobody
    THEN /\ picker' = [picker EXCEPT !.rename = Nobody]
         /\ IF Selected = Nobody THEN out' = Says("none") /\ UNCHANGED <<status, question>>
            ELSE Reloads /\ out' = [what |-> "RenameSession", session |-> Selected]
         /\ UNCHANGED <<review, liked, line, popup, sideVars, option>>
    ELSE IF Selected = Nobody
    THEN /\ out' = Says("none")
         /\ UNCHANGED <<status, question, review, liked, line, popup, sideVars, picker, option>>
    ELSE Switches(Selected) /\ UNCHANGED <<line, popup>>

LocalCommand ==
    /\ line \in LocalCommands
    /\ LineCleared /\ out' = Says("shown")
    /\ LET panel == CASE line = "/help" -> {"help"} [] line = "/audit" -> {"audit"}
                      [] line = "/skills" -> {"skill"} [] line = "/logs" -> {"log"}
                      [] OTHER -> {}
       IN  panels' = panels \union panel /\ sidebar' = (sidebar \/ panel # {})
    /\ picker' = IF line = "/sessions" THEN [picker EXCEPT !.on = TRUE, !.search = FALSE, !.selected = 0]
                 ELSE picker
    /\ UNCHANGED <<status, question, review, liked, chosen, option>>

\* A decision keeps the review on screen, and the question; feedback starts a
\* run with a text of its own, which no question is asked about.  A second
\* decision is an error that ends the program: no step.
Revises == line = "/review changes x" /\ review = "pending"
ReviewCommand ==
    /\ line \in ReviewCommands /\ review = "pending" /\ review' = "decided"
    /\ LineCleared
    /\ IF Revises THEN status' = "Running" /\ out' = Says("StartRun")
       ELSE UNCHANGED status /\ out' = Says("shown")
    /\ UNCHANGED <<question, liked, sideVars, picker, option>>

SessionCommand ==
    /\ line \in SessionCommands /\ status # "Running"
    /\ LineCleared
    /\ IF line = "/session switch x" THEN \E s \in ToSet(Sessions) : Switches(s)
       ELSE /\ IF line = "/session new x" THEN status' = "Idle" /\ question' = FALSE ELSE Reloads
            /\ picker' = [picker EXCEPT !.on = TRUE] /\ out' = Says("shown")
            /\ UNCHANGED <<review, liked, sideVars, option>>

Accepts(l) == l \in ToSet(Options)      \* HumanInputRequest::validate

SendsUnchecked(l) ==        \* mutant: the status is looked at before the answer
    IF l = "" \/ status = "Running"
    THEN /\ line' = l /\ out' = Says("none")
         /\ UNCHANGED <<status, question, review, liked, popup, sideVars, picker, option>>
    ELSE IF l \in Slashed
    THEN /\ LineCleared /\ out' = Says("shown")
         /\ UNCHANGED <<status, question, review, liked, sideVars, picker, option>>
    ELSE StartsRun

SendsAnyway(l) ==           \* mutant: a line is taken although nothing is done with it
    IF status = "Running"
    THEN /\ LineCleared /\ out' = Says("none")
         /\ UNCHANGED <<status, question, review, liked, sideVars, picker, option>>
    ELSE SendsUnchecked(l)

\* The rest of the handler, for the line as it is now.
Sends(l) ==
    IF status = "Waiting" /\ question /\ l # "" /\ ~Accepts(l)
    THEN /\ line' = l /\ out' = Says("shown")
         /\ UNCHANGED <<status, question, review, liked, popup, sideVars, picker, option>>
    ELSE IF l = "" \/ status = "Running"
    THEN /\ line' = l /\ out' = Says("none")
         /\ UNCHANGED <<status, question, review, liked, popup, sideVars, picker, option>>
    ELSE IF l \in Slashed
    THEN /\ LineCleared /\ out' = Says("shown")
         /\ UNCHANGED <<status, question, review, liked, sideVars, picker, option>>
    ELSE StartsRun

KeyEnter ==
    /\ KeyPressed
    /\ IF picker.on /\ (picker.rename # Nobody \/ status # "Running") THEN PickerEnter
       ELSE IF popup.selected < Len(Suggestions) THEN Executes(Suggestions[popup.selected + 1])
       ELSE IF line \in LocalCommands THEN LocalCommand
       ELSE IF line \in ReviewCommands /\ review # "none" THEN ReviewCommand
       ELSE IF line \in SessionCommands /\ status # "Running" THEN SessionCommand
       ELSE Sends(IF line = "" /\ question /\ option < Len(Options) THEN Options[option + 1] ELSE line)

-----------------------------------------------------------------------------
(***************************************************************************)
(* A click on a row of the picker, at any column, and whatever the run     *)
(* does.  The controller counts sessions; the screen has the heading of    *)
(* each group among them (components/sessions.rs).                         *)
(***************************************************************************)
Rows ==
    LET Group(heading, in) ==
            LET members == SelectSeq(Listed, LAMBDA s : (s \in liked) = in)
            IN  IF members = <<>> THEN <<>> ELSE <<heading>> \o members
    IN  Group("Pinned", TRUE) \o Group("Today", FALSE)

ClickSession(row) ==
    /\ picker.on /\ row \in DOMAIN Listed
    /\ KeyPressed /\ Switches(Listed[row]) /\ UNCHANGED <<line, popup>>

\* A click on a row of the popup; a click on a row of the skill panel.
ClickSuggestion ==
    \E i \in DOMAIN Suggestions : ~picker.on /\ KeyPressed /\ Executes(Suggestions[i])
ClickSkill ==
    \E i \in DOMAIN Skills :
        /\ "skill" \in panels /\ sidebar /\ ~picker.on
        /\ chosen' = [names |-> Toggled(chosen.names, Skills[i]), selected |-> i - 1]
        /\ focus' = Focused("Sidebar") /\ escape' = "none" /\ armed' = FALSE /\ out' = Says("none")
        /\ UNCHANGED <<status, question, review, liked, line, popup, panels, sidebar, picker, option>>

-----------------------------------------------------------------------------
\* The run ends with a response (apply_run_finished), or the worker fails or is
\* canceled (RunFailed, RunCanceled).
RunEnds ==
    /\ status = "Running" /\ escape' = "none" /\ armed' = FALSE /\ out' = Says("none")
    /\ \/ /\ \E s \in Statuses \ {"Running"} : status' = s /\ question' = (s = "Waiting")
          /\ option' = 0
       \/ status' \in {"Failed", "Canceled"} /\ UNCHANGED <<question, option>>
    /\ UNCHANGED <<review, liked, line, popup, sideVars, picker, focus>>

\* The run proposes a code change, in the place of an earlier one.
Propose ==
    /\ status = "Running" /\ review' = "pending" /\ out' = Says("none")
    /\ UNCHANGED <<status, question, liked, line, popup, escape, sideVars, picker, option, focus,
                   armed>>

Next ==
    \/ Type \/ Paste \/ TypeInPicker \/ Space \/ PickerKey \/ KeyEscape \/ EscapeExpires
    \/ KeyUp \/ KeyDown \/ KeyTab \/ KeyLeftRight \/ ClickDivider \/ KeyEnter
    \/ (\E row \in DOMAIN Rows : ClickSession(row))
    \/ ClickSuggestion \/ ClickSkill \/ RunEnds \/ Propose

Spec == Init /\ [][Next]_vars

-----------------------------------------------------------------------------
TypeOK ==
    /\ status \in Statuses /\ {question, sidebar, armed} \subseteq BOOLEAN
    /\ review \in {"none", "pending", "decided"}
    /\ liked \subseteq ToSet(Sessions) /\ line \in Lines
    /\ popup.selected < Len(SlashCommands) /\ popup.dismissed \in BOOLEAN
    /\ escape \in {"none", "clear", "interrupt"} /\ panels \subseteq {"help", "log", "skill", "audit"}
    /\ picker.rename \in ToSet(Sessions) \union {Nobody}
    /\ chosen.names \subseteq ToSet(Skills) /\ chosen.selected \in 0..Len(Skills)
    /\ option \in 0..(Len(Options) - 1)
    /\ focus.current \in {"PromptInput", "Sidebar"}

\* A run is canceled only by an Esc that follows one which asked for it during
\* that very run: not by one that was to clear the line before the run began,
\* nor when a key that does something came between (a paste and the keys that
\* move the focus may).
InterruptIsConfirmed == [][out'.what = "CancelRun" => armed]_vars

\* Keys go to something that is on screen, also after the sidebar was hidden
\* while the overlay had the focus.
FocusIsShown ==
    CASE Current(Synced) = "Overlay" -> Overlay
      [] Current(Synced) = "Sidebar" -> sidebar
      [] OTHER -> ~Overlay

\* What the user has typed disappears only into a command, a run, a message
\* that says why, or by two Esc.
NothingTypedIsLost == [][line # "" /\ line' = "" => out'.what # "none"]_vars

Answers == Accepts(line) \/ (line = "" /\ Accepts(Options[option + 1]))

\* While the agent waits for an answer, a request goes to it only if the
\* question accepts it, whichever of the line and the options it comes from,
\* or if it is the feedback of a review, which the question is not asked about.
OnlyAnswersAreSent ==
    [][status = "Waiting" /\ question /\ out'.what = "StartRun" => Answers \/ Revises]_vars

\* Without that exception: a question whose answer has to be one of its options
\* gets nothing else.
OnlyOptionsAreSent ==
    [][status = "Waiting" /\ question /\ out'.what = "StartRun" => Answers]_vars

\* A click on a session's row switches to that session.
ClickSelectsItsRow ==
    [][\A row \in DOMAIN Rows :
          ClickSession(row) => out'.session = Rows[row] \/ Rows[row] \notin ToSet(Sessions)]_vars

=============================================================================
