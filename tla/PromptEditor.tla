---------------------------- MODULE PromptEditor ----------------------------
(***************************************************************************)
(* The prompt of the terminal UI (tui/ui/controller.rs, PromptState): its  *)
(* text and cursor, the one-step undo, the history of inputs with the      *)
(* draft it keeps, and the popup of file references, which is recomputed   *)
(* after every event from the text, the cursor and the file index.         *)
(*                                                                         *)
(* A text is a sequence of characters and the cursor counts bytes, as in   *)
(* the code: characters have widths, and a slice at a byte inside of a     *)
(* character panics.  "at", "open" and "close" are the characters of a     *)
(* file reference, as in @{a path}.  Lines that begin with "/" are         *)
(* UiKeys' matter.                                                         *)
(***************************************************************************)
EXTENDS Naturals, Sequences, SequencesExt, FiniteSets, FiniteSetsExt

CONSTANTS
    Typed,          \* characters that the user types
    Width,          \* bytes of each character, in UTF-8
    Spaces,         \* those for which char::is_whitespace holds
    Pastes,         \* texts that the user pastes
    Snapshots,      \* what the file index reports: sequences of paths
    Histories,      \* inputs of the sessions the user may switch to
    MaxLength,      \* bound: in a text of this length nothing is typed, pasted or
                    \* completed, and it is not sent
    MaxHistory      \* bound: inputs of the session when one more is sent

Chars == DOMAIN Width

ASSUME PromptAssumption ==
    /\ Width \in [Chars -> 1..4]
    /\ Typed \subseteq Chars /\ Spaces \subseteq Chars
    /\ {"nl", "space", "at", "open", "close"} \subseteq Chars
    /\ {"nl", "space"} \subseteq Spaces
    /\ \A c \in {"nl", "space", "at", "open", "close"} : Width[c] = 1
    /\ Pastes \subseteq Seq(Chars)
    /\ \A s \in Snapshots : s \in Seq(Seq(Chars))
    /\ \A h \in Histories : h \in Seq(Seq(Chars))
    /\ MaxLength \in Nat /\ MaxHistory \in Nat

VARIABLES
    prompt,     \* PromptState
    files,      \* indexed_files of the model
    revision,   \* file_index_revision: only whether it has changed matters
    fate,       \* "on", or "panicked"
    left        \* history: the text from which the user went to browse

vars == <<prompt, files, revision, fate, left>>

-----------------------------------------------------------------------------
\* Bytes and characters.
Offsets(t) == LET f[i \in 0..Len(t)] == IF i = 0 THEN 0 ELSE f[i - 1] + Width[t[i]] IN f
Boundaries(t) == {Offsets(t)[i] : i \in 0..Len(t)}
CharsTo(t, byte) == LET at == Offsets(t) IN CHOOSE i \in 0..Len(t) : at[i] = byte
Before(p) == CharsTo(p.input, p.cursor)

\* str::rfind and str::find of a character of S, as positions; 0 and one past
\* the end for None.
LastOf(t, k, S) == Max({0} \union {i \in 1..k : t[i] \in S})
FirstOf(t, k, S) == Min({Len(t) + 1} \union {i \in (k + 1)..Len(t) : t[i] \in S})

MovedTo(p, k) == [p EXCEPT !.cursor = Offsets(p.input)[k]]

-----------------------------------------------------------------------------
\* Moving the cursor.
Left(p) == IF Before(p) > 0 THEN MovedTo(p, Before(p) - 1) ELSE p
Right(p) == IF Before(p) < Len(p.input) THEN MovedTo(p, Before(p) + 1) ELSE p

Column(t, k) == k - LastOf(t, k, {"nl"})
\* byte_at_character_column
AtColumn(p, start, end, column) == MovedTo(p, Min({start + column, end}))

Up(p) ==
    LET start == LastOf(p.input, Before(p), {"nl"})
    IN  IF start = 0 THEN p
        ELSE AtColumn(p, LastOf(p.input, start - 1, {"nl"}), start - 1,
                      Column(p.input, Before(p)))

Down(p) ==
    LET end == FirstOf(p.input, Before(p), {"nl"})
    IN  IF end > Len(p.input) THEN p
        ELSE AtColumn(p, end, FirstOf(p.input, end, {"nl"}) - 1, Column(p.input, Before(p)))

WordLeft(p) ==
    LET trimmed == LastOf(p.input, Before(p), Chars \ Spaces)
    IN  MovedTo(p, LastOf(p.input, trimmed, Spaces))

WordRight(p) ==
    LET wordEnd == FirstOf(p.input, Before(p), Spaces) - 1
    IN  MovedTo(p, FirstOf(p.input, wordEnd, Chars \ Spaces) - 1)

LineStart(p) == MovedTo(p, LastOf(p.input, Before(p), {"nl"}))
LineEnd(p) == MovedTo(p, FirstOf(p.input, Before(p), {"nl"}) - 1)

-----------------------------------------------------------------------------
\* Changing the text.
NoUndo == [on |-> FALSE, input |-> <<>>, cursor |-> 0]

\* remember_undo_state.  The draft stays behind in the code, where nothing reads
\* it before the next one is taken; here it is forgotten.
Remembered(p) == [p EXCEPT !.undo = [on |-> TRUE, input |-> p.input, cursor |-> p.cursor],
                           !.index = 0, !.draft = <<>>]

\* The characters after the first k up to the first e give way to t.
Replaced(p, k, e, t) ==
    LET input == SubSeq(p.input, 1, k) \o t \o SubSeq(p.input, e + 1, Len(p.input))
    IN  [Remembered(p) EXCEPT !.input = input, !.cursor = Offsets(input)[k + Len(t)]]

Insert(p, c) == [Replaced(p, Before(p), Before(p), <<c>>) EXCEPT !.selected = 0]
\* One character after the other, so that undo takes back the last of them: what
\* is before the last one is replaced once, since nothing is seen in between.
InsertAll(p, t) ==
    IF t = <<>> THEN p ELSE Insert(Replaced(p, Before(p), Before(p), Front(t)), Last(t))

\* reference_ranges, as pairs of positions: after the first, up to the second.
ReferenceRanges(t) ==
    LET end(i) == IF i < Len(t) /\ t[i + 1] = "open" THEN FirstOf(t, i + 1, {"close"})
                  ELSE FirstOf(t, i, Spaces) - 1
        from[i \in 1..(Len(t) + 1)] ==
            IF i > Len(t) THEN {}
            ELSE IF t[i] # "at" THEN from[i + 1]
            ELSE IF end(i) > Len(t) THEN {}
            ELSE {<<i - 1, end(i)>>} \union from[end(i) + 1]
    IN  from[1]

IsBraced(r) == Len(r) >= 3 /\ r[2] = "open" /\ r[Len(r)] = "close"
PathIn(r) == IF IsBraced(r) THEN SubSeq(r, 3, Len(r) - 1) ELSE Tail(r)

\* file_reference_range_at: the ranges of a file of the index that hold the
\* byte at the cursor, or the one before it.
ReferencesAt(p, backwards) ==
    {r \in ReferenceRanges(p.input) :
        /\ r[1] < Before(p) + (IF backwards THEN 0 ELSE 1)
        /\ Before(p) < r[2] + (IF backwards THEN 1 ELSE 0)
        /\ PathIn(SubSeq(p.input, r[1] + 1, r[2])) \in ToSet(files)}

WithoutReference(p, backwards) ==
    LET r == CHOOSE r \in ReferencesAt(p, backwards) : TRUE
    IN  [Replaced(p, r[1], r[2], <<>>) EXCEPT !.selected = 0]

BackspaceBesideReference(p) ==      \* mutant: looks at the byte at the cursor
    IF ReferencesAt(p, FALSE) # {} THEN WithoutReference(p, FALSE)
    ELSE IF Before(p) = 0 THEN p
    ELSE Replaced(p, Before(p) - 1, Before(p), <<>>)

Backspace(p) ==
    IF ReferencesAt(p, TRUE) # {} THEN WithoutReference(p, TRUE)
    ELSE IF Before(p) = 0 THEN p
    ELSE Replaced(p, Before(p) - 1, Before(p), <<>>)

Delete(p) ==
    IF ReferencesAt(p, FALSE) # {} THEN WithoutReference(p, FALSE)
    ELSE IF Before(p) = Len(p.input) THEN p
    ELSE Replaced(p, Before(p), Before(p) + 1, <<>>)

DeleteLine(p) ==
    IF p.input = <<>> THEN p
    ELSE Replaced(p, LastOf(p.input, Before(p), {"nl"}),
                  Min({FirstOf(p.input, Before(p), {"nl"}), Len(p.input)}), <<>>)

Undo(p) ==
    IF p.undo.on
    THEN [p EXCEPT !.input = p.undo.input, !.cursor = p.undo.cursor, !.undo = NoUndo]
    ELSE p

Cleared(p) == [p EXCEPT !.input = <<>>, !.cursor = 0, !.selected = 0, !.index = 0, !.draft = <<>>]

\* The text is set and the cursor goes to its end.
Shows(p, t) == [p EXCEPT !.input = t, !.cursor = Offsets(t)[Len(t)]]

-----------------------------------------------------------------------------
\* browse_input_history
BrowseBackKeepsNoDraft(p) ==        \* mutant: the draft is taken at every step
    IF p.history = <<>> THEN p
    ELSE LET i == IF p.index = 0 THEN Len(p.history) ELSE Max({p.index - 1, 1})
         IN  [Shows(p, p.history[i]) EXCEPT !.index = i, !.draft = p.input]

BrowseBack(p) ==
    IF p.history = <<>> THEN p
    ELSE LET i == IF p.index = 0 THEN Len(p.history) ELSE Max({p.index - 1, 1})
         IN  [Shows(p, p.history[i]) EXCEPT !.index = i,
                                           !.draft = IF p.index = 0 THEN p.input ELSE @]

BrowseForth(p) ==
    IF p.history = <<>> \/ p.index = 0 THEN p
    ELSE IF p.index < Len(p.history)
    THEN [Shows(p, p.history[p.index + 1]) EXCEPT !.index = @ + 1]
    ELSE [Shows(p, p.draft) EXCEPT !.index = 0, !.draft = <<>>]

\* restore_session_ui
Restored(p, history) == [p EXCEPT !.history = history, !.index = 0, !.draft = <<>>]

-----------------------------------------------------------------------------
(***************************************************************************)
(* File references.  The token at the cursor begins one byte after the     *)
(* last whitespace character, which is inside of it if it is wider.        *)
(***************************************************************************)
TokenSpace(p) == LastOf(p.input, Before(p), Spaces)
TokenStart(p) == IF TokenSpace(p) = 0 THEN 0 ELSE Offsets(p.input)[TokenSpace(p) - 1] + 1
SlicePanics(p) == TokenStart(p) \notin Boundaries(p.input)

Token(p) == SubSeq(p.input, TokenSpace(p) + 1, Before(p))
NoQuery == [on |-> FALSE, text |-> <<>>]
Query(p) ==
    LET t == Token(p)
    IN  IF t # <<>> /\ t[1] = "at" /\ ~(Len(t) > 1 /\ t[2] = "open")
        THEN [on |-> TRUE, text |-> Tail(t)] ELSE NoQuery

\* fuzzy_path_match: the characters of the query occur in this order.
FuzzyMatch(path, query) ==
    \E at \in [DOMAIN query -> DOMAIN path] :
        /\ \A i \in DOMAIN query : path[at[i]] = query[i]
        /\ \A i, j \in DOMAIN query : i < j => at[i] < at[j]

MatchesOf(query, index) ==
    IF query.on THEN {i \in DOMAIN index : FuzzyMatch(index[i], query.text)} ELSE {}

Count(p) == Cardinality(p.cache.matches)
Suggestion(p, n) ==         \* the n-th, from 0
    files[CHOOSE i \in p.cache.matches : Cardinality({j \in p.cache.matches : j < i}) = n]

RefreshedForQuery(p, index, rev) == \* mutant: the index is not looked at
    IF p.cache.query = Query(p) THEN p
    ELSE LET matches == MatchesOf(Query(p), index)
         IN  [p EXCEPT !.cache = [revision |-> rev, query |-> Query(p), matches |-> matches],
                 !.selected = IF matches = {} THEN 0 ELSE @ % Cardinality(matches)]

\* refresh_file_reference_cache
Refreshed(p, index, rev) ==
    IF p.cache.revision = rev /\ p.cache.query = Query(p) THEN p
    ELSE LET matches == MatchesOf(Query(p), index)
         IN  [p EXCEPT !.cache = [revision |-> rev, query |-> Query(p), matches |-> matches],
                 !.selected = IF matches = {} THEN 0 ELSE @ % Cardinality(matches)]

ReferenceTo(path) ==
    IF ToSet(path) \intersect Spaces # {} THEN <<"at", "open">> \o path \o <<"close">>
    ELSE <<"at">> \o path

\* complete_file_reference: the token gives way to the reference.
Completed(p, finish) ==
    LET reference == ReferenceTo(Suggestion(p, p.selected))
    IN  [Replaced(p, TokenSpace(p), Before(p),
                  IF finish THEN Append(reference, "space") ELSE reference) EXCEPT !.selected = 0]

-----------------------------------------------------------------------------
Init ==
    /\ prompt = [input |-> <<>>, cursor |-> 0, history |-> <<>>, index |-> 0, draft |-> <<>>,
                 undo |-> NoUndo, selected |-> 0,
                 cache |-> [revision |-> 0, query |-> NoQuery, matches |-> {}]]
    /\ files = <<>> /\ revision = 0
    /\ fate = "on" /\ left = <<>>

\* update_ui: the event is handled, then the popup follows.  The program ends
\* with a panic where the token cannot be cut out.
Handled(p) ==
    /\ fate = "on"
    /\ IF SlicePanics(p)
       THEN fate' = "panicked" /\ prompt' = p
       ELSE prompt' = Refreshed(p, files, revision) /\ UNCHANGED fate
    /\ left' = IF p.index = 0 THEN <<>> ELSE IF prompt.index = 0 THEN prompt.input ELSE left
    /\ UNCHANGED <<files, revision>>

Popup == Count(prompt) > 0
NoPopup == ~Popup
Browses == prompt.index # 0 \/ "nl" \notin ToSet(prompt.input)
Room == Len(prompt.input) < MaxLength

\* Shift with Enter inserts the line feed.
Type == \E c \in Typed : Room /\ Handled(Insert(prompt, c))
Paste == \E t \in Pastes : Room /\ Handled(InsertAll(prompt, t))
KeyLeft == prompt.input # <<>> /\ Handled(Left(prompt))
KeyRight == prompt.input # <<>> /\ Handled(Right(prompt))
KeyUp ==
    \/ Popup /\ Handled([prompt EXCEPT !.selected = IF @ = 0 THEN Count(prompt) - 1 ELSE @ - 1])
    \/ NoPopup /\ Browses /\ Handled(BrowseBack(prompt))
    \/ NoPopup /\ ~Browses /\ Handled(Up(prompt))
KeyDown ==
    \/ Popup /\ Handled([prompt EXCEPT !.selected = (@ + 1) % Count(prompt)])
    \/ NoPopup /\ Browses /\ Handled(BrowseForth(prompt))
    \/ NoPopup /\ ~Browses /\ Handled(Down(prompt))
KeyWordLeft == Handled(WordLeft(prompt))
KeyWordRight == Handled(WordRight(prompt))
KeyHome == prompt.input # <<>> /\ Handled(LineStart(prompt))
KeyEnd == prompt.input # <<>> /\ Handled(LineEnd(prompt))
KeyBackspace == Handled(Backspace(prompt))
KeyDelete == Handled(Delete(prompt))
KeyDeleteLine == Handled(DeleteLine(prompt))
KeyUndo == Handled(Undo(prompt))
KeyTab == Popup /\ Room /\ Handled(Completed(prompt, FALSE))
KeyEscape == Handled(Cleared(prompt))       \* the second one
\* Ctrl+E with a message of the user selected: one that was sent.
EditMessage == \E t \in ToSet(prompt.history) : Handled(Shows(prompt, t))

\* Enter completes a reference or sends the text, which becomes the latest of
\* the history unless it is already.
Sent(p) ==
    [p EXCEPT !.input = <<>>, !.cursor = 0, !.index = 0, !.draft = <<>>,
              !.history = IF @ # <<>> /\ Last(@) = p.input THEN @ ELSE Append(@, p.input)]
KeyEnter ==
    \/ Popup /\ Room /\ Handled(Completed(prompt, TRUE))
    \/ NoPopup /\ ToSet(prompt.input) \ Spaces # {} /\ Room /\ Len(prompt.history) < MaxHistory
       /\ Handled(Sent(prompt))

SwitchSession == \E h \in Histories : Handled(Restored(prompt, h))
\* "/new": the line is cleared and the history forgotten.
NewSession == Handled(Restored(Cleared(prompt), <<>>))

\* AppMsg::FileIndexUpdated
IndexFiles ==
    /\ fate = "on" /\ ~SlicePanics(prompt)
    /\ \E s \in Snapshots \ {files} :
        /\ files' = s
        /\ revision' = 1 - revision
        /\ prompt' = Refreshed([prompt EXCEPT !.selected = 0], s, 1 - revision)
    /\ UNCHANGED <<fate, left>>

Next ==
    \/ Type \/ Paste \/ KeyLeft \/ KeyRight \/ KeyUp \/ KeyDown \/ KeyWordLeft \/ KeyWordRight
    \/ KeyHome \/ KeyEnd \/ KeyBackspace \/ KeyDelete \/ KeyDeleteLine \/ KeyUndo \/ KeyTab
    \/ KeyEscape \/ EditMessage \/ KeyEnter \/ SwitchSession \/ NewSession \/ IndexFiles

Spec == Init /\ [][Next]_vars

-----------------------------------------------------------------------------
UndoState == [on : BOOLEAN, input : Seq(Chars), cursor : Nat]
Cache == [revision : {0, 1}, query : [on : BOOLEAN, text : Seq(Chars)], matches : SUBSET Nat]
PromptState ==
    [input : Seq(Chars), cursor : Nat, history : Seq(Seq(Chars)), index : Nat, draft : Seq(Chars),
     undo : UndoState, selected : Nat, cache : Cache]

\* The cursor is on a character's boundary, in the text on screen and in the
\* one that undo brings back, and the place in the history exists: else a
\* slice or an index of the next key panics.
PromptOK(p) ==
    /\ p \in PromptState
    /\ p.cursor \in Boundaries(p.input)
    /\ p.undo.cursor \in Boundaries(p.undo.input)
    /\ p.index \in 0..Len(p.history)

TypeOK ==
    /\ PromptOK(prompt)
    /\ files \in Seq(Seq(Chars)) /\ revision \in {0, 1}
    /\ fate \in {"on", "panicked"} /\ left \in Seq(Chars)

\* Of all keys and texts one thing panics: a white space of several bytes that
\* is the last one before the cursor, whose second byte the token is said to
\* begin at (refresh_file_reference_cache).
OnlyWideSpacesPanic ==
    fate = "panicked" =>
        LET k == TokenSpace(prompt)
        IN  k # 0 /\ prompt.input[k] \in Spaces /\ Width[prompt.input[k]] > 1

\* The popup lists the files of the index that match the token at the cursor
\* now, and the highlighted one is among them: Enter inserts what is shown.
SuggestionsAreCurrent ==
    fate = "on" =>
        /\ prompt.cache.matches = MatchesOf(Query(prompt), files)
        /\ Popup => prompt.selected < Count(prompt)

\* Leaving the history at its end brings back the text that the user had left
\* for it, however far back they went.
DraftComesBack ==
    [][prompt.index # 0 /\ prompt'.index = 0 /\ KeyDown => prompt'.input = left]_vars

\* Backspace and Delete take a character or a whole reference to a file of the
\* index; they never cut one up.
ReferencesStayWhole ==
    [][Len(prompt'.input) < Len(prompt.input) /\ (KeyBackspace \/ KeyDelete) =>
          \A r \in ReferenceRanges(prompt.input) :
              PathIn(SubSeq(prompt.input, r[1] + 1, r[2])) \in ToSet(files) =>
                  LET k == Before(prompt)'
                      n == Len(prompt.input) - Len(prompt.input)'
                  IN  k + n <= r[1] \/ k >= r[2] \/ (k <= r[1] /\ r[2] <= k + n)]_vars

\* What a completion writes is a reference to that file, for the deletion and
\* the highlighting that look for it, unless a brace is still open before it.
BraceIsOpen(t) ==
    \E i \in 1..(Len(t) - 1) : t[i] = "at" /\ t[i + 1] = "open" /\ FirstOf(t, i + 1, {"close"}) > Len(t)
CompletionIsAReference ==
    [][Popup /\ Before(prompt) = Len(prompt.input) /\ ~BraceIsOpen(prompt.input) /\ KeyTab
          => ReferencesAt(prompt, TRUE)' # {}]_vars

\* The reference definitions of the four motions.
WordStarts(t) == {i \in 0..(Len(t) - 1) : t[i + 1] \notin Spaces /\ (i = 0 \/ t[i] \in Spaces)}
LineOf(t, k) == Cardinality({i \in 1..k : t[i] = "nl"})
OnLine(t, line, column) ==
    {i \in 0..Len(t) : LineOf(t, i) = line /\ Column(t, i) <= column}

\* A word motion goes to the nearest beginning of a word, a line motion to the
\* same column of the next line or to its end; and no further.
MotionsLand ==
    LET t == prompt.input
        k == Before(prompt)
        above == OnLine(t, LineOf(t, k) - 1, Column(t, k))
        below == OnLine(t, LineOf(t, k) + 1, Column(t, k))
    IN  /\ Before(WordLeft(prompt)) = Max({0} \union {i \in WordStarts(t) : i < k})
        /\ Before(WordRight(prompt)) = Min({Len(t)} \union {i \in WordStarts(t) : i > k})
        /\ Before(Up(prompt)) = IF LineOf(t, k) = 0 THEN k ELSE Max(above)
        /\ Before(Down(prompt)) = IF below = {} THEN k ELSE Max(below)
=============================================================================
