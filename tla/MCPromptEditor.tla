--------------------------- MODULE MCPromptEditor ---------------------------
(* Instance of PromptEditor for TLC. *)
EXTENDS PromptEditor, TLC

\* A letter, a wide letter, the ideographic space, and ASCII.
MCWidth == [c \in {"a", "space", "nl", "at", "open", "close"} |-> 1] @@ [c \in {"wide", "widespace"} |-> 3]
MCSpaces == {"space", "nl", "widespace"}
MCPastes == {<<"wide", "widespace">>}
MCSnapshots == {<< <<"wide">>, <<"wide", "space">> >>, << <<"wide", "space">> >>}
MCHistories == {<<>>, << <<"wide">>, <<"nl", "wide">> >>}
=============================================================================
