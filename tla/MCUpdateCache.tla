--------------------------- MODULE MCUpdateCache ---------------------------
(* Small instance of UpdateCache: a terminal UI and the update command, at  *)
(* the same time and one after the other.                                   *)
EXTENDS UpdateCache

MCKindsOf == [p \in Procs |-> IF p = "p" THEN {"tui"} ELSE {"update"}]
=============================================================================
