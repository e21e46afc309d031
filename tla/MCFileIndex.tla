---------------------------- MODULE MCFileIndex ----------------------------
(* Small instance of FileIndex: two directories and one name, so that a     *)
(* file can move behind the walk.                                           *)
EXTENDS FileIndex

MCDirs == <<"docs", "src">>
=============================================================================
