---------------------------- MODULE MCCodeChange ----------------------------
(* Small instance of CodeChange: one change of two files, one that lists a  *)
(* file twice, one that touches a sensitive file, one with a path outside   *)
(* of the workspace, and one without files.                                 *)
EXTENDS CodeChange

To(path, new) == [path |-> path, new_content |-> new]

MCProposals ==
    {<<To("a", "new"), To("b", "new")>>,
     <<To("a", "new"), To("a", "newer")>>,
     <<To("a", "new"), To("secret", "new")>>,
     <<To("b", "newer"), To("outside", "new")>>,
     <<>>}
=============================================================================
