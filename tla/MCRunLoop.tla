----------------------------- MODULE MCRunLoop -----------------------------
(***************************************************************************)
(* Small instances of RunLoop: which sequences of tools the model may      *)
(* answer with, in the main loop and in a skill.                           *)
(***************************************************************************)
EXTENDS RunLoop

\* Questions of every kind, one beside another call, and skills that the
\* model calls.
QuestionResponses == {<<>>, <<"call_skill">>, <<"human_input">>, <<"malformed_input">>,
                      <<"exec", "human_input">>}

\* Tools that keep the loop going, and questions in the skills that the user
\* asked for.
ToolResponses == {<<>>, <<"human_input">>, <<"exec", "exec">>}

\* A question alone and one beside another call, in the main loop and in a
\* requested skill.
BesideResponses == {<<"human_input">>, <<"exec", "human_input">>}
=============================================================================
