------------------------------ MODULE MCUiKeys ------------------------------
(* Instance of UiKeys for TLC. *)
EXTENDS UiKeys, TLC

\* The panels for the help and for the logs differ from the others in their
\* drawing only, and "/session new x" from the others in its text.  The audit
\* panel only keeps Up and Down to itself.
MCLines == {"", "hi", "one", "two", "/", "/session", "/retry", "/continue", "/new", "/version",
            "/skills", "/review changes x", "/session rename x", "/session switch x"}
MCBegins == [l \in MCLines |-> IF l = "/" THEN ToSet(SlashCommands)
                               ELSE {l} \intersect ToSet(SlashCommands)]
MCSpaced == MCLines \intersect (ReviewCommands \union SessionCommands)
MCSlashed == MCLines \ {"", "hi", "one", "two"}
MCSessions == <<"s1", "s2">>
MCSkills == <<"k">>
MCOptions == <<"one", "two">>
=============================================================================
