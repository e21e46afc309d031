----------------------------- MODULE MCStartup -----------------------------
(* Small instance of Startup: a workspace below a home directory, rules     *)
(* that order, base, permission and a broken pattern tell apart, and paths  *)
(* that leave the workspace and come back.                                  *)
EXTENDS Startup

MCRoot == <<"home", "work">>

Wildcard(value) == [kind |-> "Wildcard", value |-> value]
Broken == [kind |-> "Broken", value |-> <<>>]
Object(values) == [shape |-> "object", values |-> values]

DenySecrets == [effect |-> "deny", pattern |-> Wildcard(<<"secret", "**">>)]
AllowWrites == [permissions |-> {"read", "write"}]
AllowHome == [base |-> "absolute", pattern |-> Wildcard(<<"home", "*">>)]
BrokenRule == [pattern |-> Broken]

Api == Wildcard(<<"api", "**">>)
AllowApi == [effect |-> "allow", pattern |-> Api]
DenyApi == [pattern |-> Wildcard(<<"api", "x">>)]
BrokenPost == [effect |-> "allow", method |-> "POST", pattern |-> Broken]

MCContents ==
    {Object("rules" :> <<DenySecrets, AllowWrites>>),
     Object("rules" :> <<BrokenRule, AllowHome>> @@ "http" :> <<DenyApi, AllowApi>>),
     Object("workdirs" :> <<[absolute |-> FALSE, parts |-> <<"..", "lib">>],
                            [absolute |-> FALSE, parts |-> <<".">>]>>
            @@ "http" :> <<BrokenPost, AllowApi, DenyApi>> @@ "native" :> <<"git">>),
     Object("scroll_lines" :> 101 @@ "rules" :> <<AllowWrites>>),
     Object("provider" :> "other" @@ "scroll_lines" :> 1 @@ "rules" :> <<>>),
     [shape |-> "invalid", values |-> <<>>]}

MCConfigFiles == <<"config.yaml", "config.json">>
MCInstructionFiles == <<"AGENTS.md", "agents.md">>

Path(absolute, parts) == [absolute |-> absolute, parts |-> parts]
Paths == {Path(FALSE, <<>>), Path(FALSE, <<"a">>), Path(FALSE, <<"..", "a">>),
          Path(FALSE, <<"a", "..", "secret", "k">>),
          Path(TRUE, <<"home", "work", ".", "a">>), Path(TRUE, <<"home", "lib">>),
          Path(TRUE, <<"home", "work", "..", "a">>), Path(TRUE, <<"home", "lib", "..", "..", "a">>)}

MCPathRequests == [path : Paths, access : {"Read", "Write", "ReadWrite"}]
MCHttpRequests == [method : {"GET", "POST", "TRACE"}, url : {<<"api", "x">>, <<"api", "y">>, <<"x">>}]
=============================================================================
