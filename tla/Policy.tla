------------------------------- MODULE Policy -------------------------------
(***************************************************************************)
(* The runtime policy (jux-core/policy) and the configuration it is made   *)
(* from (jux-core/config): operators on values, for Startup to use.        *)
(*                                                                         *)
(* A path is a sequence of components and a pattern a sequence of          *)
(* segments, of which "*" and "**" are wildcards.  What a valid regular    *)
(* expression matches is left out; a pattern that does not compile is      *)
(* kept, for it is an error when it is evaluated, and only then.           *)
(***************************************************************************)
EXTENDS Integers, Sequences, SequencesExt, FiniteSets, TLC

CONSTANT Root       \* workspace_root, an absolute path

\* What is there of the one, else of the other: @@ of module TLC, spelt out for
\* the proofs.
Overlaid(overlay, base) ==
    [k \in DOMAIN overlay \union DOMAIN base |->
        IF k \in DOMAIN overlay THEN overlay[k] ELSE base[k]]

-----------------------------------------------------------------------------
(***************************************************************************)
(* MatchPattern::matches: "yes", "no" or "error".  `**' spans segments and *)
(* takes the slash after it along; after a slash it needs a segment.       *)
(***************************************************************************)
WildcardMatches(pattern, input) ==
    LET matches[i \in 1..(Len(pattern) + 1), j \in 1..(Len(input) + 1)] ==
            \/ i > Len(pattern) /\ j > Len(input)
            \/ /\ i <= Len(pattern) /\ pattern[i] = "**"
               /\ IF i = Len(pattern) THEN i = 1 \/ j <= Len(input)
                  ELSE \E k \in j..(Len(input) + 1) : matches[i + 1, k]
            \/ /\ i <= Len(pattern) /\ j <= Len(input)
               /\ pattern[i] \in {"*", input[j]}
               /\ matches[i + 1, j + 1]
            \/ pattern = <<"*">> /\ input = <<>>
    IN  matches[1, 1]

Matches(pattern, input) ==
    CASE pattern.kind = "Broken" -> "error"
      [] pattern.kind = "Literal" -> IF pattern.value = input THEN "yes" ELSE "no"
      [] pattern.kind = "Wildcard" ->
             IF WildcardMatches(pattern.value, input) THEN "yes" ELSE "no"

\* The outcome of a loop that returns at the first result other than "no".
FirstHit(results) ==
    LET hits == {i \in DOMAIN results : results[i] # "no"}
    IN  IF hits = {} THEN "no" ELSE results[CHOOSE i \in hits : \A j \in hits : i <= j]

-----------------------------------------------------------------------------
(***************************************************************************)
(* WasmFilesystemPolicy::decide_path_access.                               *)
(***************************************************************************)
NormalizeKeepsParents(parts) ==     \* mutant: ".." is a name like any other
    LET path[n \in 0..Len(parts)] ==
            IF n = 0 THEN <<>>
            ELSE IF parts[n] = "." THEN path[n - 1]
            ELSE Append(path[n - 1], parts[n])
    IN  path[Len(parts)]

\* normalize_path: path[n] is the result after n components; at the root there
\* is nothing to pop.
Normalize(parts) ==
    LET path[n \in 0..Len(parts)] ==
            IF n = 0 \/ (parts[n] = ".." /\ path[n - 1] = <<>>) THEN <<>>
            ELSE CASE parts[n] = "." -> path[n - 1]
                   [] parts[n] = ".." -> Front(path[n - 1])
                   [] OTHER -> Append(path[n - 1], parts[n])
    IN  path[Len(parts)]

\* A relative path is meant in each of the workdirs.
RequestedPaths(policy, path) ==
    IF path.absolute THEN <<Normalize(path.parts)>>
    ELSE [w \in DOMAIN policy.workdirs |-> Normalize(policy.workdirs[w] \o path.parts)]

Relative(path, workdir) == SubSeq(path, Len(workdir) + 1, Len(path))

MatchesPath(rule, path, workdirs) ==
    IF rule.base = "absolute" THEN Matches(rule.pattern, path)
    ELSE FirstHit([w \in DOMAIN workdirs |->
             LET workdir == Normalize(workdirs[w])
             IN  IF IsPrefix(workdir, path) THEN Matches(rule.pattern, Relative(path, workdir))
                 ELSE "no"])

Allows(permissions, access) ==
    (access \in {"Read", "ReadWrite"} => permissions.read)
        /\ (access \in {"Write", "ReadWrite"} => permissions.write)

Verdict(allowed) == IF allowed THEN "Allow" ELSE "Deny"

DecideByLastRule(policy, path, access) ==   \* mutant: later rules override earlier ones
    LET paths == RequestedPaths(policy, path)
        Hit(rule) == FirstHit([p \in DOMAIN paths |-> MatchesPath(rule, paths[p], policy.workdirs)])
    IN  FoldLeft(LAMBDA verdict, rule :
                     CASE Hit(rule) = "no" -> verdict
                       [] Hit(rule) = "error" -> "Error"
                       [] OTHER -> Verdict(Allows(rule.permissions, access)),
                 "Deny", policy.rules)

DecidePathAccess(policy, path, access) ==
    LET paths == RequestedPaths(policy, path)
        Hit(rule) == FirstHit([p \in DOMAIN paths |-> MatchesPath(rule, paths[p], policy.workdirs)])
        decide[i \in 1..(Len(policy.rules) + 1)] ==
            IF i > Len(policy.rules) THEN "Deny"
            ELSE CASE Hit(policy.rules[i]) = "no" -> decide[i + 1]
                   [] Hit(policy.rules[i]) = "error" -> "Error"
                   [] OTHER -> Verdict(Allows(policy.rules[i].permissions, access))
    IN  decide[1]

-----------------------------------------------------------------------------
(***************************************************************************)
(* WasmNetworkPolicy::decide_http_request, and PolicyHttpClient, which the *)
(* runtime has only if there is a rule.                                    *)
(***************************************************************************)
HttpMethods == {"GET", "POST", "PUT", "PATCH", "DELETE", "HEAD", "OPTIONS"}

\* A rule for another method is not evaluated.
HttpHit(rule, method, url) == IF rule.method = method THEN Matches(rule.pattern, url) ELSE "no"

DecideHttpRequest(policy, method, url) ==
    LET decide[i \in 1..(Len(policy.http) + 1)] ==
            IF i > Len(policy.http) THEN "Deny"
            ELSE LET hit == HttpHit(policy.http[i], method, url)
                 IN  CASE hit = "no" -> decide[i + 1]
                       [] hit = "error" -> "Error"
                       [] OTHER -> Verdict(policy.http[i].effect = "allow")
    IN  decide[1]

\* wasm_capabilities and what apply_runtime_capabilities makes of them.
HttpClient(policy) == policy.http # <<>>

\* apply_runner_capabilities: the commands of the sandbox get the workspace's
\* directory itself, to read and to write, whatever the rules permit.
MapsHostDirectory(policy) == policy.rules # <<>>

\* A request that leaves the sandbox.
HttpRequest(policy, method, url) ==
    IF ~HttpClient(policy) THEN "NoClient"
    ELSE IF method \notin HttpMethods THEN "Deny"
    ELSE DecideHttpRequest(policy, method, url)

-----------------------------------------------------------------------------
(***************************************************************************)
(* The configuration: an overlay is what a file says, a partial function   *)
(* on the settings; a rule in it may leave out fields as well.             *)
(***************************************************************************)
Anything == [kind |-> "Wildcard", value |-> <<"**">>]

DefaultRule == [effect |-> "allow", base |-> "workdir", pattern |-> Anything,
                permissions |-> {"read"}]
DefaultHttpRule == [effect |-> "deny", method |-> "GET",
                    pattern |-> [kind |-> "Literal", value |-> <<>>]]

DefaultConfig ==
    [provider |-> "deepseek", model |-> "deepseek-chat", scroll_lines |-> 5,
     workdirs |-> <<[absolute |-> FALSE, parts |-> <<".">>]>>,
     rules |-> <<DefaultRule>>, http |-> <<>>, native |-> <<>>]

\* from_overlay_value: objects are merged, arrays and scalars replaced.
Merge(overlay) == Overlaid(overlay, DefaultConfig)

\* FilesystemRuleConfig::permissions: a deny rule permits what it does not list.
Permissions(rule) ==
    [read  |-> ("read" \in rule.permissions) = (rule.effect = "allow"),
     write |-> ("write" \in rule.permissions) = (rule.effect = "allow")]

IntoRule(fields) ==
    LET rule == Overlaid(fields, DefaultRule)
    IN  [base |-> rule.base, pattern |-> rule.pattern, permissions |-> Permissions(rule)]

ResolveWorkdir(workdir) ==
    IF workdir.absolute THEN workdir.parts
    ELSE IF workdir.parts = <<".">> THEN Root
    ELSE Root \o workdir.parts

IntoRuntimePolicy(config) ==
    [workdirs |-> [w \in DOMAIN config.workdirs |-> ResolveWorkdir(config.workdirs[w])],
     rules |-> [r \in DOMAIN config.rules |-> IntoRule(config.rules[r])],
     http |-> [r \in DOMAIN config.http |-> Overlaid(config.http[r], DefaultHttpRule)],
     native |-> config.native]

\* RuntimePolicy::workspace_default.
WorkspaceDefault ==
    [workdirs |-> <<Root>>, rules |-> <<IntoRule(DefaultRule)>>, http |-> <<>>, native |-> <<>>]

Resolvable(config) == config.scroll_lines \in 1..100

\* summarize_sandbox: what the terminal UI says of the policy.
Summary(policy) ==
    [writes |-> \E r \in DOMAIN policy.rules : policy.rules[r].permissions.write,
     http |-> Len(policy.http), native |-> policy.native]

-----------------------------------------------------------------------------
(***************************************************************************)
(* What the parsed configuration and the policy are, by their types.       *)
(***************************************************************************)
\* The strings: that a literal is one is not known to the provers.
Text == STRING \union {".", "**"}

Pattern == [kind : {"Literal", "Wildcard", "Broken"}, value : Seq(Text)]
Workdir == [absolute : BOOLEAN, parts : Seq(Text)]
RuleConfig == [effect : {"allow", "deny"}, base : {"workdir", "absolute"}, pattern : Pattern,
               permissions : SUBSET {"read", "write"}]
HttpRule == [effect : {"allow", "deny"}, method : HttpMethods, pattern : Pattern]

ConfigOK(config) ==
    /\ config.workdirs \in Seq(Workdir)
    /\ config.rules \in Seq(Range(config.rules))
    /\ \A r \in DOMAIN config.rules : Overlaid(config.rules[r], DefaultRule) \in RuleConfig
    /\ config.http \in Seq(Range(config.http))
    /\ \A r \in DOMAIN config.http : Overlaid(config.http[r], DefaultHttpRule) \in HttpRule
    /\ config.native \in Seq(Text)

FilesystemRule == [base : {"workdir", "absolute"}, pattern : Pattern,
                   permissions : [read : BOOLEAN, write : BOOLEAN]]
RuntimePolicy == [workdirs : Seq(Seq(Text)), rules : Seq(FilesystemRule), http : Seq(HttpRule),
                  native : Seq(Text)]
SandboxSummary == [writes : BOOLEAN, http : Nat, native : Seq(Text)]
=============================================================================
