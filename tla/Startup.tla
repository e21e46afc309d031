------------------------------ MODULE Startup ------------------------------
(***************************************************************************)
(* What a run is made of (jux-cli/main): the terminal UI reads the skills  *)
(* and the configuration when it starts; each run, of the UI or of the     *)
(* `jux run' command, reads the instructions and the skills again, and is  *)
(* given a policy.  The user edits all of these files at any moment, and   *)
(* each directory is read in a step of its own.                            *)
(***************************************************************************)
EXTENDS Policy

CONSTANTS
    ConfigFiles,    \* CONFIG_RELATIVE_PATHS
    Contents,       \* what a configuration file may hold
    InstructionFiles,   \* INSTRUCTION_FILENAMES
    SkillNames,
    PathRequests,   \* paths and accesses asked of the policy
    HttpRequests,   \* methods and URLs asked for in the sandbox
    MaxEdits,       \* bound: edits of the user
    MaxRuns         \* bound: runs

ASSUME StartupAssumption ==
    /\ MaxEdits \in Nat /\ MaxRuns \in Nat
    /\ Root \in Seq(Text) /\ ConfigFiles \in Seq(STRING)
    /\ \A content \in Contents : content.shape = "object" => ConfigOK(Merge(content.values))
    /\ \A request \in PathRequests : request.path \in Workdir

VARIABLES
    home,           \* user_home_dir_from_env finds a directory
    files,          \* the files of ~/.jux and of the workspace's .jux
    tui,            \* the terminal UI
    run,            \* the run of the UI or of the command
    decision,       \* the last question to the run's policy, and its answer
    edits, runs,
    seen            \* history: the skills on disk since the run was submitted

vars == <<home, files, tui, run, decision, edits, runs, seen>>

Scopes == {"User", "Project"}
NoContent == [shape |-> "absent", values |-> <<>>]
Instructions == {"absent", "blank", "unreadable", "text"}
Skills == {"absent", "no_file", "malformed", "v1", "v2"}
Usable == {"v1", "v2"}

NoCatalog == <<>>
Closed == [pc |-> "off", catalog |-> NoCatalog, found |-> "none", policy |-> WorkspaceDefault,
           shown |-> Summary(WorkspaceDefault), scroll_lines |-> 5, error |-> "none"]
NoRun == [pc |-> "none", via |-> "tui", names |-> <<>>, docs |-> <<>>, catalog |-> NoCatalog,
          skills |-> <<>>, policy |-> WorkspaceDefault]
NoDecision == [asked |-> "nothing", of |-> <<>>, answer |-> "none"]

OnDisk(fs) == {<<scope, name, fs.skills[scope][name]>> : scope \in Scopes, name \in SkillNames}

Init ==
    /\ home \in BOOLEAN
    /\ files \in [config : [{ConfigFiles[i] : i \in DOMAIN ConfigFiles} -> {NoContent}],
                  instructions : [Scopes -> {[i \in DOMAIN InstructionFiles |-> "absent"]}],
                  skills : [Scopes -> [SkillNames -> {"absent", "v1"}]]]
    /\ tui = Closed
    /\ run = NoRun
    /\ decision = NoDecision
    /\ edits = 0 /\ runs = 0
    /\ seen = {}

-----------------------------------------------------------------------------
(***************************************************************************)
(* The user, who edits nothing between a question to the policy and the    *)
(* end of the run (the policy keeps no state, and one question is asked).  *)
(***************************************************************************)
Edit(after) ==
    /\ edits < MaxEdits /\ edits' = edits + 1
    /\ run.pc # "asked"
    /\ files' = after
    /\ seen' = IF run.pc = "none" THEN {} ELSE seen \union OnDisk(after)
    /\ UNCHANGED <<home, tui, run, decision, runs>>

EditConfig ==
    \E i \in DOMAIN ConfigFiles, content \in Contents \union {NoContent} :
        Edit([files EXCEPT !.config[ConfigFiles[i]] = content])

EditInstructions ==
    \E scope \in Scopes, i \in DOMAIN InstructionFiles, content \in Instructions :
        Edit([files EXCEPT !.instructions[scope][i] = content])

EditSkill ==
    \E scope \in Scopes, name \in SkillNames, skill \in Skills :
        Edit([files EXCEPT !.skills[scope][name] = skill])

-----------------------------------------------------------------------------
(***************************************************************************)
(* SkillResolver::resolve_catalog, one scope at a time.  An entry without  *)
(* SKILL.md is none, and a malformed one spoils the whole catalog.         *)
(***************************************************************************)
Malformed(scope) == \E name \in SkillNames : files.skills[scope][name] = "malformed"

Discovered(scope) ==
    LET names == {name \in SkillNames : files.skills[scope][name] \in Usable}
    IN  [name \in names |-> [scope |-> scope, content |-> files.skills[scope][name]]]

\* insert_skill: the later scope overrides the earlier.
Inserted(catalog, scope) == Overlaid(Discovered(scope), catalog)

\* InstructionResolver::push_document: the first file that exists, if it says
\* anything.
FirstInstruction(scope) ==
    LET present == {i \in DOMAIN InstructionFiles : files.instructions[scope][i] # "absent"}
    IN  IF present = {} THEN "absent"
        ELSE files.instructions[scope][CHOOSE i \in present : \A j \in present : i <= j]
Pushed(docs, scope) == IF FirstInstruction(scope) = "text" THEN Append(docs, scope) ELSE docs

-----------------------------------------------------------------------------
(***************************************************************************)
(* The start of the terminal UI: load_skill_catalog, whose error ends the  *)
(* program, then load_tui_configuration, whose error is shown.             *)
(***************************************************************************)
StartTui ==
    /\ tui.pc = "off" /\ run.pc = "none"
    /\ tui' = [Closed EXCEPT !.pc = IF home THEN "user_skills" ELSE "project_skills"]
    /\ UNCHANGED <<home, files, run, decision, edits, runs, seen>>

LoadCatalog(scope, pc, next) ==
    /\ tui.pc = pc
    /\ tui' = IF Malformed(scope) THEN Closed
              ELSE [tui EXCEPT !.catalog = Inserted(@, scope), !.pc = next]
    /\ UNCHANGED <<home, files, run, decision, edits, runs, seen>>

\* find_config_path
FindConfig ==
    /\ tui.pc = "config"
    /\ LET present == {i \in DOMAIN ConfigFiles : files.config[ConfigFiles[i]].shape # "absent"}
           first == CHOOSE i \in present : \A j \in present : i <= j
       IN  tui' = [tui EXCEPT !.pc = "read",
                              !.found = IF home /\ present # {} THEN ConfigFiles[first] ELSE "none"]
    /\ UNCHANGED <<home, files, run, decision, edits, runs, seen>>

\* The rest of load_tui_configuration: the configuration holds as a whole or
\* not at all, but that an unknown provider is replaced.
Configured(config) ==
    [tui EXCEPT !.pc = "on", !.found = "none",
        !.policy = IntoRuntimePolicy(config), !.shown = Summary(IntoRuntimePolicy(config)),
        !.scroll_lines = config.scroll_lines,
        !.error = IF config.provider = "deepseek" THEN "none" ELSE "provider"]

Unconfigured == [tui EXCEPT !.pc = "on", !.found = "none", !.error = "config"]

\* from_jsonc_str: comments are stripped, and a null anywhere is an error.
Parses(content) == content.shape = "object"

ReadConfigInPart ==                 \* mutant: the sandbox section outlives a bad TUI section
    /\ tui.pc = "read"
    /\ LET content == IF tui.found = "none" THEN [shape |-> "object", values |-> <<>>]
                      ELSE files.config[tui.found]
           config == Merge(content.values)
       IN  tui' = IF ~Parses(content) THEN Unconfigured
                  ELSE IF Resolvable(config) THEN Configured(config)
                  ELSE [Configured(config) EXCEPT !.error = "config", !.scroll_lines = 5]
    /\ UNCHANGED <<home, files, run, decision, edits, runs, seen>>

ReadConfig ==
    /\ tui.pc = "read"
    /\ LET content == IF tui.found = "none" THEN [shape |-> "object", values |-> <<>>]
                      ELSE files.config[tui.found]
           config == Merge(content.values)
       IN  tui' = IF Parses(content) /\ Resolvable(config) THEN Configured(config)
                  ELSE Unconfigured
    /\ UNCHANGED <<home, files, run, decision, edits, runs, seen>>

Quit ==
    /\ tui.pc = "on"
    /\ tui' = Closed
    /\ run' = IF run.via = "tui" THEN NoRun ELSE run
    /\ decision' = NoDecision
    /\ UNCHANGED <<home, files, edits, runs, seen>>

-----------------------------------------------------------------------------
(***************************************************************************)
(* run_with_model.  The UI offers the skills of its catalog, the command   *)
(* takes any name; the policy is the UI's, or the default one.             *)
(***************************************************************************)
Submit(via, names, policy) ==
    /\ run.pc = "none" /\ runs < MaxRuns
    /\ runs' = runs + 1
    /\ run' = [NoRun EXCEPT !.pc = IF home THEN "user_docs" ELSE "project_docs",
                            !.via = via, !.names = names, !.policy = policy]
    /\ seen' = OnDisk(files)
    /\ decision' = NoDecision
    /\ UNCHANGED <<home, files, tui, edits>>

Mentions(names) == UNION {[1..n -> names] : n \in 0..2}

SubmitInTui ==
    tui.pc = "on" /\ \E names \in Mentions(DOMAIN tui.catalog) : Submit("tui", names, tui.policy)

SubmitByCommand ==
    tui.pc = "off" /\ \E names \in Mentions(SkillNames) : Submit("command", names, WorkspaceDefault)

\* An error is the run's answer.
RunDocs(scope, pc, next) ==
    /\ run.pc = pc
    /\ run' = IF FirstInstruction(scope) = "unreadable" THEN NoRun
              ELSE [run EXCEPT !.docs = Pushed(@, scope), !.pc = next]
    /\ UNCHANGED <<home, files, tui, decision, edits, runs, seen>>

RunSkills(scope, pc, next) ==
    /\ run.pc = pc
    /\ run' = IF Malformed(scope) THEN NoRun
              ELSE [run EXCEPT !.catalog = Inserted(@, scope), !.pc = next]
    /\ UNCHANGED <<home, files, tui, decision, edits, runs, seen>>

\* select_explicit_skills: an unknown name is an error, a repeated one is
\* taken once.
Selected(catalog, names) ==
    LET chosen[n \in 0..Len(names)] ==
            IF n = 0 THEN <<>>
            ELSE IF \E i \in DOMAIN chosen[n - 1] : chosen[n - 1][i].name = names[n]
            THEN chosen[n - 1]
            ELSE Append(chosen[n - 1], [name |-> names[n], skill |-> catalog[names[n]]])
    IN  chosen[Len(names)]

SelectFromStartup ==                \* mutant: the catalog of the UI is used
    /\ run.pc = "select"
    /\ LET catalog == IF run.via = "tui" THEN tui.catalog ELSE run.catalog
       IN  run' = IF Range(run.names) \subseteq DOMAIN catalog
                  THEN [run EXCEPT !.pc = "running", !.skills = Selected(catalog, run.names)]
                  ELSE NoRun
    /\ UNCHANGED <<home, files, tui, decision, edits, runs, seen>>

Select ==
    /\ run.pc = "select"
    /\ run' = IF Range(run.names) \subseteq DOMAIN run.catalog
              THEN [run EXCEPT !.pc = "running", !.skills = Selected(run.catalog, run.names)]
              ELSE NoRun
    /\ UNCHANGED <<home, files, tui, decision, edits, runs, seen>>

\* The policy is asked, by a caller of decide_path_access or by the HTTP client
\* of the sandbox.
AskForPath ==
    /\ run.pc = "running"
    /\ \E request \in PathRequests :
        decision' = [asked |-> "path", of |-> request,
                     answer |-> DecidePathAccess(run.policy, request.path, request.access)]
    /\ run' = [run EXCEPT !.pc = "asked"]
    /\ UNCHANGED <<home, files, tui, edits, runs, seen>>

AskForUrl ==
    /\ run.pc = "running"
    /\ \E request \in HttpRequests :
        decision' = [asked |-> "url", of |-> request,
                     answer |-> HttpRequest(run.policy, request.method, request.url)]
    /\ run' = [run EXCEPT !.pc = "asked"]
    /\ UNCHANGED <<home, files, tui, edits, runs, seen>>

FinishRun ==
    /\ run.pc \in {"running", "asked"}
    /\ run' = NoRun
    /\ decision' = NoDecision /\ seen' = {}
    /\ UNCHANGED <<home, files, tui, edits, runs>>

Next ==
    \/ EditConfig \/ EditInstructions \/ EditSkill
    \/ StartTui
    \/ LoadCatalog("User", "user_skills", "project_skills")
    \/ LoadCatalog("Project", "project_skills", "config")
    \/ FindConfig \/ ReadConfig \/ Quit
    \/ SubmitInTui \/ SubmitByCommand
    \/ RunDocs("User", "user_docs", "project_docs")
    \/ RunDocs("Project", "project_docs", IF home THEN "user_skills" ELSE "project_skills")
    \/ RunSkills("User", "user_skills", "project_skills")
    \/ RunSkills("Project", "project_skills", "select")
    \/ Select \/ AskForPath \/ AskForUrl \/ FinishRun

Spec == Init /\ [][Next]_vars

-----------------------------------------------------------------------------
Skill == [scope : Scopes, content : Usable]
Catalogs == UNION {[names -> Skill] : names \in SUBSET SkillNames}

Files == [config : [Range(ConfigFiles) -> Contents \union {NoContent}],
          instructions : [Scopes -> [DOMAIN InstructionFiles -> Instructions]],
          skills : [Scopes -> [SkillNames -> Skills]]]

Tui == [pc : {"off", "user_skills", "project_skills", "config", "read", "on"},
        catalog : Catalogs, found : Range(ConfigFiles) \union {"none"},
        policy : RuntimePolicy, shown : SandboxSummary, scroll_lines : 1..100,
        error : {"none", "config", "provider"}]

Run == [pc : {"none", "user_docs", "project_docs", "user_skills", "project_skills",
              "select", "running", "asked"},
        via : {"tui", "command"}, names : Seq(SkillNames), docs : Seq(Scopes), catalog : Catalogs,
        skills : Seq([name : SkillNames, skill : Skill]), policy : RuntimePolicy]

TypeOK ==
    /\ home \in BOOLEAN /\ files \in Files /\ tui \in Tui /\ run \in Run
    /\ Len(run.skills) <= Len(run.names)
    /\ run.pc # "none" /\ run.via = "tui" => tui.pc = "on"
    /\ edits \in 0..MaxEdits /\ runs \in 0..MaxRuns

\* A run has the skills that were asked for, all of them, each once, and as they
\* were on disk after the request: neither as the UI knew them when it started
\* nor fewer because one has gone (run_with_model, select_explicit_skills).
RunHasItsSkills ==
    run.pc \in {"running", "asked"} =>
        /\ {run.skills[i].name : i \in DOMAIN run.skills} = Range(run.names)
        /\ \A i, j \in DOMAIN run.skills : run.skills[i].name = run.skills[j].name => i = j
        /\ \A i \in DOMAIN run.skills :
            <<run.skills[i].skill.scope, run.skills[i].name, run.skills[i].skill.content>> \in seen

\* A project's skill overrides the user's of the same name: where a run has the
\* user's, the project had none at some time since the request
\* (resolve_catalog, insert_skill).
ProjectOverridesUser ==
    run.pc \in {"select", "running"} =>
        \A name \in DOMAIN run.catalog :
            run.catalog[name].scope = "User" =>
                \E skill \in Skills \ Usable : <<"Project", name, skill>> \in seen

\* What a file that holds without an error says as a whole, or the defaults.
OfOneFile(policy, lines) ==
    \/ policy = WorkspaceDefault /\ lines = 5
    \/ \E content \in Contents :
        /\ Parses(content) /\ Resolvable(Merge(content.values))
        /\ policy = IntoRuntimePolicy(Merge(content.values))
        /\ lines = Merge(content.values).scroll_lines

\* The policy of the UI's runs is that of one file without an error, as are the
\* other settings, or the default one: a configuration with an error leaves
\* nothing of itself behind, and no later edit reaches a run of this UI.  The
\* summary that is shown is of those rules, and only of them
\* (load_tui_configuration; ReadOnlyIsNotWritten is about what it leaves out).
PolicyIsWhole ==
    tui.pc = "on" =>
        /\ OfOneFile(tui.policy, tui.scroll_lines)
        /\ tui.error = "config" => tui.policy = WorkspaceDefault /\ tui.scroll_lines = 5
        /\ run.pc # "none" => run.policy = tui.policy
        /\ tui.shown = Summary(tui.policy)

\* Where the UI says "read-only", no command of its runs can write to the
\* workspace.  The code breaks this: a policy with any rule maps the directory
\* itself, and nothing asks the rules about an access (summarize_sandbox,
\* apply_runner_capabilities).
ReadOnlyIsNotWritten ==
    run.pc # "none" /\ run.via = "tui" /\ ~tui.shown.writes => ~MapsHostDirectory(run.policy)

\* As long as all rules are about workdirs, a path that may be accessed is in
\* one of them, however it is spelt (decide_path_access, normalize_path).
Location(parts) ==                  \* where a walk along the components ends
    LET at[n \in 0..Len(parts)] ==
            IF n = 0 THEN <<>>
            ELSE IF parts[n] = ".." THEN SubSeq(at[n - 1], 1, Len(at[n - 1]) - 1)
            ELSE IF parts[n] = "." THEN at[n - 1]
            ELSE Append(at[n - 1], parts[n])
    IN  at[Len(parts)]

WorkdirRulesStayInside ==
    decision.asked = "path" /\ decision.answer = "Allow" /\
    (\A r \in DOMAIN run.policy.rules : run.policy.rules[r].base = "workdir") =>
        LET workdirs == Range(run.policy.workdirs)
            path == decision.of.path
            targets == IF path.absolute THEN {path.parts} ELSE {w \o path.parts : w \in workdirs}
        IN  \E target \in targets, w \in workdirs : IsPrefix(Location(w), Location(target))

\* The first rule that matches decides, and a rule that cannot be evaluated lets
\* nothing through (decide_path_access, decide_http_request).
HttpAllowed(policy, request) ==
    \E i \in DOMAIN policy.http :
        /\ policy.http[i].effect = "allow"
        /\ HttpHit(policy.http[i], request.method, request.url) = "yes"
        /\ \A j \in 1..(i - 1) : HttpHit(policy.http[j], request.method, request.url) = "no"

PathAllowed(policy, request) ==
    LET paths == RequestedPaths(policy, request.path)
        Hits(i) == {MatchesPath(policy.rules[i], paths[p], policy.workdirs) : p \in DOMAIN paths}
    IN  \E i \in DOMAIN policy.rules :
            /\ Allows(policy.rules[i].permissions, request.access)
            /\ "yes" \in Hits(i)
            /\ \A j \in 1..(i - 1) : Hits(j) \subseteq {"no"}

FirstRuleDecides ==
    /\ decision.asked = "url" =>
        (decision.answer = "Allow" <=> HttpAllowed(run.policy, decision.of))
    /\ decision.asked = "path" =>
        (decision.answer = "Allow" => PathAllowed(run.policy, decision.of))
=============================================================================
