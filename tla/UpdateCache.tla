---------------------------- MODULE UpdateCache ----------------------------
(***************************************************************************)
(* The update check (jux-core/update): terminal UIs that start, announce   *)
(* what the cached check found and go on checking in a thread of their     *)
(* own, and `jux update' commands.  They share one cache file, replaced by *)
(* way of one temporary file, and nothing else; each is killed at any      *)
(* moment.                                                                 *)
(*                                                                         *)
(* Time is what it does to a result: Day makes every result stale, which   *)
(* UPDATE_CHECK_INTERVAL says.                                             *)
(***************************************************************************)
EXTENDS Naturals

CONSTANTS
    Procs,          \* processes of one user
    KindsOf,        \* what each of them is started as
    MaxVersion      \* bound: versions 1..MaxVersion are released in turn

ASSUME UpdateAssumption ==
    /\ KindsOf \in [Procs -> SUBSET {"tui", "update"}]
    /\ MaxVersion \in Nat \ {0}

VARIABLES
    released,   \* the latest release
    installed,  \* the version of the installed binary
    cache,      \* update-cache.json
    tmp,        \* update-cache.json.tmp
    proc,       \* the processes
    disturbed,  \* history: two processes ran at once, or a write has failed
    shown       \* history: how often the startup message of a version was drawn

vars == <<released, installed, cache, tmp, proc, disturbed, shown>>

Versions == 1..MaxVersion
None == 0
Result == [current : Versions, latest : Versions, notified : Versions \union {None},
           fresh : BOOLEAN]
Nothing == [current |-> 1, latest |-> 1, notified |-> None, fresh |-> FALSE]

\* A file, and the result in it if it can be read.
File == [is : {"none", "empty", "torn", "whole"}, result : Result]
Unreadable(what) == [is |-> what, result |-> Nothing]

Off == [pc |-> "off", kind |-> "tui", version |-> 1, mem |-> Nothing, fd |-> "closed",
        notice |-> None, message |-> FALSE]
Running == {p \in Procs : proc[p].pc # "off"}

Init ==
    /\ released = 1 /\ installed = 1
    /\ cache = Unreadable("none") /\ tmp = Unreadable("none")
    /\ proc = [p \in Procs |-> Off]
    /\ disturbed = FALSE
    /\ shown = [v \in Versions |-> 0]

-----------------------------------------------------------------------------
(***************************************************************************)
(* The two files.  An open handle follows its file through a rename, and   *)
(* no handle is left to a file that was replaced or removed.               *)
(***************************************************************************)
\* load_cache: what does not parse is an error, and all callers but
\* mark_startup_notified take it for no cache at all.
Loads == cache.is = "whole"

\* A version is written longer than null.
Longer(r, s) == r.notified # None /\ s.notified = None

\* fs::write through a handle at offset 0, on a file that another process may
\* have filled since it was truncated.
Overwrite(file, result) ==
    IF file.is = "whole" /\ Longer(file.result, result) THEN Unreadable("torn")
    ELSE [is |-> "whole", result |-> result]

\* What an open file is once the temporary one has been renamed, or the cache
\* removed.
Files == {"closed", "tmp", "cache", "gone"}
Moved == [f \in Files |-> CASE f = "tmp" -> "cache" [] f = "cache" -> "gone" [] OTHER -> f]
Dropped == [f \in Files |-> IF f = "cache" THEN "gone" ELSE f]
Handles(moved, p, next) == [q \in Procs |-> IF q = p THEN next ELSE [proc[q] EXCEPT !.fd = moved[@]]]

\* Time: what was a fresh result no longer is one, wherever it is kept.
Aged(file) == [file EXCEPT !.result.fresh = FALSE]

-----------------------------------------------------------------------------
(***************************************************************************)
(* A start of the terminal UI (run_tui).  The first frame is drawn after   *)
(* the version has been marked, so a kill before it loses the message.     *)
(***************************************************************************)
Start(p, kind) ==
    /\ proc[p].pc = "off"
    /\ proc' = [proc EXCEPT ![p] = [Off EXCEPT !.pc = IF kind = "tui" THEN "start" ELSE "request",
                                               !.kind = kind, !.version = installed,
                                               !.mem.fresh = kind = "update"]]
    /\ disturbed' = (disturbed \/ Running # {})
    /\ UNCHANGED <<released, installed, cache, tmp, shown>>

\* The cached result of this very version, if it tells of a newer one.
StartLoadAnyVersion(p) ==           \* mutant: the result may be another version's
    /\ proc[p].pc = "start"
    /\ proc' = [proc EXCEPT ![p] =
           IF ~Loads \/ cache.result.latest <= cache.result.current
           THEN [@ EXCEPT !.pc = "draw"]
           ELSE LET message == cache.result.notified # cache.result.latest
                IN  [@ EXCEPT !.notice = cache.result.latest, !.message = message,
                              !.pc = IF message THEN "mark" ELSE "draw"]]
    /\ UNCHANGED <<released, installed, cache, tmp, disturbed, shown>>

StartLoad(p) ==
    /\ proc[p].pc = "start"
    /\ proc' = [proc EXCEPT ![p] =
           IF ~Loads \/ cache.result.current # @.version \/ cache.result.latest <= cache.result.current
           THEN [@ EXCEPT !.pc = "draw"]
           ELSE LET message == cache.result.notified # cache.result.latest
                IN  [@ EXCEPT !.notice = cache.result.latest, !.message = message,
                              !.pc = IF message THEN "mark" ELSE "draw"]]
    /\ UNCHANGED <<released, installed, cache, tmp, disturbed, shown>>

\* mark_startup_notified loads the cache once more.
MarkLoad(p) ==
    /\ proc[p].pc = "mark"
    /\ proc' = [proc EXCEPT ![p] =
           IF Loads THEN [@ EXCEPT !.mem = [cache.result EXCEPT !.notified = proc[p].notice], !.pc = "open"]
                    ELSE [@ EXCEPT !.pc = "draw"]]
    /\ UNCHANGED <<released, installed, cache, tmp, disturbed, shown>>

Draw(p) ==
    /\ proc[p].pc = "draw"
    /\ shown' = IF proc[p].message /\ ~disturbed
                THEN [shown EXCEPT ![proc[p].notice] = IF @ < 2 THEN @ + 1 ELSE @]
                ELSE shown
    /\ proc' = [proc EXCEPT ![p].pc = "check", ![p].mem = Nothing, ![p].message = FALSE]
    /\ UNCHANGED <<released, installed, cache, tmp, disturbed>>

-----------------------------------------------------------------------------
(***************************************************************************)
(* A check: check_if_due in the thread of start_update_checks, check_now   *)
(* in the command.                                                         *)
(***************************************************************************)
Announce(state) ==
    IF state.kind = "update" THEN Off
    ELSE [state EXCEPT !.pc = "sleep", !.fd = "closed", !.mem = Nothing,
                       !.notice = IF state.mem.latest > state.mem.current
                                  THEN state.mem.latest ELSE @]

GiveUp(state) ==
    IF state.kind = "update" THEN Off
    ELSE [state EXCEPT !.pc = "sleep", !.fd = "closed", !.mem = Nothing]

CheckIgnoresAge(p) ==               \* mutant: a cached result never gets old
    /\ proc[p].pc = "check"
    /\ proc' = [proc EXCEPT ![p] =
           IF Loads /\ cache.result.current = @.version
           THEN Announce([@ EXCEPT !.mem = cache.result])
           ELSE [@ EXCEPT !.pc = "request", !.mem.fresh = TRUE]]
    /\ UNCHANGED <<released, installed, cache, tmp, disturbed, shown>>

Check(p) ==
    /\ proc[p].pc = "check"
    /\ proc' = [proc EXCEPT ![p] =
           IF Loads /\ cache.result.current = @.version /\ cache.result.fresh
           THEN Announce([@ EXCEPT !.mem = cache.result])
           ELSE [@ EXCEPT !.pc = "request", !.mem.fresh = TRUE]]
    /\ UNCHANGED <<released, installed, cache, tmp, disturbed, shown>>

\* check_now_at, its time taken before the request.
RequestSucceeds(p) ==
    /\ proc[p].pc = "request"
    /\ proc' = [proc EXCEPT ![p].pc = "previous", ![p].mem.latest = released]
    /\ UNCHANGED <<released, installed, cache, tmp, disturbed, shown>>

RequestFails(p) ==
    /\ proc[p].pc = "request"
    /\ proc' = [proc EXCEPT ![p] = GiveUp(@)]
    /\ UNCHANGED <<released, installed, cache, tmp, disturbed, shown>>

LoadPreviousForgets(p) ==           \* mutant: the new result starts from nothing
    /\ proc[p].pc = "previous"
    /\ proc' = [proc EXCEPT ![p].pc = "open", ![p].mem.current = proc[p].version]
    /\ UNCHANGED <<released, installed, cache, tmp, disturbed, shown>>

LoadPrevious(p) ==
    /\ proc[p].pc = "previous"
    /\ proc' = [proc EXCEPT ![p].pc = "open", ![p].mem.current = proc[p].version,
                            ![p].mem.notified = IF Loads THEN cache.result.notified ELSE None]
    /\ UNCHANGED <<released, installed, cache, tmp, disturbed, shown>>

-----------------------------------------------------------------------------
(***************************************************************************)
(* save_cache: truncate the temporary file, write it, rename it.  A rename *)
(* that fails for want of the temporary file - another process has renamed *)
(* it - is retried after the cache is removed.                             *)
(***************************************************************************)
AfterSave(state) == IF state.kind = "tui" /\ state.message
                    THEN [state EXCEPT !.pc = "draw", !.fd = "closed"]
                    ELSE Announce(state)
AfterError(state) == IF state.kind = "tui" /\ state.message
                     THEN [state EXCEPT !.pc = "draw", !.fd = "closed"]
                     ELSE GiveUp(state)

OpenTemporary(p) ==
    /\ proc[p].pc = "open"
    /\ tmp' = Unreadable("empty")
    /\ proc' = [proc EXCEPT ![p].pc = "write", ![p].fd = "tmp"]
    /\ UNCHANGED <<released, installed, cache, disturbed, shown>>

WriteTemporary(p) ==
    /\ proc[p].pc = "write"
    /\ tmp' = IF proc[p].fd = "tmp" THEN Overwrite(tmp, proc[p].mem) ELSE tmp
    /\ cache' = IF proc[p].fd = "cache" THEN Overwrite(cache, proc[p].mem) ELSE cache
    /\ proc' = [proc EXCEPT ![p].pc = "rename", ![p].fd = "closed"]
    /\ UNCHANGED <<released, installed, disturbed, shown>>

\* create_dir_all or fs::write fails (bound: once, and not after processes have
\* met).
WriteFails(p) ==
    /\ proc[p].pc = "open" /\ ~disturbed
    /\ disturbed' = TRUE
    /\ proc' = [proc EXCEPT ![p] = AfterError(@)]
    /\ UNCHANGED <<released, installed, cache, tmp, shown>>

Rename(p) ==
    /\ proc[p].pc \in {"rename", "again"} /\ tmp.is # "none"
    /\ cache' = tmp /\ tmp' = Unreadable("none")
    /\ proc' = Handles(Moved, p, AfterSave(proc[p]))
    /\ UNCHANGED <<released, installed, disturbed, shown>>

RenameFails(p) ==
    /\ proc[p].pc \in {"rename", "again"} /\ tmp.is = "none"
    /\ IF proc[p].pc = "rename" /\ cache.is # "none"
       THEN /\ cache' = Unreadable("none")
            /\ proc' = Handles(Dropped, p, [proc[p] EXCEPT !.pc = "again"])
       ELSE /\ proc' = [proc EXCEPT ![p] = AfterError(@)]
            /\ UNCHANGED cache
    /\ UNCHANGED <<released, installed, tmp, disturbed, shown>>

-----------------------------------------------------------------------------
\* The thread sleeps for an hour.
Wake(p) ==
    /\ proc[p].pc = "sleep"
    /\ proc' = [proc EXCEPT ![p].pc = "check"]
    /\ UNCHANGED <<released, installed, cache, tmp, disturbed, shown>>

\* The user quits, or the process is killed: nothing waits for the thread.
Quit(p) ==
    /\ proc[p].pc # "off"
    /\ proc' = [proc EXCEPT ![p] = Off]
    /\ UNCHANGED <<released, installed, cache, tmp, disturbed, shown>>

Day ==
    /\ cache' = Aged(cache) /\ tmp' = Aged(tmp)
    /\ proc' = [p \in Procs |-> [proc[p] EXCEPT !.mem.fresh = FALSE]]
    /\ UNCHANGED <<released, installed, disturbed, shown>>

Release ==
    /\ released < MaxVersion
    /\ released' = released + 1
    /\ UNCHANGED <<installed, cache, tmp, proc, disturbed, shown>>

\* The user installs the latest release; what runs stays what it is.
Upgrade ==
    /\ installed < released
    /\ installed' = released
    /\ UNCHANGED <<released, cache, tmp, proc, disturbed, shown>>

Step(p) ==
    \/ StartLoad(p) \/ MarkLoad(p) \/ Draw(p)
    \/ Check(p) \/ RequestSucceeds(p) \/ RequestFails(p) \/ LoadPrevious(p)
    \/ OpenTemporary(p) \/ WriteTemporary(p) \/ WriteFails(p) \/ Rename(p) \/ RenameFails(p)
    \/ Wake(p)

Next ==
    \/ Day \/ Release \/ Upgrade
    \/ \E p \in Procs :
        \/ Step(p) \/ Quit(p)
        \/ \E kind \in KindsOf[p] : Start(p, kind)

Spec == Init /\ [][Next]_vars

\* Time passes, running processes go on, and the server answers now and then.
Fairness ==
    /\ WF_vars(Day)
    /\ \A p \in Procs : WF_vars(Step(p)) /\ SF_vars(RequestSucceeds(p))

FairSpec == Spec /\ Fairness

-----------------------------------------------------------------------------
Process == [pc : {"off", "start", "mark", "draw", "check", "request", "previous",
                  "open", "write", "rename", "again", "sleep"},
            kind : {"tui", "update"}, version : Versions, mem : Result, fd : Files,
            notice : Versions \union {None}, message : BOOLEAN]

\* Every variable has its type; a process runs a version that was installed, and
\* the command has only the steps of a check.
TypeOK ==
    /\ released \in Versions /\ installed \in 1..released
    /\ cache \in File /\ tmp \in File
    /\ proc \in [Procs -> Process]
    /\ \A p \in Procs :
        /\ proc[p].version <= installed
        /\ proc[p].kind = "update" =>
               proc[p].pc \notin {"start", "mark", "draw", "check", "sleep"}
    /\ disturbed \in BOOLEAN
    /\ shown \in [Versions -> 0..2]

\* An update that a terminal UI announces is newer than the version that runs,
\* and has been released: whatever other processes, of whatever version, have
\* left in the cache (run_tui, check_if_due).
NoticeIsAnUpdate ==
    \A p \in Procs : proc[p].notice # None => proc[p].notice \in (proc[p].version + 1)..released

\* One process at a time, however it is killed, leaves a cache that can be
\* read, and the temporary file is what makes it so (save_cache).
CacheIsWhole == ~disturbed => cache.is \in {"whole", "none"}

\* One process at a time draws the startup message of a release at most once:
\* it is marked before it is drawn, and a later check keeps the mark
\* (mark_startup_notified, check_now_at).
StartupMessageOnce == \A v \in Versions : shown[v] <= 1

\* A terminal UI that stays open and has the cache for itself announces the
\* latest release in the end, in whatever state others have left the two files
\* (start_update_checks, check_if_due).
NewReleaseIsNoticed ==
    \A p \in Procs :
        []<>(\/ Running # {p} \/ proc[p].kind = "update"
             \/ proc[p].version = released \/ proc[p].notice = released)

\* "Successful results are cached for 24 hours": what a check has saved is
\* there until a later check replaces it (save_cache).
ResultsStayCached == [][cache.is # "none" => cache'.is # "none"]_vars
=============================================================================
