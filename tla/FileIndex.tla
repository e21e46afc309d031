----------------------------- MODULE FileIndex -----------------------------
(***************************************************************************)
(* The list of files that the prompt completes (tui/file_index): a thread  *)
(* builds it, watches the workspace and builds it again, while the user    *)
(* and other programs create, remove, move and add files; the UI takes the *)
(* latest list at each turn of its loop and joins the thread when it ends. *)
(***************************************************************************)
EXTENDS Naturals, Sequences, SequencesExt, FiniteSets

CONSTANTS
    Dirs,           \* directories of the workspace, in the order of the walk
    Names,          \* names of files
    Repositories,   \* where the git directory may be: "none", "inside", "outside" of the root
    MaxEdits        \* bound: changes of files and of git's index

ASSUME FileIndexAssumption ==
    /\ Repositories \subseteq {"none", "inside", "outside"}
    /\ MaxEdits \in Nat

VARIABLES
    disk,       \* disk[d]: the files of a directory
    tracked,    \* the files in git's index
    repository, \* where the git directory is
    watching,   \* the watches that are registered: "root", "git"
    pending,    \* the watcher's channel holds an event
    worker,     \* the index thread
    channel,    \* the lists sent and not yet received
    ui,         \* "on", "dropping" in FileIndexService::drop, "off"
    shown,      \* the list the UI completes from
    edits       \* number of edits so far

vars == <<disk, tracked, repository, watching, pending, worker, channel, ui, shown, edits>>
environment == <<disk, tracked, repository, edits>>

Files == {Dirs[i] : i \in DOMAIN Dirs} \X Names
Snapshot == [kind : {"Git", "Filesystem"}, files : SUBSET Files]
NoList == [kind |-> "Filesystem", files |-> {}]

OnDisk == {file \in Files : file[2] \in disk[file[1]]}

\* What build_file_index lists if nothing changes while it does.
Actual == IF repository = "none" THEN [kind |-> "Filesystem", files |-> OnDisk]
          ELSE [kind |-> "Git", files |-> tracked]

Init ==
    /\ disk \in [{Dirs[i] : i \in DOMAIN Dirs} -> SUBSET Names]
    /\ tracked = {}
    /\ repository \in Repositories
    /\ watching = {} /\ pending = FALSE
    /\ worker = [pc |-> "build", then |-> "first", dir |-> 0, list |-> NoList, current |-> NoList]
    /\ channel = <<>>
    /\ ui = "on" /\ shown = NoList
    /\ edits = 0

-----------------------------------------------------------------------------
(***************************************************************************)
(* The environment.  A change is an event where a watch covers it.         *)
(***************************************************************************)
Edited(file, other) ==              \* file is created, removed, or moved to other
    {[disk EXCEPT ![file[1]] = @ \union {file[2]}],
     [disk EXCEPT ![file[1]] = @ \ {file[2]}],
     [disk EXCEPT ![file[1]] = @ \ {file[2]}, ![other] = @ \union {file[2]}]}

Edit ==
    /\ edits < MaxEdits /\ edits' = edits + 1
    /\ \E file \in Files, other \in DOMAIN disk :
        other # file[1] /\ disk' \in Edited(file, other)
    /\ pending' = (pending \/ "root" \in watching)
    /\ UNCHANGED <<tracked, repository, watching, worker, channel, ui, shown>>

CoversGit == "git" \in watching \/ (repository = "inside" /\ "root" \in watching)

\* git add, git rm, a checkout.
Track ==
    /\ repository # "none"
    /\ edits < MaxEdits /\ edits' = edits + 1
    /\ tracked' \in SUBSET Files
    /\ pending' = (pending \/ CoversGit)
    /\ UNCHANGED <<disk, repository, watching, worker, channel, ui, shown>>

\* git init in the root.
CreateRepository ==
    /\ repository = "none"
    /\ edits < MaxEdits /\ edits' = edits + 1
    /\ repository' = "inside"
    /\ pending' = (pending \/ "root" \in watching)
    /\ UNCHANGED <<disk, tracked, watching, worker, channel, ui, shown>>

\* Events that change no list: the content of a file, an access, an error.
Noise ==
    /\ watching # {} /\ ~pending
    /\ pending' = TRUE
    /\ UNCHANGED <<environment, watching, worker, channel, ui, shown>>

-----------------------------------------------------------------------------
(***************************************************************************)
(* build_file_index: one git command, or a walk through the directories.   *)
(***************************************************************************)
Built(list) == [worker EXCEPT !.pc = worker.then, !.dir = 0, !.list = list]

Build ==
    /\ worker.pc = "build" /\ worker.dir = 0
    /\ worker' = IF repository # "none" THEN Built(Actual)
                 ELSE [worker EXCEPT !.dir = 1, !.list = NoList]
    /\ UNCHANGED <<environment, watching, pending, channel, ui, shown>>

VisitDirectory ==
    /\ worker.pc = "build" /\ worker.dir # 0
    /\ LET here == {file \in OnDisk : file[1] = Dirs[worker.dir]}
           list == [worker.list EXCEPT !.files = @ \union here]
       IN  worker' = IF worker.dir = Len(Dirs) THEN Built(list)
                     ELSE [worker EXCEPT !.dir = @ + 1, !.list = list]
    /\ UNCHANGED <<environment, watching, pending, channel, ui, shown>>

At(pc) == [worker EXCEPT !.pc = pc, !.list = NoList]

\* The first list is sent before the watcher exists.
SendFirst ==
    /\ worker.pc = "first"
    /\ channel' = Append(channel, worker.list)
    /\ worker' = [At("watch") EXCEPT !.current = worker.list]
    /\ UNCHANGED <<environment, watching, pending, ui, shown>>

\* No watcher, no thread; a watch that is refused is ignored.
CreateWatcher ==
    /\ worker.pc = "watch"
    /\ \/ worker' = At("done")
       \/ worker' = At("watch root")
    /\ UNCHANGED <<environment, watching, pending, channel, ui, shown>>

WatchRoot ==
    /\ worker.pc = "watch root"
    /\ watching' \in {{}, {"root"}}
    /\ worker' = At("watch git")
    /\ UNCHANGED <<environment, pending, channel, ui, shown>>

Rebuild(after) == [At("build") EXCEPT !.then = after]

WatchGitDoesNotReconcile ==         \* mutant: the first list is trusted
    /\ worker.pc = "watch git"
    /\ watching' \in {watching} \union (IF repository = "none" THEN {} ELSE {watching \union {"git"}})
    /\ worker' = At("loop")
    /\ UNCHANGED <<environment, pending, channel, ui, shown>>

WatchGit ==
    /\ worker.pc = "watch git"
    /\ watching' \in {watching} \union (IF repository = "none" THEN {} ELSE {watching \union {"git"}})
    /\ worker' = Rebuild("refreshed")
    /\ UNCHANGED <<environment, pending, channel, ui, shown>>

\* A list is sent if it differs from the last one.
Refresh ==
    /\ worker.pc = "refreshed"
    /\ channel' = IF worker.list # worker.current THEN Append(channel, worker.list) ELSE channel
    /\ worker' = [At("loop") EXCEPT !.current = worker.list]
    /\ UNCHANGED <<environment, watching, pending, ui, shown>>

-----------------------------------------------------------------------------
(***************************************************************************)
(* The loop: an event opens a debounce of fixed length that swallows the   *)
(* events that follow.  Both loops look for a shutdown before they wait.   *)
(***************************************************************************)
LoopOnlyWaits ==                    \* mutant: only a debounce looks for a shutdown
    /\ worker.pc = "loop"
    /\ worker' = At("wait")
    /\ UNCHANGED <<environment, watching, pending, channel, ui, shown>>

Loop ==
    /\ worker.pc = "loop"
    /\ worker' = At(IF ui = "dropping" THEN "done" ELSE "wait")
    /\ UNCHANGED <<environment, watching, pending, channel, ui, shown>>

\* recv_timeout: an event, or 50 ms without one.
Wait ==
    /\ worker.pc = "wait"
    /\ worker' = At(IF pending THEN "debounce" ELSE "loop")
    /\ pending' = FALSE
    /\ UNCHANGED <<environment, watching, channel, ui, shown>>

Debounce ==
    /\ worker.pc = "debounce"
    /\ worker' = At(IF ui = "dropping" THEN "done" ELSE "swallow")
    /\ UNCHANGED <<environment, watching, pending, channel, ui, shown>>

Swallow ==
    /\ worker.pc = "swallow"
    /\ worker' = At("debounce")
    /\ pending' = FALSE
    /\ UNCHANGED <<environment, watching, channel, ui, shown>>

Deadline ==
    /\ worker.pc = "debounce"
    /\ worker' = Rebuild("refreshed")
    /\ UNCHANGED <<environment, watching, pending, channel, ui, shown>>

-----------------------------------------------------------------------------
\* try_recv_latest at each turn of run_app_loop.
TakeLatest ==
    /\ ui = "on" /\ channel # <<>>
    /\ shown' = Last(channel) /\ channel' = <<>>
    /\ UNCHANGED <<environment, watching, pending, worker, ui>>

Drop ==
    /\ ui = "on"
    /\ ui' = "dropping"
    /\ UNCHANGED <<environment, watching, pending, worker, channel, shown>>

Join ==
    /\ ui = "dropping" /\ worker.pc = "done"
    /\ ui' = "off"
    /\ UNCHANGED <<environment, watching, pending, worker, channel, shown>>

Thread ==
    \/ Build \/ VisitDirectory \/ SendFirst \/ CreateWatcher \/ WatchRoot \/ WatchGit
    \/ Refresh \/ Loop \/ Wait \/ Debounce \/ Swallow \/ Deadline

Next ==
    \/ Edit \/ Track \/ CreateRepository \/ Noise
    \/ Thread
    \/ TakeLatest \/ Drop \/ Join

Spec == Init /\ [][Next]_vars

\* Both threads run, and the deadline passes however many events there are.
Fairness == WF_vars(Thread) /\ SF_vars(Deadline) /\ WF_vars(TakeLatest) /\ WF_vars(Join)

FairSpec == Spec /\ Fairness

-----------------------------------------------------------------------------
\* The list travels through the channel only as often as it may have changed:
\* at the start, and twice for an edit that a walk sees half of.
TypeOK ==
    /\ disk \in [{Dirs[i] : i \in DOMAIN Dirs} -> SUBSET Names]
    /\ tracked \subseteq Files
    /\ repository \in {"none", "inside", "outside"}
    /\ watching \subseteq {"root", "git"} /\ pending \in BOOLEAN
    /\ worker.dir \in 0..Len(Dirs)
    /\ worker.list \in Snapshot /\ worker.current \in Snapshot
    /\ channel \in Seq(Snapshot) /\ Len(channel) <= 2 + 2 * edits
    /\ ui \in {"on", "dropping", "off"}
    /\ shown \in Snapshot
    /\ edits \in 0..MaxEdits

\* A change that a watch covers, or that was made before the watches were
\* registered, is in the list that the UI shows in the end: "Reconciliation
\* closes the race where files change after the first snapshot but before
\* notifications are active" (run_index_thread, try_recv_latest).
Covered == worker.pc \in {"watch root", "watch git"}
           \/ ("root" \in watching /\ (repository = "outside" => CoversGit))
IndexFollowsDisk ==
    []<>(ui # "on" \/ worker.pc = "done" \/ shown = Actual \/ (worker.pc \in {"loop", "wait"} /\ ~Covered))

\* However busy the workspace, leaving the terminal UI ends the thread
\* (FileIndexService::drop).
QuitEnds == ui = "dropping" ~> ui = "off"
=============================================================================
