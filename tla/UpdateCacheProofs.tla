------------------------- MODULE UpdateCacheProofs -------------------------
(***************************************************************************)
(* Theorems about UpdateCache, for any number of processes of either kind  *)
(* and any number of releases: what is announced is an update, and the     *)
(* startup message of a release is drawn at most once.                     *)
(***************************************************************************)
EXTENDS UpdateCache, TLAPS

-----------------------------------------------------------------------------
(***************************************************************************)
(* Types.                                                                  *)
(***************************************************************************)

\* Nothing is a result, and the absent process a process.
LEMMA NothingType ==
    /\ Nothing \in Result /\ Nothing.latest = 1
    /\ Off \in Process /\ Off.pc = "off" /\ Off.kind = "tui" /\ Off.version = 1
    /\ Off.mem = Nothing /\ Off.notice = None /\ Off.message = FALSE /\ Off.fd = "closed"
    /\ 1 \in Versions
  BY UpdateAssumption DEF Nothing, Result, Off, Process, Versions, None, Files

\* What is written to a file is a file.
LEMMA OverwriteType ==
    ASSUME NEW file \in File, NEW result \in Result
    PROVE  Overwrite(file, result) \in File
  BY NothingType DEF Overwrite, File, Unreadable

\* So is a file that has nothing in it.
LEMMA UnreadableType ==
    ASSUME NEW what \in {"none", "empty", "torn"}
    PROVE  Unreadable(what) \in File
  BY NothingType DEF Unreadable, File

\* A process that has finished with a check sleeps, or has ended; only a process
\* that has to draw its startup message goes on to that.
LEMMA GiveUpType ==
    ASSUME NEW state \in Process
    PROVE  /\ GiveUp(state) \in Process
           /\ GiveUp(state).version \in {1, state.version}
           /\ GiveUp(state).kind = "update" => GiveUp(state).pc = "off"
           /\ GiveUp(state).pc \in {"sleep", "off"}
  <1>1. CASE state.kind = "update"
    BY <1>1, NothingType DEF GiveUp
  <1>2. CASE state.kind # "update"
    <2>1. GiveUp(state) = [state EXCEPT !.pc = "sleep", !.fd = "closed", !.mem = Nothing]
      BY <1>2 DEF GiveUp
    <2> QED BY <1>2, <2>1, NothingType DEF Process, Files
  <1> QED BY <1>1, <1>2

\* A process that announces an update is well typed, and done if it is the command.
LEMMA AnnounceType ==
    ASSUME NEW state \in Process
    PROVE  /\ Announce(state) \in Process
           /\ Announce(state).version \in {1, state.version}
           /\ Announce(state).kind = "update" => Announce(state).pc = "off"
           /\ Announce(state).pc \in {"sleep", "off"}
  <1>1. CASE state.kind = "update"
    BY <1>1, NothingType DEF Announce
  <1>2. CASE state.kind # "update"
    <2> DEFINE notice == IF state.mem.latest > state.mem.current THEN state.mem.latest
                         ELSE state.notice
    <2>1. notice \in Versions \union {None}
      BY DEF Process, Result
    <2>2. Announce(state) = [state EXCEPT !.pc = "sleep", !.fd = "closed", !.mem = Nothing,
                                          !.notice = notice]
      BY <1>2 DEF Announce
    <2> HIDE DEF notice
    <2> QED BY <1>2, <2>1, <2>2, NothingType DEF Process, Files
  <1> QED BY <1>1, <1>2

\* So is a process after saving the cache, or failing to.
LEMMA FinishedType ==
    ASSUME NEW state \in Process, NEW next \in {AfterSave(state), AfterError(state)}
    PROVE  /\ next \in Process
           /\ next.version \in {1, state.version}
           /\ next.kind = "update" => next.pc = "off"
  <1>1. CASE state.kind = "tui" /\ state.message
    <2>1. next = [state EXCEPT !.pc = "draw", !.fd = "closed"]
      BY <1>1 DEF AfterSave, AfterError
    <2> QED BY <1>1, <2>1 DEF Process, Files
  <1>2. CASE ~(state.kind = "tui" /\ state.message)
    BY <1>2, GiveUpType, AnnounceType DEF AfterSave, AfterError
  <1> QED BY <1>1, <1>2

-----------------------------------------------------------------------------
(***************************************************************************)
(* What a step of one process may do to the others: nothing, but for the   *)
(* handles that follow their file.                                         *)
(***************************************************************************)
OfItsVersion(state) ==
    /\ state \in Process /\ state.version <= installed
    /\ state.kind = "update" =>
           state.pc \notin {"start", "mark", "draw", "check", "sleep"}

Others(p) ==
    \A q \in Procs \ {p} : \E fd \in Files : proc'[q] = [proc[q] EXCEPT !.fd = fd]

Onward(p) ==
    /\ proc' \in [Procs -> Process] /\ OfItsVersion(proc'[p]) /\ Others(p)
    /\ UNCHANGED <<released, installed>>

\* Where one process goes on, so that its record is next, the others keep theirs.
LEMMA GoesOn ==
    ASSUME TypeOK, NEW p \in Procs, NEW next, OfItsVersion(next),
           proc' = [proc EXCEPT ![p] = next], UNCHANGED <<released, installed>>
    PROVE  Onward(p)
  <1>1. next \in Process /\ proc \in [Procs -> Process]
    BY DEF TypeOK, OfItsVersion
  <1>2. proc' \in [Procs -> Process] /\ proc'[p] = next
    BY <1>1
  <1>3. ASSUME NEW q \in Procs \ {p}
        PROVE  proc[q].fd \in Files /\ proc'[q] = [proc[q] EXCEPT !.fd = proc[q].fd]
    <2>1. proc'[q] = proc[q] /\ proc[q] \in Process
      BY <1>1
    <2> QED BY <2>1 DEF Process
  <1>4. Others(p)
    BY <1>3 DEF Others
  <1> QED BY <1>2, <1>4 DEF Onward

\* The same where the handles of the others follow a file.
LEMMA GoesOnWithHandles ==
    ASSUME TypeOK, NEW moved \in {Moved, Dropped}, NEW p \in Procs, NEW next,
           OfItsVersion(next), proc' = Handles(moved, p, next), UNCHANGED <<released, installed>>
    PROVE  Onward(p)
  <1>1. moved \in [Files -> Files]
    BY DEF Moved, Dropped, Files
  <1>2. ASSUME NEW q \in Procs PROVE proc[q] \in Process /\ proc[q].fd \in Files
    BY DEF TypeOK, Process
  <1>3. proc'[p] = next /\ next \in Process
    BY DEF Handles, OfItsVersion
  <1>4. ASSUME NEW q \in Procs \ {p}
        PROVE  /\ proc'[q] = [proc[q] EXCEPT !.fd = moved[proc[q].fd]]
               /\ moved[proc[q].fd] \in Files
    BY <1>1, <1>2 DEF Handles
  <1>5. ASSUME NEW q \in Procs \ {p} PROVE proc'[q] \in Process
    BY <1>2, <1>4 DEF Process
  <1>6. proc' \in [Procs -> Process]
    <2>1. proc' = [q \in Procs |-> proc'[q]]
      BY DEF Handles
    <2> QED BY <1>3, <1>5, <2>1
  <1>7. Others(p)
    BY <1>4 DEF Others
  <1> QED BY <1>3, <1>6, <1>7 DEF Onward

\* Such a step keeps every process of its type.
LEMMA OnwardType ==
    ASSUME TypeOK, NEW p \in Procs, Onward(p), cache' \in File, tmp' \in File,
           disturbed' \in BOOLEAN, shown' \in [Versions -> 0..2]
    PROVE  TypeOK'
  <1>1. ASSUME NEW q \in Procs
        PROVE  /\ proc'[q].version <= installed
               /\ proc'[q].kind = "update" =>
                      proc'[q].pc \notin {"start", "mark", "draw", "check", "sleep"}
    <2>1. CASE q = p
      BY <2>1 DEF Onward, OfItsVersion
    <2>2. CASE q # p
      <3>1. PICK fd \in Files : proc'[q] = [proc[q] EXCEPT !.fd = fd]
        BY <2>2 DEF Onward, Others
      <3> QED BY <3>1 DEF TypeOK, Process
    <2> QED BY <2>1, <2>2
  <1> QED BY <1>1 DEF TypeOK, Onward

\* Every step of one process is of that form.
LEMMA EveryStepOnward ==
    ASSUME TypeOK, NEW p \in Procs,
           Step(p) \/ Quit(p) \/ \E kind \in KindsOf[p] : Start(p, kind)
    PROVE  Onward(p) /\ TypeOK'
  <1>1. OfItsVersion(proc[p]) /\ proc[p] \in Process
    BY DEF TypeOK, OfItsVersion
  <1>2. installed \in Nat /\ installed \in Versions /\ 1 <= installed
        /\ released \in Versions
    BY UpdateAssumption DEF TypeOK, Versions
  <1>3. proc[p].version \in Nat /\ 1 <= proc[p].version /\ proc[p].mem \in Result
        /\ proc[p].version \in Versions /\ proc[p].notice \in Versions \union {None}
    BY <1>1 DEF Process, Versions
  <1>4. cache.result \in Result /\ tmp.result \in Result
    BY DEF TypeOK, File
  <1>5. cache \in File /\ tmp \in File /\ disturbed \in BOOLEAN /\ shown \in [Versions -> 0..2]
    BY DEF TypeOK
  <1>6. OfItsVersion(Off)
    BY <1>2, NothingType DEF OfItsVersion
  <1>7. ASSUME NEW state \in Process, state.version = proc[p].version
        PROVE  /\ OfItsVersion(Announce(state)) /\ OfItsVersion(GiveUp(state))
               /\ OfItsVersion(AfterSave(state)) /\ OfItsVersion(AfterError(state))
    <2>1. state.version \in Nat /\ state.version <= installed
      BY <1>1, <1>3, <1>7 DEF OfItsVersion
    <2> QED BY <1>2, <2>1, <1>7, AnnounceType, GiveUpType, FinishedType DEF OfItsVersion
  <1>10. ASSUME NEW kind \in KindsOf[p], Start(p, kind) PROVE Onward(p) /\ TypeOK'
    <2> DEFINE mem == [Nothing EXCEPT !.fresh = (kind = "update")]
               first == IF kind = "tui" THEN "start" ELSE "request"
               next == [Off EXCEPT !.pc = first, !.kind = kind, !.version = installed,
                                   !.mem.fresh = kind = "update"]
    <2>1. kind \in {"tui", "update"}
      BY UpdateAssumption
    <2>2. mem \in Result
      BY NothingType DEF Result
    <2>3. OfItsVersion(next)
      <3>1. first \in {"start", "request"} /\ (kind = "update" => first = "request")
        BY <2>1
      <3>2. next = [Off EXCEPT !.pc = first, !.kind = kind, !.version = installed, !.mem = mem]
        BY NothingType, Zenon
      <3> HIDE DEF mem, first, next
      <3>3. next \in Process
        BY <1>2, <2>1, <2>2, <3>1, <3>2, NothingType DEF Process
      <3>4. next.version = installed /\ next.kind = kind /\ next.pc = first
        BY <3>2, NothingType DEF Process
      <3> QED BY <1>2, <3>1, <3>3, <3>4 DEF OfItsVersion
    <2>4. proc' = [proc EXCEPT ![p] = next] /\ disturbed' \in BOOLEAN
          /\ UNCHANGED <<released, installed, cache, tmp, shown>>
      BY <1>10, <1>5 DEF Start
    <2> HIDE DEF next
    <2>5. Onward(p)
      BY <2>3, <2>4, GoesOn
    <2> QED BY <1>5, <2>4, <2>5, OnwardType
  <1>11. CASE Quit(p)
    <2>1. Onward(p)
      BY <1>6, <1>11, GoesOn DEF Quit
    <2> QED BY <1>5, <1>11, <2>1, OnwardType DEF Quit
  <1>12. CASE StartLoad(p)
    <2>1. OfItsVersion(proc'[p]) /\ proc' = [proc EXCEPT ![p] = proc'[p]]
      <3>1. CASE ~Loads \/ cache.result.current # proc[p].version
                 \/ cache.result.latest <= cache.result.current
        <4>1. proc' = [proc EXCEPT ![p] = [proc[p] EXCEPT !.pc = "draw"]]
          BY <1>12, <3>1 DEF StartLoad
        <4>2. OfItsVersion([proc[p] EXCEPT !.pc = "draw"])
          BY <1>1, <1>12 DEF OfItsVersion, Process, StartLoad
        <4> QED BY <4>1, <4>2 DEF TypeOK
      <3>2. CASE ~(~Loads \/ cache.result.current # proc[p].version
                   \/ cache.result.latest <= cache.result.current)
        <4> DEFINE message == cache.result.notified # cache.result.latest
                   next == [proc[p] EXCEPT !.notice = cache.result.latest, !.message = message,
                                           !.pc = IF message THEN "mark" ELSE "draw"]
        <4>1. proc' = [proc EXCEPT ![p] = next]
          BY <1>12, <3>2 DEF StartLoad
        <4>2. OfItsVersion(next)
          BY <1>1, <1>4, <1>12 DEF OfItsVersion, Process, Result, StartLoad
        <4> HIDE DEF next
        <4> QED BY <4>1, <4>2 DEF TypeOK
      <3> QED BY <3>1, <3>2
    <2>2. Onward(p)
      BY <1>12, <2>1, GoesOn DEF StartLoad
    <2> QED BY <1>5, <1>12, <2>2, OnwardType DEF StartLoad
  <1>13. CASE MarkLoad(p)
    <2> DEFINE marked == [cache.result EXCEPT !.notified = proc[p].notice]
               next == IF Loads THEN [proc[p] EXCEPT !.mem = marked, !.pc = "open"]
                                ELSE [proc[p] EXCEPT !.pc = "draw"]
    <2>1. marked \in Result
      BY <1>3, <1>4 DEF Result
    <2>2. OfItsVersion(next)
      <3> HIDE DEF marked
      <3> QED BY <1>1, <1>13, <2>1 DEF OfItsVersion, Process, MarkLoad
    <2>3. proc' = [proc EXCEPT ![p] = next]
      BY <1>13 DEF MarkLoad
    <2> HIDE DEF next
    <2>4. Onward(p)
      BY <1>13, <2>2, <2>3, GoesOn DEF MarkLoad
    <2> QED BY <1>5, <1>13, <2>4, OnwardType DEF MarkLoad
  <1>14. CASE Draw(p)
    <2> DEFINE next == [proc[p] EXCEPT !.pc = "check", !.mem = Nothing, !.message = FALSE]
    <2>1. OfItsVersion(next)
      BY <1>1, <1>14, NothingType DEF OfItsVersion, Process, Draw
    <2>2. proc' = [proc EXCEPT ![p] = next]
      BY <1>14 DEF Draw
    <2>3. shown' \in [Versions -> 0..2]
      <3>1. CASE shown' = shown
        BY <1>5, <3>1
      <3>2. CASE shown' = [shown EXCEPT ![proc[p].notice] = IF @ < 2 THEN @ + 1 ELSE @]
        <4>1. \A v \in Versions : shown'[v] \in 0..2
          BY <1>5, <3>2
        <4> QED BY <1>5, <3>2, <4>1
      <3> QED BY <1>14, <3>1, <3>2 DEF Draw
    <2> HIDE DEF next
    <2>4. Onward(p)
      BY <1>14, <2>1, <2>2, GoesOn DEF Draw
    <2> QED BY <1>5, <1>14, <2>3, <2>4, OnwardType DEF Draw
  <1>15. CASE Check(p)
    <2> DEFINE found == [proc[p] EXCEPT !.mem = cache.result]
               asked == [proc[p] EXCEPT !.pc = "request", !.mem.fresh = TRUE]
               next == IF Loads /\ cache.result.current = proc[p].version /\ cache.result.fresh
                       THEN Announce(found) ELSE asked
    <2>1. found \in Process /\ found.version = proc[p].version
      BY <1>1, <1>4 DEF Process
    <2>2. [proc[p].mem EXCEPT !.fresh = TRUE] \in Result
      BY <1>3 DEF Result
    <2>3. OfItsVersion(asked)
      BY <1>1, <2>2 DEF OfItsVersion, Process
    <2>4. OfItsVersion(next)
      <3> HIDE DEF found, asked
      <3> QED BY <1>7, <2>1, <2>3
    <2>5. proc' = [proc EXCEPT ![p] = next]
      BY <1>15 DEF Check
    <2> HIDE DEF next
    <2>6. Onward(p)
      BY <1>15, <2>4, <2>5, GoesOn DEF Check
    <2> QED BY <1>5, <1>15, <2>6, OnwardType DEF Check
  <1>16. CASE RequestSucceeds(p)
    <2> DEFINE next == [proc[p] EXCEPT !.pc = "previous", !.mem.latest = released]
    <2>1. [proc[p].mem EXCEPT !.latest = released] \in Result
      BY <1>2, <1>3 DEF Result
    <2>2. OfItsVersion(next)
      BY <1>1, <2>1 DEF OfItsVersion, Process
    <2>3. proc' = [proc EXCEPT ![p] = next]
      BY <1>16 DEF RequestSucceeds
    <2> HIDE DEF next
    <2>4. Onward(p)
      BY <1>16, <2>2, <2>3, GoesOn DEF RequestSucceeds
    <2> QED BY <1>5, <1>16, <2>4, OnwardType DEF RequestSucceeds
  <1>17. CASE RequestFails(p)
    <2>1. Onward(p)
      BY <1>1, <1>7, <1>17, GoesOn DEF RequestFails
    <2> QED BY <1>5, <1>17, <2>1, OnwardType DEF RequestFails
  <1>18. CASE LoadPrevious(p)
    <2> DEFINE kept == IF Loads THEN cache.result.notified ELSE None
               mem == [proc[p].mem EXCEPT !.current = proc[p].version, !.notified = kept]
               next == [proc[p] EXCEPT !.pc = "open", !.mem = mem]
    <2>1. mem \in Result
      BY <1>3, <1>4 DEF Result
    <2>2. proc' = [proc EXCEPT ![p] = next]
      BY <1>1, <1>18 DEF LoadPrevious, Process, Result
    <2> HIDE DEF mem
    <2>3. OfItsVersion(next)
      BY <1>1, <2>1 DEF OfItsVersion, Process
    <2> HIDE DEF next
    <2>4. Onward(p)
      BY <1>18, <2>2, <2>3, GoesOn DEF LoadPrevious
    <2> QED BY <1>5, <1>18, <2>4, OnwardType DEF LoadPrevious
  <1>19. CASE OpenTemporary(p)
    <2> DEFINE next == [proc[p] EXCEPT !.pc = "write", !.fd = "tmp"]
    <2>1. OfItsVersion(next)
      BY <1>1 DEF OfItsVersion, Process, Files
    <2>2. proc' = [proc EXCEPT ![p] = next]
      BY <1>19 DEF OpenTemporary
    <2> HIDE DEF next
    <2>3. Onward(p)
      BY <1>19, <2>1, <2>2, GoesOn DEF OpenTemporary
    <2> QED BY <1>5, <1>19, <2>3, UnreadableType, OnwardType DEF OpenTemporary
  <1>20. CASE WriteTemporary(p)
    <2> DEFINE next == [proc[p] EXCEPT !.pc = "rename", !.fd = "closed"]
    <2>1. OfItsVersion(next)
      BY <1>1 DEF OfItsVersion, Process, Files
    <2>2. proc' = [proc EXCEPT ![p] = next]
      BY <1>20 DEF WriteTemporary
    <2> HIDE DEF next
    <2>3. Onward(p)
      BY <1>20, <2>1, <2>2, GoesOn DEF WriteTemporary
    <2>4. cache' \in File /\ tmp' \in File
      BY <1>3, <1>5, <1>20, OverwriteType DEF WriteTemporary
    <2> QED BY <1>5, <1>20, <2>3, <2>4, OnwardType DEF WriteTemporary
  <1>21. CASE WriteFails(p)
    <2>1. Onward(p)
      BY <1>1, <1>7, <1>21, GoesOn DEF WriteFails
    <2> QED BY <1>5, <1>21, <2>1, OnwardType DEF WriteFails
  <1>22. CASE Rename(p)
    <2>1. Onward(p)
      BY <1>1, <1>7, <1>22, GoesOnWithHandles DEF Rename
    <2> QED BY <1>5, <1>22, <2>1, UnreadableType, OnwardType DEF Rename
  <1>23. CASE RenameFails(p)
    <2>1. CASE proc[p].pc = "rename" /\ cache.is # "none"
      <3> DEFINE next == [proc[p] EXCEPT !.pc = "again"]
      <3>1. OfItsVersion(next)
        BY <1>1 DEF OfItsVersion, Process
      <3>2. proc' = Handles(Dropped, p, next) /\ cache' = Unreadable("none")
            /\ UNCHANGED <<released, installed, tmp, disturbed, shown>>
        BY <1>23, <2>1 DEF RenameFails
      <3> HIDE DEF next
      <3>3. Onward(p)
        BY <3>1, <3>2, GoesOnWithHandles
      <3> QED BY <1>5, <3>2, <3>3, UnreadableType, OnwardType
    <2>2. CASE ~(proc[p].pc = "rename" /\ cache.is # "none")
      <3>1. proc' = [proc EXCEPT ![p] = AfterError(proc[p])]
            /\ UNCHANGED <<released, installed, cache, tmp, disturbed, shown>>
        BY <1>23, <2>2 DEF RenameFails
      <3>2. Onward(p)
        BY <1>1, <1>7, <3>1, GoesOn
      <3> QED BY <1>5, <3>1, <3>2, OnwardType
    <2> QED BY <2>1, <2>2
  <1>24. CASE Wake(p)
    <2> DEFINE next == [proc[p] EXCEPT !.pc = "check"]
    <2>1. OfItsVersion(next)
      BY <1>1, <1>24 DEF OfItsVersion, Process, Wake
    <2>2. proc' = [proc EXCEPT ![p] = next]
      BY <1>24 DEF Wake
    <2> HIDE DEF next
    <2>3. Onward(p)
      BY <1>24, <2>1, <2>2, GoesOn DEF Wake
    <2> QED BY <1>5, <1>24, <2>3, OnwardType DEF Wake
  <1> QED
    BY <1>10, <1>11, <1>12, <1>13, <1>14, <1>15, <1>16, <1>17, <1>18, <1>19, <1>20, <1>21,
       <1>22, <1>23, <1>24 DEF Step

\* What passes outside the processes leaves them of their type, too.
LEMMA DayType ==
    ASSUME TypeOK, Day
    PROVE  TypeOK'
  <1>1. ASSUME NEW file \in File PROVE Aged(file) \in File
    <2>1. [file.result EXCEPT !.fresh = FALSE] \in Result
      BY DEF File, Result
    <2>2. Aged(file) = [file EXCEPT !.result = [file.result EXCEPT !.fresh = FALSE]]
      BY DEF Aged
    <2> QED BY <2>1, <2>2 DEF File
  <1>2. ASSUME NEW p \in Procs
        PROVE  /\ proc'[p] \in Process /\ proc'[p].version = proc[p].version
               /\ proc'[p].kind = proc[p].kind /\ proc'[p].pc = proc[p].pc
    <2>1. proc[p] \in Process /\ proc[p].mem \in Result
      BY DEF TypeOK, Process
    <2>2. [proc[p].mem EXCEPT !.fresh = FALSE] \in Result
      BY <2>1 DEF Result
    <2>3. proc'[p] = [proc[p] EXCEPT !.mem = [proc[p].mem EXCEPT !.fresh = FALSE]]
      BY DEF Day
    <2> QED BY <2>1, <2>2, <2>3 DEF Process
  <1>3. proc' \in [Procs -> Process]
    BY <1>2 DEF Day
  <1>4. cache' \in File /\ tmp' \in File
    BY <1>1 DEF Day, TypeOK
  <1> QED BY <1>2, <1>3, <1>4 DEF Day, TypeOK

\* Every step keeps the types.
LEMMA TypeStep ==
    ASSUME TypeOK, [Next]_vars
    PROVE  TypeOK'
  <1>1. CASE Day
    BY <1>1, DayType
  <1>2. CASE Release
    BY <1>2, UpdateAssumption DEF Release, TypeOK, Versions
  <1>3. CASE Upgrade
    <2>1. \A p \in Procs : proc[p].version \in Nat
      BY DEF TypeOK, Process, Versions
    <2> QED BY <1>3, <2>1 DEF Upgrade, TypeOK, Versions
  <1>4. ASSUME NEW p \in Procs,
               Step(p) \/ Quit(p) \/ \E kind \in KindsOf[p] : Start(p, kind)
        PROVE  TypeOK'
    BY <1>4, EveryStepOnward
  <1>5. CASE UNCHANGED vars
    BY <1>5 DEF vars, TypeOK
  <1> QED BY <1>1, <1>2, <1>3, <1>4, <1>5 DEF Next

\* Every variable keeps its type, and every process runs a version that was
\* installed.
THEOREM TypeCorrect == Spec => []TypeOK
  <1>1. ASSUME Init PROVE TypeOK
    <2>1. released \in Versions /\ installed \in 1..released
      BY <1>1, UpdateAssumption DEF Init, Versions
    <2>2. cache \in File /\ tmp \in File
      BY <1>1, UnreadableType DEF Init
    <2>3. \A p \in Procs : proc[p] = Off
      BY <1>1 DEF Init
    <2>4. proc \in [Procs -> Process]
      BY <1>1, NothingType DEF Init
    <2>5. shown \in [Versions -> 0..2]
      BY <1>1 DEF Init
    <2>8. disturbed \in BOOLEAN
      BY <1>1 DEF Init
    <2>6. installed = 1
      BY <1>1 DEF Init
    <2>7. ASSUME NEW p \in Procs PROVE proc[p].version <= installed /\ proc[p].kind # "update"
      BY <2>3, <2>6, NothingType
    <2> QED BY <2>1, <2>2, <2>4, <2>5, <2>7, <2>8 DEF TypeOK
  <1> QED BY <1>1, TypeStep, PTL DEF Spec

-----------------------------------------------------------------------------
(***************************************************************************)
(* What makes an announced update one: no result tells of a version that   *)
(* is not released, and a result is announced by the version it was found  *)
(* for.                                                                    *)
(***************************************************************************)
NoticeOf(state) ==
    /\ state.notice # None => state.notice \in (state.version + 1)..released
    /\ state.mem.latest <= released
    /\ state.pc = "mark" => state.message
    /\ state.pc \in {"open", "write", "rename", "again"} /\ ~state.message =>
           state.mem.current = state.version

NoticeInv ==
    /\ cache.result.latest <= released /\ tmp.result.latest <= released
    /\ \A p \in Procs : NoticeOf(proc[p])

\* A check that found a result for the version that runs, or that a command did,
\* leaves an update announced at most; one that failed leaves things as they are.
LEMMA CheckedNotice ==
    ASSUME TypeOK, NEW state \in Process, state.mem.latest <= released,
           state.notice # None => state.notice \in (state.version + 1)..released,
           NEW next \in {Announce(state), GiveUp(state)},
           next = GiveUp(state) \/ state.kind = "update" \/ state.mem.current = state.version
    PROVE  NoticeOf(next)
  <1>1. NoticeOf(Off)
    BY NothingType, UpdateAssumption DEF NoticeOf, TypeOK, Versions
  <1>2. CASE state.kind = "update"
    BY <1>1, <1>2 DEF Announce, GiveUp
  <1>3. CASE state.kind # "update" /\ next = GiveUp(state)
    <2>1. next = [state EXCEPT !.pc = "sleep", !.fd = "closed", !.mem = Nothing]
      BY <1>3 DEF GiveUp
    <2> QED BY <2>1, NothingType DEF NoticeOf, Process, TypeOK, Versions
  <1>4. CASE state.kind # "update" /\ next = Announce(state) /\ state.mem.current = state.version
    <2> DEFINE notice == IF state.mem.latest > state.mem.current THEN state.mem.latest
                         ELSE state.notice
    <2>1. notice # None => notice \in (state.version + 1)..released
      BY <1>4 DEF Process, Result, Versions, TypeOK
    <2>2. next = [state EXCEPT !.pc = "sleep", !.fd = "closed", !.mem = Nothing,
                               !.notice = notice]
      BY <1>4 DEF Announce
    <2> HIDE DEF notice
    <2> QED BY <2>1, <2>2, NothingType DEF NoticeOf, Process, TypeOK, Versions
  <1> QED BY <1>2, <1>3, <1>4

\* After a save, and where one has failed.
LEMMA SavedNotice ==
    ASSUME TypeOK, NEW state \in Process, NoticeOf(state),
           state.pc \in {"open", "rename", "again"},
           NEW next \in {AfterSave(state), AfterError(state)}
    PROVE  NoticeOf(next)
  <1>1. CASE state.kind = "tui" /\ state.message
    <2>1. next = [state EXCEPT !.pc = "draw", !.fd = "closed"]
      BY <1>1 DEF AfterSave, AfterError
    <2> QED BY <2>1 DEF NoticeOf, Process
  <1>2. CASE ~(state.kind = "tui" /\ state.message)
    <2>1. next \in {Announce(state), GiveUp(state)}
      BY <1>2 DEF AfterSave, AfterError
    <2>2. state.kind = "update" \/ state.mem.current = state.version
      BY <1>2 DEF NoticeOf, Process
    <2> QED BY <2>1, <2>2, CheckedNotice DEF NoticeOf
  <1> QED BY <1>1, <1>2

\* A step of one process.
LEMMA OnwardNotice ==
    ASSUME TypeOK, NoticeInv, NEW p \in Procs,
           Step(p) \/ Quit(p) \/ \E kind \in KindsOf[p] : Start(p, kind)
    PROVE  NoticeInv'
  <1>1. Onward(p) /\ released' = released
    BY EveryStepOnward DEF Onward
  <1>2. ASSUME NEW q \in Procs \ {p} PROVE NoticeOf(proc[q])'
    <2>1. PICK fd \in Files : proc'[q] = [proc[q] EXCEPT !.fd = fd]
      BY <1>1 DEF Onward, Others
    <2> QED BY <1>1, <2>1 DEF NoticeOf, NoticeInv, TypeOK, Process
  <1>3. SUFFICES (cache.result.latest <= released)' /\ (tmp.result.latest <= released)'
                 /\ NoticeOf(proc[p])'
    BY <1>2 DEF NoticeInv
  <1>4. proc[p] \in Process /\ NoticeOf(proc[p]) /\ proc \in [Procs -> Process]
    BY DEF TypeOK, NoticeInv
  <1>5. /\ cache.result.latest <= released /\ tmp.result.latest <= released
        /\ proc[p].mem.latest <= released
    BY <1>4 DEF NoticeInv, NoticeOf
  <1>6. Nothing.latest <= released /\ released \in Nat /\ 1 <= released
    BY NothingType DEF TypeOK, Versions
  <1>7. NoticeOf(proc'[p]) => NoticeOf(proc[p])'
    BY <1>1 DEF NoticeOf
  <1>8. cache.result \in Result /\ tmp.result \in Result /\ proc[p].mem \in Result
    BY <1>4 DEF TypeOK, File, Process
  <1>9. NoticeOf(Off)
    BY <1>6, NothingType DEF NoticeOf
  <1>10. ASSUME NEW kind \in KindsOf[p], Start(p, kind)
         PROVE  (cache.result.latest <= released)' /\ (tmp.result.latest <= released)'
                /\ NoticeOf(proc[p])'
    <2> DEFINE fresh == [Off.mem EXCEPT !.fresh = kind = "update"]
               next == [Off EXCEPT !.pc = IF kind = "tui" THEN "start" ELSE "request",
                                   !.kind = kind, !.version = installed,
                                   !.mem.fresh = kind = "update"]
    <2>3. proc'[p] = next
      BY <1>4, <1>10 DEF Start
    <2>4. next.mem = fresh /\ next.notice = None /\ next.pc \in {"start", "request"}
      BY NothingType DEF Process
    <2>5. fresh.latest = 1
      BY NothingType DEF Result
    <2>1. /\ proc'[p].notice = None /\ proc'[p].mem.latest = 1
          /\ proc'[p].pc \in {"start", "request"}
      <3> HIDE DEF next, fresh
      <3> QED BY <2>3, <2>4, <2>5
    <2>2. NoticeOf(proc'[p])
      BY <1>6, <2>1 DEF NoticeOf
    <2> QED BY <1>1, <1>5, <1>7, <1>10, <2>2 DEF Start
  <1>11. CASE Quit(p)
    BY <1>1, <1>4, <1>5, <1>7, <1>9, <1>11 DEF Quit
  <1>12. CASE StartLoad(p)
    <2>1. CASE ~Loads \/ cache.result.current # proc[p].version
               \/ cache.result.latest <= cache.result.current
      <3>1. proc'[p] = [proc[p] EXCEPT !.pc = "draw"]
        BY <1>4, <1>12, <2>1 DEF StartLoad
      <3>2. NoticeOf(proc'[p])
        BY <1>4, <3>1 DEF NoticeOf, Process
      <3> QED BY <1>1, <1>5, <1>7, <1>12, <3>2 DEF StartLoad
    <2>2. CASE ~(~Loads \/ cache.result.current # proc[p].version
                 \/ cache.result.latest <= cache.result.current)
      <3> DEFINE message == cache.result.notified # cache.result.latest
      <3>1. proc'[p] = [proc[p] EXCEPT !.notice = cache.result.latest, !.message = message,
                                       !.pc = IF message THEN "mark" ELSE "draw"]
        BY <1>4, <1>12, <2>2 DEF StartLoad
      <3>2. cache.result.latest \in (proc[p].version + 1)..released
        BY <1>4, <1>5, <1>6, <1>8, <2>2 DEF Result, Versions, Process
      <3> HIDE DEF message
      <3>3. NoticeOf(proc'[p])
        BY <1>4, <3>1, <3>2 DEF NoticeOf, Process
      <3> QED BY <1>1, <1>5, <1>7, <1>12, <3>3 DEF StartLoad
    <2> QED BY <2>1, <2>2
  <1>13. CASE MarkLoad(p)
    <2>1. CASE Loads
      <3> DEFINE marked == [cache.result EXCEPT !.notified = proc[p].notice]
      <3>1. proc'[p] = [proc[p] EXCEPT !.mem = marked, !.pc = "open"]
        BY <1>4, <1>13, <2>1 DEF MarkLoad
      <3>2. marked.latest <= released
        BY <1>5, <1>8 DEF Result
      <3> HIDE DEF marked
      <3>3. NoticeOf(proc'[p])
        BY <1>4, <1>13, <3>1, <3>2 DEF NoticeOf, Process, MarkLoad
      <3> QED BY <1>1, <1>5, <1>7, <1>13, <3>3 DEF MarkLoad
    <2>2. CASE ~Loads
      <3>1. proc'[p] = [proc[p] EXCEPT !.pc = "draw"]
        BY <1>4, <1>13, <2>2 DEF MarkLoad
      <3>2. NoticeOf(proc'[p])
        BY <1>4, <3>1 DEF NoticeOf, Process
      <3> QED BY <1>1, <1>5, <1>7, <1>13, <3>2 DEF MarkLoad
    <2> QED BY <2>1, <2>2
  <1>14. CASE Draw(p)
    <2>1. proc'[p] = [proc[p] EXCEPT !.pc = "check", !.mem = Nothing, !.message = FALSE]
      BY <1>4, <1>14 DEF Draw
    <2>2. NoticeOf(proc'[p])
      BY <1>4, <1>6, <2>1 DEF NoticeOf, Process
    <2> QED BY <1>1, <1>5, <1>7, <1>14, <2>2 DEF Draw
  <1>15. CASE Check(p)
    <2>1. CASE Loads /\ cache.result.current = proc[p].version /\ cache.result.fresh
      <3> DEFINE found == [proc[p] EXCEPT !.mem = cache.result]
      <3>1. proc'[p] = Announce(found)
        BY <1>4, <1>15, <2>1 DEF Check
      <3>2. /\ found \in Process /\ found.mem = cache.result
            /\ found.version = proc[p].version /\ found.notice = proc[p].notice
        BY <1>4, <1>8 DEF Process
      <3> HIDE DEF found
      <3>3. NoticeOf(Announce(found))
        BY <1>4, <1>5, <2>1, <3>2, CheckedNotice DEF NoticeOf
      <3> QED BY <1>1, <1>5, <1>7, <1>15, <3>1, <3>3 DEF Check
    <2>2. CASE ~(Loads /\ cache.result.current = proc[p].version /\ cache.result.fresh)
      <3> DEFINE fresh == [proc[p].mem EXCEPT !.fresh = TRUE]
      <3>1. proc'[p] = [proc[p] EXCEPT !.pc = "request", !.mem = fresh]
        BY <1>4, <1>15, <2>2 DEF Check
      <3>2. fresh.latest = proc[p].mem.latest
        BY <1>8 DEF Result
      <3> HIDE DEF fresh
      <3>3. NoticeOf(proc'[p])
        BY <1>4, <3>1, <3>2 DEF NoticeOf, Process
      <3> QED BY <1>1, <1>5, <1>7, <1>15, <3>3 DEF Check
    <2> QED BY <2>1, <2>2
  <1>16. CASE RequestSucceeds(p)
    <2> DEFINE found == [proc[p].mem EXCEPT !.latest = released]
    <2>1. proc'[p] = [proc[p] EXCEPT !.pc = "previous", !.mem = found]
      BY <1>4, <1>16 DEF RequestSucceeds
    <2>2. found.latest = released
      BY <1>8 DEF Result
    <2> HIDE DEF found
    <2>3. NoticeOf(proc'[p])
      BY <1>4, <1>6, <2>1, <2>2 DEF NoticeOf, Process
    <2> QED BY <1>1, <1>5, <1>7, <1>16, <2>3 DEF RequestSucceeds
  <1>17. CASE RequestFails(p)
    <2>1. proc'[p] = GiveUp(proc[p])
      BY <1>4, <1>17 DEF RequestFails
    <2>2. NoticeOf(GiveUp(proc[p]))
      BY <1>4, CheckedNotice DEF NoticeOf
    <2> QED BY <1>1, <1>5, <1>7, <1>17, <2>1, <2>2 DEF RequestFails
  <1>18. CASE LoadPrevious(p)
    <2> DEFINE kept == IF Loads THEN cache.result.notified ELSE None
               mem == [proc[p].mem EXCEPT !.current = proc[p].version, !.notified = kept]
    <2>1. proc'[p] = [proc[p] EXCEPT !.pc = "open", !.mem = mem]
      BY <1>4, <1>18 DEF LoadPrevious, Process, Result
    <2>2. mem.latest = proc[p].mem.latest /\ mem.current = proc[p].version
      BY <1>8 DEF Result
    <2> HIDE DEF mem
    <2>3. NoticeOf(proc'[p])
      BY <1>4, <2>1, <2>2 DEF NoticeOf, Process
    <2> QED BY <1>1, <1>5, <1>7, <1>18, <2>3 DEF LoadPrevious
  <1>19. CASE OpenTemporary(p)
    <2>1. proc'[p] = [proc[p] EXCEPT !.pc = "write", !.fd = "tmp"]
      BY <1>4, <1>19 DEF OpenTemporary
    <2>2. NoticeOf(proc'[p])
      BY <1>4, <1>19, <2>1 DEF NoticeOf, Process, OpenTemporary
    <2> QED BY <1>1, <1>5, <1>6, <1>7, <1>19, <2>2 DEF OpenTemporary, Unreadable
  <1>20. CASE WriteTemporary(p)
    <2>1. proc'[p] = [proc[p] EXCEPT !.pc = "rename", !.fd = "closed"]
      BY <1>4, <1>20 DEF WriteTemporary
    <2>2. NoticeOf(proc'[p])
      BY <1>4, <1>20, <2>1 DEF NoticeOf, Process, WriteTemporary
    <2>3. ASSUME NEW file \in {cache, tmp}
          PROVE  Overwrite(file, proc[p].mem).result.latest <= released
      BY <1>5, <1>6 DEF Overwrite, Unreadable
    <2> QED BY <1>1, <1>5, <1>7, <1>20, <2>2, <2>3 DEF WriteTemporary
  <1>21. CASE WriteFails(p)
    <2>1. proc'[p] = AfterError(proc[p]) /\ NoticeOf(AfterError(proc[p]))
      BY <1>4, <1>21, SavedNotice DEF WriteFails
    <2> QED BY <1>1, <1>5, <1>7, <1>21, <2>1 DEF WriteFails
  <1>22. CASE Rename(p)
    <2>1. proc'[p] = AfterSave(proc[p]) /\ NoticeOf(AfterSave(proc[p]))
      BY <1>4, <1>22, SavedNotice DEF Rename, Handles
    <2> QED BY <1>1, <1>5, <1>6, <1>7, <1>22, <2>1 DEF Rename, Unreadable
  <1>23. CASE RenameFails(p)
    <2>1. CASE proc[p].pc = "rename" /\ cache.is # "none"
      <3>1. proc'[p] = [proc[p] EXCEPT !.pc = "again"] /\ cache' = Unreadable("none")
        BY <1>4, <1>23, <2>1 DEF RenameFails, Handles
      <3>2. NoticeOf(proc'[p])
        BY <1>4, <2>1, <3>1 DEF NoticeOf, Process
      <3> QED BY <1>1, <1>5, <1>6, <1>7, <1>23, <3>1, <3>2 DEF RenameFails, Unreadable
    <2>2. CASE ~(proc[p].pc = "rename" /\ cache.is # "none")
      <3>1. proc'[p] = AfterError(proc[p]) /\ NoticeOf(AfterError(proc[p])) /\ cache' = cache
        BY <1>4, <1>23, <2>2, SavedNotice DEF RenameFails
      <3> QED BY <1>1, <1>5, <1>7, <1>23, <3>1 DEF RenameFails
    <2> QED BY <2>1, <2>2
  <1>24. CASE Wake(p)
    <2>1. proc'[p] = [proc[p] EXCEPT !.pc = "check"]
      BY <1>4, <1>24 DEF Wake
    <2>2. NoticeOf(proc'[p])
      BY <1>4, <2>1 DEF NoticeOf, Process
    <2> QED BY <1>1, <1>5, <1>7, <1>24, <2>2 DEF Wake
  <1> QED
    BY <1>10, <1>11, <1>12, <1>13, <1>14, <1>15, <1>16, <1>17, <1>18, <1>19, <1>20, <1>21,
       <1>22, <1>23, <1>24 DEF Step

\* Every step keeps the invariant of the notices.
LEMMA NoticeStep ==
    ASSUME TypeOK, NoticeInv, [Next]_vars
    PROVE  NoticeInv'
  <1>1. CASE Day
    <2>1. \A file \in {cache, tmp} : file.result.latest <= released =>
                Aged(file).result.latest <= released
      BY DEF Aged, TypeOK, File, Result
    <2>2. ASSUME NEW p \in Procs PROVE NoticeOf(proc[p])'
      <3> DEFINE mem == [proc[p].mem EXCEPT !.fresh = FALSE]
      <3>1. proc[p] \in Process /\ proc[p].mem \in Result /\ NoticeOf(proc[p])
        BY DEF TypeOK, Process, NoticeInv
      <3>2. proc'[p] = [proc[p] EXCEPT !.mem = mem] /\ released' = released
        BY <1>1 DEF Day
      <3>3. mem.latest = proc[p].mem.latest /\ mem.current = proc[p].mem.current
        BY <3>1 DEF Result
      <3> HIDE DEF mem
      <3> QED BY <3>1, <3>2, <3>3 DEF NoticeOf, Process
    <2> QED BY <1>1, <2>1, <2>2 DEF Day, NoticeInv
  <1>2. CASE Release
    <2>1. ASSUME NEW state \in Process, NoticeOf(state) PROVE NoticeOf(state)'
      BY <1>2, <2>1 DEF Release, NoticeOf, TypeOK, Process, Result, Versions
    <2>2. \A p \in Procs : proc[p] \in Process /\ proc'[p] = proc[p]
      BY <1>2 DEF TypeOK, Release
    <2>3. \A p \in Procs : NoticeOf(proc[p])'
      BY <2>1, <2>2 DEF NoticeInv, NoticeOf
    <2> QED BY <1>2, <2>3 DEF Release, NoticeInv, TypeOK, File, Result, Versions
  <1>3. CASE Upgrade
    BY <1>3 DEF Upgrade, NoticeInv, NoticeOf
  <1>4. ASSUME NEW p \in Procs,
               Step(p) \/ Quit(p) \/ \E kind \in KindsOf[p] : Start(p, kind)
        PROVE  NoticeInv'
    BY <1>4, OnwardNotice
  <1>5. CASE UNCHANGED vars
    BY <1>5 DEF vars, NoticeInv, NoticeOf
  <1> QED BY <1>1, <1>2, <1>3, <1>4, <1>5 DEF Next

\* What a terminal UI announces is a release newer than the version that runs,
\* whatever processes of whatever version share the cache (run_tui,
\* check_if_due).
THEOREM NoticesAreUpdates == Spec => []NoticeIsAnUpdate
  <1>1. Init => NoticeInv
    BY NothingType DEF Init, NoticeInv, NoticeOf, Unreadable
  <1>2. NoticeInv => NoticeIsAnUpdate
    BY DEF NoticeInv, NoticeOf, NoticeIsAnUpdate
  <1> QED BY <1>1, <1>2, TypeCorrect, NoticeStep, PTL DEF Spec

-----------------------------------------------------------------------------
(***************************************************************************)
(* Why a startup message is drawn once: as long as one process runs at a   *)
(* time, the cache never loses a mark, and a message is drawn only after   *)
(* its mark is in the cache.                                               *)
(***************************************************************************)
Marks ==
    /\ cache.is \in {"none", "whole"}
    /\ cache.is = "whole" => cache.result.notified <= cache.result.latest
    /\ \A v \in Versions : shown[v] > 0 => cache.is = "whole" /\ v <= cache.result.notified

\* The process that runs holds the temporary file alone, and what it will save
\* has at least the mark of the cache.
Saving(state) ==
    /\ state.pc # "again"
    /\ state.pc = "write" => state.fd = "tmp" /\ tmp.is = "empty"
    /\ state.pc = "rename" => tmp.is = "whole" /\ tmp.result = state.mem
    /\ state.pc = "previous" /\ Loads => cache.result.latest <= state.mem.latest
    /\ state.pc \in {"open", "write", "rename"} =>
           /\ state.mem.notified <= state.mem.latest
           /\ Loads => cache.result.notified <= state.mem.notified

\* From the mark on the message is newer than the cache's mark, and has not been
\* drawn before.
Telling(state) ==
    /\ state.message => state.pc \in {"mark", "open", "write", "rename", "draw"}
    /\ state.message => Loads /\ state.notice # None
    /\ state.message /\ state.pc # "draw" =>
           state.notice = cache.result.latest /\ cache.result.notified < state.notice
    /\ state.message /\ state.pc \in {"open", "write", "rename"} =>
           state.mem.notified = state.notice
    /\ state.message /\ state.pc = "draw" =>
           cache.result.notified = state.notice /\ shown[state.notice] = 0

\* A process that neither saves nor has a message to tell.
Idle(state) ==
    state.pc \in {"off", "start", "draw", "check", "request", "sleep"} /\ ~state.message

\* What a saving or telling process promises, an idle one promises too.
LEMMA IdleSavesNothing ==
    ASSUME NEW state, Idle(state)
    PROVE  Saving(state) /\ Telling(state)
  BY DEF Idle, Saving, Telling

\* The end of a check without a message to tell.
LEMMA FinishedIdle ==
    ASSUME NEW state \in Process, ~state.message,
           NEW next \in {Announce(state), GiveUp(state), AfterSave(state), AfterError(state)}
    PROVE  Idle(next)
  <1>1. next \in {Announce(state), GiveUp(state)}
    BY DEF AfterSave, AfterError
  <1>2. Idle(GiveUp(state))
    <2>1. CASE state.kind = "update"
      <3>1. GiveUp(state) = Off
        BY <2>1 DEF GiveUp
      <3> QED BY <3>1, NothingType DEF Idle
    <2>2. CASE state.kind # "update"
      <3>1. GiveUp(state) = [state EXCEPT !.pc = "sleep", !.fd = "closed", !.mem = Nothing]
        BY <2>2 DEF GiveUp
      <3> QED BY <3>1 DEF Idle, Process
    <2> QED BY <2>1, <2>2
  <1>3. Idle(Announce(state))
    <2>1. CASE state.kind = "update"
      <3>1. Announce(state) = Off
        BY <2>1 DEF Announce
      <3> QED BY <3>1, NothingType DEF Idle
    <2>2. CASE state.kind # "update"
      <3> DEFINE notice == IF state.mem.latest > state.mem.current THEN state.mem.latest
                           ELSE state.notice
      <3>1. Announce(state) = [state EXCEPT !.pc = "sleep", !.fd = "closed", !.mem = Nothing,
                                            !.notice = notice]
        BY <2>2 DEF Announce
      <3> HIDE DEF notice
      <3> QED BY <3>1 DEF Idle, Process
    <2> QED BY <2>1, <2>2
  <1> QED BY <1>1, <1>2, <1>3

\* What is undisturbed before and after a step.
Undisturbed ==
    /\ \A p, q \in Running : p = q
    /\ Marks
    /\ \A p \in Procs : Saving(proc[p]) /\ Telling(proc[p])

\* One process steps while no other runs.
LEMMA AloneStep ==
    ASSUME TypeOK, Undisturbed, NEW p \in Procs, Onward(p),
           \A q \in Procs \ {p} : proc[q].pc = "off",
           Marks', Saving(proc[p])', Telling(proc[p])'
    PROVE  Undisturbed'
  <1>1. ASSUME NEW q \in Procs \ {p} PROVE proc'[q].pc = "off" /\ ~proc'[q].message
    <2>1. proc[q] \in Process /\ proc[q].pc = "off" /\ Telling(proc[q])
      BY DEF TypeOK, Undisturbed
    <2>3. ~proc[q].message
      BY <2>1 DEF Telling
    <2>2. PICK fd \in Files : proc'[q] = [proc[q] EXCEPT !.fd = fd]
      BY DEF Onward, Others
    <2> QED BY <2>1, <2>2, <2>3 DEF Process
  <1>2. ASSUME NEW q \in Procs \ {p} PROVE Saving(proc[q])' /\ Telling(proc[q])'
    BY <1>1 DEF Saving, Telling
  <1>3. \A q \in Procs : Saving(proc[q])' /\ Telling(proc[q])'
    BY <1>2
  <1>4. \A q \in Running' : q = p
    BY <1>1 DEF Running
  <1> QED BY <1>3, <1>4 DEF Undisturbed

\* The same where the files and what was drawn stay as they are.
LEMMA AloneReads ==
    ASSUME TypeOK, Undisturbed, NEW p \in Procs, Onward(p),
           \A q \in Procs \ {p} : proc[q].pc = "off",
           Saving(proc'[p]), Telling(proc'[p]), UNCHANGED <<cache, tmp, shown>>
    PROVE  Undisturbed'
  <1>1. Marks'
    BY DEF Undisturbed, Marks
  <1>2. Saving(proc[p])'
    BY DEF Saving, Loads
  <1>3. Telling(proc[p])'
    BY DEF Telling, Loads
  <1> QED BY <1>1, <1>2, <1>3, AloneStep

\* A step of the one process that runs keeps the marks.
LEMMA OnwardUndisturbed ==
    ASSUME TypeOK, NoticeInv, Undisturbed, ~disturbed, ~disturbed', NEW p \in Procs,
           Step(p) \/ Quit(p) \/ \E kind \in KindsOf[p] : Start(p, kind)
    PROVE  Undisturbed'
  <1>1. Onward(p)
    BY EveryStepOnward
  <1>2. \A q \in Procs \ {p} : proc[q].pc = "off"
    <2>1. CASE p \in Running
      BY <2>1 DEF Undisturbed, Running
    <2>2. CASE p \notin Running
      <3>1. proc[p].pc = "off"
        BY <2>2 DEF Running
      <3>2. Running = {}
        BY <3>1 DEF Step, Quit, Start, StartLoad, MarkLoad, Draw, Check, RequestSucceeds,
              RequestFails, LoadPrevious, OpenTemporary, WriteTemporary, WriteFails, Rename,
              RenameFails, Wake
      <3> QED BY <3>2 DEF Running
    <2> QED BY <2>1, <2>2
  <1>3. /\ proc[p] \in Process /\ Saving(proc[p]) /\ Telling(proc[p]) /\ Marks
        /\ proc \in [Procs -> Process] /\ NoticeOf(proc[p])
    BY DEF TypeOK, Undisturbed, NoticeInv
  <1>4. /\ cache.result \in Result /\ tmp.result \in Result /\ proc[p].mem \in Result
        /\ proc[p].notice \in Versions \union {None} /\ shown \in [Versions -> 0..2]
    BY <1>3 DEF TypeOK, File, Process
  <1>5. ASSUME Idle(proc'[p]), UNCHANGED <<cache, tmp, shown>> PROVE Undisturbed'
    BY <1>1, <1>2, <1>5, IdleSavesNothing, AloneReads
  <1>10. ASSUME NEW kind \in KindsOf[p], Start(p, kind) PROVE Undisturbed'
    <2> DEFINE next == [Off EXCEPT !.pc = IF kind = "tui" THEN "start" ELSE "request",
                                   !.kind = kind, !.version = installed,
                                   !.mem.fresh = kind = "update"]
    <2>1. proc'[p] = next
      BY <1>3, <1>10 DEF Start
    <2>2. next.pc \in {"start", "request"} /\ ~next.message
      BY NothingType DEF Process
    <2> HIDE DEF next
    <2> QED BY <1>5, <1>10, <2>1, <2>2 DEF Idle, Start
  <1>11. CASE Quit(p)
    BY <1>3, <1>5, <1>11, NothingType DEF Idle, Quit
  <1>12. CASE StartLoad(p)
    <2>1. ~proc[p].message
      BY <1>3, <1>12 DEF Telling, StartLoad
    <2>2. CASE ~Loads \/ cache.result.current # proc[p].version
               \/ cache.result.latest <= cache.result.current
      <3>1. proc'[p] = [proc[p] EXCEPT !.pc = "draw"]
        BY <1>3, <1>12, <2>2 DEF StartLoad
      <3>2. Idle(proc'[p])
        BY <1>3, <2>1, <3>1 DEF Idle, Process
      <3> QED BY <1>5, <1>12, <3>2 DEF StartLoad
    <2>3. CASE ~(~Loads \/ cache.result.current # proc[p].version
                 \/ cache.result.latest <= cache.result.current)
      <3> DEFINE message == cache.result.notified # cache.result.latest
      <3>1. proc'[p] = [proc[p] EXCEPT !.notice = cache.result.latest, !.message = message,
                                       !.pc = IF message THEN "mark" ELSE "draw"]
        BY <1>3, <1>12, <2>3 DEF StartLoad
      <3>2. CASE ~message
        <4>1. Idle(proc'[p])
          BY <1>3, <3>1, <3>2 DEF Idle, Process
        <4> QED BY <1>5, <1>12, <4>1 DEF StartLoad
      <3>3. CASE message
        <4>1. cache.result.notified < cache.result.latest /\ cache.result.latest # None
          BY <1>3, <1>4, <2>3, <3>3 DEF Marks, Loads, Result, Versions, None
        <4>2. proc'[p].pc = "mark" /\ proc'[p].notice = cache.result.latest
          BY <1>3, <3>1, <3>3 DEF Process
        <4>3. Saving(proc'[p]) /\ Telling(proc'[p])
          BY <2>3, <4>1, <4>2 DEF Saving, Telling
        <4> QED BY <1>1, <1>2, <1>12, <4>3, AloneReads DEF StartLoad
      <3> QED BY <3>2, <3>3
    <2> QED BY <2>2, <2>3
  <1>13. CASE MarkLoad(p)
    <2> DEFINE marked == [cache.result EXCEPT !.notified = proc[p].notice]
    <2>1. proc[p].message /\ Loads
      BY <1>3, <1>13 DEF NoticeOf, Telling, MarkLoad
    <2>2. proc'[p] = [proc[p] EXCEPT !.mem = marked, !.pc = "open"]
      BY <1>3, <1>13, <2>1 DEF MarkLoad
    <2>3. marked.notified = proc[p].notice /\ marked.latest = cache.result.latest
      BY <1>4 DEF Result
    <2> HIDE DEF marked
    <2>4. /\ proc'[p].pc = "open" /\ proc'[p].mem = marked /\ proc'[p].message
          /\ proc'[p].notice = proc[p].notice
      BY <1>3, <2>1, <2>2 DEF Process
    <2>5. /\ proc[p].notice = cache.result.latest /\ proc[p].notice # None
          /\ cache.result.notified < proc[p].notice
      BY <1>3, <1>13, <2>1 DEF Telling, MarkLoad
    <2>6. Saving(proc'[p]) /\ Telling(proc'[p])
      BY <1>4, <2>1, <2>3, <2>4, <2>5 DEF Saving, Telling, Result, Versions, None
    <2> QED BY <1>1, <1>2, <1>13, <2>6, AloneReads DEF MarkLoad
  <1>14. CASE Draw(p)
    <2>1. proc'[p] = [proc[p] EXCEPT !.pc = "check", !.mem = Nothing, !.message = FALSE]
      BY <1>3, <1>14 DEF Draw
    <2>2. proc'[p].pc = "check" /\ ~proc'[p].message
      BY <1>3, <2>1 DEF Process
    <2>3. Saving(proc[p])' /\ Telling(proc[p])'
      BY <2>2 DEF Saving, Telling
    <2>4. cache' = cache
      BY <1>14 DEF Draw
    <2>5. CASE shown' = shown
      BY <1>1, <1>2, <1>3, <2>3, <2>4, <2>5, AloneStep DEF Marks
    <2>6. CASE proc[p].message /\ shown' # shown
      <3>1. shown' = [shown EXCEPT ![proc[p].notice] = IF @ < 2 THEN @ + 1 ELSE @]
        BY <1>14, <2>6 DEF Draw
      <3>2. Loads /\ cache.result.notified = proc[p].notice
        BY <1>3, <1>14, <2>6 DEF Telling, Draw
      <3>3. cache.result.notified \in Nat
        BY <1>4 DEF Result, Versions, None
      <3>4. ASSUME NEW v \in Versions, shown'[v] > 0
            PROVE  cache.is = "whole" /\ v <= cache.result.notified
        <4>1. CASE v = proc[p].notice
          BY <3>2, <3>3, <4>1 DEF Loads
        <4>2. CASE v # proc[p].notice
          <5>1. shown'[v] = shown[v]
            BY <1>4, <3>1, <4>2
          <5> QED BY <1>3, <3>4, <5>1 DEF Marks
        <4> QED BY <4>1, <4>2
      <3>5. Marks'
        BY <1>3, <2>4, <3>4 DEF Marks
      <3> QED BY <1>1, <1>2, <2>3, <3>5, AloneStep
    <2> QED BY <1>14, <2>5, <2>6 DEF Draw
  <1>15. CASE Check(p)
    <2>1. ~proc[p].message
      BY <1>3, <1>15 DEF Telling, Check
    <2>2. CASE Loads /\ cache.result.current = proc[p].version /\ cache.result.fresh
      <3> DEFINE found == [proc[p] EXCEPT !.mem = cache.result]
      <3>1. proc'[p] = Announce(found)
        BY <1>3, <1>15, <2>2 DEF Check
      <3>2. found \in Process /\ ~found.message
        BY <1>3, <1>4, <2>1 DEF Process
      <3> HIDE DEF found
      <3>3. Idle(proc'[p])
        BY <3>1, <3>2, FinishedIdle
      <3> QED BY <1>5, <1>15, <3>3 DEF Check
    <2>3. CASE ~(Loads /\ cache.result.current = proc[p].version /\ cache.result.fresh)
      <3>1. proc'[p] = [proc[p] EXCEPT !.pc = "request", !.mem.fresh = TRUE]
        BY <1>3, <1>15, <2>3 DEF Check
      <3>2. Idle(proc'[p])
        BY <1>3, <2>1, <3>1 DEF Process, Idle
      <3> QED BY <1>5, <1>15, <3>2 DEF Check
    <2> QED BY <2>2, <2>3
  <1>16. CASE RequestSucceeds(p)
    <2> DEFINE found == [proc[p].mem EXCEPT !.latest = released]
    <2>1. ~proc[p].message
      BY <1>3, <1>16 DEF Telling, RequestSucceeds
    <2>2. proc'[p] = [proc[p] EXCEPT !.pc = "previous", !.mem = found]
      BY <1>3, <1>16 DEF RequestSucceeds
    <2>3. found.latest = released
      BY <1>4 DEF Result
    <2> HIDE DEF found
    <2>4. proc'[p].pc = "previous" /\ proc'[p].mem = found /\ ~proc'[p].message
      BY <1>3, <2>1, <2>2 DEF Process
    <2>5. Saving(proc'[p]) /\ Telling(proc'[p])
      BY <2>3, <2>4 DEF Saving, Telling, NoticeInv
    <2> QED BY <1>1, <1>2, <1>16, <2>5, AloneReads DEF RequestSucceeds
  <1>17. CASE RequestFails(p)
    <2>1. proc'[p] = GiveUp(proc[p])
      BY <1>3, <1>17 DEF RequestFails
    <2>2. ~proc[p].message
      BY <1>3, <1>17 DEF Telling, RequestFails
    <2>3. Idle(proc'[p])
      BY <1>3, <2>1, <2>2, FinishedIdle
    <2> QED BY <1>5, <1>17, <2>3 DEF RequestFails
  <1>18. CASE LoadPrevious(p)
    <2> DEFINE kept == IF Loads THEN cache.result.notified ELSE None
               mem == [proc[p].mem EXCEPT !.current = proc[p].version, !.notified = kept]
    <2>1. ~proc[p].message
      BY <1>3, <1>18 DEF Telling, LoadPrevious
    <2>2. proc'[p] = [proc[p] EXCEPT !.pc = "open", !.mem = mem]
      BY <1>3, <1>18 DEF LoadPrevious, Process, Result
    <2>3. mem.latest = proc[p].mem.latest /\ mem.notified = kept
      BY <1>4 DEF Result
    <2>4. /\ Loads => cache.result.notified <= kept
          /\ kept <= proc[p].mem.latest
      <3>1. CASE Loads
        <4>1. cache.result.latest <= proc[p].mem.latest
          BY <1>3, <1>18, <3>1 DEF Saving, LoadPrevious
        <4>2. cache.result.notified <= cache.result.latest
          BY <1>3, <3>1 DEF Marks, Loads
        <4> QED BY <1>4, <3>1, <4>1, <4>2 DEF Result, Versions, None
      <3>2. CASE ~Loads
        BY <1>4, <3>2 DEF Result, Versions, None
      <3> QED BY <3>1, <3>2
    <2> HIDE DEF mem, kept
    <2>5. proc'[p].pc = "open" /\ proc'[p].mem = mem /\ ~proc'[p].message
      BY <1>3, <2>1, <2>2 DEF Process
    <2>6. Saving(proc'[p]) /\ Telling(proc'[p])
      BY <2>3, <2>4, <2>5 DEF Saving, Telling
    <2> QED BY <1>1, <1>2, <1>18, <2>6, AloneReads DEF LoadPrevious
  <1>19. CASE OpenTemporary(p)
    <2>1. proc'[p] = [proc[p] EXCEPT !.pc = "write", !.fd = "tmp"]
      BY <1>3, <1>19 DEF OpenTemporary
    <2>2. /\ proc'[p].pc = "write" /\ proc'[p].fd = "tmp" /\ proc'[p].mem = proc[p].mem
          /\ proc'[p].message = proc[p].message /\ proc'[p].notice = proc[p].notice
      BY <1>3, <2>1 DEF Process
    <2>3. tmp'.is = "empty" /\ cache' = cache /\ shown' = shown /\ proc[p].pc = "open"
      BY <1>19 DEF OpenTemporary, Unreadable
    <2>4. Marks' /\ Saving(proc[p])' /\ Telling(proc[p])'
      BY <1>3, <2>2, <2>3 DEF Marks, Saving, Telling, Loads
    <2> QED BY <1>1, <1>2, <2>4, AloneStep
  <1>20. CASE WriteTemporary(p)
    <2>1. proc'[p] = [proc[p] EXCEPT !.pc = "rename", !.fd = "closed"]
      BY <1>3, <1>20 DEF WriteTemporary
    <2>2. /\ proc'[p].pc = "rename" /\ proc'[p].mem = proc[p].mem
          /\ proc'[p].message = proc[p].message /\ proc'[p].notice = proc[p].notice
      BY <1>3, <2>1 DEF Process
    <2>3. proc[p].pc = "write" /\ proc[p].fd = "tmp" /\ tmp.is = "empty"
      BY <1>3, <1>20 DEF WriteTemporary, Saving
    <2>4. /\ tmp' = [is |-> "whole", result |-> proc[p].mem]
          /\ cache' = cache /\ shown' = shown
      BY <1>20, <2>3 DEF WriteTemporary, Overwrite
    <2>5. Marks' /\ Saving(proc[p])' /\ Telling(proc[p])'
      BY <1>3, <2>2, <2>3, <2>4 DEF Marks, Saving, Telling, Loads
    <2> QED BY <1>1, <1>2, <2>5, AloneStep
  <1>21. CASE WriteFails(p)
    BY <1>21 DEF WriteFails
  <1>22. CASE Rename(p)
    <2>1. proc[p].pc = "rename" /\ tmp.is = "whole" /\ tmp.result = proc[p].mem
      BY <1>3, <1>22 DEF Saving, Rename
    <2>2. cache' = tmp /\ shown' = shown /\ proc'[p] = AfterSave(proc[p])
      BY <1>3, <1>22 DEF Rename, Handles
    <2>3. /\ proc[p].mem.notified <= proc[p].mem.latest
          /\ Loads => cache.result.notified <= proc[p].mem.notified
      BY <1>3, <2>1 DEF Saving
    <2>4. Marks'
      BY <1>3, <1>4, <2>1, <2>2, <2>3 DEF Marks, Loads, Result, Versions, None
    <2>5. CASE ~proc[p].message
      <3>1. Idle(proc'[p])
        BY <1>3, <2>2, <2>5, FinishedIdle
      <3>2. Saving(proc[p])' /\ Telling(proc[p])'
        BY <3>1 DEF Idle, Saving, Telling
      <3> QED BY <1>1, <1>2, <2>4, <3>2, AloneStep
    <2>6. CASE proc[p].message
      <3>1. Loads /\ proc[p].notice \in Versions /\ cache.result.notified < proc[p].notice
            /\ proc[p].mem.notified = proc[p].notice
        BY <1>3, <1>4, <2>1, <2>6 DEF Telling
      <3>2. shown[proc[p].notice] = 0
        <4>1. ~(shown[proc[p].notice] > 0)
          BY <1>3, <1>4, <3>1 DEF Marks, Result, Versions, None
        <4> QED BY <1>4, <3>1, <4>1
      <3>3. CASE proc[p].kind = "tui"
        <4>1. proc'[p] = [proc[p] EXCEPT !.pc = "draw", !.fd = "closed"]
          BY <2>2, <2>6, <3>3 DEF AfterSave
        <4>2. proc'[p].pc = "draw" /\ proc'[p].notice = proc[p].notice
          BY <1>3, <4>1 DEF Process
        <4>3. Saving(proc[p])' /\ Telling(proc[p])'
          BY <2>1, <2>2, <3>1, <3>2, <4>2 DEF Saving, Telling, Loads, None, Versions
        <4> QED BY <1>1, <1>2, <2>4, <4>3, AloneStep
      <3>4. CASE proc[p].kind # "tui"
        <4>1. proc'[p] = Off
          BY <1>3, <2>2, <3>4 DEF AfterSave, Announce, Process
        <4>2. Saving(proc[p])' /\ Telling(proc[p])'
          BY <4>1, NothingType DEF Saving, Telling
        <4> QED BY <1>1, <1>2, <2>4, <4>2, AloneStep
      <3> QED BY <3>3, <3>4
    <2> QED BY <2>5, <2>6
  <1>23. CASE RenameFails(p)
    BY <1>3, <1>23 DEF RenameFails, Saving
  <1>24. CASE Wake(p)
    <2>1. proc'[p] = [proc[p] EXCEPT !.pc = "check"]
      BY <1>3, <1>24 DEF Wake
    <2>2. ~proc[p].message
      BY <1>3, <1>24 DEF Telling, Wake
    <2>3. Idle(proc'[p])
      BY <1>3, <2>1, <2>2 DEF Process, Idle
    <2> QED BY <1>5, <1>24, <2>3 DEF Wake
  <1> QED
    BY <1>10, <1>11, <1>12, <1>13, <1>14, <1>15, <1>16, <1>17, <1>18, <1>19, <1>20, <1>21,
       <1>22, <1>23, <1>24 DEF Step

\* Nothing else disturbs it: time passes, and versions are released and installed.
LEMMA DayUndisturbed ==
    ASSUME TypeOK, Undisturbed, Day
    PROVE  Undisturbed'
  <1>1. ASSUME NEW file \in {cache, tmp}
        PROVE  /\ Aged(file).is = file.is
               /\ Aged(file).result = [file.result EXCEPT !.fresh = FALSE]
               /\ Aged(file).result.latest = file.result.latest
               /\ Aged(file).result.notified = file.result.notified
    BY DEF Aged, TypeOK, File, Result
  <1>2. cache' = Aged(cache) /\ tmp' = Aged(tmp) /\ shown' = shown
    BY DEF Day
  <1>3. ASSUME NEW p \in Procs
        PROVE  proc'[p].pc = proc[p].pc /\ Saving(proc[p])' /\ Telling(proc[p])'
    <2> DEFINE mem == [proc[p].mem EXCEPT !.fresh = FALSE]
    <2>1. proc[p] \in Process /\ proc[p].mem \in Result /\ Saving(proc[p]) /\ Telling(proc[p])
      BY DEF TypeOK, Process, Undisturbed
    <2>2. proc'[p] = [proc[p] EXCEPT !.mem = mem]
      BY DEF Day
    <2>3. mem.latest = proc[p].mem.latest /\ mem.notified = proc[p].mem.notified
      BY <2>1 DEF Result
    <2>4. tmp.result = proc[p].mem => tmp'.result = mem
      BY <1>1, <1>2
    <2> HIDE DEF mem
    <2>5. /\ proc'[p].pc = proc[p].pc /\ proc'[p].mem = mem /\ proc'[p].fd = proc[p].fd
          /\ proc'[p].message = proc[p].message /\ proc'[p].notice = proc[p].notice
      BY <2>1, <2>2 DEF Process
    <2>6. /\ cache'.is = cache.is /\ tmp'.is = tmp.is
          /\ cache'.result.latest = cache.result.latest
          /\ cache'.result.notified = cache.result.notified
      BY <1>1, <1>2
    <2>7. Saving(proc[p])'
      BY <2>1, <2>3, <2>4, <2>5, <2>6 DEF Saving, Loads
    <2>8. Telling(proc[p])'
      BY <1>2, <2>1, <2>3, <2>5, <2>6 DEF Telling, Loads
    <2> QED BY <2>5, <2>7, <2>8
  <1>4. Running' = Running
    BY <1>3 DEF Running
  <1>5. Marks'
    BY <1>1, <1>2 DEF Undisturbed, Marks
  <1> QED BY <1>3, <1>4, <1>5 DEF Undisturbed

OnceInv == StartupMessageOnce /\ (~disturbed => Undisturbed)

\* Every step keeps the invariant of the startup message.
LEMMA OnceStep ==
    ASSUME TypeOK, NoticeInv, OnceInv, [Next]_vars
    PROVE  OnceInv'
  <1>1. CASE Day
    BY <1>1, DayUndisturbed DEF OnceInv, StartupMessageOnce, Day
  <1>2. CASE UNCHANGED <<cache, tmp, proc, disturbed, shown>>
    BY <1>2 DEF OnceInv, StartupMessageOnce, Undisturbed, Marks, Saving, Telling, Running, Loads
  <1>3. ASSUME NEW p \in Procs,
               Step(p) \/ Quit(p) \/ \E kind \in KindsOf[p] : Start(p, kind)
        PROVE  OnceInv'
    <2>1. disturbed => disturbed'
      BY <1>3 DEF Step, Quit, Start, StartLoad, MarkLoad, Draw, Check, RequestSucceeds,
            RequestFails, LoadPrevious, OpenTemporary, WriteTemporary, WriteFails, Rename,
            RenameFails, Wake
    <2>2. ~disturbed' => Undisturbed'
      BY <1>3, <2>1, OnwardUndisturbed DEF OnceInv
    <2>3. StartupMessageOnce'
      <3>1. CASE shown' = shown
        BY <3>1 DEF OnceInv, StartupMessageOnce
      <3>2. CASE shown' # shown
        <4>1. Draw(p) /\ proc[p].message /\ ~disturbed
          BY <1>3, <3>2 DEF Step, Quit, Start, StartLoad, MarkLoad, Draw, Check, RequestSucceeds,
                RequestFails, LoadPrevious, OpenTemporary, WriteTemporary, WriteFails, Rename,
                RenameFails, Wake
        <4>2. Telling(proc[p]) /\ proc[p].pc = "draw" /\ shown \in [Versions -> 0..2]
          BY <4>1 DEF OnceInv, Undisturbed, Draw, TypeOK
        <4>3. shown[proc[p].notice] = 0
          BY <4>1, <4>2 DEF Telling
        <4>4. shown' = [shown EXCEPT ![proc[p].notice] = 1]
          BY <4>1, <4>3 DEF Draw
        <4> QED BY <4>2, <4>4 DEF OnceInv, StartupMessageOnce
      <3> QED BY <3>1, <3>2
    <2> QED BY <2>2, <2>3 DEF OnceInv
  <1> QED BY <1>1, <1>2, <1>3 DEF Next, Release, Upgrade, vars

\* No message is shown, and no process runs, at first.
LEMMA OnceInit ==
    ASSUME Init
    PROVE  OnceInv /\ NoticeInv
  <1>1. OnceInv
    <2>1. \A v \in Versions : shown[v] = 0
      BY DEF Init
    <2>2. \A p \in Procs : proc[p] = Off
      BY DEF Init
    <2>3. cache.is = "none"
      BY DEF Init, Unreadable
    <2>4. \A p \in Procs : Saving(proc[p]) /\ Telling(proc[p])
      BY <2>2, NothingType DEF Saving, Telling
    <2>5. Marks
      BY <2>1, <2>3 DEF Marks
    <2>6. Running = {}
      BY <2>2, NothingType DEF Running
    <2> QED BY <2>1, <2>4, <2>5, <2>6 DEF OnceInv, StartupMessageOnce, Undisturbed
  <1>2. NoticeInv
    BY NothingType DEF Init, NoticeInv, NoticeOf, Unreadable
  <1> QED BY <1>1, <1>2

\* Processes that run one at a time, however they are killed, draw the startup
\* message of a release at most once in all: it is drawn after its mark is in
\* the cache, and every later check keeps the mark (mark_startup_notified,
\* check_now_at).
THEOREM StartupMessagesAreDrawnOnce == Spec => []StartupMessageOnce
  <1>1. Init => OnceInv /\ NoticeInv
    BY OnceInit
  <1>2. OnceInv => StartupMessageOnce
    BY DEF OnceInv
  <1> QED BY <1>1, <1>2, TypeCorrect, NoticeStep, OnceStep, PTL DEF Spec

\* Such processes leave a cache that can be read, or none: what is written is
\* the temporary file (save_cache).
THEOREM CacheStaysWhole == Spec => []CacheIsWhole
  <1>1. Init => OnceInv /\ NoticeInv
    BY OnceInit
  <1>2. OnceInv => CacheIsWhole
    BY DEF OnceInv, Undisturbed, Marks, CacheIsWhole
  <1> QED BY <1>1, <1>2, TypeCorrect, NoticeStep, OnceStep, PTL DEF Spec
=============================================================================
