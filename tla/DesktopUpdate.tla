---------------------------- MODULE DesktopUpdate ----------------------------
(***************************************************************************)
(* The updater of the desktop in its `confirmed-install' delivery:         *)
(* futurestaff-updates.ts runs the checks, futurestaff-update-cache.ts     *)
(* keeps one verified installer on disk across processes, and              *)
(* electron-runtime.ts asks the user, starts the installer and clears the  *)
(* cache once a version is installed.                                      *)
(*                                                                         *)
(* A release is its place in the order of versions; 0 is what was first    *)
(* installed.  A folder made by mkdtemp is a number, never used twice, and *)
(* holds at most one installer.  An action is the code between two awaits, *)
(* so the process can end, and the cleanup of the start can step, between  *)
(* any two of them.                                                        *)
(***************************************************************************)
EXTENDS Naturals

CONSTANTS
  MaxRelease,      \* bound: the newest release the feed serves
  MaxDownloads,    \* bound: folders made
  MaxProcesses,    \* bound: starts of the desktop
  MaxPublished,    \* bound: changes of the feed
  MaxFaults        \* bound: damages to the cached installer from outside

ASSUME BoundsAssumption ==
  {MaxRelease, MaxDownloads, MaxProcesses, MaxPublished, MaxFaults}
    \subseteq Nat

VARIABLES
  feed,        \* the release the signed feed serves
  published, faults, processes, made,  \* what the bounds count
  store,       \* each folder: what it holds
  prepared,    \* the state file
  installed,   \* the version on disk, that of the process once it starts
  installer,   \* what the installer that runs was started from, or Gone
  alive,       \* the desktop runs
  disposed,    \* of the plugin
  run,         \* the check in progress; run.since is a history: what the
               \* feed has served since the user confirmed
  waiting,     \* a manual check is chained behind a background one
  owed,        \* a manual check has not shown its result yet
  clean        \* the cleanup of the start

world == <<feed, published, faults>>
disk == <<store, prepared, made>>
process == <<installed, installer, alive, disposed, processes>>
checks == <<run, waiting, owed>>
vars == <<world, disk, process, checks, clean>>

Releases == 0..MaxRelease
Folders == 1..MaxDownloads
NoState == [rel |-> 0, folder |-> 0]
Idle == [pc |-> "idle", manual |-> FALSE, rel |-> 0, folder |-> 0,
         prev |-> NoState, since |-> {}]
NoCleanup == [pc |-> "off", st |-> NoState]
Gone == [is |-> "absent", rel |-> 0]

Init ==
  /\ feed \in Releases
  /\ published = 0 /\ faults = 0 /\ processes = 0 /\ made = 0
  /\ store = [f \in Folders |-> Gone]
  /\ prepared = NoState
  /\ installed = 0 /\ installer = Gone
  /\ alive = FALSE /\ disposed = FALSE
  /\ run = Idle /\ waiting = FALSE /\ owed = FALSE
  /\ clean = NoCleanup

-----------------------------------------------------------------------------
(* The folders.  confinedPath() throws ENOENT unless the EXE is there.     *)

HasFile(f) == f # 0 /\ store[f].is \in {"part", "whole", "bad"}
Whole(f, r) == f # 0 /\ store[f] = [is |-> "whole", rel |-> r]
Becomes(f, what) == store' = [store EXCEPT ![f] = [is |-> what, rel |-> 0]]

-----------------------------------------------------------------------------
(* A check: apply().run().                                                 *)

At(pc) == alive /\ run.pc = pc
Goes(pc) == run' = [run EXCEPT !.pc = pc]

Starts(manual) == run' = [Idle EXCEPT !.pc = "check", !.manual = manual]

(* Variant: a click always joins the check in progress. *)
MissChained == IF run.pc = "idle" THEN Starts(TRUE) /\ UNCHANGED waiting
                                  ELSE UNCHANGED <<run, waiting>>

(* A click joins a manual check and is chained behind a background one. *)
Chained ==
  IF run.pc = "idle" THEN Starts(TRUE) /\ UNCHANGED waiting
  ELSE waiting' = (waiting \/ ~run.manual) /\ UNCHANGED run

Click ==
  /\ alive /\ ~disposed
  /\ Chained
  /\ owed' = (owed \/ run.pc \notin {"dialog", "notice"})
  /\ UNCHANGED <<world, disk, process, clean>>

Timer ==
  /\ At("idle") /\ ~disposed
  /\ Starts(FALSE)
  /\ UNCHANGED <<world, disk, process, clean, waiting, owed>>

(* The finally of run(), and what is chained behind it. *)
Ends ==
  /\ IF waiting /\ ~disposed THEN Starts(TRUE) ELSE run' = Idle
  /\ waiting' = FALSE

(* The catch of run(): only a manual check says that it failed. *)
Fails ==
  IF run.manual /\ ~disposed
  THEN Goes("notice") /\ owed' = FALSE /\ UNCHANGED waiting
  ELSE Ends /\ UNCHANGED owed

NoticeClosed ==
  /\ At("notice")
  /\ Ends
  /\ UNCHANGED <<world, disk, process, clean, owed>>

CheckAnswered ==
  /\ At("check")
  /\ IF disposed THEN Ends /\ UNCHANGED owed
     ELSE IF feed > installed
     THEN run' = [run EXCEPT !.pc = "state", !.rel = feed]
          /\ UNCHANGED <<waiting, owed>>
     ELSE IF run.manual
     THEN Goes("notice") /\ owed' = FALSE /\ UNCHANGED waiting
     ELSE Ends /\ UNCHANGED owed
  /\ UNCHANGED <<world, disk, process, clean>>

(* A request that is refused, times out or is aborted; a file operation    *)
(* that fails and leaves what it was to read or to remove.                 *)
CheckFails ==
  /\ \E pc \in {"check", "state", "reuse", "repair", "forget", "download",
                "recheck", "verify"} : At(pc)
  /\ Fails
  /\ UNCHANGED <<world, disk, process, clean>>

-----------------------------------------------------------------------------
(* prepareFutureStaffUpdate().                                             *)

ReadState ==
  /\ At("state") /\ ~disposed
  /\ run' = [run EXCEPT !.prev = prepared,
               !.pc = IF prepared.rel = run.rel THEN "reuse" ELSE "download"]
  /\ UNCHANGED <<world, disk, process, clean, waiting, owed>>

(* The installer is at hand: a manual check asks, a background one is over *)
(* (its notification and the label of the tray are left out).              *)
Staged(f) ==
  IF run.manual
  THEN /\ run' = [run EXCEPT !.pc = "dialog", !.folder = f]
       /\ owed' = FALSE /\ UNCHANGED waiting
  ELSE Ends /\ UNCHANGED owed

(* Fails when the signal is aborted, by dispose or after ten minutes.      *)
Reuse ==
  /\ At("reuse") /\ Whole(run.prev.folder, run.rel)
  /\ Fails \/ (~disposed /\ Staged(run.prev.folder))
  /\ UNCHANGED <<world, disk, process, clean>>

(* What does not verify is removed: the EXE, its folder, the state file.   *)
RepairFile ==
  /\ At("reuse") /\ HasFile(run.prev.folder)
  /\ ~Whole(run.prev.folder, run.rel)
  /\ Becomes(run.prev.folder, "empty")
  /\ Goes("repair")
  /\ UNCHANGED <<world, made, prepared, process, clean, waiting, owed>>

RepairFolder ==
  /\ At("repair")
  /\ Becomes(run.prev.folder, "absent")
  /\ Goes("forget")
  /\ UNCHANGED <<world, made, prepared, process, clean, waiting, owed>>

RepairState ==
  /\ \/ At("forget")
     \/ At("reuse") /\ ~HasFile(run.prev.folder)
  /\ prepared' = NoState
  /\ run' = [run EXCEPT !.pc = "download", !.prev = NoState]
  /\ UNCHANGED <<world, made, store, process, clean, waiting, owed>>

(* Variant: the previous installer is removed before the download. *)
EagerDownload ==
  /\ At("download") /\ made < MaxDownloads
  /\ made' = made + 1
  /\ store' = [f \in Folders |-> IF f = made' THEN [is |-> "part", rel |-> 0]
                ELSE IF f = run.prev.folder THEN Gone ELSE store[f]]
  /\ run' = [run EXCEPT !.pc = "transfer", !.folder = made', !.prev = NoState]
  /\ UNCHANGED <<world, prepared, process, clean, waiting, owed>>

Download ==
  /\ At("download") /\ made < MaxDownloads
  /\ made' = made + 1
  /\ Becomes(made', "part")
  /\ run' = [run EXCEPT !.pc = "transfer", !.folder = made']
  /\ UNCHANGED <<world, prepared, process, clean, waiting, owed>>

Transferred ==
  /\ At("transfer") /\ ~disposed
  /\ store' = [store EXCEPT ![run.folder] = [is |-> "whole", rel |-> run.rel]]
  /\ Goes("retain")
  /\ UNCHANGED <<world, made, prepared, process, clean, waiting, owed>>

(* The finally of withFutureStaffDownload(): what is not retained goes,    *)
(* after a failed transfer, a previous installer that is not where the     *)
(* state file says or cannot be removed, the file or the folder, or a      *)
(* state file that cannot be written.                                      *)
DownloadFails ==
  /\ \E pc \in {"transfer", "retain", "rmdir", "write"} : At(pc)
  /\ Becomes(run.folder, "absent")
  /\ Fails
  /\ UNCHANGED <<world, made, prepared, process, clean>>

RetainFirst ==
  /\ At("retain") /\ run.prev = NoState
  /\ Goes("write")
  /\ UNCHANGED <<world, disk, process, clean, waiting, owed>>

RemovePrevious ==
  /\ At("retain") /\ HasFile(run.prev.folder)
  /\ Becomes(run.prev.folder, "empty")
  /\ Goes("rmdir")
  /\ UNCHANGED <<world, made, prepared, process, clean, waiting, owed>>

RemoveFolder ==
  /\ At("rmdir")
  /\ Becomes(run.prev.folder, "absent")
  /\ Goes("write")
  /\ UNCHANGED <<world, made, prepared, process, clean, waiting, owed>>

Write ==
  /\ At("write")
  /\ prepared' = [rel |-> run.rel, folder |-> run.folder]
  /\ Staged(run.folder)
  /\ UNCHANGED <<world, made, store, process, clean>>

-----------------------------------------------------------------------------
(* stageFutureStaffUpdate() after the question.                            *)

Later ==
  /\ At("dialog")
  /\ Ends
  /\ UNCHANGED <<world, disk, process, clean, owed>>

(* The ten minutes of the signal run on while the dialog is open.          *)
Confirms ==
  /\ At("dialog")
  /\ \/ Fails
     \/ /\ ~disposed
        /\ run' = [run EXCEPT !.pc = "recheck", !.since = {feed}]
        /\ UNCHANGED <<waiting, owed>>
  /\ UNCHANGED <<world, disk, process, clean>>

Confirmed == feed = run.rel /\ ~disposed

Recheck ==
  /\ At("recheck")
  /\ IF Confirmed THEN Goes("verify") /\ UNCHANGED <<waiting, owed>> ELSE Fails
  /\ UNCHANGED <<world, disk, process, clean>>

(* Variant: the state file is compared, the bytes are not read again. *)
StateOnlyVerified ==
  prepared = [rel |-> run.rel, folder |-> run.folder] /\ HasFile(run.folder)

(* verifyPreparedFutureStaffUpdate().                                      *)
Verified ==
  prepared = [rel |-> run.rel, folder |-> run.folder] /\ Whole(run.folder, run.rel)

Verify ==
  /\ At("verify")
  /\ IF Verified /\ ~disposed
     THEN Goes("spawn") /\ UNCHANGED <<waiting, owed>> ELSE Fails
  /\ UNCHANGED <<world, disk, process, clean>>

Exits ==
  /\ alive' = FALSE /\ disposed' = FALSE
  /\ run' = Idle /\ waiting' = FALSE /\ owed' = FALSE
  /\ clean' = NoCleanup

(* The installer runs; the orderly quit that follows is the same step.     *)
Spawned ==
  /\ At("spawn") /\ HasFile(run.folder)
  /\ installer' = store[run.folder]
  /\ Exits
  /\ UNCHANGED <<world, disk, installed, processes>>

SpawnFails ==
  /\ At("spawn")
  /\ Fails
  /\ UNCHANGED <<world, disk, process, clean>>

-----------------------------------------------------------------------------
(* cleanupPreparedFutureStaffUpdate(), started when the window is up.      *)

CleanReads ==
  /\ alive /\ clean.pc = "read"
  /\ clean' = IF prepared = NoState \/ installed < prepared.rel THEN NoCleanup
              ELSE [pc |-> "remove", st |-> prepared]
  /\ UNCHANGED <<world, disk, process, checks>>

(* Variant: a missing EXE is no reason to stop (rm with force). *)
BlindCleanRemoves ==
  /\ alive /\ clean.pc = "remove"
  /\ IF HasFile(clean.st.folder) THEN Becomes(clean.st.folder, "empty")
                                 ELSE UNCHANGED store
  /\ clean' = [clean EXCEPT !.pc = "rmdir"]
  /\ UNCHANGED <<world, made, prepared, process, checks>>

CleanRemoves ==
  /\ alive /\ clean.pc = "remove"
  /\ IF HasFile(clean.st.folder)
     THEN /\ Becomes(clean.st.folder, "empty")
          /\ clean' = [clean EXCEPT !.pc = "rmdir"]
     ELSE UNCHANGED store /\ clean' = NoCleanup
  /\ UNCHANGED <<world, made, prepared, process, checks>>

CleanFolder ==
  /\ alive /\ clean.pc = "rmdir"
  /\ Becomes(clean.st.folder, "absent")
  /\ clean' = [clean EXCEPT !.pc = "forget"]
  /\ UNCHANGED <<world, made, prepared, process, checks>>

CleanForgets ==
  /\ alive /\ clean.pc = "forget"
  /\ prepared' = NoState
  /\ clean' = NoCleanup
  /\ UNCHANGED <<world, made, store, process, checks>>

(* What cannot be read or removed ends the cleanup.                        *)
CleanFails ==
  /\ alive /\ clean.pc # "off"
  /\ clean' = NoCleanup
  /\ UNCHANGED <<world, disk, process, checks>>

-----------------------------------------------------------------------------
(* The process, the installer, the feed and the disk.                      *)

Boot ==
  /\ ~alive /\ installer = Gone /\ processes < MaxProcesses
  /\ processes' = processes + 1
  /\ alive' = TRUE
  /\ clean' = [NoCleanup EXCEPT !.pc = "read"]
  /\ UNCHANGED <<world, disk, installed, installer, disposed, checks>>

Dispose ==
  /\ alive /\ ~disposed
  /\ disposed' = TRUE
  /\ owed' = FALSE
  /\ UNCHANGED <<world, disk, installed, installer, alive, processes, clean,
                 run, waiting>>

ProcessEnds ==
  /\ alive
  /\ Exits
  /\ UNCHANGED <<world, disk, installed, installer, processes>>

(* It installs its release or fails, and fails when it is damaged.         *)
InstallerEnds ==
  /\ installer # Gone
  /\ \/ installed' = installed
     \/ installer.is = "whole" /\ installed' = installer.rel
  /\ installer' = Gone
  /\ UNCHANGED <<world, disk, alive, disposed, processes, checks, clean>>

Publish ==
  /\ published < MaxPublished
  /\ published' = published + 1
  /\ feed' \in Releases \ {feed}
  /\ run' = [run EXCEPT !.since = IF @ = {} THEN @ ELSE @ \union {feed'}]
  /\ UNCHANGED <<faults, disk, process, waiting, owed, clean>>

(* Not between the last verification and the launch. *)
Disturb ==
  /\ faults < MaxFaults /\ ~At("spawn")
  /\ faults' = faults + 1
  /\ HasFile(prepared.folder)
  /\ \E what \in {"bad", "empty"} : Becomes(prepared.folder, what)
  /\ UNCHANGED <<feed, published, made, prepared, process, checks, clean>>

Checks == Timer \/ NoticeClosed \/ CheckAnswered \/ CheckFails
Prepares ==
  \/ ReadState \/ Reuse \/ RepairFile \/ RepairFolder \/ RepairState
  \/ Download \/ Transferred \/ DownloadFails \/ RetainFirst
  \/ RemovePrevious \/ RemoveFolder \/ Write
Installs == Later \/ Confirms \/ Recheck \/ Verify \/ Spawned \/ SpawnFails
Cleans == CleanReads \/ CleanRemoves \/ CleanFolder \/ CleanForgets \/ CleanFails
World == Boot \/ Dispose \/ ProcessEnds \/ InstallerEnds \/ Publish \/ Disturb

Next == Click \/ Checks \/ Prepares \/ Installs \/ Cleans \/ World

Spec == Init /\ [][Next]_vars

(* Requests have timeouts (15 s for the feed, 10 min for the transfer),    *)
(* file operations return, and a spawn succeeds or fails.  Nobody has to   *)
(* answer a dialog.                                                        *)
Proceeds == \/ CheckAnswered \/ CheckFails \/ Prepares
            \/ Recheck \/ Verify \/ Spawned \/ SpawnFails
Fairness == WF_vars(Proceeds)

FairSpec == Spec /\ Fairness

-----------------------------------------------------------------------------
States == [rel : Releases, folder : 0..MaxDownloads]
Runs == [pc : {"idle", "check", "notice", "state", "reuse", "repair", "forget",
               "download", "transfer", "retain", "rmdir", "write", "dialog",
               "recheck", "verify", "spawn"},
         manual : BOOLEAN, rel : Releases, folder : 0..MaxDownloads,
         prev : States, since : SUBSET Releases]
Cleanups == [pc : {"off", "read", "remove", "rmdir", "forget"}, st : States]
Contents == [is : {"absent", "empty", "part", "whole", "bad"}, rel : Releases]

TypeOK ==
  /\ feed \in Releases /\ installed \in Releases /\ installer \in Contents
  /\ made \in 0..MaxDownloads /\ processes \in 0..MaxProcesses
  /\ published \in 0..MaxPublished /\ faults \in 0..MaxFaults
  /\ store \in [Folders -> Contents]
  /\ prepared \in States
  /\ alive \in BOOLEAN /\ disposed \in BOOLEAN
  /\ run \in Runs /\ waiting \in BOOLEAN /\ owed \in BOOLEAN
  /\ clean \in Cleanups

(* What is launched is whole, newer than what is installed, and a release  *)
(* the feed has served since the user confirmed: a dialog left open while  *)
(* the file was damaged or replaced, or the release withdrawn, installs    *)
(* nothing (stageFutureStaffUpdate, electron-runtime.ts:705-715).          *)
LaunchIsCurrent ==
  [][installer' \notin {Gone, installer} =>
       /\ installer'.is = "whole"
       /\ installer'.rel \in run.since /\ installer'.rel > installed]_vars

(* The state file names a verified installer the next update can start     *)
(* from; or the check in progress has removed that one, and holds a newer  *)
(* verified one the state file does not name yet.                          *)
Ready == Whole(prepared.folder, prepared.rel) /\ prepared.rel > installed
InTheGap == run.pc \in {"rmdir", "write"}
Renewing == InTheGap /\ Whole(run.folder, run.rel) /\ run.rel > installed

(* An installer that is ready stays so, or goes for one that is on disk    *)
(* and verified, which the state file names next.  Outside that gap no     *)
(* download, no failure of one, no end of the process and no cleanup,      *)
(* whose state file may change hands while it runs, costs it.  In the gap  *)
(* both are lost when the check is cut off: by the end of the process, or  *)
(* by a removal or a write that fails (prepareFutureStaffUpdate,           *)
(* futurestaff-update-cache.ts:73-78; cleanupPreparedFutureStaffUpdate,    *)
(* :96-102).                                                               *)
KeepsAPackage ==
  [][faults' = faults /\ installed' = installed =>
       /\ Ready => Ready' \/ Renewing'
       /\ Renewing => \/ Ready' \/ Renewing'
                      \/ ~InTheGap' /\ prepared' = prepared]_vars

(* The cleanup forgets the state file it read and no other one: a check    *)
(* that replaces the cached installer meanwhile makes one of the two fail. *)
CleanupSparesNew == clean.pc \in {"rmdir", "forget"} => prepared = clean.st

(* The cache and the run are typed, and no cleanup unlinks what it did not *)
(* read (cleanupPreparedFutureStaffUpdate).                                *)
CacheSafety == TypeOK /\ CleanupSparesNew

(* A click always gets a result of its own: a dialog or a notice, also     *)
(* when it arrives during a background check ("Manual actions arriving     *)
(* during a background check get their own visible result",                *)
(* futurestaff-updates.ts:38), unless the desktop ends.                    *)
ManualIsAnswered == owed ~> ~owed

(* The next check can always replace what the state file names.  Not       *)
(* checked, and false: see the README.                                     *)
CacheNeverBlocks ==
  At("retain") /\ run.prev # NoState => HasFile(run.prev.folder)
=============================================================================
