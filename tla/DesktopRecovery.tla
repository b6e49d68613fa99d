--------------------------- MODULE DesktopRecovery ---------------------------
(***************************************************************************)
(* One Profile of the desktop shell over several processes: the startup of *)
(* main.ts up to the healthy commit, the checkpoint slots and their marker *)
(* on disk (profile-checkpoint.ts), the recovery window and its controller *)
(* (startup-recovery-controller.ts), the Host a startup generation owns    *)
(* (startup-generation.ts) and the shutdown that ends the process          *)
(* (shutdown.ts).  A crash may fall between any two file system calls.     *)
(***************************************************************************)
EXTENDS Integers, FiniteSets, FiniteSetsExt, Sequences

CONSTANTS
    Slots,          \* the rotating slots, in the order of their names
    Versions,       \* contents a configuration file may have
    MaxSnapshots,   \* bound: checkpoints taken in a behaviour
    MaxMishaps,     \* bound: crashes, and clean-ups of a replacement that fail
    MaxStarts,      \* bound: processes started
    Partial,        \* node_modules of a pnpm that stopped half way
    NoSlot

ASSUME SlotsAssumption ==
    Slots \subseteq Nat /\ IsFiniteSet(Slots) /\ Slots # {} /\ NoSlot \notin Slots
ASSUME VersionsAssumption == 0 \in Versions /\ Partial \notin Versions
ASSUME LimitsAssumption == {MaxSnapshots, MaxMishaps, MaxStarts} \subseteq Nat

VARIABLES
    \* on disk
    snap,     \* slot -> what its directory holds
    old,      \* slot -> directories moved aside and not removed yet
    marker,   \* the skip marker
    files,    \* the declarative files of the Profile
    deps,     \* the version of "pkg" node_modules was installed for
    \* in the process
    phase,    \* where main.ts stands
    mode,     \* with which argument this or the next process starts
    host,     \* the plugin Host of this generation
    quit,     \* the pending shutdown
    op,       \* what the process is in the middle of
    \* history and bounds
    taken,    \* checkpoints installed
    mishaps, starts,
    chosen,   \* slot whose restore has changed the Profile since the last healthy start
    unmet     \* that restore left node_modules behind

profileDisk  == <<snap, old, marker, files, deps>>
shell        == <<phase, mode, host, quit, op>>
history      == <<taken, mishaps, starts, chosen, unmet>>
recoveryVars == <<profileDisk, shell, history>>

Names    == {"pkg", "patch"}                     \* dependency files, the others
Order    == <<"pkg", "patch">>                   \* as restoreSlot writes them
Files    == [Names -> Versions]
Snapshot == [at : 1..MaxSnapshots, files : Files]
Empty    == [at |-> 0]                           \* no directory
Broken   == [at |-> -1]                          \* a directory readSnapshot throws on
NoMarker == [slot |-> NoSlot, pending |-> FALSE]
NoOp     == [kind |-> "idle"]

RecoveryInit ==
    /\ snap = [s \in Slots |-> Empty] /\ old = [s \in Slots |-> {}]
    /\ marker = NoMarker /\ files = [n \in Names |-> 0] /\ deps = 0
    /\ phase = "down" /\ mode = "normal" /\ host = "none" /\ quit = "no" /\ op = NoOp
    /\ taken = 0 /\ mishaps = 0 /\ starts = 0 /\ chosen = NoSlot /\ unmet = FALSE

------------------------------------------------------------------------------
(* The checkpoint store. *)

\* What recoverOrphanedSlot may leave in slot s: the names of the directories
\* moved aside are random, so any of them can come first.
Candidates(s) == IF snap[s] # Empty \/ old[s] = {} THEN {snap[s]} ELSE old[s]

Recoveries == {r \in [Slots -> UNION {Candidates(s) : s \in Slots}] :
                  \A s \in Slots : r[s] \in Candidates(s)}

OldAfter(r) == [s \in Slots |-> IF snap[s] = Empty THEN old[s] \ {r[s]} ELSE old[s]]

\* listSlots reads all slots and throws if one of them cannot be read.
Listable(r) == \A s \in Slots : r[s] # Broken

\* The slot captureHealthy writes: the first empty one, else the oldest.
Target(r) ==
    IF \E s \in Slots : r[s] = Empty
    THEN Min({s \in Slots : r[s] = Empty})
    ELSE CHOOSE s \in Slots : \A t \in Slots : r[s].at <= r[t].at

\* replaceSlot starts with the rename of the staged directory when there is
\* nothing to move aside.
FirstStep(dir) == IF dir = Empty THEN "renameIn" ELSE "moveAside"

\* The marker of a restore: dependency work that is pending stays pending.
MarkerOf(s, changed) == [slot |-> s, pending |-> marker.pending \/ "pkg" \in changed]

\* The shutdown waits for the process to give up control; a synchronous
\* operation holds it.
Free == op = NoOp

\* A healthy commit that writes nothing: it finds a marker and consumes it, or
\* it cannot list the slots, which is logged.
CaptureSkips ==
    /\ phase = "booting" /\ Free
    /\ \E r \in Recoveries :
         /\ marker = NoMarker => ~Listable(r)
         /\ snap' = r /\ old' = OldAfter(r)
    /\ marker' = NoMarker /\ chosen' = NoSlot /\ unmet' = FALSE /\ phase' = "running"
    /\ UNCHANGED <<files, deps, mode, host, quit, op, taken, mishaps, starts>>

\* A healthy commit that fails on the way to its replacement, before or after it
\* has recovered the slots: this is logged and the Desktop runs.
CaptureFails ==
    /\ phase = "booting" /\ Free
    /\ \/ UNCHANGED <<snap, old>>
       \/ \E r \in Recoveries : snap' = r /\ old' = OldAfter(r)
    /\ phase' = "running"
    /\ UNCHANGED <<marker, files, deps, mode, host, quit, op, history>>

\* The healthy commit stages the current files and picks the slot to replace.
CaptureStages ==
    /\ phase = "booting" /\ Free /\ marker = NoMarker /\ taken < MaxSnapshots
    /\ \E r \in Recoveries :
         LET s == Target(r) IN
         /\ Listable(r) /\ snap' = r /\ old' = OldAfter(r)
         /\ op' = [kind |-> FirstStep(r[s]),
                   slot |-> s, aside |-> r[s], new |-> [at |-> taken + 1, files |-> files]]
    /\ unmet' = FALSE
    /\ UNCHANGED <<marker, files, deps, phase, mode, host, quit, taken, mishaps, starts, chosen>>

Replaces(kind) ==
    op.kind = kind /\ UNCHANGED <<marker, files, deps, mode, host, quit, starts, chosen, unmet>>

MoveAsideRemoves ==
    /\ Replaces("moveAside")
    /\ snap' = [snap EXCEPT ![op.slot] = Empty]
    /\ op' = [op EXCEPT !.kind = "renameIn"] /\ UNCHANGED <<old, phase, taken, mishaps>>

\* replaceSlot: the slot is moved aside, the staged directory takes its place,
\* the one moved aside is removed.
MoveAside ==
    /\ Replaces("moveAside")
    /\ old' = [old EXCEPT ![op.slot] = @ \cup {op.aside}]
    /\ snap' = [snap EXCEPT ![op.slot] = Empty]
    /\ op' = [op EXCEPT !.kind = "renameIn"] /\ UNCHANGED <<phase, taken, mishaps>>

RenameIn ==
    /\ Replaces("renameIn")
    /\ snap' = [snap EXCEPT ![op.slot] = op.new]
    /\ op' = [op EXCEPT !.kind = "removeOld"] /\ taken' = op.new.at
    /\ UNCHANGED <<old, phase, mishaps>>

\* Done or not, the Desktop runs: commitHealthy logs what captureHealthy throws.
Replaced == op' = NoOp /\ phase' = "running"

Mishap == mishaps < MaxMishaps /\ mishaps' = mishaps + 1

\* The rename is refused: what was moved aside is put back.
RenameInFails ==
    /\ Replaces("renameIn") /\ Replaced
    /\ snap' = [snap EXCEPT ![op.slot] = op.aside]
    /\ old' = [old EXCEPT ![op.slot] = @ \ {op.aside}]
    /\ UNCHANGED <<taken, mishaps>>

\* And so is the rename that puts it back.
PutBackFails ==
    /\ Replaces("renameIn") /\ op.aside # Empty /\ Replaced /\ Mishap
    /\ UNCHANGED <<snap, old, taken>>

RemoveOld ==
    /\ Replaces("removeOld") /\ Replaced
    /\ old' = [old EXCEPT ![op.slot] = @ \ {op.aside}]
    /\ UNCHANGED <<snap, taken, mishaps>>

\* A removal that stops leaves the whole directory, or one without some of its
\* files.
HalfRemoved ==
    \/ UNCHANGED old
    \/ old' = [old EXCEPT ![op.slot] = (@ \ {op.aside}) \cup {Broken}]

\* rmSync throws (a file that is in use or may not be removed).
RemoveOldFails ==
    /\ Replaces("removeOld") /\ op.aside # Empty /\ Replaced /\ Mishap
    /\ HalfRemoved
    /\ UNCHANGED <<snap, taken>>

------------------------------------------------------------------------------
(* The process. *)

Launch ==
    /\ phase = "down" /\ starts < MaxStarts
    /\ phase' = "starting" /\ starts' = starts + 1
    /\ UNCHANGED <<profileDisk, mode, host, quit, op, taken, mishaps, chosen, unmet>>

\* A stage before the Host throws, or a stage that registers a resource finds
\* the generation released by a shutdown.
StartupFails ==
    /\ phase \in {"starting", "booting"} /\ Free /\ phase' = "failed"
    /\ UNCHANGED <<profileDisk, mode, host, quit, op, history>>

\* The Host is bound; bindHost refuses it once the generation is released.
HostBoots ==
    /\ phase = "starting" /\ mode = "normal" /\ quit = "no"
    /\ phase' = "booting" /\ host' = "live"
    /\ UNCHANGED <<profileDisk, mode, quit, op, history>>

\* The running Desktop edits settings, or adds and removes plugins with pnpm.
Configure ==
    /\ phase = "running" /\ quit = "no"
    /\ \E v \in Versions :
         \/ files' = [files EXCEPT !["patch"] = v] /\ UNCHANGED deps
         \/ files' = [files EXCEPT !["pkg"] = v] /\ deps' = v
    /\ UNCHANGED <<snap, old, marker, shell, history>>

\* quiesceForRecovery: dispose the bound Host, or do not wait for it any longer.
Quiesce ==
    /\ phase = "failed" /\ quit = "no" /\ host = "live" /\ host' = "disposing"
    /\ UNCHANGED <<profileDisk, phase, mode, quit, op, history>>

HostStops ==
    /\ host = "disposing" /\ Free /\ host' = "none"
    /\ UNCHANGED <<profileDisk, phase, mode, quit, op, history>>

\* quiesceForRecovery answers: the Host is gone, or there is no safe answer
\* (released, the disposal failed, or its timer fired).
Quiesced == quit = "no" /\ host = "none"

NotQuiesced == quit # "no" \/ host = "disposing"

\* The recovery window gets a controller after a safe quiesce, or before there
\* was a Host at all.
OpenWindow ==
    /\ \/ phase = "failed" /\ Quiesced /\ phase' = "recovery"
       \/ phase = "failed" /\ NotQuiesced /\ phase' = "window"
       \/ phase = "starting" /\ mode = "recovery" /\ phase' = "recovery"
    /\ UNCHANGED <<profileDisk, mode, host, quit, op, history>>

------------------------------------------------------------------------------
(* The recovery window and its controller. *)

\* executeCheckpointRestore up to the marker, which is durable before any file
\* of the Profile changes.
RestoreBegins ==
    /\ phase = "recovery" /\ Free
    /\ \E r \in Recoveries, s \in Slots :
         LET changed == {n \in Names : files[n] # r[s].files[n]} IN
         /\ Listable(r) /\ r[s] # Empty
         /\ snap' = r /\ old' = OldAfter(r)
         /\ marker' = MarkerOf(s, changed)
         /\ op' = [kind |-> "restore", slot |-> s, left |-> Order]
    /\ UNCHANGED <<files, deps, phase, mode, host, quit, history>>

\* The next file, by a durable rename.
RestoreWrites ==
    /\ op.kind = "restore" /\ op.left # <<>>
    /\ LET n == Head(op.left) IN
         /\ files' = [files EXCEPT ![n] = snap[op.slot].files[n]]
         /\ unmet' = (unmet \/ files'["pkg"] # files["pkg"])
    /\ chosen' = op.slot
    /\ op' = [op EXCEPT !.left = Tail(@)]
    /\ UNCHANGED <<snap, old, marker, deps, phase, mode, host, quit, taken, mishaps, starts>>

RestoreFails ==
    /\ op.kind = "restore" /\ op.left # <<>> /\ op' = NoOp
    /\ UNCHANGED <<profileDisk, phase, mode, host, quit, history>>

\* afterCheckpointRestore starts pnpm if the result asks for it.
Materialize ==
    /\ op.kind = "restore" /\ op.left = <<>>
    /\ IF marker.pending
       THEN op' = [kind |-> "pnpm", slot |-> op.slot] /\ deps' = Partial
       ELSE op' = NoOp /\ UNCHANGED deps
    /\ UNCHANGED <<snap, old, marker, files, phase, mode, host, quit, history>>

MaterializedUnlinks ==
    /\ op.kind = "pnpm" /\ deps' = files["pkg"] /\ op' = NoOp
    /\ marker' = NoMarker /\ unmet' = FALSE
    /\ UNCHANGED <<snap, old, files, phase, mode, host, quit, taken, mishaps, starts, chosen>>

\* completeDependencyMaterialization checks the marker and clears its bit.
Materialized ==
    /\ op.kind = "pnpm" /\ deps' = files["pkg"] /\ op' = NoOp
    /\ IF marker.slot = op.slot
       THEN marker' = [marker EXCEPT !.pending = FALSE]
       ELSE UNCHANGED marker
    /\ unmet' = FALSE
    /\ UNCHANGED <<snap, old, files, phase, mode, host, quit, taken, mishaps, starts, chosen>>

MaterializeFails ==
    /\ op.kind = "pnpm" /\ op' = NoOp
    /\ UNCHANGED <<profileDisk, phase, mode, host, quit, history>>

\* executeUninstall runs `dsh plugin remove`, which may fail half way.
Uninstall ==
    /\ phase = "recovery" /\ Free
    /\ \/ \E v \in Versions :
            /\ files' = [files EXCEPT !["pkg"] = v] /\ deps' = v /\ unmet' = FALSE
       \/ deps' = Partial /\ UNCHANGED <<files, unmet>>
    /\ UNCHANGED <<snap, old, marker, shell, taken, mishaps, starts, chosen>>

------------------------------------------------------------------------------
(* The end of the process. *)

\* Between two turns of the event loop: nothing runs, or a command is awaited.
Waiting == Free \/ op.kind = "pnpm"

\* nativeExit.finish: a pnpm that is still running was detached, it may yet
\* finish or not.
ProcessExits(next) ==
    /\ phase' = "down" /\ mode' = (IF next = "none" THEN "normal" ELSE next)
    /\ host' = "none" /\ quit' = "no" /\ op' = NoOp
    /\ deps' \in (IF op.kind = "pnpm" THEN {Partial, files["pkg"]} ELSE {deps})
    /\ UNCHANGED <<snap, old, marker, files, history>>

\* shutdown.request: by a signal or the native quit at any time, by the restart
\* into recovery, or by what the user chose in a recovery window, which a
\* closed window ends even while a command runs.  A second request does not wait.
RequestQuit ==
    /\ phase # "down" /\ Waiting
    /\ \E next \in {"normal", "recovery", "none"} :
         /\ next = "recovery" => phase = "running"
         /\ next = "normal" => phase \in {"window", "recovery"} /\ Free
         /\ IF quit = "no"
            THEN /\ quit' = next /\ host' = (IF host = "live" THEN "disposing" ELSE host)
                 /\ UNCHANGED <<profileDisk, phase, mode, op, history>>
            ELSE ProcessExits(IF next = "none" THEN quit ELSE next)

\* The tree is released: exit, and relaunch if that was asked for.
ExitReleased == quit # "no" /\ Waiting /\ host = "none" /\ ProcessExits(quit)

ExitForcedAtRejection == quit # "no" /\ Waiting /\ host = "none" /\ ProcessExits("none")

\* The Host does not stop or fails to stop: exit with a failure, no relaunch.
ExitForced == quit # "no" /\ Waiting /\ ProcessExits("none")

\* The process is killed, perhaps in the middle of a removal.
Crash ==
    /\ phase # "down" /\ Mishap
    /\ phase' = "down" /\ mode' = "normal" /\ host' = "none" /\ quit' = "no" /\ op' = NoOp
    /\ IF op.kind = "removeOld" /\ op.aside # Empty THEN HalfRemoved ELSE UNCHANGED old
    /\ deps' \in (IF op.kind = "pnpm" THEN {Partial, files["pkg"]} ELSE {deps})
    /\ UNCHANGED <<snap, marker, files, taken, starts, chosen, unmet>>

Capture ==
    \/ CaptureSkips \/ CaptureFails \/ CaptureStages
    \/ MoveAside \/ RenameIn \/ RenameInFails \/ PutBackFails \/ RemoveOld \/ RemoveOldFails
Startup == Launch \/ StartupFails \/ HostBoots \/ Configure \/ Quiesce \/ HostStops \/ OpenWindow
Restore == RestoreBegins \/ RestoreWrites \/ RestoreFails \/ Materialize \/ Materialized \/ MaterializeFails \/ Uninstall
Ending  == RequestQuit \/ ExitReleased \/ ExitForced \/ Crash

RecoveryNext == Capture \/ Startup \/ Restore \/ Ending

RecoverySpec == RecoveryInit /\ [][RecoveryNext]_recoveryVars

\* A synchronous operation goes on until it ends, the five second timers of
\* shutdown and quiesce fire between any two of them, and a failed start goes on to
\* its window.
RecoveryFairness ==
    /\ WF_recoveryVars(MoveAside \/ RenameIn \/ RemoveOld \/ RestoreWrites \/ Materialize)
    /\ SF_recoveryVars(ExitReleased \/ ExitForced)
    /\ WF_recoveryVars(Quiesce \/ OpenWindow)

RecoveryFairSpec == RecoverySpec /\ RecoveryFairness

------------------------------------------------------------------------------
Replacements == [kind : {"moveAside", "renameIn", "removeOld"}, slot : Slots,
                 aside : Snapshot \cup {Empty}, new : Snapshot]
Restores == [kind : {"restore"}, slot : Slots, left : {Order, Tail(Order), <<>>}]
PnpmRuns == [kind : {"pnpm"}, slot : Slots]

RecoveryTypes ==
    /\ snap \in [Slots -> Snapshot \cup {Empty, Broken}]
    /\ old \in [Slots -> SUBSET (Snapshot \cup {Broken})]
    /\ marker \in [slot : Slots \cup {NoSlot}, pending : BOOLEAN]
    /\ files \in Files /\ deps \in Versions \cup {Partial}
    /\ phase \in {"down", "starting", "booting", "running", "failed", "window", "recovery"}
    /\ mode \in {"normal", "recovery"} /\ host \in {"none", "live", "disposing"}
    /\ quit \in {"no", "none", "normal", "recovery"}
    /\ op \in {NoOp} \cup Replacements \cup Restores \cup PnpmRuns
    /\ taken \in 0..MaxSnapshots /\ mishaps \in 0..MaxMishaps /\ starts \in 0..MaxStarts
    /\ chosen \in Slots \cup {NoSlot} /\ unmet \in BOOLEAN

Usable(s) == Candidates(s) \subseteq Snapshot

\* Whenever the process is gone, the next one finds as many checkpoints as were
\* taken and there are slots for, the newest of them included: rotating the
\* slots (captureHealthy, replaceSlot, recoverOrphanedSlot) loses none to one
\* mishap, be it a crash or a removal that fails and leaves half a directory
\* behind.  Later mishaps may cost one of them, however many there are.
CheckpointsKept ==
    phase = "down" =>
        LET there == Cardinality({s \in Slots : Usable(s)})
            due == Min({taken, Cardinality(Slots)})
        IN  /\ there + 1 >= due
            /\ mishaps <= 1 =>
                 /\ there >= due
                 /\ taken > 0 => \E s \in Slots : Usable(s) /\ \A c \in Candidates(s) : c.at = taken

\* The slots can be listed, whatever was interrupted: a directory that was left
\* half removed never takes the place of a checkpoint.  (It does after a removal
\* that failed and one crash, and then none of the checkpoints can be listed.)
SlotsAreListable == \A s \in Slots : snap[s] # Broken

\* From the first file a restore writes to the next healthy start, crashes and
\* failed restores included, the slot the user chose is not replaced
\* (restoreSlot's marker, captureHealthy).
RestoredIsKept == [][chosen # NoSlot => snap'[chosen] = snap[chosen]]_recoveryVars

\* While a restore has left node_modules behind the dependency files and no
\* healthy start has followed, the marker says so: restoring again, after a
\* failure, a crash or from another slot, installs them.
OwedIsPending == unmet => marker.pending

\* The recovery window changes the Profile only when no Host of the process is
\* alive (quiesceForRecovery).
NoHostUnderRecovery == phase = "recovery" => host = "none"

\* What a recovery relies on: it is alone with the Profile, the marker knows of
\* dependencies that still have to be installed, and the checkpoints are there.
RecoverySafety ==
    RecoveryTypes /\ OwedIsPending /\ NoHostUnderRecovery /\ CheckpointsKept

\* A quit ends the process, whether the Host stops or not (createDesktopShutdown).
QuitEnds == (quit # "no") ~> (phase = "down")

\* A start that fails shows a window even if the Host does not stop.
FailureIsShown == (phase = "failed") ~> (phase # "failed")

\* A Host that hangs holds up neither the user who quits nor the recovery
\* window (createDesktopShutdown, quiesceForRecovery).
HangHoldsUpNobody == QuitEnds /\ FailureIsShown
==============================================================================
