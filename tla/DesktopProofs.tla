----------------------------- MODULE DesktopProofs -----------------------------
(***************************************************************************)
(* Proofs about the desktop shell.  About DesktopRecovery, for every       *)
(* finite set of slots and every number of checkpoints, faults and starts: *)
(* one crash, or one clean-up that fails, costs no checkpoint, more cost   *)
(* one at most; a restored slot is kept until the next healthy start;      *)
(* dependency work that is owed is on record.  About DesktopUpdate, for    *)
(* every number of releases, folders, starts, changes of the feed and      *)
(* damages: what is launched is whole, current and newer than what is      *)
(* installed; a verified installer that is ready is removed only beside a  *)
(* verified newer one, which is on record next unless the check is cut off *)
(* in between; the cleanup of the start forgets what it has read and       *)
(* nothing else.                                                           *)
(***************************************************************************)
EXTENDS DesktopRecovery, DesktopUpdate, FiniteSetTheorems, WellFoundedInduction, TLAPS

-----------------------------------------------------------------------------
(* The recovery.                                                           *)

(***************************************************************************)
(* The inductive invariant follows a replacement of a slot through its     *)
(* renames, and a restore through its files.                               *)
(***************************************************************************)

\* The recovery window is alone and the only place of a restore; a process that
\* is gone does nothing.
PhaseFits ==
  /\ phase \in {"down", "starting", "recovery"} => host = "none"
  /\ phase = "down" => op = NoOp
  /\ op.kind = "restore" => phase = "recovery"

\* A restored slot is protected by the marker until the next healthy start, and
\* no replacement has begun meanwhile.
ChosenFits ==
  chosen # NoSlot =>
    /\ marker.slot # NoSlot /\ snap[chosen] # Empty
    /\ op.kind \notin {"moveAside", "renameIn", "removeOld"}

\* A restore reads one checkpoint under a marker that already knows whether
\* there will be dependency work.
RestoreFits ==
  op.kind = "restore" =>
    /\ marker.slot # NoSlot /\ snap[op.slot] \in Snapshot
    /\ op.left = Order /\ files["pkg"] # snap[op.slot].files["pkg"] => marker.pending

\* A slot that has a checkpoint, in its place or moved aside.
Full == {s \in Slots : snap[s] # Empty \/ old[s] # {}}

\* Where a replacement stands; a checkpoint is only replaced when no slot is empty.
ReplacementFits ==
  /\ op.kind = "moveAside" => op.aside \in Snapshot /\ snap[op.slot] = op.aside
  /\ op.kind = "renameIn" =>
       snap[op.slot] = Empty /\ (op.aside = Empty => old[op.slot] = {})
  /\ op.kind = "removeOld" => snap[op.slot] = op.new
  /\ op.kind \in {"moveAside", "renameIn"} =>
       op.new.at = taken + 1 /\ (op.aside # Empty => Full = Slots)

\* Every checkpoint taken is there, unless there are more than slots.
CountFits == Full = Slots \/ Cardinality(Full) >= taken

\* What slot s is going to hold if the process ends or the rename is refused.
Kept(s) == IF op.kind = "renameIn" /\ op.slot = s THEN {op.aside} ELSE Candidates(s)

\* It is known what slot s holds: one checkpoint or none.
Known(s) == \E x \in Snapshot \cup {Empty} : Kept(s) = {x}

\* A replacement only begins when every slot is known, and leaves one at most
\* that is not, however many mishaps there are.
OneInDoubt ==
  /\ op.kind \in {"moveAside", "renameIn", "removeOld"} => \A s \in Slots : Known(s)
  /\ \A s, t \in Slots : ~Known(s) /\ ~Known(t) => s = t

\* Without a mishap nothing is left aside; after one at most, every slot is known,
\* and one holds the newest checkpoint.
LittleIsAside ==
  mishaps = 0 =>
    \A s \in Slots : old[s] = IF op.kind \in {"renameIn", "removeOld"} /\ op.slot = s
                              THEN {op.aside} \ {Empty} ELSE {}
SlotsAreKnown ==
  mishaps <= 1 => \A s \in Slots : Known(s)
NewestIsKept ==
  mishaps <= 1 /\ taken > 0 =>
    \E s \in Slots : \E x \in Snapshot : Kept(s) = {x} /\ x.at = taken

RecoveryInv ==
  /\ RecoveryTypes /\ PhaseFits /\ OwedIsPending /\ ChosenFits /\ RestoreFits
  /\ ReplacementFits /\ CountFits /\ LittleIsAside /\ SlotsAreKnown /\ NewestIsKept
  /\ OneInDoubt


(***************************************************************************)
(* Values.                                                                 *)
(***************************************************************************)

Dirs == Snapshot \cup {Empty, Broken}
Moves == {"moveAside", "renameIn", "removeOld"}

LEMMA Limits == MaxSnapshots \in Nat /\ MaxMishaps \in Nat /\ MaxStarts \in Nat
BY LimitsAssumption

\* A checkpoint, no directory and one that cannot be read are three things.
LEMMA DirsApart ==
  Empty \notin Snapshot /\ Broken \notin Snapshot /\ Empty # Broken
BY Limits DEF Empty, Broken, Snapshot

\* The files of a restore, in their order.
LEMMA OrderIs ==
  /\ Head(Order) = "pkg" /\ Tail(Order) = <<"patch">> /\ Tail(Tail(Order)) = <<>>
  /\ Head(Tail(Order)) = "patch"
  /\ Order # <<>> /\ Tail(Order) # <<>> /\ Order # Tail(Order)
BY DEF Order

\* An operation is told by its kind.
LEMMA OpIs ==
  ASSUME RecoveryTypes
  PROVE  /\ op.kind \in Moves \cup {"idle", "restore", "pnpm"}
         /\ op = NoOp <=> op.kind = "idle"
         /\ op.kind \in Moves =>
              /\ op \in Replacements /\ op.slot \in Slots
              /\ op.aside \in Snapshot \cup {Empty} /\ op.new \in Snapshot
         /\ op.kind = "restore" =>
              op \in Restores /\ op.slot \in Slots /\ op.left \in {Order, Tail(Order), <<>>}
         /\ op.kind = "pnpm" => op \in PnpmRuns /\ op.slot \in Slots
BY DEF RecoveryTypes, Moves, NoOp, Replacements, Restores, PnpmRuns

\* The next value of a typed operation.
LEMMA OpGoes ==
  ASSUME RecoveryTypes, op.kind \in Moves, NEW kind \in Moves, op' = [op EXCEPT !.kind = kind]
  PROVE  /\ op' \in Replacements /\ op'.kind = kind /\ op'.slot = op.slot
         /\ op'.aside = op.aside /\ op'.new = op.new
BY OpIs DEF Replacements, Moves

(***************************************************************************)
(* The slots as recoverOrphanedSlots leaves them.                          *)
(***************************************************************************)

LEMMA RecoveryIs ==
  ASSUME RecoveryTypes, NEW r \in Recoveries
  PROVE  /\ r \in [Slots -> Dirs]
         /\ OldAfter(r) \in [Slots -> SUBSET (Snapshot \cup {Broken})]
         /\ \A s \in Slots :
              /\ r[s] \in Candidates(s)
              /\ snap[s] # Empty => r[s] = snap[s]
              /\ r[s] = Empty <=> snap[s] = Empty /\ old[s] = {}
              /\ r[s] = Empty => OldAfter(r)[s] = {}
              /\ old[s] = {} => OldAfter(r)[s] = {} /\ r[s] = snap[s]
<1>1. \A s \in Slots : r[s] \in Candidates(s)
  BY DEF Recoveries
<1>2. \A s \in Slots : snap[s] \in Dirs /\ old[s] \in SUBSET (Snapshot \cup {Broken})
  BY DEF RecoveryTypes, Dirs
<1>3. \A s \in Slots : r[s] \in Dirs
  BY <1>1, <1>2 DEF Candidates, Dirs
<1>4. r \in [Slots -> Dirs]
  <2>1. DOMAIN r = Slots /\ r = [s \in Slots |-> r[s]]
    BY DEF Recoveries
  <2> QED  BY <1>3, <2>1
<1>5. \A s \in Slots : OldAfter(r)[s] = IF snap[s] = Empty THEN old[s] \ {r[s]} ELSE old[s]
  BY DEF OldAfter
<1>6. OldAfter(r) \in [Slots -> SUBSET (Snapshot \cup {Broken})]
  BY <1>2 DEF OldAfter
<1>7. ASSUME NEW s \in Slots
      PROVE  /\ snap[s] # Empty => r[s] = snap[s]
             /\ r[s] = Empty <=> snap[s] = Empty /\ old[s] = {}
             /\ old[s] = {} => r[s] = snap[s]
  BY <1>1, <1>2, DirsApart DEF Candidates
<1> QED  BY <1>1, <1>4, <1>5, <1>6, <1>7

\* The slot a capture writes is one of them, and empty if one is.
LEMMA NatMin ==
  ASSUME NEW T \in SUBSET Nat, T # {}
  PROVE  \E x \in T : \A y \in T : x <= y
<1>1. PICK x \in T : \A y \in T : <<y, x>> \notin OpToRel(<, Nat)
  BY NatLessThanWellFounded, WFMin
<1>2. \A y \in T : <<y, x>> \in OpToRel(<, Nat) <=> y < x
  BY DEF OpToRel
<1>3. \A y \in T : ~(y < x)
  BY <1>1, <1>2, Zenon
<1> QED  BY <1>3

LEMMA TargetIs ==
  ASSUME NEW r \in [Slots -> Snapshot \cup {Empty}]
  PROVE  /\ Target(r) \in Slots
         /\ r[Target(r)] # Empty => \A s \in Slots : r[s] # Empty
<1>1. CASE \E s \in Slots : r[s] = Empty
  <2> DEFINE E == {s \in Slots : r[s] = Empty}
  <2>1. E \in SUBSET Nat /\ E # {}
    BY <1>1, SlotsAssumption
  <2>2. \E x \in E : \A y \in E : x <= y
    BY <2>1, NatMin
  <2>3. Min(E) \in E
    BY <2>2 DEF Min
  <2>4. Target(r) = Min(E)
    BY <1>1 DEF Target
  <2> QED  BY <2>3, <2>4
<1>2. CASE ~ \E s \in Slots : r[s] = Empty
  <2> DEFINE A == {r[s].at : s \in Slots}
  <2>1. \A s \in Slots : r[s].at \in Nat
    BY <1>2, Limits DEF Snapshot
  <2>2. A \in SUBSET Nat /\ A # {}
    BY <2>1, SlotsAssumption
  <2>3. PICK a \in A : \A b \in A : a <= b
    BY <2>2, NatMin
  <2>4. \E s \in Slots : \A t \in Slots : r[s].at <= r[t].at
    BY <2>3
  <2>5. Target(r) = CHOOSE s \in Slots : \A t \in Slots : r[s].at <= r[t].at
    BY <1>2 DEF Target
  <2> QED  BY <1>2, <2>4, <2>5
<1> QED  BY <1>1, <1>2


(***************************************************************************)
(* Types.                                                                  *)
(***************************************************************************)

\* What is moved aside is a checkpoint, and what a restore reads is one, so that
\* the types need the invariant.
LEMMA RecoveryTypesNext ==
  ASSUME RecoveryTypes, ReplacementFits, RestoreFits, [RecoveryNext]_recoveryVars
  PROVE  RecoveryTypes'
<1> USE DEF profileDisk, shell, history, Free
<1>1. /\ NoOp \in {NoOp} \cup Replacements \cup Restores \cup PnpmRuns
      /\ NoMarker \in [slot : Slots \cup {NoSlot}, pending : BOOLEAN]
  BY DEF NoMarker
<1>2. \A r \in Recoveries : /\ r \in [Slots -> Snapshot \cup {Empty, Broken}]
                            /\ OldAfter(r) \in [Slots -> SUBSET (Snapshot \cup {Broken})]
  BY RecoveryIs DEF Dirs
<1>3. CASE CaptureSkips \/ CaptureFails
  BY <1>1, <1>2, <1>3 DEF CaptureSkips, CaptureFails, RecoveryTypes
<1>4. CASE CaptureStages
  <2>1. PICK r \in Recoveries :
          /\ Listable(r) /\ snap' = r /\ old' = OldAfter(r)
          /\ op' = [kind |-> FirstStep(r[Target(r)]), slot |-> Target(r),
                    aside |-> r[Target(r)], new |-> [at |-> taken + 1, files |-> files]]
    BY <1>4 DEF CaptureStages
  <2>2. r \in [Slots -> Snapshot \cup {Empty}]
    BY <1>2, <2>1 DEF Listable
  <2>3. [at |-> taken + 1, files |-> files] \in Snapshot
    BY <1>4, Limits DEF CaptureStages, RecoveryTypes, Snapshot
  <2>4. op' \in Replacements
    BY <2>1, <2>2, <2>3, TargetIs DEF Replacements, FirstStep
  <2> QED  BY <1>2, <1>4, <2>1, <2>4 DEF CaptureStages, RecoveryTypes
<1>5. CASE MoveAside
  <2>1. op.kind = "moveAside" /\ op.aside \in Snapshot /\ op' \in Replacements
    BY <1>5, OpGoes DEF MoveAside, Replaces, Moves, ReplacementFits
  <2>2. op.slot \in Slots
    BY <2>1, OpIs DEF Moves
  <2>3. snap' \in [Slots -> Snapshot \cup {Empty, Broken}]
    BY <1>5, <2>2 DEF MoveAside, RecoveryTypes
  <2>4. old' \in [Slots -> SUBSET (Snapshot \cup {Broken})]
    BY <1>5, <2>1, <2>2 DEF MoveAside, RecoveryTypes
  <2> QED  BY <1>5, <2>1, <2>3, <2>4 DEF MoveAside, Replaces, RecoveryTypes
<1>6. CASE RenameIn
  <2>1. op.new \in Snapshot /\ op' \in Replacements /\ op.slot \in Slots
    BY <1>6, OpIs, OpGoes DEF RenameIn, Replaces, Moves
  <2>2. snap' \in [Slots -> Snapshot \cup {Empty, Broken}] /\ taken' \in 0..MaxSnapshots
    BY <1>6, <2>1, Limits DEF RenameIn, RecoveryTypes, Snapshot
  <2> QED  BY <1>6, <2>1, <2>2 DEF RenameIn, Replaces, RecoveryTypes
<1>7. CASE RenameInFails \/ RemoveOld
  <2>1. op.aside \in Snapshot \cup {Empty} /\ op.slot \in Slots
    BY <1>7, OpIs DEF RenameInFails, RemoveOld, Replaces, Moves
  <2>2. snap' \in [Slots -> Snapshot \cup {Empty, Broken}]
    BY <1>7, <2>1 DEF RenameInFails, RemoveOld, RecoveryTypes
  <2>3. old' \in [Slots -> SUBSET (Snapshot \cup {Broken})]
    BY <1>7, <2>1 DEF RenameInFails, RemoveOld, RecoveryTypes
  <2> QED
    BY <1>1, <1>7, <2>2, <2>3 DEF RenameInFails, RemoveOld, Replaces, Replaced, RecoveryTypes
<1>20. CASE PutBackFails \/ RemoveOldFails
  <2>1. op.slot \in Slots /\ mishaps' \in 0..MaxMishaps
    BY <1>20, OpIs, Limits
    DEF PutBackFails, RemoveOldFails, Replaces, Moves, Mishap, RecoveryTypes
  <2>2. old' \in [Slots -> SUBSET (Snapshot \cup {Broken})]
    BY <1>20, <2>1 DEF PutBackFails, RemoveOldFails, HalfRemoved, RecoveryTypes
  <2> QED
    BY <1>1, <1>20, <2>1, <2>2
    DEF PutBackFails, RemoveOldFails, Replaces, Replaced, RecoveryTypes
<1>8. CASE Launch
  BY <1>8, Limits DEF Launch, RecoveryTypes
<1>9. CASE StartupFails \/ HostBoots \/ Quiesce \/ HostStops \/ OpenWindow
  BY <1>9 DEF StartupFails, HostBoots, Quiesce, HostStops, OpenWindow, RecoveryTypes
<1>10. CASE Configure
  BY <1>10 DEF Configure, RecoveryTypes, Files
<1>11. CASE RestoreBegins
  <2>1. PICK r \in Recoveries, s \in Slots :
          /\ snap' = r /\ old' = OldAfter(r)
          /\ \E changed \in SUBSET Names : marker' = MarkerOf(s, changed)
          /\ op' = [kind |-> "restore", slot |-> s, left |-> Order]
    BY <1>11 DEF RestoreBegins
  <2>2. op' \in Restores
    BY <2>1 DEF Restores
  <2>3. marker' \in [slot : Slots \cup {NoSlot}, pending : BOOLEAN]
    BY <2>1 DEF MarkerOf, RecoveryTypes
  <2> QED  BY <1>2, <1>11, <2>1, <2>2, <2>3 DEF RestoreBegins, RecoveryTypes
<1>12. CASE RestoreWrites
  <2>1. op \in Restores /\ op.slot \in Slots /\ op.left \in {Order, Tail(Order)}
    BY <1>12, OpIs, OrderIs DEF RestoreWrites
  <2>2. op' \in Restores
    BY <1>12, <2>1, OrderIs DEF RestoreWrites, Restores
  <2>3. files' \in Files
    BY <1>12, <2>1, OrderIs DEF RestoreWrites, RestoreFits, RecoveryTypes, Snapshot, Files, Names
  <2> QED  BY <1>12, <2>1, <2>2, <2>3 DEF RestoreWrites, RecoveryTypes
<1>13. CASE RestoreFails \/ Materialize \/ Materialized \/ MaterializeFails
  <2>1. op' \in {NoOp} \cup PnpmRuns
    BY <1>13, OpIs
    DEF RestoreFails, Materialize, Materialized, MaterializeFails, PnpmRuns
  <2>2. /\ deps' \in Versions \cup {Partial}
        /\ marker' \in [slot : Slots \cup {NoSlot}, pending : BOOLEAN]
    BY <1>13
    DEF RestoreFails, Materialize, Materialized, MaterializeFails, RecoveryTypes, Files, Names
  <2>3. unmet' \in BOOLEAN
    BY <1>13 DEF RestoreFails, Materialize, Materialized, MaterializeFails, RecoveryTypes
  <2>4. UNCHANGED <<snap, old, files, phase, mode, host, quit, taken, mishaps, starts, chosen>>
    BY <1>13 DEF RestoreFails, Materialize, Materialized, MaterializeFails
  <2> QED  BY <2>1, <2>2, <2>3, <2>4 DEF RecoveryTypes
<1>14. CASE Uninstall
  BY <1>14 DEF Uninstall, RecoveryTypes, Files
<1>15. ASSUME NEW next \in {"normal", "recovery", "none"}, ProcessExits(next) PROVE RecoveryTypes'
  BY <1>1, <1>15 DEF ProcessExits, RecoveryTypes, Files, Names
<1>16. CASE RequestQuit
  <2>1. PICK next \in {"normal", "recovery", "none"} :
          IF quit = "no"
          THEN /\ quit' = next /\ host' = (IF host = "live" THEN "disposing" ELSE host)
               /\ UNCHANGED <<profileDisk, phase, mode, op, history>>
          ELSE ProcessExits(IF next = "none" THEN quit ELSE next)
    BY <1>16 DEF RequestQuit
  <2>2. CASE quit = "no"
    BY <2>1, <2>2 DEF RecoveryTypes
  <2>3. CASE quit # "no"
    BY <1>15, <2>1, <2>3 DEF RecoveryTypes
  <2> QED  BY <2>2, <2>3
<1>17. CASE ExitReleased \/ ExitForced
  BY <1>15, <1>17 DEF ExitReleased, ExitForced, RecoveryTypes
<1>18. CASE Crash
  <2>1. old' \in [Slots -> SUBSET (Snapshot \cup {Broken})]
    BY <1>18 DEF Crash, HalfRemoved, RecoveryTypes
  <2>2. mishaps' \in 0..MaxMishaps /\ deps' \in Versions \cup {Partial}
    BY <1>18, Limits DEF Crash, Mishap, RecoveryTypes, Files, Names
  <2> QED  BY <1>1, <1>18, <2>1, <2>2 DEF Crash, RecoveryTypes
<1>19. CASE UNCHANGED recoveryVars
  BY <1>19 DEF recoveryVars, RecoveryTypes
<1> QED
  BY <1>3, <1>4, <1>5, <1>6, <1>7, <1>8, <1>9, <1>10, <1>11, <1>12, <1>13, <1>14, <1>16, <1>17,
     <1>18, <1>19, <1>20
  DEF RecoveryNext, Capture, Startup, Restore, Ending


(***************************************************************************)
(* Steps that leave the slots alone.                                       *)
(***************************************************************************)

\* What the invariant says of the slots.
SlotsFit ==
  /\ ReplacementFits /\ CountFits /\ LittleIsAside /\ SlotsAreKnown /\ NewestIsKept
  /\ OneInDoubt

LEMMA SlotsStay ==
  ASSUME RecoveryInv, UNCHANGED <<snap, old, taken, mishaps>>,
         op' = op \/ (op.kind \notin Moves /\ op'.kind \notin Moves)
  PROVE  SlotsFit'
<1>1. Full' = Full /\ \A s \in Slots : Candidates(s)' = Candidates(s)
  BY DEF Full, Candidates
<1>2. CASE op' = op
  <2>1. \A s \in Slots : Kept(s)' = Kept(s)
    BY <1>1, <1>2 DEF Kept
  <2>2. \A s \in Slots : Known(s)' <=> Known(s)
    BY <2>1 DEF Known
  <2>3. ReplacementFits' /\ CountFits' /\ LittleIsAside'
    BY <1>1, <1>2 DEF RecoveryInv, ReplacementFits, CountFits, LittleIsAside
  <2>4. SlotsAreKnown' /\ NewestIsKept' /\ OneInDoubt'
    BY <1>2, <2>1, <2>2 DEF RecoveryInv, SlotsAreKnown, NewestIsKept, OneInDoubt
  <2> QED  BY <2>3, <2>4 DEF SlotsFit
<1>3. CASE op.kind \notin Moves /\ op'.kind \notin Moves
  <2>1. \A s \in Slots : Kept(s)' = Kept(s)
    BY <1>1, <1>3 DEF Kept, Moves
  <2>2. \A s \in Slots : Known(s)' <=> Known(s)
    BY <2>1 DEF Known
  <2>3. ReplacementFits' /\ CountFits' /\ LittleIsAside'
    BY <1>1, <1>3 DEF RecoveryInv, ReplacementFits, CountFits, LittleIsAside, Moves
  <2>4. SlotsAreKnown' /\ NewestIsKept' /\ OneInDoubt'
    BY <1>3, <2>1, <2>2 DEF RecoveryInv, SlotsAreKnown, NewestIsKept, OneInDoubt, Moves
  <2> QED  BY <2>3, <2>4 DEF SlotsFit
<1> QED  BY <1>2, <1>3

\* The process goes from one phase to another.
LEMMA PhaseStep ==
  ASSUME RecoveryInv, RecoveryTypes',
         \/ Launch \/ StartupFails \/ HostBoots \/ Quiesce \/ HostStops \/ OpenWindow
         \/ UNCHANGED recoveryVars
  PROVE  RecoveryInv'
<1> USE DEF profileDisk, shell, history, recoveryVars
<1>1. UNCHANGED <<snap, old, marker, files, taken, mishaps, chosen, unmet, op>>
  BY DEF Launch, StartupFails, HostBoots, Quiesce, HostStops, OpenWindow
<1>2. SlotsFit'
  BY <1>1, SlotsStay
<1>3. PhaseFits'
  BY DEF RecoveryInv, PhaseFits, Launch, StartupFails, HostBoots, Quiesce, HostStops, OpenWindow,
         Quiesced
<1> QED
  BY <1>1, <1>2, <1>3 DEF RecoveryInv, SlotsFit, OwedIsPending, ChosenFits, RestoreFits

LEMMA ConfigureStep == ASSUME RecoveryInv, RecoveryTypes', Configure \/ Uninstall PROVE RecoveryInv'
<1>1. /\ UNCHANGED <<snap, old, marker, phase, host, op, taken, mishaps, chosen>>
      /\ phase = "running" \/ op = NoOp
  BY DEF Configure, Uninstall, shell, history, Free
<1>2. op.kind # "restore"
  BY <1>1 DEF RecoveryInv, PhaseFits, NoOp
<1>3. unmet' = unmet \/ unmet' = FALSE
  BY DEF Configure, Uninstall, history
<1>4. SlotsFit'
  BY <1>1, SlotsStay
<1> QED
  BY <1>1, <1>2, <1>3, <1>4
  DEF RecoveryInv, SlotsFit, PhaseFits, OwedIsPending, ChosenFits, RestoreFits


\* The files of a restore, one by one.
LEMMA RestoreWritesStep == ASSUME RecoveryInv, RecoveryTypes', RestoreWrites PROVE RecoveryInv'
<1>1. /\ op.kind = "restore" /\ op.slot \in Slots /\ op.left \in {Order, Tail(Order)}
      /\ UNCHANGED <<snap, old, marker, phase, host, taken, mishaps>>
      /\ chosen' = op.slot
  BY OpIs, OrderIs DEF RestoreWrites, RecoveryInv
<1>2. op'.kind = "restore" /\ op'.slot = op.slot /\ op'.left = Tail(op.left)
  BY <1>1, OpIs DEF RestoreWrites, Restores, RecoveryInv
<1>3. /\ marker.slot # NoSlot /\ snap[op.slot] \in Snapshot /\ phase = "recovery"
      /\ op.left = Order /\ files["pkg"] # snap[op.slot].files["pkg"] => marker.pending
  BY <1>1 DEF RecoveryInv, RestoreFits, PhaseFits
<1>4. OwedIsPending'
  <2>1. CASE op.left = Order
    <3>1. files' = [files EXCEPT !["pkg"] = snap[op.slot].files["pkg"]]
          /\ unmet' = (unmet \/ files'["pkg"] # files["pkg"])
      BY <2>1, OrderIs DEF RestoreWrites
    <3>2. unmet' => unmet \/ snap[op.slot].files["pkg"] # files["pkg"]
      BY <3>1 DEF RecoveryInv, RecoveryTypes, Files, Names
    <3> QED  BY <1>1, <1>3, <2>1, <3>2 DEF RecoveryInv, OwedIsPending
  <2>2. CASE op.left = Tail(Order)
    <3>1. files' = [files EXCEPT !["patch"] = snap[op.slot].files["patch"]]
          /\ unmet' = (unmet \/ files'["pkg"] # files["pkg"])
      BY <2>2, OrderIs DEF RestoreWrites
    <3>2. unmet' => unmet
      BY <3>1 DEF RecoveryInv, RecoveryTypes, Files, Names
    <3> QED  BY <1>1, <3>2 DEF RecoveryInv, OwedIsPending
  <2> QED  BY <1>1, <2>1, <2>2
<1>5. RestoreFits'
  BY <1>1, <1>2, <1>3, OrderIs DEF RestoreFits
<1>6. ChosenFits'
  BY <1>1, <1>2, <1>3, DirsApart DEF ChosenFits
<1>7. SlotsFit'
  BY <1>1, <1>2, SlotsStay DEF Moves
<1> QED
  BY <1>1, <1>2, <1>3, <1>4, <1>5, <1>6, <1>7 DEF RecoveryInv, SlotsFit, PhaseFits

\* pnpm is started and ends, or the restore is given up.
LEMMA MaterializeStep ==
  ASSUME RecoveryInv, RecoveryTypes',
         RestoreFails \/ Materialize \/ Materialized \/ MaterializeFails
  PROVE  RecoveryInv'
<1>1. /\ op.kind \in {"restore", "pnpm"} /\ op'.kind \in {"idle", "pnpm"}
      /\ UNCHANGED <<snap, old, files, phase, host, taken, mishaps, chosen>>
  BY OpIs
  DEF RestoreFails, Materialize, Materialized, MaterializeFails, profileDisk, history, NoOp, RecoveryInv
<1>2. marker'.slot = marker.slot
  BY DEF RestoreFails, Materialize, Materialized, MaterializeFails, profileDisk, RecoveryInv,
         RecoveryTypes
<1>3. OwedIsPending'
  <2>1. CASE Materialized
    BY <2>1 DEF Materialized, OwedIsPending
  <2>2. CASE RestoreFails \/ Materialize \/ MaterializeFails
    <3>1. UNCHANGED <<unmet, marker>>
      BY <2>2 DEF RestoreFails, Materialize, MaterializeFails, profileDisk, history
    <3> QED  BY <3>1 DEF RecoveryInv, OwedIsPending
  <2> QED  BY <2>1, <2>2
<1>4. phase # "down"
  BY <1>1 DEF RecoveryInv, PhaseFits, NoOp
<1>5. SlotsFit'
  BY <1>1, SlotsStay DEF Moves
<1> QED
  BY <1>1, <1>2, <1>3, <1>4, <1>5 DEF RecoveryInv, SlotsFit, PhaseFits, ChosenFits, RestoreFits

\* The process ends in good order, or asks for it.
LEMMA QuitStep ==
  ASSUME RecoveryInv, RecoveryTypes', RequestQuit \/ ExitReleased \/ ExitForced
  PROVE  RecoveryInv'
<1>1. op.kind \in {"idle", "pnpm"}
  BY DEF RequestQuit, ExitReleased, ExitForced, Waiting, Free, NoOp
<1>2. ASSUME NEW next, ProcessExits(next) PROVE RecoveryInv'
  <2>1. /\ UNCHANGED <<snap, old, marker, files, taken, mishaps, chosen, unmet>>
        /\ phase' = "down" /\ host' = "none" /\ op' = NoOp /\ op'.kind = "idle"
    BY <1>2 DEF ProcessExits, history, NoOp
  <2>2. SlotsFit'
    BY <1>1, <2>1, SlotsStay DEF Moves
  <2> QED
    BY <2>1, <2>2 DEF RecoveryInv, SlotsFit, PhaseFits, OwedIsPending, ChosenFits, RestoreFits
<1>3. CASE /\ host' = (IF host = "live" THEN "disposing" ELSE host)
           /\ UNCHANGED <<profileDisk, phase, op, history>>
  <2>1. UNCHANGED <<snap, old, marker, files, phase, op, taken, mishaps, chosen, unmet>>
    BY <1>3 DEF profileDisk, history
  <2>2. SlotsFit'
    BY <2>1, SlotsStay
  <2> QED
    BY <1>3, <2>1, <2>2
    DEF RecoveryInv, SlotsFit, PhaseFits, OwedIsPending, ChosenFits, RestoreFits
<1> QED  BY <1>2, <1>3 DEF RequestQuit, ExitReleased, ExitForced


(***************************************************************************)
(* Steps that change the slots.                                            *)
(***************************************************************************)

\* Whatever reads the slots first brings back what was moved aside, and knows
\* afterwards what each of them holds.
LEMMA SlotsRecovered ==
  ASSUME RecoveryInv, op = NoOp, NEW r \in Recoveries, snap' = r, old' = OldAfter(r)
  PROVE  /\ \A s \in Slots : Candidates(s)' = {r[s]} /\ Kept(s) = Candidates(s)
         /\ Full' = Full
         /\ \A s \in Slots : r[s] # Empty <=> s \in Full
         /\ mishaps = 0 => \A s \in Slots : old'[s] = {}
         /\ \A s \in Slots : Known(s) => Kept(s) = {r[s]}
<1>1. \A s \in Slots :
        /\ r[s] \in Candidates(s)
        /\ r[s] = Empty <=> snap[s] = Empty /\ old[s] = {}
        /\ r[s] = Empty => old'[s] = {}
        /\ old[s] = {} => old'[s] = {}
  BY RecoveryIs DEF RecoveryInv
<1>2. \A s \in Slots : Candidates(s)' = {r[s]}
  BY <1>1 DEF Candidates
<1>3. op.kind = "idle"
  BY DEF NoOp
<1>4. \A s \in Slots : Kept(s) = Candidates(s)
  BY <1>3 DEF Kept
<1>5. \A s \in Slots : r[s] # Empty <=> s \in Full
  BY <1>1 DEF Full
<1>6. Full' = Full
  BY <1>1 DEF Full
<1>7. mishaps = 0 => \A s \in Slots : old'[s] = {}
  BY <1>1, <1>3 DEF RecoveryInv, LittleIsAside
<1>8. \A s \in Slots : Known(s) => Kept(s) = {r[s]}
  BY <1>1, <1>4 DEF Known
<1> QED  BY <1>2, <1>4, <1>5, <1>6, <1>7, <1>8

\* After it, another operation than a replacement may follow.
LEMMA SlotsReadStep ==
  ASSUME RecoveryInv, op = NoOp, op'.kind \notin Moves, UNCHANGED <<taken, mishaps>>,
         NEW r \in Recoveries, snap' = r, old' = OldAfter(r)
  PROVE  SlotsFit'
<1>1. \A s \in Slots : Kept(s)' = {r[s]}
  BY SlotsRecovered DEF Kept, Moves
<1>2. \A s \in Slots : Known(s) => Kept(s)' = Kept(s) /\ Known(s)'
  BY <1>1, SlotsRecovered DEF Known
<1>3. SlotsAreKnown' /\ NewestIsKept' /\ OneInDoubt'
  BY <1>2 DEF RecoveryInv, SlotsAreKnown, NewestIsKept, OneInDoubt, Moves
<1>4. CountFits' /\ LittleIsAside' /\ ReplacementFits'
  BY SlotsRecovered DEF RecoveryInv, CountFits, LittleIsAside, ReplacementFits, Moves
<1> QED  BY <1>3, <1>4 DEF SlotsFit

LEMMA CaptureSkipsStep == ASSUME RecoveryInv, RecoveryTypes', CaptureSkips PROVE RecoveryInv'
<1>1. /\ op = NoOp /\ op' = NoOp /\ op'.kind = "idle" /\ chosen' = NoSlot /\ unmet' = FALSE
      /\ phase' = "running"
      /\ UNCHANGED <<taken, mishaps>>
  BY DEF CaptureSkips, Free, NoOp
<1>2. SlotsFit'
  BY <1>1, SlotsReadStep DEF CaptureSkips, Moves
<1> QED
  BY <1>1, <1>2 DEF RecoveryInv, SlotsFit, PhaseFits, OwedIsPending, ChosenFits, RestoreFits

LEMMA CaptureFailsStep == ASSUME RecoveryInv, RecoveryTypes', CaptureFails PROVE RecoveryInv'
<1>1. /\ op = NoOp /\ op' = NoOp /\ op'.kind = "idle" /\ phase' = "running"
      /\ UNCHANGED <<marker, files, taken, mishaps, chosen, unmet>>
  BY DEF CaptureFails, Free, NoOp, history
<1>2. CASE UNCHANGED <<snap, old>>
  <2>1. SlotsFit'
    BY <1>1, <1>2, SlotsStay
  <2> QED
    BY <1>1, <1>2, <2>1
    DEF RecoveryInv, SlotsFit, PhaseFits, OwedIsPending, ChosenFits, RestoreFits
<1>3. ASSUME NEW r \in Recoveries, snap' = r, old' = OldAfter(r) PROVE RecoveryInv'
  <2>1. SlotsFit'
    BY <1>1, <1>3, SlotsReadStep DEF Moves
  <2>2. chosen # NoSlot => snap'[chosen] # Empty
    BY <1>3, RecoveryIs DEF RecoveryInv, RecoveryTypes, ChosenFits
  <2> QED
    BY <1>1, <2>1, <2>2
    DEF RecoveryInv, SlotsFit, PhaseFits, OwedIsPending, ChosenFits, RestoreFits
<1> QED  BY <1>2, <1>3 DEF CaptureFails

LEMMA RestoreBeginsStep == ASSUME RecoveryInv, RecoveryTypes', RestoreBegins PROVE RecoveryInv'
<1>1. PICK r \in Recoveries, s \in Slots :
        LET changed == {n \in Names : files[n] # r[s].files[n]} IN
        /\ Listable(r) /\ r[s] # Empty
        /\ snap' = r /\ old' = OldAfter(r)
        /\ marker' = MarkerOf(s, changed)
        /\ op' = [kind |-> "restore", slot |-> s, left |-> Order]
  BY DEF RestoreBegins
<1>2. /\ op = NoOp /\ op'.kind = "restore" /\ op'.slot = s /\ op'.left = Order
      /\ phase = "recovery"
      /\ UNCHANGED <<files, phase, host, taken, mishaps, chosen, unmet>>
  BY <1>1 DEF RestoreBegins, Free, history
<1>3. r[s] \in Snapshot
  BY <1>1, RecoveryIs DEF RecoveryInv, Listable, Dirs
<1>4. /\ marker'.slot = s
      /\ marker.pending => marker'.pending
      /\ files["pkg"] # r[s].files["pkg"] => marker'.pending
  BY <1>1 DEF MarkerOf, Names
<1>5. SlotsFit'
  BY <1>1, <1>2, SlotsReadStep DEF Moves
<1>6. RestoreFits'
  BY <1>1, <1>2, <1>3, <1>4, SlotsAssumption DEF RestoreFits
<1>7. ChosenFits'
  <2>1. chosen # NoSlot => chosen \in Slots /\ snap[chosen] # Empty
    BY DEF RecoveryInv, RecoveryTypes, ChosenFits
  <2>2. chosen # NoSlot => r[chosen] = snap[chosen]
    BY <1>1, <2>1, RecoveryIs DEF RecoveryInv
  <2> QED  BY <1>1, <1>2, <1>4, <2>1, <2>2, SlotsAssumption DEF ChosenFits
<1> QED
  BY <1>2, <1>4, <1>5, <1>6, <1>7 DEF RecoveryInv, SlotsFit, PhaseFits, OwedIsPending

\* A replacement begins: nothing has moved yet, and only a full set of slots
\* gives one up.
LEMMA CaptureStagesStep == ASSUME RecoveryInv, RecoveryTypes', CaptureStages PROVE RecoveryInv'
<1>1. PICK r \in Recoveries :
        /\ Listable(r) /\ snap' = r /\ old' = OldAfter(r)
        /\ op' = [kind |-> FirstStep(r[Target(r)]), slot |-> Target(r),
                  aside |-> r[Target(r)], new |-> [at |-> taken + 1, files |-> files]]
  BY DEF CaptureStages
<1>2. /\ op = NoOp /\ marker = NoMarker /\ phase = "booting" /\ unmet' = FALSE
      /\ UNCHANGED <<marker, phase, host, taken, mishaps, chosen>>
  BY DEF CaptureStages, Free
<1>3. r \in [Slots -> Snapshot \cup {Empty}]
  BY <1>1, RecoveryIs DEF RecoveryInv, Listable, Dirs
<1> DEFINE t == Target(r)
<1>4. t \in Slots /\ (r[t] # Empty => \A s \in Slots : r[s] # Empty)
  BY <1>3, TargetIs
<1>5. /\ op'.kind = FirstStep(r[t]) /\ op'.slot = t /\ op'.aside = r[t] /\ op'.new.at = taken + 1
  BY <1>1
<1>6. \/ op'.kind = "moveAside" /\ r[t] # Empty
      \/ op'.kind = "renameIn" /\ r[t] = Empty
  BY <1>5 DEF FirstStep
<1>7. /\ Full' = Full /\ \A s \in Slots : Candidates(s)' = {r[s]} /\ (r[s] # Empty <=> s \in Full)
      /\ mishaps = 0 => \A s \in Slots : old'[s] = {}
      /\ \A s \in Slots : Known(s) => Kept(s) = {r[s]}
  BY <1>1, <1>2, SlotsRecovered
<1>8. r[t] = Empty => old'[t] = {}
  BY <1>1, <1>4, RecoveryIs DEF RecoveryInv
<1>9. r[t] # Empty => Full = Slots
  BY <1>4, <1>7 DEF Full
<1> HIDE DEF t
<1>10. \A s \in Slots : Kept(s)' = {r[s]}
  BY <1>5, <1>7 DEF Kept
<1>11. ReplacementFits'
  BY <1>1, <1>2, <1>3, <1>4, <1>5, <1>6, <1>7, <1>8, <1>9 DEF ReplacementFits
<1>12. LittleIsAside'
  BY <1>2, <1>5, <1>6, <1>7 DEF LittleIsAside
<1>15. \A s \in Slots : Known(s)'
  BY <1>3, <1>10 DEF Known
<1>13. SlotsAreKnown' /\ NewestIsKept' /\ OneInDoubt' /\ CountFits'
  BY <1>2, <1>7, <1>10, <1>15
  DEF RecoveryInv, SlotsAreKnown, NewestIsKept, OneInDoubt, CountFits
<1>14. chosen = NoSlot
  BY <1>2 DEF RecoveryInv, ChosenFits, NoMarker
<1> QED
  BY <1>2, <1>6, <1>11, <1>12, <1>13, <1>14
  DEF RecoveryInv, PhaseFits, OwedIsPending, ChosenFits, RestoreFits


\* The slot that is being replaced, and what the process is doing with it.
LEMMA ReplacementIs ==
  ASSUME RecoveryInv, op.kind \in Moves
  PROVE  /\ op.slot \in Slots /\ op.aside \in Snapshot \cup {Empty} /\ op.new \in Snapshot
         /\ op.new # Empty /\ chosen = NoSlot /\ taken \in Nat /\ mishaps \in Nat
         /\ snap \in [Slots -> Dirs] /\ old \in [Slots -> SUBSET (Snapshot \cup {Broken})]
BY OpIs, DirsApart, Limits DEF RecoveryInv, ChosenFits, RecoveryTypes, Moves, Dirs

\* A step of a replacement is over when these parts hold again.
LEMMA ReplacementStep ==
  ASSUME RecoveryInv, RecoveryTypes', op.kind \in Moves, SlotsFit',
         op'.kind # "restore", phase' # "down",
         phase' \in {phase, "running"}, UNCHANGED <<marker, host, chosen, unmet>>
  PROVE  RecoveryInv'
BY ReplacementIs
DEF RecoveryInv, SlotsFit, PhaseFits, OwedIsPending, ChosenFits, RestoreFits

LEMMA MoveAsideStep == ASSUME RecoveryInv, RecoveryTypes', MoveAside PROVE RecoveryInv'
<1>t. PICK t \in Slots : t = op.slot
  BY ReplacementIs DEF MoveAside, Replaces, Moves
<1> USE <1>t
<1>1. /\ op.kind = "moveAside" /\ op.aside \in Snapshot /\ snap[t] = op.aside
      /\ op.new.at = taken + 1 /\ Full = Slots
  BY DirsApart DEF MoveAside, Replaces, RecoveryInv, ReplacementFits
<1>2. t \in Slots /\ op.aside # Empty
  BY <1>1, ReplacementIs, DirsApart DEF Moves
<1>3. /\ op'.kind = "renameIn" /\ op'.slot = t /\ op'.aside = op.aside /\ op'.new = op.new
  BY <1>1, OpGoes DEF MoveAside, Moves, RecoveryInv
<1>4. /\ snap'[t] = Empty /\ old'[t] = old[t] \cup {op.aside}
      /\ \A s \in Slots : s # t => snap'[s] = snap[s] /\ old'[s] = old[s]
      /\ UNCHANGED <<phase, taken, mishaps, marker, host, chosen, unmet>>
  BY <1>1, <1>2, ReplacementIs DEF MoveAside, Replaces, Moves
<1>5. Full' = Slots
  BY <1>1, <1>2, <1>4 DEF Full
<1>6. \A s \in Slots : Kept(s)' = Kept(s)
  <2>1. Kept(t)' = {op.aside}
    BY <1>3 DEF Kept
  <2>2. Kept(t) = {op.aside}
    BY <1>1, <1>2 DEF Kept, Candidates
  <2>3. \A s \in Slots : s # t => Kept(s)' = Kept(s)
    BY <1>1, <1>3, <1>4 DEF Kept, Candidates
  <2> QED  BY <2>1, <2>2, <2>3
<1>7. ReplacementFits'
  BY <1>1, <1>2, <1>3, <1>4, <1>5 DEF ReplacementFits
<1>8. LittleIsAside'
  <2>1. mishaps = 0 => \A s \in Slots : old[s] = {}
    BY <1>1 DEF RecoveryInv, LittleIsAside
  <2> QED  BY <1>2, <1>3, <1>4, <2>1 DEF LittleIsAside
<1>11. \A s \in Slots : Known(s)'
  BY <1>1, <1>6 DEF RecoveryInv, OneInDoubt, Known
<1>9. CountFits' /\ SlotsAreKnown' /\ NewestIsKept' /\ OneInDoubt'
  BY <1>4, <1>5, <1>6, <1>11
  DEF RecoveryInv, CountFits, SlotsAreKnown, NewestIsKept, OneInDoubt
<1>10. phase' # "down"
  BY <1>1, <1>4 DEF RecoveryInv, PhaseFits, NoOp
<1> QED
  BY <1>1, <1>3, <1>4, <1>7, <1>8, <1>9, <1>10, ReplacementStep DEF SlotsFit, Moves

\* The new checkpoint is in its place: one more, or one for another.
LEMMA RenameInStep == ASSUME RecoveryInv, RecoveryTypes', RenameIn PROVE RecoveryInv'
<1>t. PICK t \in Slots : t = op.slot
  BY ReplacementIs DEF RenameIn, Replaces, Moves
<1> USE <1>t
<1>1. /\ op.kind = "renameIn" /\ snap[t] = Empty /\ op.new.at = taken + 1
      /\ op.aside = Empty => old[t] = {}
      /\ op.aside # Empty => Full = Slots
  BY DEF RenameIn, Replaces, RecoveryInv, ReplacementFits
<1>2. t \in Slots /\ op.new \in Snapshot /\ op.new # Empty /\ taken \in Nat
  BY <1>1, ReplacementIs DEF Moves
<1>3. /\ op'.kind = "removeOld" /\ op'.slot = t /\ op'.aside = op.aside /\ op'.new = op.new
  BY <1>1, OpGoes DEF RenameIn, Moves, RecoveryInv
<1>4. /\ snap'[t] = op.new /\ taken' = taken + 1
      /\ \A s \in Slots : s # t => snap'[s] = snap[s]
      /\ UNCHANGED <<old, phase, mishaps, marker, host, chosen, unmet>>
  BY <1>1, <1>2, ReplacementIs DEF RenameIn, Replaces, Moves
<1>5. Full' = Full \cup {t}
  BY <1>2, <1>4 DEF Full
<1>6. CountFits'
  <2>1. CASE op.aside # Empty
    BY <1>1, <1>2, <1>5, <2>1 DEF CountFits
  <2>2. CASE op.aside = Empty
    <3>1. t \notin Full
      BY <1>1, <2>2 DEF Full
    <3>2. IsFiniteSet(Full)
      BY SlotsAssumption, FS_Subset DEF Full
    <3>3. Cardinality(Full') = Cardinality(Full) + 1 /\ Cardinality(Full) \in Nat
      BY <1>5, <3>1, <3>2, FS_AddElement, FS_CardinalityType
    <3>4. Full # Slots
      BY <1>2, <3>1
    <3> QED  BY <1>2, <1>4, <3>3, <3>4 DEF RecoveryInv, CountFits
  <2> QED  BY <2>1, <2>2
<1>7. Kept(t)' = {op.new} /\ \A s \in Slots : s # t => Kept(s)' = Kept(s)
  BY <1>1, <1>2, <1>3, <1>4 DEF Kept, Candidates
<1>12. \A s \in Slots : Known(s)'
  BY <1>1, <1>2, <1>7 DEF RecoveryInv, OneInDoubt, Known
<1>8. SlotsAreKnown' /\ OneInDoubt'
  BY <1>12 DEF SlotsAreKnown, OneInDoubt
<1>9. NewestIsKept'
  BY <1>1, <1>2, <1>4, <1>7 DEF NewestIsKept
<1>10. ReplacementFits' /\ LittleIsAside'
  BY <1>1, <1>3, <1>4 DEF RecoveryInv, ReplacementFits, LittleIsAside
<1>11. phase' # "down"
  BY <1>1, <1>4 DEF RecoveryInv, PhaseFits, NoOp
<1> QED
  BY <1>1, <1>3, <1>4, <1>6, <1>8, <1>9, <1>10, <1>11, ReplacementStep DEF SlotsFit, Moves

\* What was moved aside is put back.
LEMMA RenameInFailsStep == ASSUME RecoveryInv, RecoveryTypes', RenameInFails PROVE RecoveryInv'
<1>t. PICK t \in Slots : t = op.slot
  BY ReplacementIs DEF RenameInFails, Replaces, Moves
<1> USE <1>t
<1>1. /\ op.kind = "renameIn" /\ snap[t] = Empty
      /\ op.aside = Empty => old[t] = {}
      /\ op.aside # Empty => Full = Slots
  BY DEF RenameInFails, Replaces, RecoveryInv, ReplacementFits
<1>2. t \in Slots /\ op.aside \in Snapshot \cup {Empty}
  BY <1>1, ReplacementIs DEF Moves
<1>3. op' = NoOp /\ op'.kind = "idle" /\ phase' = "running"
  BY DEF RenameInFails, Replaced, NoOp
<1>4. /\ snap'[t] = op.aside /\ old'[t] = old[t] \ {op.aside}
      /\ \A s \in Slots : s # t => snap'[s] = snap[s] /\ old'[s] = old[s]
      /\ UNCHANGED <<taken, mishaps, marker, host, chosen, unmet>>
  BY <1>1, <1>2, ReplacementIs DEF RenameInFails, Replaces, Moves
<1>5. Full' = Full
  BY <1>1, <1>2, <1>4 DEF Full
<1>6. \A s \in Slots : Kept(s)' = Kept(s)
  <2>1. Kept(t) = {op.aside}
    BY <1>1 DEF Kept
  <2>2. Kept(t)' = {op.aside}
    BY <1>1, <1>3, <1>4 DEF Kept, Candidates
  <2>3. \A s \in Slots : s # t => Kept(s)' = Kept(s)
    BY <1>1, <1>3, <1>4 DEF Kept, Candidates
  <2> QED  BY <2>1, <2>2, <2>3
<1>7. LittleIsAside'
  <2>1. mishaps = 0 => old[t] \subseteq {op.aside} /\ \A s \in Slots : s # t => old[s] = {}
    BY <1>1, <1>2 DEF RecoveryInv, LittleIsAside
  <2> QED  BY <1>2, <1>3, <1>4, <2>1 DEF LittleIsAside
<1>9. \A s \in Slots : Known(s)'
  BY <1>1, <1>6 DEF RecoveryInv, OneInDoubt, Known
<1>8. SlotsFit'
  BY <1>3, <1>4, <1>5, <1>6, <1>7, <1>9
  DEF RecoveryInv, SlotsFit, ReplacementFits, CountFits, SlotsAreKnown, NewestIsKept, OneInDoubt
<1> QED  BY <1>1, <1>3, <1>4, <1>8, ReplacementStep DEF Moves

\* What was moved aside is no longer needed.
LEMMA RemoveOldStep == ASSUME RecoveryInv, RecoveryTypes', RemoveOld PROVE RecoveryInv'
<1>t. PICK t \in Slots : t = op.slot
  BY ReplacementIs DEF RemoveOld, Replaces, Moves
<1> USE <1>t
<1>1. op.kind = "removeOld" /\ snap[t] = op.new
  BY DEF RemoveOld, Replaces, RecoveryInv, ReplacementFits
<1>2. t \in Slots /\ op.new # Empty
  BY <1>1, ReplacementIs DEF Moves
<1>3. op' = NoOp /\ op'.kind = "idle" /\ phase' = "running"
  BY DEF RemoveOld, Replaced, NoOp
<1>4. /\ old'[t] = old[t] \ {op.aside} /\ \A s \in Slots : s # t => old'[s] = old[s]
      /\ UNCHANGED <<snap, taken, mishaps, marker, host, chosen, unmet>>
  BY <1>1, <1>2, ReplacementIs DEF RemoveOld, Replaces, Moves
<1>5. Full' = Full
  BY <1>1, <1>2, <1>4 DEF Full
<1>6. \A s \in Slots : Kept(s)' = Kept(s)
  BY <1>1, <1>2, <1>3, <1>4 DEF Kept, Candidates
<1>7. LittleIsAside'
  <2>1. mishaps = 0 => old[t] \subseteq {op.aside} /\ \A s \in Slots : s # t => old[s] = {}
    BY <1>1, <1>2 DEF RecoveryInv, LittleIsAside
  <2> QED  BY <1>2, <1>3, <1>4, <2>1 DEF LittleIsAside
<1>9. \A s \in Slots : Known(s)'
  BY <1>1, <1>6 DEF RecoveryInv, OneInDoubt, Known
<1>8. SlotsFit'
  BY <1>3, <1>4, <1>5, <1>6, <1>7, <1>9
  DEF RecoveryInv, SlotsFit, ReplacementFits, CountFits, SlotsAreKnown, NewestIsKept, OneInDoubt
<1> QED  BY <1>1, <1>3, <1>4, <1>8, ReplacementStep DEF Moves

\* A mishap cuts a replacement off, or the process: no slot but the one that was
\* being replaced is less known than it was, and the first mishap leaves that one
\* known, too.
LEMMA FaultStep ==
  ASSUME RecoveryInv, op' = NoOp, UNCHANGED <<snap, taken>>, Mishap,
         UNCHANGED old \/ (op.kind = "removeOld" /\ HalfRemoved)
  PROVE  SlotsFit'
<1>1. op'.kind = "idle" /\ mishaps' = mishaps + 1 /\ mishaps \in Nat
  BY Limits DEF Mishap, NoOp, RecoveryInv, RecoveryTypes
<1>2. \A s \in Slots : old'[s] = old[s] \/ snap[s] # Empty
  <2>1. CASE UNCHANGED old
    BY <2>1
  <2>2. CASE /\ op.kind = "removeOld"
             /\ old' = [old EXCEPT ![op.slot] = (@ \ {op.aside}) \cup {Broken}]
    <3>1. snap[op.slot] # Empty
      BY <2>2, ReplacementIs DEF RecoveryInv, ReplacementFits, Moves
    <3> QED  BY <2>2, <3>1, ReplacementIs DEF Moves
  <2> QED  BY <2>1, <2>2 DEF HalfRemoved
<1>3. \A s \in Slots : Candidates(s)' = Candidates(s)
  BY <1>2 DEF Candidates
<1>4. mishaps = 0 => \A s \in Slots : Candidates(s) = Kept(s)
  <2>1. CASE op.kind = "renameIn"
    <3>1. snap[op.slot] = Empty /\ op.slot \in Slots
      BY <2>1, ReplacementIs DEF RecoveryInv, ReplacementFits, Moves
    <3>2. mishaps = 0 => old[op.slot] = {op.aside} \ {Empty}
      BY <2>1, <3>1 DEF RecoveryInv, LittleIsAside
    <3>3. mishaps = 0 => Candidates(op.slot) = {op.aside}
      BY <3>1, <3>2 DEF Candidates
    <3> QED  BY <2>1, <3>3 DEF Kept
  <2>2. CASE op.kind # "renameIn"
    BY <2>2 DEF Kept
  <2> QED  BY <2>1, <2>2
<1>5. \A s \in Slots : Kept(s)' = Candidates(s)
  BY <1>1, <1>3 DEF Kept
<1>6. mishaps' <= 1 => mishaps = 0 /\ \A s \in Slots : Kept(s)' = Kept(s)
  BY <1>1, <1>4, <1>5
<1>7. SlotsAreKnown' /\ NewestIsKept'
  BY <1>1, <1>6 DEF RecoveryInv, SlotsAreKnown, NewestIsKept, Known
<1>8. OneInDoubt'
  <2>1. CASE op.kind = "renameIn"
    <3>1. \A s \in Slots : s # op.slot => Kept(s)' = Kept(s)
      BY <1>5 DEF Kept
    <3>2. \A s \in Slots : s # op.slot => Known(s)'
      BY <2>1, <3>1 DEF RecoveryInv, OneInDoubt, Known
    <3> QED  BY <1>1, <3>2 DEF OneInDoubt
  <2>2. CASE op.kind # "renameIn"
    <3>1. \A s \in Slots : Kept(s)' = Kept(s)
      BY <1>5, <2>2 DEF Kept
    <3>2. \A s \in Slots : Known(s)' <=> Known(s)
      BY <3>1 DEF Known
    <3> QED  BY <1>1, <3>2 DEF RecoveryInv, OneInDoubt
  <2> QED  BY <2>1, <2>2
<1>9. Full' = Full
  BY <1>2 DEF Full
<1> QED
  BY <1>1, <1>7, <1>8, <1>9
  DEF RecoveryInv, SlotsFit, ReplacementFits, CountFits, LittleIsAside

\* What was moved aside cannot be put back, or not be removed.
LEMMA CleanUpFailsStep ==
  ASSUME RecoveryInv, RecoveryTypes', PutBackFails \/ RemoveOldFails PROVE RecoveryInv'
<1>1. /\ op.kind \in Moves /\ op' = NoOp /\ op'.kind = "idle" /\ phase' = "running"
      /\ UNCHANGED <<marker, host, chosen, unmet>>
  BY DEF PutBackFails, RemoveOldFails, Replaces, Replaced, Moves, NoOp
<1>2. SlotsFit'
  BY <1>1, FaultStep DEF PutBackFails, RemoveOldFails, Replaces
<1> QED  BY <1>1, <1>2, ReplacementStep

LEMMA CrashStep == ASSUME RecoveryInv, RecoveryTypes', Crash PROVE RecoveryInv'
<1>1. /\ phase' = "down" /\ host' = "none" /\ op' = NoOp /\ op'.kind = "idle"
      /\ UNCHANGED <<snap, marker, files, taken, chosen, unmet>>
  BY DEF Crash, NoOp
<1>2. SlotsFit'
  BY <1>1, FaultStep DEF Crash
<1> QED
  BY <1>1, <1>2
  DEF RecoveryInv, SlotsFit, PhaseFits, OwedIsPending, ChosenFits, RestoreFits


LEMMA RecoveryInvInit == RecoveryInit => RecoveryInv
<1> SUFFICES ASSUME RecoveryInit PROVE RecoveryInv
  OBVIOUS
<1>1. op = NoOp /\ op.kind = "idle" /\ Full = {}
  BY DEF RecoveryInit, NoOp, Full
<1>2. snap \in [Slots -> Snapshot \cup {Empty, Broken}] /\ old \in [Slots -> SUBSET (Snapshot \cup {Broken})]
  BY DEF RecoveryInit
<1>3. /\ taken \in 0..MaxSnapshots /\ mishaps \in 0..MaxMishaps /\ starts \in 0..MaxStarts
      /\ files \in Files /\ marker \in [slot : Slots \cup {NoSlot}, pending : BOOLEAN]
      /\ deps \in Versions \cup {Partial}
  BY Limits, VersionsAssumption DEF RecoveryInit, Files, NoMarker
<1>4. RecoveryTypes
  BY <1>1, <1>2, <1>3 DEF RecoveryInit, RecoveryTypes
<1>5. Cardinality(Full) >= taken
  BY <1>1, FS_EmptySet DEF RecoveryInit
<1>6. \A s \in Slots : Kept(s) = {Empty} /\ Known(s)
  BY <1>1 DEF Known, Kept, Candidates, RecoveryInit
<1> QED
  BY <1>1, <1>4, <1>5, <1>6
  DEF RecoveryInit, RecoveryInv, PhaseFits, OwedIsPending, ChosenFits, RestoreFits,
      ReplacementFits, CountFits, LittleIsAside, SlotsAreKnown, NewestIsKept, OneInDoubt

LEMMA RecoveryInvNext == RecoveryInv /\ [RecoveryNext]_recoveryVars => RecoveryInv'
<1> SUFFICES ASSUME RecoveryInv, [RecoveryNext]_recoveryVars PROVE RecoveryInv'
  OBVIOUS
<1>1. RecoveryTypes'
  BY RecoveryTypesNext DEF RecoveryInv
<1>2. CASE Capture
  BY <1>1, <1>2, CaptureSkipsStep, CaptureFailsStep, CaptureStagesStep, MoveAsideStep,
     RenameInStep, RenameInFailsStep, RemoveOldStep, CleanUpFailsStep
  DEF Capture
<1>3. CASE Startup \/ UNCHANGED recoveryVars
  BY <1>1, <1>3, PhaseStep, ConfigureStep DEF Startup
<1>4. CASE Restore
  BY <1>1, <1>4, RestoreBeginsStep, RestoreWritesStep, MaterializeStep, ConfigureStep DEF Restore
<1>5. CASE Ending
  BY <1>1, <1>5, QuitStep, CrashStep DEF Ending
<1> QED  BY <1>2, <1>3, <1>4, <1>5 DEF RecoveryNext

\* The invariant the theorems about the recovery rest on.
THEOREM RecoveryInvAlways == RecoverySpec => []RecoveryInv
BY RecoveryInvInit, RecoveryInvNext, PTL DEF RecoverySpec

\* A slot whose contents are known is usable unless it is empty, and all but one
\* are known.
LEMMA CheckpointsAreKept == RecoveryInv => CheckpointsKept
<1> DEFINE There == {s \in Slots : Usable(s)}
<1> SUFFICES ASSUME RecoveryInv, phase = "down"
             PROVE  /\ Cardinality(There) + 1 >= Min({taken, Cardinality(Slots)})
                    /\ mishaps <= 1 =>
                         /\ Cardinality(There) >= Min({taken, Cardinality(Slots)})
                         /\ taken > 0 =>
                              \E s \in Slots : Usable(s) /\ \A c \in Candidates(s) : c.at = taken
  BY DEF CheckpointsKept
<1>1. op.kind = "idle"
  BY DEF RecoveryInv, PhaseFits, NoOp
<1>2. \A s \in Slots : Kept(s) = Candidates(s)
  BY <1>1 DEF Kept
<1>3. \A s \in Slots : Known(s) /\ s \in Full => Usable(s)
  BY <1>2, DirsApart DEF Known, Usable, Full, Candidates, RecoveryInv, RecoveryTypes
<1>4. /\ taken \in Nat /\ Cardinality(Slots) \in Nat
      /\ IsFiniteSet(Full) /\ Cardinality(Full) \in Nat
      /\ IsFiniteSet(There) /\ Cardinality(There) \in Nat
  BY SlotsAssumption, Limits, FS_CardinalityType, FS_Subset DEF RecoveryInv, RecoveryTypes, Full
<1>5. /\ Min({taken, Cardinality(Slots)}) <= taken
      /\ Min({taken, Cardinality(Slots)}) <= Cardinality(Slots)
      /\ Min({taken, Cardinality(Slots)}) \in Nat
  <2>1. \E x \in {taken, Cardinality(Slots)} : \A y \in {taken, Cardinality(Slots)} : x <= y
    BY <1>4
  <2> QED  BY <1>4, <2>1 DEF Min
<1>6. Cardinality(Full) >= Min({taken, Cardinality(Slots)})
  BY <1>4, <1>5 DEF RecoveryInv, CountFits
<1>7. Cardinality(There) + 1 >= Cardinality(Full)
  <2>1. CASE \A s \in Slots : Known(s)
    <3>1. Full \subseteq There
      BY <1>3, <2>1 DEF Full
    <3> QED  BY <1>4, <3>1, FS_Subset
  <2>2. CASE \E d \in Slots : ~Known(d)
    <3>1. PICK d \in Slots : ~Known(d)
      BY <2>2
    <3>2. Full \subseteq There \cup {d}
      BY <1>3, <3>1 DEF Full, RecoveryInv, OneInDoubt
    <3>3. IsFiniteSet(There \cup {d}) /\ Cardinality(There \cup {d}) <= Cardinality(There) + 1
      <4> HIDE DEF There
      <4>1. /\ IsFiniteSet(There \cup {d})
            /\ \/ Cardinality(There \cup {d}) = Cardinality(There)
               \/ Cardinality(There \cup {d}) = Cardinality(There) + 1
        <5>1. IsFiniteSet(There)
          BY <1>4
        <5> QED  BY <5>1, FS_AddElement
      <4> QED  BY <1>4, <4>1
    <3>4. Cardinality(Full) <= Cardinality(There \cup {d})
      BY <3>2, <3>3, FS_Subset
    <3> QED  BY <1>4, <3>3, <3>4, FS_CardinalityType
  <2> QED  BY <2>1, <2>2
<1>8. mishaps <= 1 => Cardinality(There) >= Cardinality(Full)
  <2>1. mishaps <= 1 => Full \subseteq There
    BY <1>3 DEF Full, RecoveryInv, SlotsAreKnown
  <2> QED  BY <1>4, <2>1, FS_Subset
<1>9. ASSUME mishaps <= 1, taken > 0
      PROVE  \E s \in Slots : Usable(s) /\ \A c \in Candidates(s) : c.at = taken
  <2>1. PICK s \in Slots, x \in Snapshot : Kept(s) = {x} /\ x.at = taken
    BY <1>9 DEF RecoveryInv, NewestIsKept
  <2>2. Candidates(s) = {x}
    BY <1>2, <2>1
  <2> QED  BY <2>1, <2>2 DEF Usable
<1> HIDE DEF There
<1> QED  BY <1>4, <1>5, <1>6, <1>7, <1>8, <1>9

\* A restore is alone with the Profile, what it leaves to be installed is on
\* record, and the checkpoints are there when the process is gone: as many as
\* were taken and fit, the newest included, unless more than one crash or failed
\* clean-up has happened, and all but one of them whatever happened
\* (captureHealthy, replaceSlot, restoreSlot, quiesceForRecovery).
THEOREM RecoveryIsSafe == RecoverySpec => []RecoverySafety
<1>1. RecoveryInv => RecoverySafety
  BY CheckpointsAreKept DEF RecoveryInv, RecoverySafety, PhaseFits, NoHostUnderRecovery
<1> QED  BY <1>1, RecoveryInvAlways, PTL

\* The slot the user chose is not replaced before the next healthy start,
\* whatever fails or crashes meanwhile (captureHealthy, restoreSlot's marker).
THEOREM RestoredSlotsAreKept == RecoverySpec => RestoredIsKept
<1>1. ASSUME RecoveryInv, [RecoveryNext]_recoveryVars, chosen # NoSlot
      PROVE  snap'[chosen] = snap[chosen]
  <2>1. chosen \in Slots /\ snap[chosen] # Empty /\ marker # NoMarker
        /\ op.kind \notin {"moveAside", "renameIn", "removeOld"}
    BY <1>1 DEF RecoveryInv, RecoveryTypes, ChosenFits, NoMarker
  <2>2. CASE CaptureSkips \/ CaptureFails \/ RestoreBegins
    <3>1. snap' = snap \/ \E r \in Recoveries : snap' = r
      BY <2>2 DEF CaptureSkips, CaptureFails, RestoreBegins
    <3> QED  BY <1>1, <2>1, <3>1, RecoveryIs DEF RecoveryInv
  <2>3. CASE \/ CaptureStages \/ MoveAside \/ RenameIn \/ RenameInFails \/ PutBackFails
             \/ RemoveOld \/ RemoveOldFails
    BY <2>1, <2>3
    DEF CaptureStages, MoveAside, RenameIn, RenameInFails, PutBackFails, RemoveOld,
        RemoveOldFails, Replaces
  <2>4. CASE Startup \/ UNCHANGED recoveryVars
    BY <2>4
    DEF Startup, Launch, StartupFails, HostBoots, Configure, Quiesce, HostStops, OpenWindow,
        profileDisk, recoveryVars
  <2>5. CASE RestoreWrites \/ RestoreFails \/ Materialize \/ Materialized
             \/ MaterializeFails \/ Uninstall
    BY <2>5
    DEF RestoreWrites, RestoreFails, Materialize, Materialized, MaterializeFails, Uninstall,
        profileDisk
  <2>6. CASE Ending
    BY <2>6 DEF Ending, RequestQuit, ExitReleased, ExitForced, Crash, ProcessExits, profileDisk
  <2> QED
    BY <1>1, <2>2, <2>3, <2>4, <2>5, <2>6 DEF RecoveryNext, Capture, Restore
<1>2. RecoveryInv /\ [RecoveryNext]_recoveryVars
        => [chosen # NoSlot => snap'[chosen] = snap[chosen]]_recoveryVars
  BY <1>1
<1> QED  BY <1>2, RecoveryInvAlways, PTL DEF RecoverySpec, RestoredIsKept

-----------------------------------------------------------------------------
(* The updater.                                                            *)


(***************************************************************************)
(* The inductive invariant follows the check and the cleanup of the start, *)
(* which share the state file and the folder it names.                     *)
(***************************************************************************)

\* The desktop does not run beside the installer, and its work ends with it.
ProcessFits ==
  /\ alive => installer = Gone
  /\ ~alive => run.pc = "idle" /\ clean.pc = "off"

\* A check that got past the answer of the feed is for something newer.
Quiet == {"idle", "check", "notice"}
RunIsNewer == run.pc \notin Quiet => run.rel > installed

\* From the confirmation on, what the feed serves is remembered.
SinceFits ==
  /\ run.pc = "recheck" => feed \in run.since
  /\ run.pc \in {"verify", "spawn"} => run.rel \in run.since

\* While a check prepares an installer, the state file is the one it read, or
\* the cleanup has removed it.
Reusing == {"reuse", "repair", "forget"}
Replacing == {"retain", "rmdir", "write"}
StateFits ==
  /\ run.pc \in Reusing \union Replacing \union {"download", "transfer"}
       => prepared \in {run.prev, NoState}
  /\ run.pc \in Reusing => run.prev.rel = run.rel

\* What the check has removed stays away.
PreviousIsGone ==
  run.pc \in {"repair", "forget", "rmdir", "write"} => ~HasFile(run.prev.folder)

\* The folder of a download is its own, and whole once it is transferred.
NewFits ==
  /\ run.pc \in Replacing \union {"transfer"}
       => /\ run.folder \in Folders /\ HasFile(run.folder)
          /\ run.prev.folder < run.folder /\ run.folder <= made
  /\ run.pc \in Replacing => Whole(run.folder, run.rel)

\* No folder is known before it is made.
FoldersMade ==
  prepared.folder <= made /\ run.prev.folder <= made /\ clean.st.folder <= made

\* The cleanup is for what is installed, and removes what the state file names.
CleanupFits ==
  /\ clean.pc \in {"remove", "rmdir", "forget"}
       => clean.st # NoState /\ clean.st.rel <= installed
  /\ clean.pc = "remove" /\ HasFile(clean.st.folder) => prepared = clean.st
  /\ clean.pc \in {"rmdir", "forget"} => prepared = clean.st /\ ~HasFile(clean.st.folder)

\* Only one of the two has removed the file.
OneRemoves == clean.pc \in {"rmdir", "forget"} => run.pc \notin {"rmdir", "write"}

\* What is about to be launched was verified, and nothing has touched it since.
LaunchFits ==
  run.pc = "spawn" =>
    /\ prepared = [rel |-> run.rel, folder |-> run.folder]
    /\ Whole(run.folder, run.rel)

UpdateInv ==
  /\ TypeOK /\ ProcessFits /\ RunIsNewer /\ SinceFits
  /\ StateFits /\ PreviousIsGone /\ NewFits /\ FoldersMade
  /\ CleanupFits /\ OneRemoves /\ LaunchFits

(***************************************************************************)
(* Types.                                                                  *)
(***************************************************************************)
USE BoundsAssumption

LEMMA Bounds ==
  /\ MaxRelease \in Nat /\ MaxDownloads \in Nat /\ MaxProcesses \in Nat
  /\ MaxPublished \in Nat /\ MaxFaults \in Nat
  /\ 0 \in Releases /\ NoState \in States /\ Idle \in Runs /\ NoCleanup \in Cleanups
  /\ Gone \in Contents
BY DEF Releases, States, NoState, Runs, Idle, Cleanups, NoCleanup, Contents, Gone

LEMMA BecomesTyped ==
  ASSUME TypeOK, NEW f, NEW what \in {"absent", "empty", "part", "bad"}, Becomes(f, what)
  PROVE  /\ store' \in [Folders -> Contents]
         /\ \A g \in Folders : store'[g] = IF g = f THEN [is |-> what, rel |-> 0] ELSE store[g]
BY Bounds DEF TypeOK, Becomes, Contents

LEMMA FoldersTyped ==
  ASSUME TypeOK
  PROVE  /\ made \in Nat /\ made <= MaxDownloads
         /\ run.prev.folder \in 0..MaxDownloads /\ run.folder \in 0..MaxDownloads
         /\ clean.st.folder \in 0..MaxDownloads /\ prepared.folder \in 0..MaxDownloads
         /\ \A g \in 0..MaxDownloads : g # 0 => g \in Folders
         /\ run.rel \in Nat /\ installed \in Nat
         /\ clean.st.rel \in Nat /\ prepared.rel \in Nat
<1>1. run.prev \in States /\ clean.st \in States /\ prepared \in States
  BY DEF TypeOK, Runs, Cleanups
<1>2. \A st \in States : st.folder \in 0..MaxDownloads /\ st.rel \in Nat
  BY Bounds DEF States, Releases
<1>3. made \in Nat /\ made <= MaxDownloads /\ run.folder \in 0..MaxDownloads
  BY Bounds DEF TypeOK, Runs
<1>4. run.rel \in Nat /\ installed \in Nat
  BY Bounds DEF TypeOK, Runs, Releases
<1>5. \A g \in 0..MaxDownloads : g # 0 => g \in Folders
  BY Bounds DEF Folders
<1> QED  BY <1>1, <1>2, <1>3, <1>4, <1>5

\* What HasFile and Whole say after a folder became something that is no whole
\* installer.
LEMMA BecomesIs ==
  ASSUME TypeOK, NEW f, NEW what \in {"absent", "empty"}, Becomes(f, what)
  PROVE  /\ \A g \in 0..MaxDownloads : HasFile(g)' => HasFile(g) /\ g # f
         /\ \A g \in 0..MaxDownloads : g # f /\ HasFile(g) => HasFile(g)'
         /\ \A r : \A g \in 0..MaxDownloads : g # f /\ Whole(g, r) => Whole(g, r)'
<1>1. \A g \in 0..MaxDownloads : g # 0 => g \in Folders
  BY Bounds DEF Folders
<1>2. \A g \in Folders : store'[g] = IF g = f THEN [is |-> what, rel |-> 0] ELSE store[g]
  BY BecomesTyped
<1> QED  BY <1>1, <1>2 DEF HasFile, Whole

\* A check that starts remembers nothing of the one before.
LEMMA StartsIs ==
  ASSUME NEW manual \in BOOLEAN, Starts(manual)
  PROVE  run' \in Runs /\ run'.pc = "check" /\ run'.prev = NoState
BY Bounds DEF Starts, Idle, Runs

LEMMA EndsIs ==
  ASSUME TypeOK, Ends
  PROVE  /\ run' \in Runs /\ run'.pc \in Quiet /\ run'.prev = NoState
         /\ waiting' \in BOOLEAN
<1>1. CASE run' = Idle
  BY <1>1, Bounds DEF Ends, Idle, Quiet
<1>2. CASE Starts(TRUE)
  BY <1>2, StartsIs DEF Ends, Quiet
<1> QED  BY <1>1, <1>2 DEF Ends

\* A check that fails is over, or says so.
LEMMA FailsIs ==
  ASSUME TypeOK, Fails
  PROVE  /\ run' \in Runs /\ run'.pc \in Quiet /\ run'.prev \in {run.prev, NoState}
         /\ waiting' \in BOOLEAN /\ owed' \in BOOLEAN
<1>1. CASE Goes("notice") /\ owed' = FALSE /\ UNCHANGED waiting
  BY <1>1 DEF Goes, Quiet, TypeOK, Runs
<1>2. CASE Ends /\ UNCHANGED owed
  BY <1>2, EndsIs DEF TypeOK
<1> QED  BY <1>1, <1>2 DEF Fails

\* With an installer at hand a check asks or is over.
LEMMA StagedIs ==
  ASSUME TypeOK, NEW f \in 0..MaxDownloads, Staged(f)
  PROVE  /\ run' \in Runs /\ waiting' \in BOOLEAN /\ owed' \in BOOLEAN
         /\ \/ run'.pc \in Quiet /\ run'.prev = NoState
            \/ run'.pc = "dialog" /\ run'.prev = run.prev /\ run'.rel = run.rel
<1>1. CASE run' = [run EXCEPT !.pc = "dialog", !.folder = f] /\ owed' = FALSE /\ UNCHANGED waiting
  BY <1>1 DEF TypeOK, Runs
<1>2. CASE Ends /\ UNCHANGED owed
  BY <1>2, EndsIs DEF TypeOK
<1> QED  BY <1>1, <1>2 DEF Staged

LEMMA GoesIs ==
  ASSUME TypeOK, NEW pc, Goes(pc),
         pc \in {"notice", "repair", "forget", "retain", "rmdir", "write", "verify", "spawn"}
  PROVE  /\ run' \in Runs /\ run'.pc = pc /\ run'.prev = run.prev /\ run'.rel = run.rel
         /\ run'.folder = run.folder /\ run'.since = run.since
BY DEF Goes, TypeOK, Runs

LEMMA KeepsTypes == TypeOK /\ [Next]_vars => TypeOK'
<1> SUFFICES ASSUME TypeOK, [Next]_vars PROVE TypeOK'
  OBVIOUS
<1> USE DEF world, disk, process, checks
<1>1. CASE Click
  <2>1. run' \in Runs /\ waiting' \in BOOLEAN
    BY <1>1, StartsIs DEF Click, Chained, TypeOK
  <2> QED  BY <1>1, <2>1 DEF Click, TypeOK
<1>2. CASE Timer \/ NoticeClosed \/ CheckFails \/ Later \/ SpawnFails
  <2>1. run' \in Runs /\ waiting' \in BOOLEAN /\ owed' \in BOOLEAN
    BY <1>2, StartsIs, EndsIs, FailsIs
    DEF Timer, NoticeClosed, CheckFails, Later, SpawnFails, TypeOK
  <2> QED  BY <1>2, <2>1 DEF Timer, NoticeClosed, CheckFails, Later, SpawnFails, TypeOK
<1>3. CASE CheckAnswered
  <2>1. [run EXCEPT !.pc = "state", !.rel = feed] \in Runs
    BY DEF TypeOK, Runs
  <2>2. run' \in Runs /\ waiting' \in BOOLEAN /\ owed' \in BOOLEAN
    BY <1>3, <2>1, EndsIs, GoesIs DEF CheckAnswered, TypeOK
  <2> QED  BY <1>3, <2>2 DEF CheckAnswered, TypeOK
<1>4. CASE ReadState
  BY <1>4 DEF ReadState, TypeOK, Runs
<1>5. CASE Reuse
  <2>1. run' \in Runs /\ waiting' \in BOOLEAN /\ owed' \in BOOLEAN
    BY <1>5, FailsIs, StagedIs DEF Reuse, TypeOK, Runs, States
  <2> QED  BY <1>5, <2>1 DEF Reuse, TypeOK
<1>6. CASE RepairFile \/ RepairFolder \/ RemovePrevious \/ RemoveFolder
  <2>1. run' \in Runs /\ store' \in [Folders -> Contents]
    BY <1>6, GoesIs, BecomesTyped DEF RepairFile, RepairFolder, RemovePrevious, RemoveFolder
  <2> QED  BY <1>6, <2>1 DEF RepairFile, RepairFolder, RemovePrevious, RemoveFolder, TypeOK
<1>7. CASE RepairState
  BY <1>7, Bounds DEF RepairState, TypeOK, Runs
<1>8. CASE Download
  <2>1. made' \in 0..MaxDownloads /\ store' \in [Folders -> Contents]
    BY <1>8, Bounds, BecomesTyped DEF Download, TypeOK
  <2>2. run' \in Runs
    BY <1>8, <2>1 DEF Download, TypeOK, Runs
  <2> QED  BY <1>8, <2>1, <2>2 DEF Download, TypeOK
<1>9. CASE Transferred
  <2>1. run' \in Runs
    BY <1>9, GoesIs DEF Transferred
  <2>2. store' \in [Folders -> Contents]
    BY <1>9 DEF Transferred, TypeOK, Runs, Contents
  <2> QED  BY <1>9, <2>1, <2>2 DEF Transferred, TypeOK
<1>10. CASE DownloadFails
  <2>1. store' \in [Folders -> Contents]
    BY <1>10, BecomesTyped DEF DownloadFails
  <2>2. run' \in Runs /\ waiting' \in BOOLEAN /\ owed' \in BOOLEAN
    BY <1>10, FailsIs DEF DownloadFails
  <2> QED  BY <1>10, <2>1, <2>2 DEF DownloadFails, TypeOK
<1>11. CASE RetainFirst
  BY <1>11, GoesIs DEF RetainFirst, TypeOK
<1>12. CASE Write
  <2>1. run' \in Runs /\ waiting' \in BOOLEAN /\ owed' \in BOOLEAN
    BY <1>12, StagedIs DEF Write, TypeOK, Runs
  <2>2. prepared' \in States
    BY <1>12 DEF Write, TypeOK, Runs, States
  <2> QED  BY <1>12, <2>1, <2>2 DEF Write, TypeOK
<1>13. CASE Confirms
  <2>1. [run EXCEPT !.pc = "recheck", !.since = {feed}] \in Runs
    BY DEF TypeOK, Runs
  <2>2. run' \in Runs /\ waiting' \in BOOLEAN /\ owed' \in BOOLEAN
    BY <1>13, <2>1, FailsIs DEF Confirms, TypeOK
  <2> QED  BY <1>13, <2>2 DEF Confirms, TypeOK
<1>14. CASE Recheck \/ Verify
  <2>1. run' \in Runs /\ waiting' \in BOOLEAN /\ owed' \in BOOLEAN
    BY <1>14, FailsIs, GoesIs DEF Recheck, Verify, TypeOK
  <2> QED  BY <1>14, <2>1 DEF Recheck, Verify, TypeOK
<1>15. CASE Spawned
  <2>1. installer' \in Contents
    BY <1>15 DEF Spawned, HasFile, TypeOK, Runs, Folders
  <2> QED  BY <1>15, <2>1, Bounds DEF Spawned, Exits, TypeOK
<1>16. CASE CleanReads \/ CleanFails
  BY <1>16, Bounds DEF CleanReads, CleanFails, TypeOK, Cleanups
<1>17. CASE CleanRemoves \/ CleanFolder
  <2>1. store' \in [Folders -> Contents]
    BY <1>17, BecomesTyped DEF CleanRemoves, CleanFolder, TypeOK
  <2>2. clean' \in Cleanups
    BY <1>17, Bounds DEF CleanRemoves, CleanFolder, TypeOK, Cleanups
  <2> QED  BY <1>17, <2>1, <2>2 DEF CleanRemoves, CleanFolder, TypeOK
<1>18. CASE CleanForgets
  BY <1>18, Bounds DEF CleanForgets, TypeOK
<1>19. CASE Boot
  <2>1. clean' \in Cleanups /\ processes' \in 0..MaxProcesses
    BY <1>19, Bounds DEF Boot, NoCleanup, Cleanups, TypeOK
  <2> QED  BY <1>19, <2>1 DEF Boot, TypeOK
<1>20. CASE Dispose \/ ProcessEnds
  BY <1>20, Bounds DEF Dispose, ProcessEnds, Exits, TypeOK
<1>24. CASE InstallerEnds
  <2>1. installed' \in Releases /\ installer' \in Contents
    BY <1>24, Bounds DEF InstallerEnds, TypeOK, Contents
  <2> QED  BY <1>24, <2>1 DEF InstallerEnds, TypeOK
<1>21. CASE Publish
  <2>1. feed' \in Releases /\ published' \in 0..MaxPublished
    BY <1>21, Bounds DEF Publish, TypeOK
  <2>2. run' \in Runs
    BY <1>21, <2>1 DEF Publish, TypeOK, Runs
  <2> QED  BY <1>21, <2>1, <2>2 DEF Publish, TypeOK
<1>22. CASE Disturb
  <2>1. store' \in [Folders -> Contents] /\ faults' \in 0..MaxFaults
    BY <1>22, Bounds, BecomesTyped DEF Disturb, TypeOK
  <2> QED  BY <1>22, <2>1 DEF Disturb, TypeOK
<1>23. CASE UNCHANGED vars
  BY <1>23 DEF vars, TypeOK
<1> QED
  BY <1>1, <1>2, <1>3, <1>4, <1>5, <1>6, <1>7, <1>8, <1>9, <1>10, <1>11, <1>12, <1>13, <1>14, <1>15,
     <1>16, <1>17, <1>18, <1>19, <1>20, <1>21, <1>22, <1>23, <1>24
  DEF Next, Checks, Prepares, Installs, Cleans, World

(***************************************************************************)
(* Every step keeps the invariant.                                         *)
(***************************************************************************)

\* A check that is over or has not been answered is no part of it.
LEMMA QuietStep ==
  ASSUME UpdateInv, TypeOK', alive, run'.pc \in Quiet, run'.prev \in {run.prev, NoState},
         UNCHANGED <<disk, installed, installer, alive, clean>>
  PROVE  UpdateInv'
BY Bounds
DEF UpdateInv, TypeOK, ProcessFits, RunIsNewer, SinceFits, StateFits, PreviousIsGone, NewFits,
    FoldersMade, CleanupFits, OneRemoves, LaunchFits, Quiet, Reusing, Replacing, HasFile, disk,
    NoState, Runs, States

LEMMA EndingStep ==
  ASSUME UpdateInv, TypeOK',
         Timer \/ NoticeClosed \/ CheckFails \/ Later \/ SpawnFails
  PROVE  UpdateInv'
<1>1. alive /\ UNCHANGED <<disk, installed, installer, alive, clean>>
  BY DEF Timer, NoticeClosed, CheckFails, Later, SpawnFails, At, process
<1>2. run'.pc \in Quiet /\ run'.prev \in {run.prev, NoState}
  BY StartsIs, EndsIs, FailsIs
  DEF UpdateInv, Timer, NoticeClosed, CheckFails, Later, SpawnFails, Quiet
<1> QED  BY <1>1, <1>2, QuietStep

\* Steps of the check that touch nothing but the check.
LEMMA ClickStep == ASSUME UpdateInv, TypeOK', Click PROVE UpdateInv'
<1>1. alive /\ UNCHANGED <<disk, installed, installer, alive, clean, feed>>
  BY DEF Click, process, world
<1>2. CASE run' = run
  BY <1>1, <1>2
  DEF UpdateInv, ProcessFits, RunIsNewer, SinceFits, StateFits, PreviousIsGone, NewFits,
      FoldersMade, CleanupFits, OneRemoves, LaunchFits, HasFile, Whole, disk
<1>3. CASE run' # run
  BY <1>1, <1>3, StartsIs, QuietStep DEF Click, Chained, Quiet
<1> QED  BY <1>2, <1>3

\* What the parts say of a check beyond its state file and folders.
LEMMA CheckGoesOn ==
  ASSUME UpdateInv, TypeOK', alive, UNCHANGED <<disk, installed, installer, alive, clean>>,
         run'.prev = run.prev,
         RunIsNewer', SinceFits', StateFits', PreviousIsGone', NewFits', OneRemoves', LaunchFits'
  PROVE  UpdateInv'
BY DEF UpdateInv, ProcessFits, FoldersMade, CleanupFits, HasFile, disk

LEMMA CheckAnsweredStep == ASSUME UpdateInv, TypeOK', CheckAnswered PROVE UpdateInv'
<1>1. alive /\ UNCHANGED <<disk, installed, installer, alive, clean>>
  BY DEF CheckAnswered, At, process
<1>2. CASE run'.pc \in Quiet /\ run'.prev \in {run.prev, NoState}
  BY <1>1, <1>2, QuietStep
<1>3. CASE feed > installed /\ run' = [run EXCEPT !.pc = "state", !.rel = feed]
  <2>1. run'.pc = "state" /\ run'.rel = feed /\ run'.prev = run.prev
    BY <1>3 DEF UpdateInv, TypeOK, Runs
  <2> QED
    BY <1>1, <1>3, <2>1, CheckGoesOn
    DEF RunIsNewer, SinceFits, StateFits, PreviousIsGone, NewFits, OneRemoves, LaunchFits,
        Reusing, Replacing
<1> QED  BY <1>2, <1>3, EndsIs, GoesIs DEF UpdateInv, CheckAnswered, Quiet

LEMMA ReadStateStep == ASSUME UpdateInv, TypeOK', ReadState PROVE UpdateInv'
<1>1. alive /\ UNCHANGED <<disk, installed, installer, alive, clean>> /\ run.pc = "state"
  BY DEF ReadState, At, process
<1>2. /\ run'.pc = IF prepared.rel = run.rel THEN "reuse" ELSE "download"
      /\ run'.rel = run.rel /\ run'.prev = prepared
  BY DEF ReadState, UpdateInv, TypeOK, Runs
<1> QED
  BY <1>1, <1>2
  DEF UpdateInv, ProcessFits, RunIsNewer, SinceFits, StateFits, PreviousIsGone, NewFits,
      FoldersMade, CleanupFits, OneRemoves, LaunchFits, Reusing, Replacing, HasFile, disk, Quiet

LEMMA ReuseStep == ASSUME UpdateInv, TypeOK', Reuse PROVE UpdateInv'
<1>1. alive /\ UNCHANGED <<disk, installed, installer, alive, clean>> /\ run.pc = "reuse"
  BY DEF Reuse, At, process
<1>2. run.prev.folder \in 0..MaxDownloads
  BY DEF UpdateInv, TypeOK, Runs, States
<1>3. \/ run'.pc \in Quiet /\ run'.prev \in {run.prev, NoState}
      \/ run'.pc = "dialog" /\ run'.prev = run.prev /\ run'.rel = run.rel
  BY <1>2, FailsIs, StagedIs DEF Reuse, UpdateInv
<1>4. CASE run'.pc = "dialog" /\ run'.prev = run.prev /\ run'.rel = run.rel
  BY <1>1, <1>4, CheckGoesOn
  DEF UpdateInv, RunIsNewer, SinceFits, StateFits, PreviousIsGone, NewFits, OneRemoves, LaunchFits,
      Reusing, Replacing, Quiet
<1> QED  BY <1>1, <1>3, <1>4, QuietStep

LEMMA RepairStateStep == ASSUME UpdateInv, TypeOK', RepairState PROVE UpdateInv'
<1>1. alive /\ run.pc \in {"forget", "reuse"} /\ ~HasFile(run.prev.folder)
  BY DEF RepairState, At, UpdateInv, PreviousIsGone
<1>2. /\ run'.pc = "download" /\ run'.prev = NoState /\ run'.rel = run.rel
      /\ prepared' = NoState
      /\ UNCHANGED <<store, made, installed, installer, alive, clean>>
  BY DEF RepairState, UpdateInv, TypeOK, Runs, process
<1>3. clean.pc \in {"remove", "rmdir", "forget"} => prepared # clean.st \/ ~HasFile(clean.st.folder)
  BY <1>1 DEF UpdateInv, StateFits, CleanupFits, Reusing
<1>4. clean.pc \notin {"rmdir", "forget"}
  <2>1. run.rel > installed /\ run.prev.rel = run.rel /\ prepared \in {run.prev, NoState}
    BY <1>1 DEF UpdateInv, RunIsNewer, StateFits, Quiet, Reusing
  <2> QED  BY <2>1, Bounds DEF UpdateInv, TypeOK, CleanupFits, Cleanups, States, Releases
<1> QED
  BY <1>1, <1>2, <1>3, <1>4, Bounds
  DEF UpdateInv, TypeOK, ProcessFits, RunIsNewer, SinceFits, StateFits, PreviousIsGone, NewFits,
      FoldersMade, CleanupFits, OneRemoves, LaunchFits, Reusing, Replacing, HasFile, NoState, Quiet

LEMMA RepairFileStep == ASSUME UpdateInv, TypeOK', RepairFile \/ RepairFolder PROVE UpdateInv'
<1>1. /\ alive /\ run.pc \in {"reuse", "repair"}
      /\ run'.pc \in {"repair", "forget"} /\ run'.rel = run.rel /\ run'.prev = run.prev
      /\ UNCHANGED <<made, prepared, installed, installer, alive, clean>>
  BY GoesIs DEF UpdateInv, RepairFile, RepairFolder, At, process
<1>2. \A g \in 0..MaxDownloads : HasFile(g)' => HasFile(g) /\ g # run.prev.folder
  BY BecomesIs DEF UpdateInv, RepairFile, RepairFolder
<1>3. run.prev.folder \in 0..MaxDownloads /\ clean.st.folder \in 0..MaxDownloads
  BY DEF UpdateInv, TypeOK, Runs, Cleanups, States
<1> QED
  BY <1>1, <1>2, <1>3
  DEF UpdateInv, ProcessFits, RunIsNewer, SinceFits, StateFits, PreviousIsGone, NewFits,
      FoldersMade, CleanupFits, OneRemoves, LaunchFits, Reusing, Replacing, Quiet

\* A folder that is made now is nobody's.
LEMMA DownloadStep == ASSUME UpdateInv, TypeOK', Download PROVE UpdateInv'
<1>1. /\ alive /\ run.pc = "download" /\ made < MaxDownloads /\ made' = made + 1
      /\ UNCHANGED <<prepared, installed, installer, alive, clean>>
  BY DEF Download, At, process
<1>2. run'.pc = "transfer" /\ run'.rel = run.rel /\ run'.prev = run.prev /\ run'.folder = made'
  BY <1>1 DEF Download, UpdateInv, TypeOK, Runs
<1>3. \A g \in Folders : g # made' => store'[g] = store[g]
  BY BecomesTyped DEF Download, UpdateInv
<1>4. made' \in Folders /\ HasFile(run.folder)' /\ made' <= made' /\ run.rel > installed
  <2>1. made' \in Folders
    BY <1>1, FoldersTyped, Bounds DEF UpdateInv, Folders
  <2>2. store'[made'] = [is |-> "part", rel |-> 0]
    BY <2>1, BecomesTyped DEF Download, UpdateInv
  <2>3. HasFile(run.folder)'
    BY <1>1, <1>2, <2>2, FoldersTyped DEF UpdateInv, HasFile
  <2> QED  BY <1>1, <2>1, <2>3, FoldersTyped DEF UpdateInv, RunIsNewer, Quiet
<1>5. /\ clean.st.folder # made' /\ clean.st.folder <= made'
      /\ run.prev.folder < made' /\ prepared.folder <= made'
  BY <1>1, FoldersTyped, Bounds DEF UpdateInv, FoldersMade
<1>6. HasFile(clean.st.folder)' <=> HasFile(clean.st.folder)
  BY <1>1, <1>3, <1>5, FoldersTyped DEF UpdateInv, HasFile
<1>7. ProcessFits' /\ RunIsNewer' /\ SinceFits' /\ StateFits' /\ PreviousIsGone'
  BY <1>1, <1>2, <1>4
  DEF UpdateInv, ProcessFits, RunIsNewer, SinceFits, StateFits, PreviousIsGone, Reusing, Replacing
<1>8. NewFits' /\ FoldersMade'
  BY <1>1, <1>2, <1>4, <1>5, FoldersTyped DEF UpdateInv, NewFits, FoldersMade, Replacing
<1>9. CleanupFits' /\ OneRemoves' /\ LaunchFits'
  BY <1>1, <1>2, <1>6 DEF UpdateInv, CleanupFits, OneRemoves, LaunchFits
<1> QED  BY <1>7, <1>8, <1>9 DEF UpdateInv

LEMMA TransferredStep == ASSUME UpdateInv, TypeOK', Transferred PROVE UpdateInv'
<1>1. /\ alive /\ run.pc = "transfer"
      /\ UNCHANGED <<made, prepared, installed, installer, alive, clean>>
  BY DEF Transferred, At, process
<1>2. /\ run'.pc = "retain" /\ run'.rel = run.rel /\ run'.prev = run.prev
      /\ run'.folder = run.folder
  BY GoesIs DEF Transferred, UpdateInv
<1>3. /\ run.folder \in Folders /\ run.prev.folder < run.folder /\ run.folder <= made
      /\ prepared \in {run.prev, NoState}
  BY <1>1 DEF UpdateInv, NewFits, StateFits
<1>4. store'[run.folder] = [is |-> "whole", rel |-> run.rel]
      /\ \A g \in Folders : g # run.folder => store'[g] = store[g]
  BY <1>3 DEF Transferred, UpdateInv, TypeOK
<1>5. Whole(run.folder, run.rel)'
  BY <1>2, <1>3, <1>4, FoldersTyped DEF Whole, Folders, UpdateInv
<1>6. HasFile(clean.st.folder) <=> HasFile(clean.st.folder)'
  BY <1>1, <1>4, FoldersTyped DEF UpdateInv, HasFile, NewFits
<1>7. HasFile(run.folder)'
  BY <1>2, <1>5 DEF Whole, HasFile
<1> QED
  BY <1>1, <1>2, <1>3, <1>5, <1>6, <1>7
  DEF UpdateInv, ProcessFits, RunIsNewer, SinceFits, StateFits, PreviousIsGone, NewFits,
      FoldersMade, CleanupFits, OneRemoves, LaunchFits, Reusing, Replacing, Quiet

\* A download that is given up loses its own folder and no other.
LEMMA DownloadFailsStep == ASSUME UpdateInv, TypeOK', DownloadFails PROVE UpdateInv'
<1>1. /\ alive /\ run.pc \in Replacing \union {"transfer"}
      /\ UNCHANGED <<made, prepared, installed, installer, alive, clean>>
  BY DEF DownloadFails, At, process, Replacing
<1>2. run'.pc \in Quiet /\ run'.prev \in {run.prev, NoState}
  BY FailsIs DEF DownloadFails, UpdateInv
<1>3. /\ run.folder \in Folders /\ run.prev.folder < run.folder /\ HasFile(run.folder)
      /\ prepared \in {run.prev, NoState}
  BY <1>1 DEF UpdateInv, NewFits, StateFits, Replacing
<1>4. \A g \in 0..MaxDownloads :
        (HasFile(g)' => HasFile(g)) /\ (g # run.folder /\ HasFile(g) => HasFile(g)')
  BY BecomesIs DEF DownloadFails, UpdateInv
<1>5. run'.pc \notin Reusing \union Replacing
                     \union {"download", "transfer", "recheck", "verify", "spawn"}
  BY <1>2 DEF Quiet, Reusing, Replacing
<1>6. CleanupFits' /\ OneRemoves'
  BY <1>1, <1>3, <1>4, <1>5, FoldersTyped DEF UpdateInv, CleanupFits, OneRemoves, Replacing
<1>7. FoldersMade'
  BY <1>1, <1>2, FoldersTyped DEF UpdateInv, FoldersMade, NoState
<1> QED
  BY <1>1, <1>2, <1>5, <1>6, <1>7
  DEF UpdateInv, ProcessFits, RunIsNewer, SinceFits, StateFits, PreviousIsGone, NewFits,
      LaunchFits, Reusing, Quiet

LEMMA RetainFirstStep == ASSUME UpdateInv, TypeOK', RetainFirst PROVE UpdateInv'
<1>1. /\ alive /\ run.pc = "retain" /\ run.prev = NoState
      /\ UNCHANGED <<store, made, prepared, installed, installer, alive, clean>>
  BY DEF RetainFirst, At, process, disk
<1>2. /\ run'.pc = "write" /\ run'.rel = run.rel /\ run'.prev = run.prev
      /\ run'.folder = run.folder
  BY GoesIs DEF RetainFirst, UpdateInv
<1>3. prepared = NoState /\ ~HasFile(run.prev.folder)
  BY <1>1 DEF UpdateInv, StateFits, Replacing, NoState, HasFile
<1> QED
  BY <1>1, <1>2, <1>3
  DEF UpdateInv, ProcessFits, RunIsNewer, SinceFits, StateFits, PreviousIsGone, NewFits,
      FoldersMade, CleanupFits, OneRemoves, LaunchFits, Reusing, Replacing, HasFile, Whole, Quiet

\* The installer of before is removed beside a whole one, and once.
LEMMA RemovePreviousStep ==
  ASSUME UpdateInv, TypeOK', RemovePrevious \/ RemoveFolder PROVE UpdateInv'
<1>1. /\ alive /\ run.pc \in {"retain", "rmdir"} /\ (run.pc = "retain" => HasFile(run.prev.folder))
      /\ UNCHANGED <<made, prepared, installed, installer, alive, clean>>
  BY DEF RemovePrevious, RemoveFolder, At, process
<1>2. /\ run'.pc \in {"rmdir", "write"} /\ run'.rel = run.rel /\ run'.prev = run.prev
      /\ run'.folder = run.folder
  BY GoesIs DEF RemovePrevious, RemoveFolder, UpdateInv
<1>3. /\ run.folder \in Folders /\ run.prev.folder < run.folder /\ Whole(run.folder, run.rel)
      /\ prepared \in {run.prev, NoState} /\ HasFile(run.folder) /\ run.folder <= made
  BY <1>1 DEF UpdateInv, NewFits, StateFits, Replacing
<1>4. /\ \A g \in 0..MaxDownloads : HasFile(g)' => HasFile(g) /\ g # run.prev.folder
      /\ \A g \in 0..MaxDownloads : g # run.prev.folder /\ HasFile(g) => HasFile(g)'
      /\ \A r : \A g \in 0..MaxDownloads : g # run.prev.folder /\ Whole(g, r) => Whole(g, r)'
  BY BecomesIs DEF RemovePrevious, RemoveFolder, UpdateInv
<1>5. clean.pc \notin {"rmdir", "forget"}
  BY <1>1, <1>3 DEF UpdateInv, CleanupFits, OneRemoves
<1>6. ~HasFile(run.prev.folder)' /\ HasFile(run.folder)' /\ Whole(run.folder, run.rel)'
  BY <1>2, <1>3, <1>4, FoldersTyped DEF UpdateInv
<1>7. HasFile(clean.st.folder)' => HasFile(clean.st.folder)
  BY <1>1, <1>4, FoldersTyped DEF UpdateInv
<1>8. ProcessFits' /\ RunIsNewer' /\ SinceFits' /\ StateFits' /\ PreviousIsGone' /\ LaunchFits'
  BY <1>1, <1>2, <1>6
  DEF UpdateInv, ProcessFits, RunIsNewer, SinceFits, StateFits, PreviousIsGone, LaunchFits,
      Reusing, Replacing, Quiet
<1>9. NewFits' /\ FoldersMade'
  BY <1>1, <1>2, <1>3, <1>6 DEF UpdateInv, NewFits, FoldersMade, Replacing
<1>10. CleanupFits' /\ OneRemoves'
  BY <1>1, <1>2, <1>5, <1>7 DEF UpdateInv, CleanupFits, OneRemoves
<1> QED  BY <1>8, <1>9, <1>10 DEF UpdateInv

LEMMA WriteStep == ASSUME UpdateInv, TypeOK', Write PROVE UpdateInv'
<1>1. /\ alive /\ run.pc = "write"
      /\ prepared' = [rel |-> run.rel, folder |-> run.folder]
      /\ UNCHANGED <<store, made, installed, installer, alive, clean>>
  BY DEF Write, At, process
<1>2. /\ run.folder \in Folders /\ run.folder <= made /\ ~HasFile(run.prev.folder)
      /\ prepared \in {run.prev, NoState}
  BY <1>1 DEF UpdateInv, NewFits, StateFits, PreviousIsGone, Replacing
<1>3. \/ run'.pc \in Quiet /\ run'.prev = NoState
      \/ run'.pc = "dialog" /\ run'.prev = run.prev /\ run'.rel = run.rel
  BY StagedIs, FoldersTyped DEF Write, UpdateInv
<1>4. clean.pc \notin {"rmdir", "forget"}
  BY <1>1 DEF UpdateInv, OneRemoves
<1>5. clean.pc = "remove" => ~HasFile(clean.st.folder)
  BY <1>2 DEF UpdateInv, CleanupFits
<1>6. run'.pc \notin Reusing \union Replacing
                     \union {"download", "transfer", "recheck", "verify", "spawn"}
  BY <1>3 DEF Quiet, Reusing, Replacing
<1>7. CleanupFits' /\ OneRemoves'
  BY <1>1, <1>4, <1>5, <1>6 DEF UpdateInv, CleanupFits, OneRemoves, HasFile
<1>8. FoldersMade' /\ RunIsNewer'
  BY <1>1, <1>2, <1>3, FoldersTyped DEF UpdateInv, FoldersMade, RunIsNewer, NoState, Quiet
<1> QED
  BY <1>1, <1>6, <1>7, <1>8
  DEF UpdateInv, ProcessFits, SinceFits, StateFits, PreviousIsGone, NewFits, LaunchFits,
      Reusing, Replacing

LEMMA ConfirmsStep == ASSUME UpdateInv, TypeOK', Confirms PROVE UpdateInv'
<1>1. /\ alive /\ run.pc = "dialog" /\ feed' = feed
      /\ UNCHANGED <<disk, installed, installer, alive, clean>>
  BY DEF Confirms, At, process, world
<1>2. CASE Fails
  BY <1>1, <1>2, FailsIs, QuietStep DEF UpdateInv
<1>3. CASE run' = [run EXCEPT !.pc = "recheck", !.since = {feed}]
  <2>1. /\ run'.pc = "recheck" /\ run'.since = {feed} /\ run'.prev = run.prev
        /\ run'.rel = run.rel
    BY <1>3 DEF UpdateInv, TypeOK, Runs
  <2> QED
    BY <1>1, <2>1, CheckGoesOn
    DEF UpdateInv, RunIsNewer, SinceFits, StateFits, PreviousIsGone, NewFits, OneRemoves,
        LaunchFits, Reusing, Replacing, Quiet
<1> QED  BY <1>2, <1>3 DEF Confirms

LEMMA RecheckStep == ASSUME UpdateInv, TypeOK', Recheck \/ Verify PROVE UpdateInv'
<1>1. /\ alive /\ run.pc \in {"recheck", "verify"} /\ feed' = feed
      /\ UNCHANGED <<disk, installed, installer, alive, clean>>
  BY DEF Recheck, Verify, At, process, world
<1>2. CASE Fails
  BY <1>1, <1>2, FailsIs, QuietStep DEF UpdateInv
<1>3. CASE Recheck /\ feed = run.rel /\ Goes("verify")
  <2>1. run'.pc = "verify" /\ run'.since = run.since /\ run'.prev = run.prev /\ run'.rel = run.rel
    BY <1>3, GoesIs DEF UpdateInv
  <2>2. run.pc = "recheck"
    BY <1>3 DEF Recheck, At
  <2> QED
    BY <1>1, <1>3, <2>1, <2>2, CheckGoesOn
    DEF UpdateInv, RunIsNewer, SinceFits, StateFits, PreviousIsGone, NewFits, OneRemoves,
        LaunchFits, Reusing, Replacing, Quiet
<1>4. CASE Verify /\ Goes("spawn") /\ prepared = [rel |-> run.rel, folder |-> run.folder]
           /\ Whole(run.folder, run.rel)
  <2>1. /\ run'.pc = "spawn" /\ run'.since = run.since /\ run'.prev = run.prev
        /\ run'.rel = run.rel /\ run'.folder = run.folder
    BY <1>4, GoesIs DEF UpdateInv
  <2>2. run.pc = "verify"
    BY <1>4 DEF Verify, At
  <2>3. LaunchFits'
    BY <1>1, <1>4, <2>1 DEF LaunchFits, Whole, disk
  <2> QED
    BY <1>1, <2>1, <2>2, <2>3, CheckGoesOn
    DEF UpdateInv, RunIsNewer, SinceFits, StateFits, PreviousIsGone, NewFits, OneRemoves,
        Reusing, Replacing, Quiet
<1> QED  BY <1>2, <1>3, <1>4 DEF Recheck, Verify, Confirmed, Verified

\* When the process is gone, nothing it was doing is left.
LEMMA ExitStep == ASSUME UpdateInv, TypeOK', Spawned \/ ProcessEnds PROVE UpdateInv'
<1>1. ~alive' /\ run' = Idle /\ clean' = NoCleanup /\ UNCHANGED <<disk, installed>>
  BY DEF Spawned, ProcessEnds, Exits
<1>2. prepared.folder <= made /\ 0 <= made
  BY FoldersTyped DEF UpdateInv, FoldersMade
<1> QED
  BY <1>1, <1>2
  DEF UpdateInv, ProcessFits, RunIsNewer, SinceFits, StateFits, PreviousIsGone, NewFits,
      FoldersMade, CleanupFits, OneRemoves, LaunchFits, Idle, NoCleanup, NoState, Quiet,
      Reusing, Replacing, disk

(* The cleanup of the start. *)

LEMMA CleanReadsStep ==
  ASSUME UpdateInv, TypeOK', CleanReads \/ CleanFails PROVE UpdateInv'
<1>1. alive /\ UNCHANGED <<feed, disk, installed, installer, alive, run>>
  BY DEF CleanReads, CleanFails, process, checks, world
<1>2. \/ clean' = NoCleanup
      \/ /\ clean' = [pc |-> "remove", st |-> prepared]
         /\ prepared # NoState /\ ~(installed < prepared.rel)
  BY DEF CleanReads, CleanFails
<1>3. CleanupFits' /\ OneRemoves' /\ clean'.st.folder <= made
  BY <1>1, <1>2, FoldersTyped
  DEF UpdateInv, CleanupFits, OneRemoves, FoldersMade, NoCleanup, NoState, disk
<1> QED
  BY <1>1, <1>3
  DEF UpdateInv, ProcessFits, RunIsNewer, SinceFits, StateFits, PreviousIsGone, NewFits,
      FoldersMade, LaunchFits, HasFile, Whole, disk

\* A cleanup that removes anything removes what the state file names, and no
\* check counts on that.
LEMMA CleanIsOfOld ==
  ASSUME UpdateInv, alive, prepared = clean.st, clean.pc \in {"remove", "rmdir", "forget"}
  PROVE  /\ run.pc \notin {"reuse", "repair", "forget", "spawn"}
         /\ run.pc \in Replacing \union {"transfer"} => run.folder # clean.st.folder
<1>1. prepared # NoState /\ ~(prepared.rel > installed)
  BY FoldersTyped DEF UpdateInv, CleanupFits
<1>2. run.pc # "spawn"
  BY <1>1 DEF UpdateInv, LaunchFits, RunIsNewer, Quiet
<1>3. run.pc \notin {"reuse", "repair", "forget"}
  BY <1>1 DEF UpdateInv, StateFits, RunIsNewer, Reusing, Quiet
<1>4. run.pc \in Replacing \union {"transfer"} => run.folder # clean.st.folder
  BY <1>1, FoldersTyped DEF UpdateInv, NewFits, StateFits
<1> QED  BY <1>2, <1>3, <1>4

LEMMA CleanRemovesStep == ASSUME UpdateInv, TypeOK', CleanRemoves \/ CleanFolder PROVE UpdateInv'
<1>1. alive /\ UNCHANGED <<feed, made, prepared, installed, installer, alive, run>>
  BY DEF CleanRemoves, CleanFolder, process, checks, world
<1>2. CASE UNCHANGED store /\ clean' = NoCleanup
  <2>1. CleanupFits' /\ OneRemoves' /\ clean'.st.folder <= made
    BY <1>2, FoldersTyped DEF UpdateInv, CleanupFits, OneRemoves, NoCleanup, NoState
  <2> QED
    BY <1>1, <1>2, <2>1
    DEF UpdateInv, ProcessFits, RunIsNewer, SinceFits, StateFits, PreviousIsGone, NewFits,
        FoldersMade, LaunchFits, HasFile, Whole
<1>3. CASE /\ \E what \in {"empty", "absent"} : Becomes(clean.st.folder, what)
           /\ clean'.pc \in {"rmdir", "forget"} /\ clean'.st = clean.st
           /\ prepared = clean.st /\ clean.pc \in {"remove", "rmdir"}
           /\ clean.pc = "remove" => HasFile(clean.st.folder)
  <2>1. /\ \A g \in 0..MaxDownloads : HasFile(g)' => HasFile(g) /\ g # clean.st.folder
        /\ \A g \in 0..MaxDownloads : g # clean.st.folder /\ HasFile(g) => HasFile(g)'
        /\ \A r : \A g \in 0..MaxDownloads : g # clean.st.folder /\ Whole(g, r) => Whole(g, r)'
    BY <1>3, BecomesIs DEF UpdateInv
  <2>2. /\ run.pc \notin {"reuse", "repair", "forget", "spawn"}
        /\ run.pc \in Replacing \union {"transfer"} => run.folder # clean.st.folder
    BY <1>1, <1>3, CleanIsOfOld
  <2>3. run.pc \notin {"rmdir", "write"}
    <3>1. CASE clean.pc = "rmdir"
      BY <3>1 DEF UpdateInv, OneRemoves
    <3>2. CASE clean.pc = "remove"
      BY <1>3, <3>2 DEF UpdateInv, StateFits, PreviousIsGone, CleanupFits, Replacing
    <3> QED  BY <1>3, <3>1, <3>2
  <2>4. /\ run.pc \in Replacing \union {"transfer"} => HasFile(run.folder)'
        /\ run.pc \in Replacing => Whole(run.folder, run.rel)'
    BY <1>1, <2>1, <2>2, FoldersTyped DEF UpdateInv, NewFits
  <2>5. NewFits'
    BY <1>1, <2>4 DEF UpdateInv, NewFits
  <2>6. CleanupFits' /\ OneRemoves' /\ FoldersMade'
    BY <1>1, <1>3, <2>1, <2>3, FoldersTyped DEF UpdateInv, CleanupFits, OneRemoves, FoldersMade
  <2> QED
    BY <1>1, <2>2, <2>3, <2>5, <2>6
    DEF UpdateInv, ProcessFits, RunIsNewer, SinceFits, StateFits, PreviousIsGone, LaunchFits,
        Reusing
<1>4. CASE CleanRemoves /\ clean' = [clean EXCEPT !.pc = "rmdir"]
  <2>1. clean'.pc = "rmdir" /\ clean'.st = clean.st
    BY <1>4 DEF UpdateInv, TypeOK, Cleanups
  <2>2. HasFile(clean.st.folder) /\ Becomes(clean.st.folder, "empty") /\ clean.pc = "remove"
    BY <1>4, <2>1 DEF CleanRemoves, NoCleanup
  <2> QED  BY <1>3, <2>1, <2>2 DEF UpdateInv, CleanupFits
<1>5. CASE CleanFolder
  BY <1>3, <1>5 DEF CleanFolder, UpdateInv, TypeOK, Cleanups, CleanupFits
<1> QED  BY <1>2, <1>4, <1>5 DEF CleanRemoves

LEMMA CleanForgetsStep == ASSUME UpdateInv, TypeOK', CleanForgets PROVE UpdateInv'
<1>1. /\ alive /\ clean.pc = "forget" /\ clean' = NoCleanup /\ prepared' = NoState
      /\ UNCHANGED <<feed, store, made, installed, installer, alive, run>>
  BY DEF CleanForgets, process, checks, world
<1>2. prepared = clean.st
  BY <1>1 DEF UpdateInv, CleanupFits
<1>3. run.pc # "spawn"
  BY <1>1, <1>2, CleanIsOfOld
<1> QED
  BY <1>1, <1>3, FoldersTyped
  DEF UpdateInv, ProcessFits, RunIsNewer, SinceFits, StateFits, PreviousIsGone, NewFits,
      FoldersMade, CleanupFits, OneRemoves, LaunchFits, HasFile, Whole, NoCleanup, NoState

(* The process, the installer, the feed and the disk. *)

LEMMA BootStep == ASSUME UpdateInv, TypeOK', Boot PROVE UpdateInv'
<1>1. /\ ~alive /\ installer = Gone /\ installer' = Gone /\ alive' /\ clean'.pc = "read"
      /\ clean'.st = NoState
      /\ UNCHANGED <<feed, store, prepared, made, installed, run>>
  BY DEF Boot, world, disk, checks, NoCleanup
<1>2. run.pc = "idle" /\ clean'.st.folder <= made
  BY <1>1, FoldersTyped DEF UpdateInv, ProcessFits, NoState
<1> QED
  BY <1>1, <1>2
  DEF UpdateInv, ProcessFits, RunIsNewer, SinceFits, StateFits, PreviousIsGone, NewFits,
      FoldersMade, CleanupFits, OneRemoves, LaunchFits, Quiet, Reusing, Replacing

LEMMA DisposeStep == ASSUME UpdateInv, TypeOK', Dispose \/ UNCHANGED vars PROVE UpdateInv'
<1>1. UNCHANGED <<feed, store, prepared, made, installed, installer, alive, run, clean>>
  BY DEF Dispose, world, disk, vars, process, checks
<1> QED
  BY <1>1
  DEF UpdateInv, ProcessFits, RunIsNewer, SinceFits, StateFits, PreviousIsGone, NewFits,
      FoldersMade, CleanupFits, OneRemoves, LaunchFits, HasFile, Whole

\* A version is only installed while no desktop runs.
LEMMA InstallerEndsStep == ASSUME UpdateInv, TypeOK', InstallerEnds PROVE UpdateInv'
<1>1. /\ installer # Gone /\ installer' = Gone
      /\ UNCHANGED <<feed, store, prepared, made, alive, run, clean>>
  BY DEF InstallerEnds, world, disk, checks
<1>2. ~alive /\ run.pc = "idle" /\ clean.pc = "off"
  BY <1>1 DEF UpdateInv, ProcessFits
<1> QED
  BY <1>1, <1>2
  DEF UpdateInv, ProcessFits, RunIsNewer, SinceFits, StateFits, PreviousIsGone, NewFits,
      FoldersMade, CleanupFits, OneRemoves, LaunchFits, Quiet, Reusing, Replacing

LEMMA PublishStep == ASSUME UpdateInv, TypeOK', Publish PROVE UpdateInv'
<1>1. UNCHANGED <<store, prepared, made, installed, installer, alive, clean>>
  BY DEF Publish, disk, process
<1>2. /\ run'.pc = run.pc /\ run'.rel = run.rel /\ run'.folder = run.folder
      /\ run'.prev = run.prev
      /\ run'.since = IF run.since = {} THEN {} ELSE run.since \union {feed'}
  BY DEF Publish, UpdateInv, TypeOK, Runs
<1>3. SinceFits'
  BY <1>2 DEF UpdateInv, SinceFits
<1> QED
  BY <1>1, <1>2, <1>3
  DEF UpdateInv, ProcessFits, RunIsNewer, StateFits, PreviousIsGone, NewFits, FoldersMade,
      CleanupFits, OneRemoves, LaunchFits, HasFile, Whole

\* What damages the cached installer from outside reaches no download.
LEMMA DisturbStep == ASSUME UpdateInv, TypeOK', Disturb PROVE UpdateInv'
<1>1. /\ HasFile(prepared.folder)
      /\ UNCHANGED <<feed, prepared, made, installed, installer, alive, run, clean>>
  BY DEF Disturb, process, checks
<1>2. run.pc # "spawn"
  BY DEF Disturb, At, UpdateInv, ProcessFits
<1>3. PICK what \in {"bad", "empty"} : Becomes(prepared.folder, what)
  BY DEF Disturb
<1>4. \A g \in Folders :
        store'[g] = IF g = prepared.folder THEN [is |-> what, rel |-> 0] ELSE store[g]
  BY <1>3, BecomesTyped DEF UpdateInv
<1>5. /\ \A g \in 0..MaxDownloads : HasFile(g)' => HasFile(g)
      /\ \A g \in 0..MaxDownloads : g # prepared.folder /\ HasFile(g) => HasFile(g)'
      /\ \A r : \A g \in 0..MaxDownloads : g # prepared.folder /\ Whole(g, r) => Whole(g, r)'
  BY <1>1, <1>4, FoldersTyped DEF HasFile, Whole, UpdateInv
<1>6. PreviousIsGone'
  BY <1>1, <1>5, FoldersTyped DEF UpdateInv, PreviousIsGone
<1>7. run.pc \in Replacing \union {"transfer"} => run.folder # prepared.folder
  BY FoldersTyped DEF UpdateInv, NewFits, StateFits, NoState, Folders
<1>8. /\ run.pc \in Replacing \union {"transfer"} => HasFile(run.folder)'
      /\ run.pc \in Replacing => Whole(run.folder, run.rel)'
  BY <1>1, <1>5, <1>7, FoldersTyped DEF UpdateInv, NewFits
<1>9. NewFits'
  BY <1>1, <1>8 DEF UpdateInv, NewFits
<1>10. CleanupFits'
  BY <1>1, <1>5, FoldersTyped DEF UpdateInv, CleanupFits
<1> QED
  BY <1>1, <1>2, <1>6, <1>9, <1>10
  DEF UpdateInv, ProcessFits, RunIsNewer, SinceFits, StateFits, FoldersMade, OneRemoves, LaunchFits

LEMMA UpdateInvInit == Init => UpdateInv
<1> SUFFICES ASSUME Init PROVE UpdateInv
  OBVIOUS
<1>1. Gone \in Contents /\ NoState.folder = 0
  BY Bounds DEF Gone, Contents, NoState
<1>2. store \in [Folders -> Contents]
  BY <1>1 DEF Init
<1>3. /\ made \in 0..MaxDownloads /\ processes \in 0..MaxProcesses
      /\ published \in 0..MaxPublished /\ faults \in 0..MaxFaults
  BY Bounds DEF Init
<1>4. alive \in BOOLEAN /\ disposed \in BOOLEAN /\ waiting \in BOOLEAN /\ owed \in BOOLEAN
  BY DEF Init
<1>5. TypeOK
  BY <1>2, <1>3, <1>4, Bounds DEF Init, TypeOK
<1> QED
  BY <1>1, <1>5
  DEF Init, UpdateInv, ProcessFits, RunIsNewer, SinceFits, StateFits, PreviousIsGone, NewFits,
      FoldersMade, CleanupFits, OneRemoves, LaunchFits, Idle, NoCleanup, Quiet, Reusing,
      Replacing

LEMMA UpdateInvNext == UpdateInv /\ [Next]_vars => UpdateInv'
<1> SUFFICES ASSUME UpdateInv, [Next]_vars PROVE UpdateInv'
  OBVIOUS
<1>1. TypeOK'
  BY KeepsTypes DEF UpdateInv
<1>2. CASE Click \/ Checks
  BY <1>1, <1>2, ClickStep, EndingStep, CheckAnsweredStep DEF Checks
<1>3. CASE Prepares
  BY <1>1, <1>3, ReadStateStep, ReuseStep, RepairFileStep, RepairStateStep, DownloadStep,
     TransferredStep, DownloadFailsStep, RetainFirstStep, RemovePreviousStep, WriteStep
  DEF Prepares
<1>4. CASE Installs
  BY <1>1, <1>4, EndingStep, ConfirmsStep, RecheckStep, ExitStep DEF Installs
<1>5. CASE Cleans
  BY <1>1, <1>5, CleanReadsStep, CleanRemovesStep, CleanForgetsStep DEF Cleans
<1>6. CASE World \/ UNCHANGED vars
  BY <1>1, <1>6, BootStep, DisposeStep, ExitStep, InstallerEndsStep, PublishStep, DisturbStep
  DEF World
<1> QED  BY <1>2, <1>3, <1>4, <1>5, <1>6 DEF Next

\* The invariant the theorems below rest on, of every reachable state.
THEOREM UpdateInvAlways == Spec => []UpdateInv
BY UpdateInvInit, UpdateInvNext, PTL DEF Spec

(***************************************************************************)
(* What the invariant gives.                                               *)
(***************************************************************************)

\* The cache and the check are typed, and the cleanup of the start forgets the
\* state file it has read and no other one, whatever a check replaces meanwhile
\* (cleanupPreparedFutureStaffUpdate).
THEOREM CacheIsSafe == Spec => []CacheSafety
<1>1. UpdateInv => CacheSafety
  BY DEF UpdateInv, CleanupFits, CacheSafety, CleanupSparesNew
<1> QED  BY <1>1, UpdateInvAlways, PTL

\* An installer that is started is whole, one the feed has served since the user
\* confirmed, and newer than what is installed (stageFutureStaffUpdate,
\* electron-runtime.ts).
THEOREM LaunchesAreCurrent == Spec => LaunchIsCurrent
<1>1. ASSUME UpdateInv, [Next]_vars, installer' \notin {Gone, installer}
      PROVE  /\ installer'.is = "whole"
             /\ installer'.rel \in run.since /\ installer'.rel > installed
  <2>1. Spawned
    BY <1>1
    DEF Next, Checks, Prepares, Installs, Cleans, World, vars, process, Click, Timer,
        NoticeClosed, CheckAnswered, CheckFails, ReadState, Reuse, RepairFile, RepairFolder,
        RepairState, Download, Transferred, DownloadFails, RetainFirst, RemovePrevious,
        RemoveFolder, Write, Later, Confirms, Recheck, Verify, SpawnFails, CleanReads,
        CleanRemoves, CleanFolder, CleanForgets, CleanFails, Boot, Dispose, ProcessEnds,
        InstallerEnds, Publish, Disturb
  <2>2. run.pc = "spawn" /\ installer' = store[run.folder]
    BY <2>1 DEF Spawned, At
  <2>3. installer' = [is |-> "whole", rel |-> run.rel]
    BY <1>1, <2>2 DEF UpdateInv, LaunchFits, Whole
  <2> QED  BY <1>1, <2>2, <2>3 DEF UpdateInv, SinceFits, RunIsNewer, Quiet
<1>2. UpdateInv /\ [Next]_vars
        => [installer' \notin {Gone, installer} =>
              /\ installer'.is = "whole"
              /\ installer'.rel \in run.since /\ installer'.rel > installed]_vars
  BY <1>1
<1> QED  BY <1>2, UpdateInvAlways, PTL DEF Spec, LaunchIsCurrent

\* A step that ends the gap and changes the state file names that installer.
LEMMA GapEnds ==
  ASSUME UpdateInv, [Next]_vars, InTheGap, installed' = installed, prepared' # prepared
  PROVE  Ready'
<1>1. CASE Write
  <2>1. /\ prepared' = [rel |-> run.rel, folder |-> run.folder] /\ store' = store
        /\ run.pc \in Replacing
    BY <1>1 DEF Write, At, Replacing
  <2>2. Whole(run.folder, run.rel) /\ run.rel > installed
    BY <2>1 DEF UpdateInv, NewFits, RunIsNewer, Quiet, Replacing
  <2> QED  BY <1>1, <2>1, <2>2 DEF Ready, Whole
<1>2. CASE RepairState
  BY <1>2 DEF RepairState, At, InTheGap
<1>3. CASE CleanForgets
  BY <1>3 DEF CleanForgets, UpdateInv, OneRemoves, InTheGap
<1> QED
  BY <1>1, <1>2, <1>3
  DEF Next, Checks, Prepares, Installs, Cleans, World, vars, disk, Click, Timer,
      NoticeClosed, CheckAnswered, CheckFails, ReadState, Reuse, RepairFile, RepairFolder,
      Download, Transferred, DownloadFails, RetainFirst, RemovePrevious, RemoveFolder, Later,
      Confirms, Recheck, Verify, Spawned, SpawnFails, CleanReads, CleanRemoves, CleanFolder,
      CleanFails, Boot, Dispose, ProcessEnds, InstallerEnds, Publish, Disturb

\* A step leaves an installer that is ready alone, or removes it beside a whole
\* one the state file names next.
LEMMA ReadyStays ==
  ASSUME UpdateInv, [Next]_vars, Ready, faults' = faults, installed' = installed
  PROVE  Ready' \/ InTheGap'
<1> DEFINE Stays == prepared' = prepared /\ store'[prepared.folder] = store[prepared.folder]
<1>1. HasFile(prepared.folder) /\ prepared # NoState /\ prepared.folder \in Folders
  BY FoldersTyped DEF Ready, Whole, HasFile, NoState, UpdateInv
<1>2. Stays => Ready'
  BY DEF Ready, Whole
<1>3. CASE UNCHANGED <<prepared, store>>
  BY <1>2, <1>3
<1>4. CASE RepairFile \/ RepairFolder \/ RepairState
  <2>1. run.pc \in Reusing
    BY <1>4 DEF RepairFile, RepairFolder, RepairState, At, Reusing
  <2>2. prepared = run.prev /\ prepared.rel = run.rel
    BY <1>1, <2>1 DEF UpdateInv, StateFits
  <2> QED
    BY <1>1, <1>4, <2>2
    DEF Ready, RepairFile, RepairFolder, RepairState, At, UpdateInv, PreviousIsGone
<1>5. CASE Download
  <2>1. prepared.folder # made' /\ prepared' = prepared
    BY <1>5, FoldersTyped DEF Download, UpdateInv, FoldersMade
  <2> QED  BY <1>1, <1>2, <1>5, <2>1, BecomesTyped DEF Download, UpdateInv
<1>6. CASE Transferred
  <2>1. prepared.folder # run.folder /\ prepared' = prepared
    BY <1>1, <1>6, FoldersTyped DEF Transferred, At, UpdateInv, NewFits, StateFits
  <2> QED  BY <1>2, <1>6, <2>1 DEF Transferred
<1>7. CASE DownloadFails
  <2>1. prepared.folder # run.folder /\ prepared' = prepared
    BY <1>1, <1>7, FoldersTyped
    DEF DownloadFails, At, UpdateInv, NewFits, StateFits, Replacing
  <2> QED  BY <1>1, <1>2, <1>7, <2>1, BecomesTyped DEF DownloadFails, UpdateInv
<1>8. CASE RemovePrevious \/ RemoveFolder
  BY <1>8, GoesIs DEF RemovePrevious, RemoveFolder, InTheGap, UpdateInv
<1>9. CASE Write
  BY <1>1, <1>9 DEF Write, At, UpdateInv, StateFits, PreviousIsGone, Replacing
<1>10. CASE (CleanRemoves /\ store' # store) \/ CleanFolder \/ CleanForgets
  <2>1. /\ clean.pc \in {"remove", "rmdir", "forget"}
        /\ clean.pc = "remove" => HasFile(clean.st.folder)
    BY <1>10 DEF CleanRemoves, CleanFolder, CleanForgets
  <2>2. prepared = clean.st /\ clean.st.rel <= installed
    BY <2>1 DEF UpdateInv, CleanupFits
  <2> QED  BY <2>2, FoldersTyped DEF UpdateInv, Ready
<1>11. CASE Disturb
  BY <1>11, Bounds DEF Disturb, UpdateInv, TypeOK
<1> QED
  BY <1>3, <1>4, <1>5, <1>6, <1>7, <1>8, <1>9, <1>10, <1>11
  DEF Next, Checks, Prepares, Installs, Cleans, World, vars, disk, Click, Timer,
      NoticeClosed, CheckAnswered, CheckFails, ReadState, Reuse, RetainFirst, Later, Confirms,
      Recheck, Verify, Spawned, SpawnFails, CleanReads, CleanRemoves, CleanFails, Boot, Dispose,
      ProcessEnds, InstallerEnds, Publish

\* An installer that is ready is given up only for one that is on disk and
\* verified, and that one is on record next unless the check is cut off in
\* between (prepareFutureStaffUpdate, cleanupPreparedFutureStaffUpdate).
THEOREM PackagesAreKept == Spec => KeepsAPackage
<1> DEFINE StaysReady ==
      faults' = faults /\ installed' = installed =>
        /\ Ready => Ready' \/ Renewing'
        /\ Renewing => \/ Ready' \/ Renewing'
                       \/ ~InTheGap' /\ prepared' = prepared
<1>1. ASSUME UpdateInv, [Next]_vars PROVE StaysReady
  <2>1. UpdateInv'
    BY <1>1, UpdateInvNext
  <2>2. InTheGap' => Renewing'
    BY <2>1 DEF UpdateInv, NewFits, RunIsNewer, InTheGap, Renewing, Replacing, Quiet
  <2>3. Renewing => InTheGap
    BY DEF Renewing
  <2> QED  BY <1>1, <2>2, <2>3, ReadyStays, GapEnds
<1>2. UpdateInv /\ [Next]_vars => [StaysReady]_vars
  BY <1>1
<1>3. UpdateInv /\ [Next]_vars
        => [faults' = faults /\ installed' = installed =>
              /\ Ready => Ready' \/ Renewing'
              /\ Renewing => \/ Ready' \/ Renewing'
                             \/ ~InTheGap' /\ prepared' = prepared]_vars
  BY <1>2
<1> QED  BY <1>3, UpdateInvAlways, PTL DEF Spec, KeepsAPackage
=============================================================================
