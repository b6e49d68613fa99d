---------------------------- MODULE DmEngineProofs ----------------------------
(***************************************************************************)
(* The ledger of DmEngine, proved for every set of keys and plans and      *)
(* every bound: what was handed to the browser is on record, is handed     *)
(* over once, nothing follows a send whose end is not known, and nothing   *)
(* goes out while the run is halted.  Each of these is about the moment of *)
(* a send; IInv says what the engine keeps from one await to the next so   *)
(* that it holds there.                                                    *)
(***************************************************************************)
EXTENDS DmEngine, FiniteSetTheorems, FunctionTheorems, TLAPS

States == [phase : Phases, ledger : Ledgers, plan : Plans \cup {NoPlan}, previewId : Ids,
           sent : Nat, cursor : Nat, seen : SUBSET Items]
Files == [phase : Phases, ledger : Ledgers]

Recorded(l) == {k \in Keys : l[k] # None}
LedgerFits(l) == IsFiniteSet(Recorded(l)) /\ Cardinality(Recorded(l)) <= MaxLedger

\* No ledger, nor one a crash may leave, holds more than its file does.
LedgersFit ==
    LedgerFits(state.ledger) /\ LedgerFits(snap.ledger) /\ LedgerFits(disk.ledger)

\* The await belongs to the operation that runs, and a preview that is being
\* saved is the next to be answered.
QueueFits ==
    /\ at # "idle" => queue # <<>>
    /\ at = "save" => Head(queue).op \in {"preview", "tick", "pause", "stop"}
    /\ at \in {"startCheck", "startSave"} => Head(queue).op = "start"
    /\ at \in {"tickCheck", "attemptSave", "sending", "trySave", "failSave"} =>
         Head(queue).op = "tick"
    /\ at = "save" /\ Head(queue).op = "preview" => state.previewId = previews + 1
    /\ host = "down" => at = "idle"

Asked(q) == {i \in DOMAIN q : q[i].op = "preview"}
PreviewsFit == previews + Cardinality(Asked(queue)) <= MaxPreviews

\* The key of a tick is new, and its attempt is on its way to the disk.
AttemptFits ==
    /\ at \in {"attemptSave", "sending"} => cur \in Keys /\ state.ledger[cur] = "attempting"
    /\ at = "attemptSave" => cur \notin calls /\ snap.ledger[cur] = "attempting"

\* What was handed to the browser is in every copy of the ledger, and its end is
\* in that of a running process, but for the send that goes on.
CallsKnown ==
    \A k \in calls :
        /\ state.ledger[k] # None /\ snap.ledger[k] # None /\ disk.ledger[k] # None
        /\ host # "down" =>
             \/ state.ledger[k] \in {"sent", "unknown"}
             \/ at = "sending" /\ k = cur

Resolved(s) == \A k \in Keys : s.ledger[k] # "unknown"

\* An unresolved send leaves no plan that could be started or goes on.
UnknownRests ==
    /\ state.phase \in {"running", "draft"} => Resolved(state)
    /\ snap.phase \in {"running", "draft"} => Resolved(snap)
    /\ disk.phase \in {"running", "draft"} => Resolved(disk)
    /\ at = "startCheck" => Resolved(state)

\* A pause is noticed by a start that checks the browser meanwhile.
HaltHolds ==
    /\ halted /\ host # "down" => state.phase # "running"
    /\ at = "startCheck" /\ ~stale => ~halted

\* What the run may still send is counted in state.sent.
BudgetFits ==
    /\ state.phase = "running" /\ host # "down" =>
         IF at = "sending" THEN used <= state.sent + 1 ELSE used <= state.sent
    /\ state.phase = "draft" \/ at = "startCheck" => state.sent = 0
    /\ at \in {"tickCheck", "attemptSave"} => state.sent < state.plan.max
    /\ at = "sending" => state.phase # "draft"

IInv ==
    /\ TypeOK /\ LedgersFit /\ QueueFits /\ PreviewsFit /\ AttemptFits
    /\ CallsKnown /\ UnknownRests /\ HaltHolds /\ BudgetFits

\* The parts of TypeOK that take a proof each.
StateTyped == state \in States
QueueTyped == queue \in Seq(Operation)
FilesTyped == snap \in Files /\ disk \in Files
RestTyped ==
    /\ at \in {"idle", "save", "startCheck", "startSave",
               "tickCheck", "attemptSave", "sending", "trySave", "failSave"}
    /\ cur \in Keys \cup {NoKey}
    /\ host \in {"up", "stopping", "closed", "down"}
    /\ previews \in Ids
    /\ calls \subseteq Keys /\ used \in Nat
FlagsTyped == stale \in BOOLEAN /\ expired \in BOOLEAN /\ halted \in BOOLEAN

USE DmEngineAssumption

-----------------------------------------------------------------------------
(* The ledger as a finite record *)

LEMMA LedgerKeepsFit ==
    ASSUME NEW l, NEW m, LedgerFits(l), Recorded(m) \subseteq Recorded(l)
    PROVE  LedgerFits(m)
<1>1. IsFiniteSet(Recorded(m)) /\ Cardinality(Recorded(m)) <= Cardinality(Recorded(l))
  BY FS_Subset DEF LedgerFits
<1>2. Cardinality(Recorded(m)) \in Nat /\ Cardinality(Recorded(l)) \in Nat
  BY <1>1, FS_CardinalityType DEF LedgerFits
<1> QED  BY <1>1, <1>2 DEF LedgerFits

LEMMA LedgerSettles ==
    ASSUME NEW l \in Ledgers, NEW k \in Keys, NEW v, LedgerFits(l), l[k] # None \/ v = None
    PROVE  LedgerFits([l EXCEPT ![k] = v])
<1>1. Recorded([l EXCEPT ![k] = v]) \subseteq Recorded(l)
  BY DEF Recorded, Ledgers
<1> QED  BY <1>1, LedgerKeepsFit

LEMMA LedgerGrows ==
    ASSUME NEW l \in Ledgers, NEW k \in Keys, NEW v, LedgerFits(l),
           Cardinality(Recorded(l)) < MaxLedger
    PROVE  LedgerFits([l EXCEPT ![k] = v])
<1> DEFINE more == Recorded(l) \cup {k}
<1>1. IsFiniteSet(Recorded(l)) /\ Cardinality(Recorded(l)) \in Nat
  BY FS_CardinalityType DEF LedgerFits
<1>2. /\ IsFiniteSet(more)
      /\ Cardinality(more) \in {Cardinality(Recorded(l)), Cardinality(Recorded(l)) + 1}
  BY <1>1, FS_AddElement
<1>3. Cardinality(more) <= MaxLedger
  BY <1>1, <1>2
<1>4. Recorded([l EXCEPT ![k] = v]) \subseteq more
  BY DEF Recorded, Ledgers
<1>5. /\ IsFiniteSet(Recorded([l EXCEPT ![k] = v]))
      /\ Cardinality(Recorded([l EXCEPT ![k] = v])) <= Cardinality(more)
  BY <1>2, <1>4, FS_Subset
<1>6. Cardinality(Recorded([l EXCEPT ![k] = v])) \in Nat /\ Cardinality(more) \in Nat
  BY <1>2, <1>5, FS_CardinalityType
<1> HIDE DEF more
<1> QED  BY <1>3, <1>5, <1>6 DEF LedgerFits

-----------------------------------------------------------------------------
(* The queue *)

LEMMA AskedIsFinite ==
    ASSUME NEW q \in Seq(Operation)
    PROVE  IsFiniteSet(Asked(q)) /\ Cardinality(Asked(q)) \in Nat
<1>1. IsFiniteSet(1 .. Len(q))
  BY FS_Interval
<1>2. Asked(q) \subseteq 1 .. Len(q)
  BY DEF Asked
<1> QED  BY <1>1, <1>2, FS_Subset, FS_CardinalityType

LEMMA AskedAppend ==
    ASSUME NEW q \in Seq(Operation), NEW o \in Operation
    PROVE  Cardinality(Asked(Append(q, o))) <=
             Cardinality(Asked(q)) + (IF o.op = "preview" THEN 1 ELSE 0)
<1>1. CASE o.op = "preview"
  <2>1. Asked(Append(q, o)) = Asked(q) \cup {Len(q) + 1}
    BY <1>1 DEF Asked
  <2>2. IsFiniteSet(Asked(q)) /\ Cardinality(Asked(q)) \in Nat
    BY AskedIsFinite
  <2>3. Cardinality(Asked(q) \cup {Len(q) + 1})
          \in {Cardinality(Asked(q)), Cardinality(Asked(q)) + 1}
    BY <2>2, FS_AddElement
  <2> QED  BY <1>1, <2>1, <2>2, <2>3
<1>2. CASE o.op # "preview"
  <2>1. Asked(Append(q, o)) = Asked(q)
    BY <1>2 DEF Asked
  <2> QED  BY <1>2, <2>1, AskedIsFinite
<1> QED  BY <1>1, <1>2

LEMMA AskedTail ==
    ASSUME NEW q \in Seq(Operation), q # <<>>
    PROVE  Cardinality(Asked(Tail(q))) <=
             Cardinality(Asked(q)) - (IF Head(q).op = "preview" THEN 1 ELSE 0)
<1> DEFINE later == Asked(q) \ {1}
           before(i) == i - 1
<1>1. IsFiniteSet(later)
      /\ Cardinality(later) = Cardinality(Asked(q)) - (IF 1 \in Asked(q) THEN 1 ELSE 0)
  BY AskedIsFinite, FS_RemoveElement
<1>2. 1 \in Asked(q) <=> Head(q).op = "preview"
  BY DEF Asked
<1>3. Asked(Tail(q)) \subseteq {before(i) : i \in later}
  <2> SUFFICES ASSUME NEW j \in Asked(Tail(q)) PROVE \E i \in later : j = i - 1
    OBVIOUS
  <2>1. j + 1 \in later /\ j = (j + 1) - 1
    BY DEF Asked
  <2> QED  BY <2>1
<1> DEFINE shifted == {before(i) : i \in later}
<1>4. IsFiniteSet(shifted) /\ Cardinality(shifted) <= Cardinality(later)
  <2> HIDE DEF later
  <2>1. [i \in later |-> i - 1] \in Surjection(later, shifted)
    BY DEF Surjection
  <2> QED  BY <1>1, <2>1, FS_Surjection
<1>5. Cardinality(Asked(Tail(q))) <= Cardinality(shifted)
  BY <1>3, <1>4, FS_Subset
<1>6. /\ Cardinality(later) \in Nat /\ Cardinality(shifted) \in Nat
      /\ Cardinality(Asked(q)) \in Nat /\ Cardinality(Asked(Tail(q))) \in Nat
  <2>1. Tail(q) \in Seq(Operation)
    OBVIOUS
  <2> HIDE DEF later, shifted
  <2> QED  BY <1>1, <1>4, <2>1, AskedIsFinite, FS_CardinalityType
<1> HIDE DEF later, shifted
<1> QED  BY <1>1, <1>2, <1>4, <1>5, <1>6

\* A pause leaves the operations that wait in their order.
LEMMA HaltIsQueued ==
    ASSUME NEW ops \in Seq(Operation), NEW queued \in {"pause", "stop"}, Halt(ops, queued)
    PROVE  /\ queue' \in Seq(Operation)
           /\ queue' # <<>>
           /\ ops # <<>> => Head(queue').op = Head(ops).op
           /\ Cardinality(Asked(queue')) <= Cardinality(Asked(ops))
<1> DEFINE marked == [i \in DOMAIN ops |-> IF ops[i].op = "start"
                                           THEN [ops[i] EXCEPT !.voided = TRUE] ELSE ops[i]]
<1>1. \A i \in DOMAIN ops : marked[i] \in Operation /\ marked[i].op = ops[i].op
  <2> TAKE i \in DOMAIN ops
  <2>1. ops[i] \in Operation
    OBVIOUS
  <2>2. CASE ops[i].op = "start"
    <3>1. ops[i] \in [op : {"start"}, id : Ids \ {0}, voided : BOOLEAN]
      BY <2>1, <2>2 DEF Operation
    <3>2. /\ [ops[i] EXCEPT !.voided = TRUE] \in [op : {"start"}, id : Ids \ {0}, voided : BOOLEAN]
          /\ [ops[i] EXCEPT !.voided = TRUE].op = ops[i].op
      BY <3>1
    <3> QED  BY <2>2, <3>2 DEF Operation
  <2>3. CASE ops[i].op # "start"
    BY <2>1, <2>3
  <2> QED  BY <2>2, <2>3
<1>2. DOMAIN ops = 1 .. Len(ops) /\ Len(ops) \in Nat
  OBVIOUS
<1>3. marked \in Seq(Operation) /\ Len(marked) = Len(ops)
  BY <1>1, <1>2
<1>4. [op |-> queued] \in Operation /\ [op |-> queued].op # "preview"
  BY DEF Operation
<1>5. Asked(marked) = Asked(ops)
  BY <1>1 DEF Asked
<1>6. queue' = Append(marked, [op |-> queued])
  BY DEF Halt
<1>7. ops # <<>> => 1 \in DOMAIN ops /\ Head(queue') = marked[1]
  <2> HIDE DEF marked
  <2> QED  BY <1>2, <1>3, <1>6
<1>8. Cardinality(Asked(queue')) <= Cardinality(Asked(ops))
  <2> HIDE DEF marked
  <2>1. Cardinality(Asked(Append(marked, [op |-> queued]))) <= Cardinality(Asked(marked)) + 0
    BY <1>3, <1>4, AskedAppend
  <2> QED  BY <1>3, <1>5, <1>6, <2>1, AskedIsFinite
<1> HIDE DEF marked
<1>9. ops # <<>> => Head(queue').op = Head(ops).op
  <2>1. ops # <<>> => Head(ops) = ops[1]
    OBVIOUS
  <2> QED  BY <1>1, <1>7, <2>1
<1>10. queue' \in Seq(Operation) /\ queue' # <<>>
  BY <1>3, <1>4, <1>6
<1> QED  BY <1>8, <1>9, <1>10

LEMMA TailIsQueued ==
    ASSUME NEW q \in Seq(Operation), q # <<>>
    PROVE  Tail(q) \in Seq(Operation)
OBVIOUS

LEMMA AskedShrinks ==
    ASSUME NEW q \in Seq(Operation), q # <<>>
    PROVE  /\ Tail(q) \in Seq(Operation)
           /\ Cardinality(Asked(q)) \in Nat /\ Cardinality(Asked(Tail(q))) \in Nat
           /\ Cardinality(Asked(Tail(q))) <= Cardinality(Asked(q))
           /\ Head(q).op = "preview" =>
                Cardinality(Asked(Tail(q))) <= Cardinality(Asked(q)) - 1
<1>1. /\ Tail(q) \in Seq(Operation)
      /\ Cardinality(Asked(q)) \in Nat /\ Cardinality(Asked(Tail(q))) \in Nat
  BY TailIsQueued, AskedIsFinite
<1> QED  BY <1>1, AskedTail

-----------------------------------------------------------------------------
(* What the longer steps of an operation come to *)

SameRun(s) == s.plan = state.plan /\ s.previewId = state.previewId /\ s.sent = state.sent
SameLedger(s) == s.ledger = state.ledger

PreviewOutcome ==
    /\ host # "down" /\ at = "idle" /\ queue # <<>> /\ Head(queue).op = "preview"
    /\ UNCHANGED <<expired, disk, previews, history>>
    /\ \/ state' = state /\ Finish(state')
       \/ /\ Resolved(state)
          /\ state' \in States /\ SameLedger(state')
          /\ state'.phase = "draft" /\ state'.previewId = previews + 1 /\ state'.sent = 0
          /\ Save("save", state', NoKey)
          /\ stale' = FALSE /\ UNCHANGED host

StartOutcome ==
    /\ host # "down" /\ at = "startCheck"
    /\ state' \in States /\ SameLedger(state')
    /\ state'.plan = state.plan /\ state'.sent = state.sent
    /\ UNCHANGED <<disk, previews, calls, halted>>
    /\ \/ /\ stale /\ Finish(state')
          /\ state'.phase = state.phase /\ UNCHANGED <<expired, used>>
       \/ /\ ~stale /\ Save("startSave", state', NoKey)
          /\ state'.phase = "running" /\ used' = 0
          /\ expired' = FALSE /\ UNCHANGED <<stale, host>>

TickPasses == Finish(state') /\ SameLedger(state') /\ state'.phase = state.phase
TickRecords ==
    /\ \E await \in {"trySave", "failSave"} : Save(await, state', NoKey)
    /\ SameLedger(state') /\ state'.phase \in {state.phase, "completed", "blocked"}
    /\ UNCHANGED <<stale, host>>
TickAttempts ==
    \E k \in Keys :
      /\ state.ledger[k] = None /\ Cardinality(Recorded(state.ledger)) < MaxLedger
      /\ ~stale /\ state.phase = "running" /\ state'.phase = "running"
      /\ state'.ledger = [state.ledger EXCEPT ![k] = "attempting"]
      /\ Save("attemptSave", state', k)
      /\ UNCHANGED <<stale, host>>
TickGoesOn ==
    state' \in States /\ SameRun(state') /\ (TickPasses \/ TickRecords \/ TickAttempts)
TickOutcome ==
    /\ host # "down" /\ at = "tickCheck" /\ TickGoesOn
    /\ UNCHANGED <<expired, disk, previews, calls, halted, used>>

CheckOutcome ==
    /\ host # "down" /\ UNCHANGED <<expired, disk, previews, history>>
    /\ \/ at = "startCheck" /\ state' = state /\ Finish(state')
       \/ /\ at = "tickCheck"
          /\ state' \in States /\ SameRun(state') /\ SameLedger(state')
          /\ state'.phase = "blocked" /\ Save("failSave", state', NoKey)
          /\ UNCHANGED <<stale, host>>

SendOutcome(result) ==
    /\ host # "down" /\ at = "sending"
    /\ state' \in States /\ state'.plan = state.plan /\ state'.previewId = state.previewId
    /\ state'.ledger = [state.ledger EXCEPT ![cur] = result]
    /\ \/ result = "unknown" /\ state'.phase = "blocked" /\ state'.sent = state.sent
       \/ result = "sent" /\ state'.phase = state.phase /\ state'.sent = state.sent + 1
    /\ Save("trySave", state', NoKey)
    /\ UNCHANGED <<stale, expired, disk, hostVars, history>>

SaveOutcome ==
    /\ host \in {"up", "stopping"} /\ disk' = snap /\ UNCHANGED expired
    /\ state' \in States /\ SameRun(state') /\ state'.phase = state.phase
    /\ \/ /\ at = "attemptSave" /\ (stale \/ state.phase # "running")
          /\ state'.ledger = [state.ledger EXCEPT ![cur] = None]
          /\ Save("trySave", state', NoKey)
          /\ UNCHANGED <<stale, hostVars, history>>
       \/ /\ at = "attemptSave" /\ ~stale /\ state.phase = "running"
          /\ at' = "sending" /\ calls' = calls \cup {cur} /\ used' = used + 1
          /\ UNCHANGED <<state, queue, cur, snap, halted, stale, hostVars>>
       \/ /\ at \in {"save", "startSave", "trySave", "failSave"}
          /\ state' = state /\ Finish(state')
          /\ previews' = IF Head(queue).op = "preview" THEN state.previewId ELSE previews
          /\ UNCHANGED history

FailOutcome ==
    /\ host # "down" /\ UNCHANGED <<expired, disk, previews, calls, used>>
    /\ state' \in States /\ SameRun(state') /\ SameLedger(state')
    /\ \/ /\ at = "startSave" /\ Finish(state')
          /\ state'.phase = "blocked" /\ UNCHANGED halted
       \/ /\ at \in {"attemptSave", "trySave"} /\ Save("failSave", state', NoKey)
          /\ state'.phase = "blocked" /\ UNCHANGED <<stale, host, halted>>
       \/ /\ at \in {"save", "failSave"} /\ Halt(Tail(queue), "stop")
          /\ host' = "stopping" /\ at' = "idle" /\ cur' = NoKey /\ UNCHANGED snap
          /\ state'.phase # "running" /\ state'.phase \in {state.phase, "paused"}
       \/ /\ at \in {"save", "failSave"} /\ queue' = Tail(queue)
          /\ at' = "idle" /\ cur' = NoKey
          /\ UNCHANGED <<state, stale, host, halted, snap>>
       \/ /\ at = "save" /\ state' = state /\ Finish(state') /\ UNCHANGED halted

LEMMA PreviewComes == IInv /\ Preview => PreviewOutcome
<1> SUFFICES ASSUME IInv, Preview PROVE PreviewOutcome
  OBVIOUS
<1> USE DEF IInv, TypeOK
<1>1. CASE PreviewRefused /\ Finish(state)
  BY <1>1 DEF Preview, Begins, Finish, PreviewOutcome
<1>2. CASE ~PreviewRefused /\ ~(PreviewRefused /\ Finish(state))
  <2> DEFINE s == [state EXCEPT !.phase = "draft", !.plan = Head(queue).plan,
                                !.previewId = previews + 1, !.sent = 0, !.cursor = 0]
  <2>1. Head(queue) \in Operation /\ Head(queue).op = "preview" /\ 1 \in Asked(queue)
    BY DEF Preview, Begins, Asked
  <2>2. Head(queue).plan \in Plans
    BY <2>1 DEF Operation
  <2>3. Cardinality(Asked(Tail(queue))) \in Nat
        /\ Cardinality(Asked(Tail(queue))) <= Cardinality(Asked(queue)) - 1
        /\ Cardinality(Asked(queue)) \in Nat
    BY <2>1, TailIsQueued, AskedTail, AskedIsFinite DEF Preview, Begins
  <2>4. previews + 1 \in Ids
    BY <2>3 DEF PreviewsFit, Ids
  <2>5. s \in States /\ SameLedger(s) /\ s.phase = "draft" /\ s.previewId = previews + 1
        /\ s.sent = 0
    BY <2>2, <2>4 DEF States, Phases, SameLedger
  <2>6. Save("save", s, NoKey) /\ stale' = FALSE /\ UNCHANGED <<host, expired, disk, previews, history>>
    BY <1>2 DEF Preview
  <2>7. state' = s
    BY <2>6 DEF Save
  <2>8. Resolved(state)
    BY <1>2 DEF PreviewRefused, Resolved
  <2> HIDE DEF s
  <2> QED
    BY <2>5, <2>6, <2>7, <2>8 DEF PreviewOutcome, Preview, Begins
<1> QED  BY <1>1, <1>2 DEF Preview

LEMMA StartComes == IInv /\ StartChecked => StartOutcome
<1> SUFFICES ASSUME IInv, StartChecked PROVE StartOutcome
  OBVIOUS
<1> USE DEF IInv, TypeOK
<1>1. PICK s \in Baseline(state) :
        \/ stale /\ Finish(s) /\ UNCHANGED <<expired, used>>
        \/ /\ ~stale
           /\ Save("startSave", [s EXCEPT !.phase = "running", !.previewId = 0], NoKey)
           /\ expired' = FALSE /\ used' = 0 /\ UNCHANGED <<stale, host>>
  BY DEF StartChecked
<1>2. /\ s \in States /\ SameLedger(s) /\ SameRun(s) /\ s.phase = state.phase
  BY <1>1 DEF Baseline, States, SameLedger, SameRun
<1> DEFINE t == [s EXCEPT !.phase = "running", !.previewId = 0]
<1>3. /\ t \in States /\ SameLedger(t) /\ t.plan = state.plan /\ t.sent = state.sent
      /\ t.phase = "running"
  <2>1. 0 \in Ids /\ "running" \in Phases
    BY DEF Ids, Phases, DmEngineAssumption
  <2> QED  BY <1>2, <2>1 DEF States, SameLedger, SameRun
<1>4. host # "down" /\ at = "startCheck" /\ UNCHANGED <<disk, previews, calls, halted>>
  BY DEF StartChecked, Resumes
<1>5. CASE stale
  <2>1. state' = s /\ Finish(s) /\ UNCHANGED <<expired, used>>
    BY <1>1, <1>5 DEF Finish
  <2> QED  BY <1>2, <1>4, <1>5, <2>1 DEF StartOutcome, SameRun
<1>6. CASE ~stale
  <2>1. /\ state' = t /\ Save("startSave", t, NoKey)
        /\ expired' = FALSE /\ used' = 0 /\ UNCHANGED <<stale, host>>
    BY <1>1, <1>6 DEF Save
  <2> HIDE DEF t
  <2> QED  BY <1>3, <1>4, <1>6, <2>1 DEF StartOutcome
<1> QED  BY <1>5, <1>6

\* What a tick does with the key it chose.
LEMMA AttemptComes ==
    ASSUME IInv, NEW s \in States, SameRun(s), SameLedger(s), s.phase = state.phase,
           NEW k \in Keys, state.ledger[k] = None, Attempt(s, k)
    PROVE  TickGoesOn
<1> USE DEF IInv, TypeOK
<1>1. CASE Finish(s)
  BY <1>1 DEF Finish, TickGoesOn, TickPasses
<1>2. CASE ~stale /\ s.phase = "running" /\ LedgerFull(s) /\ Block(s) /\ UNCHANGED <<stale, host>>
  <2> DEFINE t == [s EXCEPT !.phase = "blocked"]
  <2>1. t \in States /\ SameRun(t) /\ SameLedger(t) /\ t.phase = "blocked"
    BY DEF States, Phases, SameRun, SameLedger
  <2>2. Save("failSave", t, NoKey) /\ state' = t
    BY <1>2 DEF Block, Save
  <2> HIDE DEF t
  <2> QED  BY <1>2, <2>1, <2>2 DEF TickGoesOn, TickRecords
<1>3. CASE /\ ~stale /\ s.phase = "running" /\ ~LedgerFull(s) /\ UNCHANGED <<stale, host>>
           /\ Save("attemptSave", [s EXCEPT !.ledger[k] = "attempting"], k)
  <2> DEFINE t == [s EXCEPT !.ledger[k] = "attempting"]
  <2>1. t = [s EXCEPT !.ledger = [s.ledger EXCEPT ![k] = "attempting"]]
    OBVIOUS
  <2>2. [s.ledger EXCEPT ![k] = "attempting"] \in Ledgers /\ s.ledger = state.ledger
    BY DEF States, Ledgers, SameLedger
  <2>3. /\ t \in States /\ SameRun(t) /\ t.phase = s.phase
        /\ t.ledger = [state.ledger EXCEPT ![k] = "attempting"]
    BY <2>1, <2>2 DEF States, SameRun
  <2>4. Recorded(state.ledger) = {j \in Keys : s.ledger[j] # None}
    BY <2>2 DEF Recorded
  <2>5. Cardinality(Recorded(state.ledger)) \in Nat
    BY FS_CardinalityType DEF LedgersFit, LedgerFits
  <2>6. Cardinality(Recorded(state.ledger)) < MaxLedger
    BY <1>3, <2>4, <2>5 DEF LedgerFull, Entries
  <2>7. state' = t /\ Save("attemptSave", t, k)
    BY <1>3 DEF Save
  <2> HIDE DEF t
  <2> QED  BY <1>3, <2>3, <2>6, <2>7 DEF TickGoesOn, TickAttempts
<1> QED  BY <1>1, <1>2, <1>3 DEF Attempt

LEMMA TickComes == IInv /\ TickChecked => TickOutcome
<1> SUFFICES ASSUME IInv, TickChecked PROVE TickGoesOn
  BY DEF TickChecked, Resumes, TickOutcome
<1>1. state \in States /\ SameRun(state) /\ SameLedger(state)
  BY DEF IInv, TypeOK, States, SameRun, SameLedger
<1>2. CASE TickList
  <2> DEFINE next == state.plan.recipients[state.cursor + 1]
             listed == state.cursor < Len(state.plan.recipients)
             s == [state EXCEPT !.cursor = @ + 1]
             t == [state EXCEPT !.phase = "completed"]
  <2>1. CASE listed /\ state.ledger[next] = None /\ Attempt(state, next)
    <3>1. state.plan.recipients \in Seq(Keys) /\ state.cursor \in Nat
      <4>1. state.plan \in Plans \cup {NoPlan} /\ state.cursor \in Nat
        BY <1>1 DEF States
      <4>2. NoPlan.recipients = <<>> /\ <<>> \in Seq(Keys)
        BY DEF NoPlan
      <4>3. \A p \in Plans : p.recipients \in Seq(Keys)
        BY DEF DmEngineAssumption
      <4> QED  BY <4>1, <4>2, <4>3
    <3>2. next \in Keys
      BY <2>1, <3>1
    <3> HIDE DEF next, listed
    <3> QED  BY <1>1, <2>1, <3>2, AttemptComes
  <2>2. CASE Save("trySave", s, NoKey) /\ UNCHANGED <<stale, host>>
    <3>1. s \in States /\ SameRun(s) /\ SameLedger(s) /\ s.phase = state.phase
      BY <1>1 DEF States, SameRun, SameLedger
    <3>2. state' = s
      BY <2>2 DEF Save
    <3> HIDE DEF s
    <3> QED  BY <2>2, <3>1, <3>2 DEF TickGoesOn, TickRecords
  <2>3. CASE Save("trySave", t, NoKey) /\ UNCHANGED <<stale, host>>
    <3>1. t \in States /\ SameRun(t) /\ SameLedger(t) /\ t.phase = "completed"
      BY <1>1 DEF States, SameRun, SameLedger, Phases
    <3>2. state' = t
      BY <2>3 DEF Save
    <3> HIDE DEF t
    <3> QED  BY <2>3, <3>1, <3>2 DEF TickGoesOn, TickRecords
  <2> QED  BY <1>2, <2>1, <2>2, <2>3 DEF TickList
<1>3. CASE TickReplies
  <2>1. ASSUME NEW k \in Items \ state.seen, state.ledger[k] = None,
               Attempt([state EXCEPT !.seen = @ \cup {k}], k)
        PROVE  TickGoesOn
    <3> DEFINE s == [state EXCEPT !.seen = @ \cup {k}]
    <3>1. /\ s \in States /\ SameRun(s) /\ SameLedger(s) /\ s.phase = state.phase
      BY <1>1 DEF States, SameRun, SameLedger
    <3>2. k \in Keys
      BY DEF DmEngineAssumption
    <3> HIDE DEF s
    <3> QED  BY <2>1, <3>1, <3>2, AttemptComes DEF s
  <2>2. CASE Save("trySave", state, NoKey) /\ UNCHANGED <<stale, host>>
    <3>1. state' = state
      BY <2>2 DEF Save
    <3> QED  BY <1>1, <2>2, <3>1 DEF TickGoesOn, TickRecords
  <2> QED  BY <1>3, <2>1, <2>2 DEF TickReplies
<1>4. TickList \/ TickReplies
  BY DEF TickChecked
<1> QED  BY <1>2, <1>3, <1>4

LEMMA CheckComes == IInv /\ CheckFails => CheckOutcome
<1> SUFFICES ASSUME IInv, CheckFails PROVE CheckOutcome
  OBVIOUS
<1> USE DEF IInv, TypeOK
<1> DEFINE t == [state EXCEPT !.phase = "blocked"]
<1>1. t \in States /\ SameRun(t) /\ SameLedger(t) /\ t.phase = "blocked"
  BY DEF States, Phases, SameRun, SameLedger
<1>2. CASE Resumes("startCheck") /\ Finish(state)
  BY <1>2 DEF CheckFails, Resumes, Finish, CheckOutcome
<1>3. CASE Resumes("tickCheck") /\ Block(state) /\ UNCHANGED <<stale, host>>
  <2>1. Save("failSave", t, NoKey) /\ state' = t
    BY <1>3 DEF Block, Save
  <2> HIDE DEF t
  <2> QED  BY <1>1, <1>3, <2>1 DEF CheckFails, Resumes, CheckOutcome
<1> QED  BY <1>2, <1>3 DEF CheckFails

LEMMA SendComes ==
    ASSUME IInv, NEW result \in {"sent", "unknown"}, SendEnds(result)
    PROVE  SendOutcome(result)
<1> USE DEF IInv, TypeOK
<1> DEFINE s == [state EXCEPT !.ledger[cur] = result]
           t == IF result = "unknown" THEN [s EXCEPT !.phase = "blocked"]
                ELSE [s EXCEPT !.sent = @ + 1,
                               !.cursor = IF s.plan.mode = "outbound" THEN @ + 1 ELSE @]
<1>1. at = "sending" /\ host # "down" /\ cur \in Keys
  BY DEF SendEnds, Resumes, AttemptFits
<1>2. [state.ledger EXCEPT ![cur] = result] \in Ledgers
  BY <1>1 DEF Ledgers
<1>3. /\ s \in States /\ SameRun(s) /\ s.phase = state.phase
      /\ s.ledger = [state.ledger EXCEPT ![cur] = result]
  BY <1>2 DEF States, SameRun
<1>4. Save("trySave", t, NoKey) /\ UNCHANGED <<stale, expired, disk, hostVars, history>>
  BY DEF SendEnds
<1> HIDE DEF s
<1>5. /\ t \in States /\ t.plan = s.plan /\ t.previewId = s.previewId /\ t.ledger = s.ledger
      /\ \/ result = "unknown" /\ t.phase = "blocked" /\ t.sent = s.sent
         \/ result = "sent" /\ t.phase = s.phase /\ t.sent = s.sent + 1
  <2>1. CASE result = "unknown"
    BY <1>3, <2>1 DEF States, Phases
  <2>2. CASE result = "sent"
    <3> DEFINE u == [s EXCEPT !.sent = @ + 1]
    <3>1. u \in States /\ u.plan = s.plan /\ u.previewId = s.previewId
          /\ u.ledger = s.ledger /\ u.phase = s.phase /\ u.sent = s.sent + 1
      <4>1. s.sent + 1 \in Nat
        BY <1>3 DEF States
      <4> QED  BY <1>3, <4>1 DEF States
    <3>2. t = [u EXCEPT !.cursor = IF s.plan.mode = "outbound" THEN @ + 1 ELSE @]
      BY <1>3, <2>2 DEF States
    <3> HIDE DEF u, t
    <3> QED  BY <2>2, <3>1, <3>2 DEF States
  <2> QED  BY <2>1, <2>2
<1>6. state' = t
  BY <1>4 DEF Save
<1> HIDE DEF t
<1> QED  BY <1>1, <1>3, <1>4, <1>5, <1>6 DEF SendOutcome, SameRun

LEMMA SaveComes == IInv /\ SaveEnds => SaveOutcome
<1> SUFFICES ASSUME IInv, SaveEnds PROVE SaveOutcome
  OBVIOUS
<1> USE DEF IInv, TypeOK
<1>1. CASE at = "attemptSave" /\ (stale \/ state.phase # "running")
  <2> DEFINE t == [state EXCEPT !.ledger[cur] = None]
  <2>1. [state.ledger EXCEPT ![cur] = None] \in Ledgers
    BY DEF Ledgers
  <2>2. /\ t \in States /\ SameRun(t) /\ t.phase = state.phase
        /\ t.ledger = [state.ledger EXCEPT ![cur] = None]
    BY <2>1 DEF States, SameRun
  <2>3. Save("trySave", t, NoKey) /\ state' = t /\ UNCHANGED <<stale, host, previews, history>>
    BY <1>1 DEF SaveEnds, AttemptSaved, Save
  <2> HIDE DEF t
  <2> QED  BY <1>1, <2>2, <2>3 DEF SaveEnds, SaveOutcome, hostVars
<1>2. CASE at = "attemptSave" /\ ~stale /\ state.phase = "running"
  BY <1>2 DEF SaveEnds, AttemptSaved, SaveOutcome, SameRun, States, hostVars
<1>3. CASE at # "attemptSave"
  BY <1>3 DEF SaveEnds, SaveAwaits, Finish, SaveOutcome, SameRun, States
<1> QED  BY <1>1, <1>2, <1>3

LEMMA FailComes == IInv /\ SaveFails => FailOutcome
<1> SUFFICES ASSUME IInv, SaveFails PROVE FailOutcome
  OBVIOUS
<1> USE DEF IInv, TypeOK
<1> DEFINE t == [state EXCEPT !.phase = "blocked"]
<1>1. t \in States /\ SameRun(t) /\ SameLedger(t) /\ t.phase = "blocked"
  BY DEF States, Phases, SameRun, SameLedger
<1>2. state \in States /\ SameRun(state) /\ SameLedger(state)
  BY DEF States, SameRun, SameLedger
<1>3. CASE at = "startSave"
  <2>1. Finish(t) /\ state' = t /\ UNCHANGED halted
    BY <1>3 DEF SaveFails, Finish
  <2> HIDE DEF t
  <2> QED  BY <1>1, <1>3, <2>1 DEF SaveFails, FailOutcome
<1>4. CASE at \in {"attemptSave", "trySave"}
  <2>1. Save("failSave", t, NoKey) /\ state' = t /\ UNCHANGED <<stale, host, halted>>
    BY <1>4 DEF SaveFails, Block, Save
  <2> HIDE DEF t
  <2> QED  BY <1>1, <1>4, <2>1 DEF SaveFails, FailOutcome
<1>5. CASE FailTick /\ at \in {"save", "failSave"}
  <2>1. CASE host = "up"
    <3> DEFINE p == [state EXCEPT !.phase = IF @ = "running" THEN "paused" ELSE @]
    <3>1. /\ p \in States /\ SameRun(p) /\ SameLedger(p) /\ p.phase # "running"
          /\ p.phase \in {state.phase, "paused"}
      BY DEF States, Phases, SameRun, SameLedger
    <3>2. state' = p /\ Halt(Tail(queue), "stop")
      BY <1>5, <2>1 DEF FailTick, Halt
    <3> HIDE DEF p
    <3> QED  BY <1>5, <2>1, <3>1, <3>2 DEF SaveFails, FailTick, FailOutcome
  <2>2. CASE host # "up"
    BY <1>2, <1>5, <2>2 DEF SaveFails, FailTick, FailOutcome
  <2> QED  BY <2>1, <2>2
<1>6. CASE at = "save" /\ Finish(state) /\ UNCHANGED halted
  BY <1>2, <1>6 DEF SaveFails, Finish, FailOutcome
<1> QED  BY <1>3, <1>4, <1>5, <1>6 DEF SaveFails

\* What init() makes of the state file.
RestartOutcome ==
    /\ host = "down" /\ host' = "up" /\ at = "idle"
    /\ UNCHANGED <<queue, at, cur, stale, expired, previews, history>>
    /\ disk' \in Files /\ snap' = disk'
    /\ state'.ledger = disk'.ledger /\ state'.phase = disk'.phase /\ state'.sent = 0
    /\ disk'.phase # "running" /\ (disk'.phase = "draft" => disk.phase = "draft")
    /\ \A k \in Keys : /\ disk'.ledger[k] # "attempting"
                       /\ disk'.ledger[k] = None <=> disk.ledger[k] = None
                       /\ disk'.phase = "draft" => disk'.ledger[k] = disk.ledger[k]

LEMMA RestartComes == IInv /\ Restart => RestartOutcome
<1> SUFFICES ASSUME IInv, Restart PROVE RestartOutcome
  OBVIOUS
<1> DEFINE attempting == {k \in Keys : disk.ledger[k] = "attempting"}
           ledger == [k \in Keys |-> IF k \in attempting THEN "unknown" ELSE disk.ledger[k]]
           phase == IF attempting # {} THEN "blocked"
                    ELSE IF disk.phase = "running" THEN "paused" ELSE disk.phase
<1>1. disk' = [ledger |-> ledger, phase |-> phase]
  BY DEF Restart, Recovered
<1>2. disk \in Files /\ disk.ledger \in Ledgers /\ disk.phase \in Phases
  BY DEF IInv, TypeOK, Files
<1>3. ledger \in Ledgers
  BY <1>2 DEF Ledgers
<1>4. phase \in Phases
  BY <1>2 DEF Phases
<1>5. \A k \in Keys : /\ ledger[k] # "attempting"
                      /\ ledger[k] = None <=> disk.ledger[k] = None
                      /\ phase = "draft" => ledger[k] = disk.ledger[k]
  BY <1>2 DEF None
<1>6. phase # "running" /\ (phase = "draft" => disk.phase = "draft")
  OBVIOUS
<1> HIDE DEF ledger, phase
<1>7. /\ disk' \in Files /\ disk'.ledger = ledger /\ disk'.phase = phase
  BY <1>1, <1>3, <1>4 DEF Files
<1>8. /\ state'.ledger = disk'.ledger /\ state'.phase = disk'.phase /\ state'.sent = 0
      /\ snap' = disk'
  BY DEF Restart, Loaded
<1>9. /\ host = "down" /\ host' = "up" /\ at = "idle"
      /\ UNCHANGED <<queue, at, cur, stale, expired, previews, history>>
  BY DEF Restart, IInv, QueueFits
<1> QED  BY <1>5, <1>6, <1>7, <1>8, <1>9 DEF RestartOutcome

\* The previews a user may still see are bounded while the queue only shrinks.
LEMMA PreviewsKeep ==
    ASSUME IInv, previews' = previews,
           \/ queue' = queue \/ queue' = <<>>
           \/ queue # <<>> /\ queue' = Tail(queue)
    PROVE  previews' + Cardinality(Asked(queue')) <= MaxPreviews
<1>1. queue \in Seq(Operation) /\ previews \in Nat /\ MaxPreviews \in Nat
      /\ Cardinality(Asked(queue)) \in Nat
  BY AskedIsFinite DEF IInv, TypeOK, Ids, DmEngineAssumption
<1>2. previews + Cardinality(Asked(queue)) <= MaxPreviews
  BY DEF IInv, PreviewsFit
<1>3. CASE queue' = queue
  BY <1>2, <1>3
<1>4. CASE queue' = <<>>
  <2>1. Asked(<<>>) = {}
    BY DEF Asked
  <2>2. Cardinality({}) = 0
    BY FS_EmptySet
  <2>3. Cardinality(Asked(queue')) = 0
    BY <1>4, <2>1, <2>2
  <2> QED  BY <1>1, <1>2, <2>3
<1>5. CASE queue # <<>> /\ queue' = Tail(queue)
  <2>1. Tail(queue) \in Seq(Operation) /\ Cardinality(Asked(Tail(queue))) \in Nat
    BY <1>1, <1>5, TailIsQueued, AskedIsFinite
  <2>2. Cardinality(Asked(Tail(queue))) <= Cardinality(Asked(queue))
    BY <1>1, <1>5, <2>1, AskedTail
  <2> QED  BY <1>1, <1>2, <1>5, <2>1, <2>2
<1> QED  BY <1>3, <1>4, <1>5

LEMMA KeepsStateTyped == IInv /\ [Next]_vars => StateTyped'
<1> SUFFICES ASSUME IInv, [Next]_vars PROVE StateTyped'
  OBVIOUS
<1> USE DEF IInv, TypeOK, engineVars, hostVars, history
<1>1. CASE \/ (\E plan \in Plans : AskPreview(plan))
           \/ (\E id \in 1 .. previews : AskStart(id)) \/ AskTick
  BY <1>1
  DEF AskPreview, Asks, AskStart, AskTick, StateTyped, Ids, Phases, Ledgers,
      NoPlan, States, Files, Saved, Loaded
<1>2. CASE \/ AskPause \/ Stop
  BY <1>2
  DEF AskPause, Halt, Stop, StateTyped, Ids, Phases, Ledgers, NoPlan, States,
      Files, Saved, Loaded
<1>3. CASE \/ Expire \/ UNCHANGED vars
  BY <1>3
  DEF Expire, vars, StateTyped, Ids, Phases, Ledgers, NoPlan, States, Files
<1>4. CASE \/ Pause \/ Start
  BY <1>4
  DEF Pause, Begins, Save, Start, Finish, Check, StateTyped, Ids, Phases,
      Ledgers, NoPlan, States, Files
<1>5. CASE Preview
  BY <1>5, PreviewComes
  DEF PreviewOutcome, Finish, Save, SameLedger, StateTyped, Ids, Phases,
      Ledgers, NoPlan, States, Files
<1>6. CASE StartChecked
  BY <1>6, StartComes
  DEF StartOutcome, Finish, Save, SameLedger, StateTyped, Ids, Phases, Ledgers,
      NoPlan, States, Files
<1>7. CASE Tick
  BY <1>7
  DEF Tick, Begins, Finish, Save, LimitReached, Check, StateTyped, Ids, Phases,
      Ledgers, NoPlan, States, Files, Saved, Loaded
<1>8. CASE TickChecked
  BY <1>8, TickComes
  DEF TickOutcome, TickGoesOn, TickPasses, TickRecords, TickAttempts, Finish,
      Save, SameRun, SameLedger, StateTyped, Ids, Phases, Ledgers, NoPlan,
      States, Files
<1>9. CASE CheckFails
  BY <1>9, CheckComes
  DEF CheckOutcome, Finish, Save, SameRun, SameLedger, StateTyped, Ids, Phases,
      Ledgers, NoPlan, States, Files
<1>10. ASSUME NEW result \in {"sent", "unknown"}, SendEnds(result) PROVE StateTyped'
  BY <1>10, SendComes
  DEF SendOutcome, Save, StateTyped, Ids, Phases, Ledgers, NoPlan, States,
      Files
<1>11. CASE SaveEnds
  BY <1>11, SaveComes
  DEF SaveOutcome, Save, Finish, SameRun, StateTyped, Ids, Phases, Ledgers,
      NoPlan, States, Files
<1>12. CASE SaveFails
  BY <1>12, FailComes
  DEF FailOutcome, Finish, Save, Halt, SameRun, SameLedger, StateTyped, Ids,
      Phases, Ledgers, NoPlan, States, Files
<1>13. CASE Crash
  BY <1>13
  DEF Crash, SaveAwaits, StateTyped, Ids, Phases, Ledgers, NoPlan, States,
      Files, Saved, Loaded
<1>14. CASE Restart
  <2>1. disk' \in Files /\ state' = Loaded(disk')
    BY <1>14, RestartComes DEF Restart, RestartOutcome
  <2>2. 0 \in Ids
    BY DEF Ids, DmEngineAssumption
  <2> QED  BY <2>1, <2>2 DEF Loaded, Files, States, StateTyped
<1> QED
  BY <1>1, <1>2, <1>3, <1>4, <1>5, <1>6, <1>7, <1>8, <1>9, <1>10, <1>11, <1>12,
     <1>13, <1>14
  DEF Next

LEMMA KeepsQueueTyped == IInv /\ [Next]_vars => QueueTyped'
<1> SUFFICES ASSUME IInv, [Next]_vars PROVE QueueTyped'
  OBVIOUS
<1> USE DEF IInv, TypeOK, engineVars, hostVars, history
<1>1. ASSUME NEW plan \in Plans, AskPreview(plan) PROVE QueueTyped'
  <2>1. [op |-> "preview", plan |-> plan] \in Operation
    BY <1>1 DEF Operation, Ids, DmEngineAssumption
  <2> QED  BY <1>1, <2>1 DEF AskPreview, Asks, QueueTyped
<1>2. ASSUME NEW id \in 1 .. previews, AskStart(id) PROVE QueueTyped'
  <2>1. [op |-> "start", id |-> id, voided |-> FALSE] \in Operation
    BY <1>2 DEF Operation, Ids, DmEngineAssumption
  <2> QED  BY <1>2, <2>1 DEF AskStart, Asks, QueueTyped
<1>3. CASE AskTick
  <2>1. [op |-> "tick"] \in Operation
    BY <1>3 DEF Operation, Ids, DmEngineAssumption
  <2> QED  BY <1>3, <2>1 DEF AskTick, Asks, QueueTyped
<1>4. CASE \/ AskPause \/ Stop
  BY <1>4, HaltIsQueued, TailIsQueued DEF AskPause, Stop, QueueTyped, QueueFits
<1>5. CASE \/ Expire \/ UNCHANGED vars
  BY <1>5 DEF Expire, vars, QueueTyped
<1>6. CASE \/ Pause \/ Start
  BY <1>6, HaltIsQueued, TailIsQueued
  DEF Pause, Begins, Save, Start, Finish, Check, QueueTyped, QueueFits, Saved,
      Loaded
<1>7. CASE Preview
  BY <1>7, PreviewComes, HaltIsQueued, TailIsQueued
  DEF PreviewOutcome, Finish, Save, SameLedger, QueueTyped, QueueFits, Saved,
      Loaded
<1>8. CASE StartChecked
  BY <1>8, StartComes, HaltIsQueued, TailIsQueued
  DEF StartOutcome, Finish, Save, SameLedger, QueueTyped, QueueFits, Saved,
      Loaded
<1>9. CASE Tick
  BY <1>9, HaltIsQueued, TailIsQueued
  DEF Tick, Begins, Finish, Save, LimitReached, Check, QueueTyped, QueueFits,
      Saved, Loaded
<1>10. CASE TickChecked
  BY <1>10, TickComes, HaltIsQueued, TailIsQueued
  DEF TickOutcome, TickGoesOn, TickPasses, TickRecords, TickAttempts, Finish,
      Save, SameRun, SameLedger, QueueTyped, QueueFits, Saved, Loaded
<1>11. CASE CheckFails
  BY <1>11, CheckComes, HaltIsQueued, TailIsQueued
  DEF CheckOutcome, Finish, Save, SameRun, SameLedger, QueueTyped, QueueFits,
      Saved, Loaded
<1>12. ASSUME NEW result \in {"sent", "unknown"}, SendEnds(result) PROVE QueueTyped'
  BY <1>12, SendComes, HaltIsQueued, TailIsQueued
  DEF SendOutcome, Save, QueueTyped, QueueFits
<1>13. CASE SaveEnds
  BY <1>13, SaveComes, HaltIsQueued, TailIsQueued
  DEF SaveOutcome, Save, Finish, SameRun, QueueTyped, QueueFits, Saved, Loaded
<1>14. CASE SaveFails
  BY <1>14, FailComes, HaltIsQueued, TailIsQueued
  DEF FailOutcome, Finish, Save, Halt, SameRun, SameLedger, QueueTyped,
      QueueFits, Saved, Loaded
<1>15. CASE Crash
  BY <1>15 DEF Crash, QueueTyped
<1>16. CASE Restart
  BY <1>16, RestartComes, HaltIsQueued, TailIsQueued
  DEF RestartOutcome, QueueTyped, QueueFits
<1> QED
  BY <1>1, <1>2, <1>3, <1>4, <1>5, <1>6, <1>7, <1>8, <1>9, <1>10, <1>11, <1>12,
     <1>13, <1>14, <1>15, <1>16
  DEF Next

LEMMA KeepsFilesTyped == IInv /\ [Next]_vars => FilesTyped'
<1> SUFFICES ASSUME IInv, [Next]_vars PROVE FilesTyped'
  OBVIOUS
<1> USE DEF IInv, TypeOK, engineVars, hostVars, history
<1>1. CASE \/ (\E plan \in Plans : AskPreview(plan))
           \/ (\E id \in 1 .. previews : AskStart(id)) \/ AskTick
  BY <1>1
  DEF AskPreview, Asks, AskStart, AskTick, FilesTyped, Phases, Ledgers, NoPlan,
      States, Files, Saved, Loaded
<1>2. CASE \/ AskPause \/ Stop
  BY <1>2
  DEF AskPause, Stop, FilesTyped, Phases, Ledgers, NoPlan, States, Files
<1>3. CASE \/ Expire \/ UNCHANGED vars
  BY <1>3 DEF Expire, vars, FilesTyped, Phases, Ledgers, NoPlan, States, Files
<1>4. CASE \/ Pause \/ Start
  BY <1>4
  DEF Pause, Begins, Save, Start, Finish, Check, FilesTyped, Phases, Ledgers,
      NoPlan, States, Files, Saved, Loaded
<1>5. CASE Preview
  BY <1>5, PreviewComes
  DEF PreviewOutcome, Finish, Save, SameLedger, FilesTyped, Phases, Ledgers,
      NoPlan, States, Files, Saved, Loaded
<1>6. CASE StartChecked
  BY <1>6, StartComes
  DEF StartOutcome, Finish, Save, SameLedger, FilesTyped, Phases, Ledgers,
      NoPlan, States, Files, Saved, Loaded
<1>7. CASE Tick
  BY <1>7
  DEF Tick, Begins, Finish, Save, LimitReached, Check, FilesTyped, Phases,
      Ledgers, NoPlan, States, Files, Saved, Loaded
<1>8. CASE TickChecked
  <2>1. TickOutcome
    BY <1>8, TickComes
  <2>2. CASE TickPasses
    BY <2>1, <2>2
    DEF TickOutcome, TickGoesOn, TickPasses, Finish, SameRun, SameLedger, FilesTyped, Files, States
  <2>3. CASE TickRecords
    BY <2>1, <2>3
    DEF TickOutcome, TickGoesOn, TickRecords, Save, Saved, SameRun, SameLedger, FilesTyped, Files, States
  <2>4. CASE TickAttempts
    BY <2>1, <2>4
    DEF TickOutcome, TickGoesOn, TickAttempts, Save, Saved, SameRun, FilesTyped, Files, States
  <2> QED  BY <2>1, <2>2, <2>3, <2>4 DEF TickOutcome, TickGoesOn
<1>9. CASE CheckFails
  BY <1>9, CheckComes
  DEF CheckOutcome, Finish, Save, SameRun, SameLedger, FilesTyped, Phases,
      Ledgers, NoPlan, States, Files, Saved, Loaded
<1>10. ASSUME NEW result \in {"sent", "unknown"}, SendEnds(result) PROVE FilesTyped'
  BY <1>10, SendComes
  DEF SendOutcome, Save, FilesTyped, Phases, Ledgers, NoPlan, States, Files,
      Saved, Loaded
<1>11. CASE SaveEnds
  BY <1>11, SaveComes
  DEF SaveOutcome, Save, Finish, SameRun, FilesTyped, Phases, Ledgers, NoPlan,
      States, Files, Saved, Loaded
<1>12. CASE SaveFails
  BY <1>12, FailComes
  DEF FailOutcome, Finish, Save, Halt, SameRun, SameLedger, FilesTyped, Phases,
      Ledgers, NoPlan, States, Files, Saved, Loaded
<1>13. CASE Crash
  BY <1>13 DEF Crash, FilesTyped, Phases, Ledgers, NoPlan, States, Files
<1>14. CASE Restart
  BY <1>14, RestartComes
  DEF RestartOutcome, FilesTyped, Phases, Ledgers, NoPlan, States, Files
<1> QED
  BY <1>1, <1>2, <1>3, <1>4, <1>5, <1>6, <1>7, <1>8, <1>9, <1>10, <1>11, <1>12,
     <1>13, <1>14
  DEF Next

LEMMA KeepsRestTyped == IInv /\ [Next]_vars => RestTyped'
<1> SUFFICES ASSUME IInv, [Next]_vars PROVE RestTyped'
  OBVIOUS
<1> USE DEF IInv, TypeOK, engineVars, hostVars, history
<1>1. CASE \/ (\E plan \in Plans : AskPreview(plan))
           \/ (\E id \in 1 .. previews : AskStart(id)) \/ AskTick
  BY <1>1
  DEF AskPreview, Asks, AskStart, AskTick, RestTyped, Ids, States, AttemptFits,
      Saved, Loaded
<1>2. CASE \/ AskPause \/ Stop
  BY <1>2 DEF AskPause, Stop, RestTyped
<1>3. CASE \/ Expire \/ UNCHANGED vars
  BY <1>3 DEF Expire, vars, RestTyped
<1>4. CASE \/ Pause \/ Start
  BY <1>4 DEF Pause, Begins, Save, Start, Finish, Check, RestTyped
<1>5. CASE Preview
  BY <1>5, PreviewComes
  DEF PreviewOutcome, Finish, Save, SameLedger, RestTyped, Ids, States,
      AttemptFits
<1>6. CASE StartChecked
  BY <1>6, StartComes
  DEF StartOutcome, Finish, Save, SameLedger, RestTyped, Ids, States,
      AttemptFits
<1>7. CASE Tick
  BY <1>7 DEF Tick, Begins, Finish, Save, LimitReached, Check, RestTyped
<1>8. CASE TickChecked
  BY <1>8, TickComes
  DEF TickOutcome, TickGoesOn, TickPasses, TickRecords, TickAttempts, Finish,
      Save, SameRun, SameLedger, RestTyped, Ids, States, AttemptFits, Saved,
      Loaded
<1>9. CASE CheckFails
  BY <1>9, CheckComes
  DEF CheckOutcome, Finish, Save, SameRun, SameLedger, RestTyped, Ids, States,
      AttemptFits
<1>10. ASSUME NEW result \in {"sent", "unknown"}, SendEnds(result) PROVE RestTyped'
  BY <1>10, SendComes
  DEF SendOutcome, Save, RestTyped, Ids, States, AttemptFits
<1>11. CASE SaveEnds
  BY <1>11, SaveComes
  DEF SaveOutcome, Save, Finish, SameRun, RestTyped, Ids, States, AttemptFits
<1>12. CASE SaveFails
  BY <1>12, FailComes
  DEF FailOutcome, Finish, Save, Halt, SameRun, SameLedger, RestTyped, Ids,
      States, AttemptFits
<1>13. CASE Crash
  BY <1>13 DEF Crash, RestTyped
<1>14. CASE Restart
  BY <1>14, RestartComes
  DEF RestartOutcome, RestTyped, Ids, States, AttemptFits
<1> QED
  BY <1>1, <1>2, <1>3, <1>4, <1>5, <1>6, <1>7, <1>8, <1>9, <1>10, <1>11, <1>12,
     <1>13, <1>14
  DEF Next

LEMMA KeepsFlagsTyped == IInv /\ [Next]_vars => FlagsTyped'
<1> SUFFICES ASSUME IInv, [Next]_vars PROVE FlagsTyped'
  OBVIOUS
<1> USE DEF IInv, TypeOK, engineVars, hostVars, history
<1>1. CASE \/ (\E plan \in Plans : AskPreview(plan))
           \/ (\E id \in 1 .. previews : AskStart(id)) \/ AskTick
  BY <1>1 DEF AskPreview, Asks, AskStart, AskTick, FlagsTyped, Saved, Loaded
<1>2. CASE \/ AskPause \/ Stop
  BY <1>2 DEF AskPause, Halt, Stop, FlagsTyped, Saved, Loaded
<1>3. CASE \/ Expire \/ UNCHANGED vars
  BY <1>3 DEF Expire, vars, FlagsTyped, Saved, Loaded
<1>4. CASE \/ Pause \/ Start
  BY <1>4
  DEF Pause, Begins, Save, Start, Finish, Check, FlagsTyped, Saved, Loaded
<1>5. CASE Preview
  BY <1>5, PreviewComes
  DEF PreviewOutcome, Finish, Save, SameLedger, FlagsTyped, Saved, Loaded
<1>6. CASE StartChecked
  BY <1>6, StartComes
  DEF StartOutcome, Finish, Save, SameLedger, FlagsTyped, Saved, Loaded
<1>7. CASE Tick
  BY <1>7
  DEF Tick, Begins, Finish, Save, LimitReached, Check, FlagsTyped, Saved,
      Loaded
<1>8. CASE TickChecked
  BY <1>8, TickComes
  DEF TickOutcome, TickGoesOn, TickPasses, TickRecords, TickAttempts, Finish,
      Save, SameRun, SameLedger, FlagsTyped, Saved, Loaded
<1>9. CASE CheckFails
  BY <1>9, CheckComes
  DEF CheckOutcome, Finish, Save, SameRun, SameLedger, FlagsTyped
<1>10. ASSUME NEW result \in {"sent", "unknown"}, SendEnds(result) PROVE FlagsTyped'
  BY <1>10, SendComes DEF SendOutcome, Save, FlagsTyped
<1>11. CASE SaveEnds
  BY <1>11, SaveComes DEF SaveOutcome, Save, Finish, SameRun, FlagsTyped
<1>12. CASE SaveFails
  BY <1>12, FailComes
  DEF FailOutcome, Finish, Save, Halt, SameRun, SameLedger, FlagsTyped, Saved,
      Loaded
<1>13. CASE Crash
  BY <1>13 DEF Crash, SaveAwaits, FlagsTyped, Saved, Loaded
<1>14. CASE Restart
  BY <1>14, RestartComes DEF RestartOutcome, FlagsTyped
<1> QED
  BY <1>1, <1>2, <1>3, <1>4, <1>5, <1>6, <1>7, <1>8, <1>9, <1>10, <1>11, <1>12,
     <1>13, <1>14
  DEF Next

LEMMA KeepsLedgersFit == IInv /\ [Next]_vars => /\ LedgerFits(state'.ledger) /\ LedgerFits(snap'.ledger)
          /\ LedgerFits(disk'.ledger)
<1> SUFFICES ASSUME IInv, [Next]_vars PROVE /\ LedgerFits(state'.ledger) /\ LedgerFits(snap'.ledger)
          /\ LedgerFits(disk'.ledger)
  OBVIOUS
<1> USE DEF IInv, TypeOK, engineVars, hostVars, history
<1>1. CASE \/ (\E plan \in Plans : AskPreview(plan))
           \/ (\E id \in 1 .. previews : AskStart(id)) \/ AskTick
  BY <1>1, LedgerSettles, LedgerGrows
  DEF AskPreview, Asks, AskStart, AskTick, LedgersFit, States, Files,
      AttemptFits, Ledgers, Saved, Loaded
<1>2. CASE \/ AskPause \/ Stop
  BY <1>2 DEF AskPause, Halt, Stop, LedgersFit
<1>3. CASE \/ Expire \/ UNCHANGED vars
  BY <1>3 DEF Expire, vars, LedgersFit
<1>4. CASE \/ Pause \/ Start
  BY <1>4
  DEF Pause, Begins, Save, Start, Finish, Check, LedgersFit, States, Files,
      AttemptFits, Ledgers, Saved, Loaded
<1>5. CASE Preview
  BY <1>5, PreviewComes, LedgerSettles, LedgerGrows
  DEF PreviewOutcome, Finish, Save, SameLedger, LedgersFit, States, Files,
      AttemptFits, Ledgers, Saved, Loaded
<1>6. CASE StartChecked
  BY <1>6, StartComes, LedgerSettles, LedgerGrows
  DEF StartOutcome, Finish, Save, SameLedger, LedgersFit, States, Files,
      AttemptFits, Ledgers, Saved, Loaded
<1>7. CASE Tick
  BY <1>7
  DEF Tick, Begins, Finish, Save, LimitReached, Check, LedgersFit, States,
      Files, AttemptFits, Ledgers, Saved, Loaded
<1>8. CASE TickChecked
  <2>1. TickOutcome
    BY <1>8, TickComes
  <2>2. CASE TickPasses
    BY <2>1, <2>2
    DEF TickOutcome, TickGoesOn, TickPasses, Finish, SameRun, SameLedger, LedgersFit
  <2>3. CASE TickRecords
    BY <2>1, <2>3
    DEF TickOutcome, TickGoesOn, TickRecords, Save, Saved, SameRun, SameLedger, LedgersFit
  <2>4. CASE TickAttempts
    <3>1. PICK k \in Keys :
            /\ state.ledger[k] = None /\ Cardinality(Recorded(state.ledger)) < MaxLedger
            /\ ~stale /\ state.phase = "running" /\ state'.phase = "running"
            /\ state'.ledger = [state.ledger EXCEPT ![k] = "attempting"]
            /\ Save("attemptSave", state', k)
            /\ UNCHANGED <<stale, host>>
      BY <2>4 DEF TickAttempts
    <3>2. state.ledger \in Ledgers
      OBVIOUS
    <3>3. LedgerFits([state.ledger EXCEPT ![k] = "attempting"])
      BY <3>1, <3>2, LedgerGrows DEF LedgersFit
    <3>4. LedgerFits(state'.ledger)
      BY <3>1, <3>3
    <3> QED  BY <2>1, <3>1, <3>4 DEF TickOutcome, Save, Saved, LedgersFit
  <2> QED  BY <2>1, <2>2, <2>3, <2>4 DEF TickOutcome, TickGoesOn
<1>9. CASE CheckFails
  BY <1>9, CheckComes, LedgerSettles, LedgerGrows
  DEF CheckOutcome, Finish, Save, SameRun, SameLedger, LedgersFit, States,
      Files, AttemptFits, Ledgers, Saved, Loaded
<1>10. ASSUME NEW result \in {"sent", "unknown"}, SendEnds(result) PROVE /\ LedgerFits(state'.ledger) /\ LedgerFits(snap'.ledger)
          /\ LedgerFits(disk'.ledger)
  <2>1. SendOutcome(result)
    BY <1>10, SendComes
  <2>2. state.ledger \in Ledgers /\ cur \in Keys /\ state.ledger[cur] # None
    BY <2>1 DEF SendOutcome, AttemptFits, None
  <2>3. LedgerFits([state.ledger EXCEPT ![cur] = result])
    BY <2>2, LedgerSettles DEF LedgersFit
  <2> QED  BY <2>1, <2>3 DEF SendOutcome, Save, Saved, LedgersFit
<1>11. CASE SaveEnds
  <2>1. SaveOutcome
    BY <1>11, SaveComes
  <2>2. CASE at = "attemptSave" /\ (stale \/ state.phase # "running")
    <3>1. state.ledger \in Ledgers /\ cur \in Keys
      BY <2>2 DEF AttemptFits
    <3>2. LedgerFits([state.ledger EXCEPT ![cur] = None])
      BY <3>1, LedgerSettles DEF LedgersFit
    <3> QED  BY <2>1, <2>2, <3>2 DEF SaveOutcome, Save, Saved, LedgersFit
  <2>3. CASE at = "attemptSave" /\ ~stale /\ state.phase = "running"
    BY <2>1, <2>3 DEF SaveOutcome, SameRun, LedgersFit
  <2>4. CASE at # "attemptSave"
    BY <2>1, <2>4 DEF SaveOutcome, Finish, SameRun, LedgersFit
  <2> QED  BY <2>2, <2>3, <2>4
<1>12. CASE SaveFails
  BY <1>12, FailComes, LedgerSettles, LedgerGrows
  DEF FailOutcome, Finish, Save, Halt, SameRun, SameLedger, LedgersFit, States,
      Files, AttemptFits, Ledgers, Saved, Loaded
<1>13. CASE Crash
  BY <1>13
  DEF Crash, SaveAwaits, LedgersFit, States, Files, AttemptFits, Ledgers,
      Saved, Loaded
<1>14. CASE Restart
  <2>1. RestartOutcome
    BY <1>14, RestartComes
  <2>2. Recorded(disk'.ledger) \subseteq Recorded(disk.ledger)
    BY <2>1 DEF RestartOutcome, Recorded
  <2>3. LedgerFits(disk'.ledger)
    BY <2>2, LedgerKeepsFit DEF LedgersFit
  <2> QED  BY <2>1, <2>3 DEF RestartOutcome
<1> QED
  BY <1>1, <1>2, <1>3, <1>4, <1>5, <1>6, <1>7, <1>8, <1>9, <1>10, <1>11, <1>12,
     <1>13, <1>14
  DEF Next

LEMMA KeepsQueueFits == IInv /\ [Next]_vars => QueueFits'
<1> SUFFICES ASSUME IInv, [Next]_vars PROVE QueueFits'
  OBVIOUS
<1> USE DEF IInv, TypeOK, engineVars, hostVars, history
<1>1. ASSUME NEW plan \in Plans, AskPreview(plan) PROVE QueueFits'
  BY <1>1 DEF AskPreview, Asks, QueueFits
<1>2. ASSUME NEW id \in 1 .. previews, AskStart(id) PROVE QueueFits'
  BY <1>2 DEF AskStart, Asks, QueueFits
<1>3. CASE AskTick
  <2>1. queue' = Append(queue, [op |-> "tick"])
        /\ UNCHANGED <<state, at, previews, host>>
    BY <1>3 DEF AskTick, Asks
  <2>2. queue # <<>> => Head(queue') = Head(queue) /\ queue' # <<>>
    BY <2>1
  <2> QED  BY <2>1, <2>2 DEF QueueFits
<1>4. CASE \/ AskPause \/ Stop
  BY <1>4, HaltIsQueued
  DEF AskPause, Halt, Stop, QueueFits, Ids, Operation, Saved, Loaded
<1>5. CASE \/ Expire \/ UNCHANGED vars
  BY <1>5 DEF Expire, vars, QueueFits
<1>6. CASE \/ Pause \/ Start
  BY <1>6 DEF Pause, Begins, Save, Start, Finish, Check, QueueFits
<1>7. CASE Preview
  BY <1>7, PreviewComes, HaltIsQueued
  DEF PreviewOutcome, Finish, Save, SameLedger, QueueFits, Ids, Operation
<1>8. CASE StartChecked
  BY <1>8, StartComes, HaltIsQueued
  DEF StartOutcome, Finish, Save, SameLedger, QueueFits, Ids, Operation
<1>9. CASE Tick
  BY <1>9 DEF Tick, Begins, Finish, Save, LimitReached, Check, QueueFits
<1>10. CASE TickChecked
  BY <1>10, TickComes, HaltIsQueued
  DEF TickOutcome, TickGoesOn, TickPasses, TickRecords, TickAttempts, Finish,
      Save, SameRun, SameLedger, QueueFits, Ids, Operation, Saved, Loaded
<1>11. CASE CheckFails
  BY <1>11, CheckComes, HaltIsQueued
  DEF CheckOutcome, Finish, Save, SameRun, SameLedger, QueueFits, Ids,
      Operation
<1>12. ASSUME NEW result \in {"sent", "unknown"}, SendEnds(result) PROVE QueueFits'
  BY <1>12, SendComes, HaltIsQueued
  DEF SendOutcome, Save, QueueFits, Ids, Operation
<1>13. CASE SaveEnds
  BY <1>13, SaveComes, HaltIsQueued
  DEF SaveOutcome, Save, Finish, SameRun, QueueFits, Ids, Operation
<1>14. CASE SaveFails
  BY <1>14, FailComes, HaltIsQueued
  DEF FailOutcome, Finish, Save, Halt, SameRun, SameLedger, QueueFits, Ids,
      Operation
<1>15. CASE Crash
  BY <1>15 DEF Crash, QueueFits
<1>16. CASE Restart
  BY <1>16, RestartComes, HaltIsQueued
  DEF RestartOutcome, QueueFits, Ids, Operation
<1> QED
  BY <1>1, <1>2, <1>3, <1>4, <1>5, <1>6, <1>7, <1>8, <1>9, <1>10, <1>11, <1>12,
     <1>13, <1>14, <1>15, <1>16
  DEF Next

LEMMA KeepsPreviewsFit == IInv /\ [Next]_vars => previews' + Cardinality(Asked(queue')) <= MaxPreviews
<1> SUFFICES ASSUME IInv, [Next]_vars PROVE previews' + Cardinality(Asked(queue')) <= MaxPreviews
  OBVIOUS
<1> USE DEF IInv, TypeOK, engineVars, hostVars, history
<1>1. ASSUME NEW plan \in Plans, AskPreview(plan) PROVE previews' + Cardinality(Asked(queue')) <= MaxPreviews
  <2> DEFINE o == [op |-> "preview", plan |-> plan]
  <2>1. o \in Operation
    BY <1>1 DEF Operation, Ids, DmEngineAssumption
  <2>2. o.op = "preview"
    OBVIOUS
  <2>3. /\ previews + Cardinality(Asked(queue)) < MaxPreviews
        /\ queue' = Append(queue, o) /\ previews' = previews
    BY <1>1 DEF AskPreview, Asks, Asked
  <2> HIDE DEF o
  <2>4. /\ queue \in Seq(Operation) /\ Append(queue, o) \in Seq(Operation)
        /\ previews \in Nat /\ MaxPreviews \in Nat
    BY <2>1 DEF Ids, DmEngineAssumption
  <2>5. Cardinality(Asked(Append(queue, o))) \in Nat /\ Cardinality(Asked(queue)) \in Nat
    BY <2>4, AskedIsFinite
  <2>6. Cardinality(Asked(Append(queue, o))) <= Cardinality(Asked(queue)) + 1
    BY <2>1, <2>2, <2>4, AskedAppend
  <2> QED  BY <2>2, <2>3, <2>4, <2>5, <2>6 DEF PreviewsFit
<1>2. ASSUME NEW id \in 1 .. previews, AskStart(id) PROVE previews' + Cardinality(Asked(queue')) <= MaxPreviews
  <2> DEFINE o == [op |-> "start", id |-> id, voided |-> FALSE]
  <2>1. o \in Operation
    BY <1>2 DEF Operation, Ids, DmEngineAssumption
  <2>2. o.op # "preview"
    OBVIOUS
  <2>3. queue' = Append(queue, o) /\ previews' = previews
    BY <1>2 DEF AskStart, Asks
  <2> HIDE DEF o
  <2>4. /\ queue \in Seq(Operation) /\ Append(queue, o) \in Seq(Operation)
        /\ previews \in Nat /\ MaxPreviews \in Nat
    BY <2>1 DEF Ids, DmEngineAssumption
  <2>5. Cardinality(Asked(Append(queue, o))) \in Nat /\ Cardinality(Asked(queue)) \in Nat
    BY <2>4, AskedIsFinite
  <2>6. Cardinality(Asked(Append(queue, o))) <= Cardinality(Asked(queue)) + 0
    BY <2>1, <2>2, <2>4, AskedAppend
  <2> QED  BY <2>2, <2>3, <2>4, <2>5, <2>6 DEF PreviewsFit
<1>3. CASE AskTick
  <2> DEFINE o == [op |-> "tick"]
  <2>1. o \in Operation
    BY <1>3 DEF Operation, Ids, DmEngineAssumption
  <2>2. o.op # "preview"
    OBVIOUS
  <2>3. queue' = Append(queue, o) /\ previews' = previews
    BY <1>3 DEF AskTick, Asks
  <2> HIDE DEF o
  <2>4. /\ queue \in Seq(Operation) /\ Append(queue, o) \in Seq(Operation)
        /\ previews \in Nat /\ MaxPreviews \in Nat
    BY <2>1 DEF Ids, DmEngineAssumption
  <2>5. Cardinality(Asked(Append(queue, o))) \in Nat /\ Cardinality(Asked(queue)) \in Nat
    BY <2>4, AskedIsFinite
  <2>6. Cardinality(Asked(Append(queue, o))) <= Cardinality(Asked(queue)) + 0
    BY <2>1, <2>2, <2>4, AskedAppend
  <2> QED  BY <2>2, <2>3, <2>4, <2>5, <2>6 DEF PreviewsFit
<1>4. CASE AskPause
  <2>1. Halt(queue, "pause") /\ previews' = previews
    BY <1>4 DEF AskPause
  <2>2. Cardinality(Asked(queue')) <= Cardinality(Asked(queue)) /\ queue' \in Seq(Operation)
    BY <2>1, HaltIsQueued
  <2>3. /\ Cardinality(Asked(queue')) \in Nat /\ Cardinality(Asked(queue)) \in Nat
        /\ previews \in Nat /\ MaxPreviews \in Nat
    BY <2>2, AskedIsFinite DEF Ids, DmEngineAssumption
  <2> QED  BY <2>1, <2>2, <2>3 DEF PreviewsFit
<1>5. CASE Stop
  <2>1. Halt(queue, "stop") /\ previews' = previews
    BY <1>5 DEF Stop
  <2>2. Cardinality(Asked(queue')) <= Cardinality(Asked(queue)) /\ queue' \in Seq(Operation)
    BY <2>1, HaltIsQueued
  <2>3. /\ Cardinality(Asked(queue')) \in Nat /\ Cardinality(Asked(queue)) \in Nat
        /\ previews \in Nat /\ MaxPreviews \in Nat
    BY <2>2, AskedIsFinite DEF Ids, DmEngineAssumption
  <2> QED  BY <2>1, <2>2, <2>3 DEF PreviewsFit
<1>6. CASE \/ Expire \/ UNCHANGED vars
  BY <1>6, PreviewsKeep DEF Expire, vars, QueueFits
<1>7. CASE \/ Pause \/ Start
  BY <1>7, PreviewsKeep
  DEF Pause, Begins, Save, Start, Finish, Check, QueueFits
<1>8. CASE Preview
  BY <1>8, PreviewComes, PreviewsKeep
  DEF PreviewOutcome, Finish, Save, SameLedger, QueueFits
<1>9. CASE StartChecked
  BY <1>9, StartComes, PreviewsKeep
  DEF StartOutcome, Finish, Save, SameLedger, QueueFits
<1>10. CASE Tick
  BY <1>10, PreviewsKeep
  DEF Tick, Begins, Finish, Save, LimitReached, Check, QueueFits
<1>11. CASE TickChecked
  BY <1>11, TickComes, PreviewsKeep
  DEF TickOutcome, TickGoesOn, TickPasses, TickRecords, TickAttempts, Finish,
      Save, SameRun, SameLedger, QueueFits, Saved, Loaded
<1>12. CASE CheckFails
  BY <1>12, CheckComes, PreviewsKeep
  DEF CheckOutcome, Finish, Save, SameRun, SameLedger, QueueFits
<1>13. ASSUME NEW result \in {"sent", "unknown"}, SendEnds(result) PROVE previews' + Cardinality(Asked(queue')) <= MaxPreviews
  BY <1>13, SendComes, PreviewsKeep DEF SendOutcome, Save, QueueFits
<1>14. CASE SaveEnds
  <2>1. SaveOutcome /\ queue # <<>>
    BY <1>14, SaveComes DEF SaveOutcome, QueueFits
  <2>2. CASE previews' = previews
    BY <2>1, <2>2, PreviewsKeep DEF SaveOutcome, Save, Finish
  <2>3. CASE previews' # previews
    <3>1. /\ Head(queue).op = "preview" /\ queue' = Tail(queue)
          /\ previews' = previews + 1
      BY <2>1, <2>3 DEF SaveOutcome, Finish, QueueFits, hostVars
    <3>2. /\ Cardinality(Asked(queue)) \in Nat /\ Cardinality(Asked(Tail(queue))) \in Nat
          /\ Cardinality(Asked(Tail(queue))) <= Cardinality(Asked(queue)) - 1
      BY <2>1, <3>1, AskedShrinks
    <3>3. previews \in Nat /\ MaxPreviews \in Nat
      BY DEF Ids, DmEngineAssumption
    <3> QED  BY <3>1, <3>2, <3>3 DEF PreviewsFit
  <2> QED  BY <2>2, <2>3
<1>15. CASE SaveFails
  <2>1. FailOutcome /\ queue # <<>>
    BY <1>15, FailComes DEF FailOutcome, QueueFits
  <2>2. CASE Halt(Tail(queue), "stop")
    <3>1. /\ Tail(queue) \in Seq(Operation)
          /\ Cardinality(Asked(queue)) \in Nat /\ Cardinality(Asked(Tail(queue))) \in Nat
          /\ Cardinality(Asked(Tail(queue))) <= Cardinality(Asked(queue))
      BY <2>1, AskedShrinks
    <3>2. Cardinality(Asked(queue')) <= Cardinality(Asked(Tail(queue))) /\ queue' \in Seq(Operation)
      BY <2>2, <3>1, HaltIsQueued
    <3>3. previews \in Nat /\ MaxPreviews \in Nat
      BY DEF Ids, DmEngineAssumption
    <3>4. Cardinality(Asked(queue')) \in Nat
      BY <3>2, AskedIsFinite
    <3>5. previews' = previews
      BY <2>1 DEF FailOutcome
    <3> QED  BY <3>1, <3>2, <3>3, <3>4, <3>5 DEF PreviewsFit
  <2>3. CASE ~Halt(Tail(queue), "stop")
    BY <2>1, <2>3, PreviewsKeep DEF FailOutcome, Save, Finish
  <2> QED  BY <2>2, <2>3
<1>16. CASE Crash
  BY <1>16, PreviewsKeep DEF Crash, QueueFits
<1>17. CASE Restart
  BY <1>17, RestartComes, PreviewsKeep DEF RestartOutcome, QueueFits
<1> QED
  BY <1>1, <1>2, <1>3, <1>4, <1>5, <1>6, <1>7, <1>8, <1>9, <1>10, <1>11, <1>12,
     <1>13, <1>14, <1>15, <1>16, <1>17
  DEF Next

LEMMA KeepsAttemptFits == IInv /\ [Next]_vars => AttemptFits'
<1> SUFFICES ASSUME IInv, [Next]_vars PROVE AttemptFits'
  OBVIOUS
<1> USE DEF IInv, TypeOK, engineVars, hostVars, history
<1>1. CASE \/ (\E plan \in Plans : AskPreview(plan))
           \/ (\E id \in 1 .. previews : AskStart(id)) \/ AskTick
  BY <1>1
  DEF AskPreview, Asks, AskStart, AskTick, AttemptFits, States, Files, Ledgers,
      CallsKnown, Saved, Loaded
<1>2. CASE \/ AskPause \/ Stop
  BY <1>2 DEF AskPause, Halt, Stop, AttemptFits
<1>3. CASE \/ Expire \/ UNCHANGED vars
  BY <1>3 DEF Expire, vars, AttemptFits
<1>4. CASE \/ Pause \/ Start
  BY <1>4 DEF Pause, Begins, Save, Start, Finish, Check, AttemptFits
<1>5. CASE Preview
  BY <1>5, PreviewComes
  DEF PreviewOutcome, Finish, Save, SameLedger, AttemptFits, States, Files,
      Ledgers, CallsKnown
<1>6. CASE StartChecked
  BY <1>6, StartComes
  DEF StartOutcome, Finish, Save, SameLedger, AttemptFits, States, Files,
      Ledgers, CallsKnown
<1>7. CASE Tick
  BY <1>7 DEF Tick, Begins, Finish, Save, LimitReached, Check, AttemptFits
<1>8. CASE TickChecked
  <2>1. TickOutcome
    BY <1>8, TickComes
  <2>2. CASE TickPasses
    BY <2>1, <2>2
    DEF TickOutcome, TickGoesOn, TickPasses, Finish, SameRun, SameLedger, AttemptFits, CallsKnown, Ledgers, States
  <2>3. CASE TickRecords
    BY <2>1, <2>3
    DEF TickOutcome, TickGoesOn, TickRecords, Save, Saved, SameRun, SameLedger, AttemptFits, CallsKnown, Ledgers, States
  <2>4. CASE TickAttempts
    BY <2>1, <2>4
    DEF TickOutcome, TickGoesOn, TickAttempts, Save, Saved, SameRun, AttemptFits, CallsKnown, Ledgers, States
  <2> QED  BY <2>1, <2>2, <2>3, <2>4 DEF TickOutcome, TickGoesOn
<1>9. CASE CheckFails
  BY <1>9, CheckComes
  DEF CheckOutcome, Finish, Save, SameRun, SameLedger, AttemptFits, States,
      Files, Ledgers, CallsKnown
<1>10. ASSUME NEW result \in {"sent", "unknown"}, SendEnds(result) PROVE AttemptFits'
  BY <1>10, SendComes
  DEF SendOutcome, Save, AttemptFits, States, Files, Ledgers, CallsKnown
<1>11. CASE SaveEnds
  BY <1>11, SaveComes
  DEF SaveOutcome, Save, Finish, SameRun, AttemptFits, States, Files, Ledgers,
      CallsKnown
<1>12. CASE SaveFails
  BY <1>12, FailComes
  DEF FailOutcome, Finish, Save, Halt, SameRun, SameLedger, AttemptFits,
      States, Files, Ledgers, CallsKnown
<1>13. CASE Crash
  BY <1>13 DEF Crash, AttemptFits
<1>14. CASE Restart
  BY <1>14, RestartComes
  DEF RestartOutcome, AttemptFits, States, Files, Ledgers, CallsKnown
<1> QED
  BY <1>1, <1>2, <1>3, <1>4, <1>5, <1>6, <1>7, <1>8, <1>9, <1>10, <1>11, <1>12,
     <1>13, <1>14
  DEF Next

LEMMA KeepsCallsKnown == IInv /\ [Next]_vars => CallsKnown'
<1> SUFFICES ASSUME IInv, [Next]_vars PROVE CallsKnown'
  OBVIOUS
<1> USE DEF IInv, TypeOK, engineVars, hostVars, history
<1>1. CASE \/ (\E plan \in Plans : AskPreview(plan))
           \/ (\E id \in 1 .. previews : AskStart(id)) \/ AskTick
  BY <1>1
  DEF AskPreview, Asks, AskStart, AskTick, CallsKnown, States, Files, Ledgers,
      AttemptFits, Saved, Loaded
<1>2. CASE AskPause
  BY <1>2 DEF AskPause, Halt, CallsKnown
<1>3. CASE Stop
  BY <1>3 DEF Stop, Halt, CallsKnown
<1>4. CASE \/ Expire \/ UNCHANGED vars
  BY <1>4 DEF Expire, vars, CallsKnown
<1>5. CASE \/ Pause \/ Start
  BY <1>5
  DEF Pause, Begins, Save, Start, Finish, Check, CallsKnown, States, Files,
      Ledgers, AttemptFits, Saved, Loaded
<1>6. CASE Preview
  BY <1>6, PreviewComes
  DEF PreviewOutcome, Finish, Save, SameLedger, CallsKnown, States, Files,
      Ledgers, AttemptFits, Saved, Loaded
<1>7. CASE StartChecked
  BY <1>7, StartComes
  DEF StartOutcome, Finish, Save, SameLedger, CallsKnown, States, Files,
      Ledgers, AttemptFits, Saved, Loaded
<1>8. CASE Tick
  BY <1>8
  DEF Tick, Begins, Finish, Save, LimitReached, Check, CallsKnown, States,
      Files, Ledgers, AttemptFits, Saved, Loaded
<1>9. CASE TickChecked
  <2>1. TickOutcome
    BY <1>9, TickComes
  <2>2. CASE TickPasses
    BY <2>1, <2>2
    DEF TickOutcome, TickGoesOn, TickPasses, Finish, SameRun, SameLedger, CallsKnown, AttemptFits, Ledgers, States
  <2>3. CASE TickRecords
    BY <2>1, <2>3
    DEF TickOutcome, TickGoesOn, TickRecords, Save, Saved, SameRun, SameLedger, CallsKnown, AttemptFits, Ledgers, States
  <2>4. CASE TickAttempts
    BY <2>1, <2>4
    DEF TickOutcome, TickGoesOn, TickAttempts, Save, Saved, SameRun, CallsKnown, AttemptFits, Ledgers, States
  <2> QED  BY <2>1, <2>2, <2>3, <2>4 DEF TickOutcome, TickGoesOn
<1>10. CASE CheckFails
  BY <1>10, CheckComes
  DEF CheckOutcome, Finish, Save, SameRun, SameLedger, CallsKnown, States,
      Files, Ledgers, AttemptFits, Saved, Loaded
<1>11. ASSUME NEW result \in {"sent", "unknown"}, SendEnds(result) PROVE CallsKnown'
  <2>1. SendOutcome(result)
    BY <1>11, SendComes
  <2>2. state.ledger \in Ledgers /\ cur \in Keys
    BY <2>1 DEF SendOutcome, AttemptFits
  <2>3. \A k \in Keys : state'.ledger[k] = IF k = cur THEN result ELSE state.ledger[k]
    BY <2>1, <2>2 DEF SendOutcome, Ledgers
  <2>4. snap'.ledger = state'.ledger /\ disk' = disk /\ calls' = calls /\ host' = host
    BY <2>1 DEF SendOutcome, Save, Saved
  <2>5. result # None
    BY DEF None
  <2> QED  BY <2>1, <2>3, <2>4, <2>5 DEF SendOutcome, CallsKnown
<1>12. CASE SaveEnds
  <2>1. SaveOutcome
    BY <1>12, SaveComes
  <2>2. CASE at = "attemptSave" /\ (stale \/ state.phase # "running")
    BY <2>1, <2>2 DEF SaveOutcome, Save, Saved, SameRun, CallsKnown, AttemptFits, Ledgers, States
  <2>3. CASE at = "attemptSave" /\ ~stale /\ state.phase = "running"
    <3>1. /\ calls' = calls \cup {cur} /\ at' = "sending" /\ disk' = snap
          /\ UNCHANGED <<state, snap, cur, host>> /\ host # "down"
      BY <2>1, <2>3 DEF SaveOutcome, hostVars
    <3>2. state.ledger[cur] # None /\ snap.ledger[cur] # None
      BY <2>3 DEF AttemptFits, None
    <3> QED  BY <2>3, <3>1, <3>2 DEF CallsKnown
  <2>4. CASE at # "attemptSave"
    BY <2>1, <2>4 DEF SaveOutcome, Finish, SameRun, CallsKnown, AttemptFits, Ledgers, States
  <2> QED  BY <2>2, <2>3, <2>4
<1>13. CASE SaveFails
  BY <1>13, FailComes
  DEF FailOutcome, Finish, Save, Halt, SameRun, SameLedger, CallsKnown, States,
      Files, Ledgers, AttemptFits, Saved, Loaded
<1>14. CASE Crash
  BY <1>14
  DEF Crash, SaveAwaits, CallsKnown, States, Files, Ledgers, AttemptFits,
      Saved, Loaded
<1>15. CASE Restart
  BY <1>15, RestartComes
  DEF RestartOutcome, CallsKnown, States, Files, Ledgers, AttemptFits
<1> QED
  BY <1>1, <1>2, <1>3, <1>4, <1>5, <1>6, <1>7, <1>8, <1>9, <1>10, <1>11, <1>12,
     <1>13, <1>14, <1>15
  DEF Next

LEMMA KeepsUnknownRests == IInv /\ [Next]_vars => UnknownRests'
<1> SUFFICES ASSUME IInv, [Next]_vars PROVE UnknownRests'
  OBVIOUS
<1> USE DEF IInv, TypeOK, engineVars, hostVars, history
<1>1. CASE \/ (\E plan \in Plans : AskPreview(plan))
           \/ (\E id \in 1 .. previews : AskStart(id)) \/ AskTick
  BY <1>1
  DEF AskPreview, Asks, AskStart, AskTick, UnknownRests, States, Files,
      Ledgers, Resolved, Saved, Loaded
<1>2. CASE \/ AskPause \/ Stop
  BY <1>2
  DEF AskPause, Halt, Stop, UnknownRests, States, Files, Ledgers, Resolved,
      Saved, Loaded
<1>3. CASE \/ Expire \/ UNCHANGED vars
  BY <1>3 DEF Expire, vars, UnknownRests
<1>4. CASE \/ Pause \/ Start
  BY <1>4
  DEF Pause, Begins, Save, Start, Finish, Check, UnknownRests, States, Files,
      Ledgers, Resolved, Saved, Loaded
<1>5. CASE Preview
  BY <1>5, PreviewComes
  DEF PreviewOutcome, Finish, Save, SameLedger, UnknownRests, States, Files,
      Ledgers, Resolved, Saved, Loaded
<1>6. CASE StartChecked
  BY <1>6, StartComes
  DEF StartOutcome, Finish, Save, SameLedger, UnknownRests, States, Files,
      Ledgers, Resolved, Saved, Loaded
<1>7. CASE Tick
  BY <1>7
  DEF Tick, Begins, Finish, Save, LimitReached, Check, UnknownRests, States,
      Files, Ledgers, Resolved, Saved, Loaded
<1>8. CASE TickChecked
  <2>1. TickOutcome
    BY <1>8, TickComes
  <2>2. CASE TickPasses
    BY <2>1, <2>2
    DEF TickOutcome, TickGoesOn, TickPasses, Finish, SameRun, SameLedger, UnknownRests, Resolved, Ledgers, States
  <2>3. CASE TickRecords
    BY <2>1, <2>3
    DEF TickOutcome, TickGoesOn, TickRecords, Save, Saved, SameRun, SameLedger, UnknownRests, Resolved, Ledgers, States
  <2>4. CASE TickAttempts
    BY <2>1, <2>4
    DEF TickOutcome, TickGoesOn, TickAttempts, Save, Saved, SameRun, UnknownRests, Resolved, Ledgers, States
  <2> QED  BY <2>1, <2>2, <2>3, <2>4 DEF TickOutcome, TickGoesOn
<1>9. CASE CheckFails
  BY <1>9, CheckComes
  DEF CheckOutcome, Finish, Save, SameRun, SameLedger, UnknownRests, States,
      Files, Ledgers, Resolved, Saved, Loaded
<1>10. ASSUME NEW result \in {"sent", "unknown"}, SendEnds(result) PROVE UnknownRests'
  BY <1>10, SendComes
  DEF SendOutcome, Save, UnknownRests, States, Files, Ledgers, Resolved, Saved,
      Loaded
<1>11. CASE SaveEnds
  <2>1. SaveOutcome
    BY <1>11, SaveComes
  <2>2. CASE at = "attemptSave" /\ (stale \/ state.phase # "running")
    <3>1. \A k \in Keys : state'.ledger[k] # "unknown" \/ state.ledger[k] = "unknown"
      BY <2>1, <2>2 DEF SaveOutcome, Ledgers, None
    <3>2. /\ state'.phase = state.phase /\ disk' = snap /\ at' = "trySave"
          /\ snap'.phase = state'.phase /\ snap'.ledger = state'.ledger
      BY <2>1, <2>2 DEF SaveOutcome, Save, Saved
    <3> QED  BY <3>1, <3>2 DEF UnknownRests, Resolved
  <2>3. CASE at = "attemptSave" /\ ~stale /\ state.phase = "running"
    BY <2>1, <2>3 DEF SaveOutcome, SameRun, UnknownRests, Resolved, Ledgers, States
  <2>4. CASE at # "attemptSave"
    BY <2>1, <2>4 DEF SaveOutcome, Finish, SameRun, UnknownRests, Resolved, Ledgers, States
  <2> QED  BY <2>2, <2>3, <2>4
<1>12. CASE SaveFails
  BY <1>12, FailComes
  DEF FailOutcome, Finish, Save, Halt, SameRun, SameLedger, UnknownRests,
      States, Files, Ledgers, Resolved, Saved, Loaded
<1>13. CASE Crash
  BY <1>13
  DEF Crash, SaveAwaits, UnknownRests, States, Files, Ledgers, Resolved, Saved,
      Loaded
<1>14. CASE Restart
  BY <1>14, RestartComes
  DEF RestartOutcome, UnknownRests, States, Files, Ledgers, Resolved
<1> QED
  BY <1>1, <1>2, <1>3, <1>4, <1>5, <1>6, <1>7, <1>8, <1>9, <1>10, <1>11, <1>12,
     <1>13, <1>14
  DEF Next

LEMMA KeepsHaltHolds == IInv /\ [Next]_vars => HaltHolds'
<1> SUFFICES ASSUME IInv, [Next]_vars PROVE HaltHolds'
  OBVIOUS
<1> USE DEF IInv, TypeOK, engineVars, hostVars, history
<1>1. ASSUME NEW plan \in Plans, AskPreview(plan) PROVE HaltHolds'
  BY <1>1 DEF AskPreview, Asks, HaltHolds
<1>2. ASSUME NEW id \in 1 .. previews, AskStart(id) PROVE HaltHolds'
  BY <1>2 DEF AskStart, Asks, HaltHolds
<1>3. CASE AskTick
  BY <1>3 DEF AskTick, Asks, HaltHolds
<1>4. CASE \/ AskPause \/ Stop
  BY <1>4 DEF AskPause, Halt, Stop, HaltHolds
<1>5. CASE \/ Expire \/ UNCHANGED vars
  BY <1>5 DEF Expire, vars, HaltHolds
<1>6. CASE \/ Pause \/ Start
  BY <1>6 DEF Pause, Begins, Save, Start, Finish, Check, HaltHolds
<1>7. CASE Preview
  BY <1>7, PreviewComes
  DEF PreviewOutcome, Finish, Save, SameLedger, HaltHolds, States, Files,
      UnknownRests
<1>8. CASE StartChecked
  BY <1>8, StartComes
  DEF StartOutcome, Finish, Save, SameLedger, HaltHolds, States, Files,
      UnknownRests
<1>9. CASE Tick
  BY <1>9 DEF Tick, Begins, Finish, Save, LimitReached, Check, HaltHolds
<1>10. CASE TickChecked
  <2>1. TickOutcome
    BY <1>10, TickComes
  <2>2. CASE TickPasses
    BY <2>1, <2>2
    DEF TickOutcome, TickGoesOn, TickPasses, Finish, SameRun, SameLedger, HaltHolds
  <2>3. CASE TickRecords
    BY <2>1, <2>3
    DEF TickOutcome, TickGoesOn, TickRecords, Save, Saved, SameRun, SameLedger, HaltHolds
  <2>4. CASE TickAttempts
    BY <2>1, <2>4
    DEF TickOutcome, TickGoesOn, TickAttempts, Save, Saved, SameRun, HaltHolds
  <2> QED  BY <2>1, <2>2, <2>3, <2>4 DEF TickOutcome, TickGoesOn
<1>11. CASE CheckFails
  BY <1>11, CheckComes
  DEF CheckOutcome, Finish, Save, SameRun, SameLedger, HaltHolds, States,
      Files, UnknownRests
<1>12. ASSUME NEW result \in {"sent", "unknown"}, SendEnds(result) PROVE HaltHolds'
  BY <1>12, SendComes
  DEF SendOutcome, Save, HaltHolds, States, Files, UnknownRests
<1>13. CASE SaveEnds
  BY <1>13, SaveComes
  DEF SaveOutcome, Save, Finish, SameRun, HaltHolds, States, Files,
      UnknownRests
<1>14. CASE SaveFails
  BY <1>14, FailComes
  DEF FailOutcome, Finish, Save, Halt, SameRun, SameLedger, HaltHolds, States,
      Files, UnknownRests
<1>15. CASE Crash
  BY <1>15 DEF Crash, HaltHolds
<1>16. CASE Restart
  BY <1>16, RestartComes
  DEF RestartOutcome, HaltHolds, States, Files, UnknownRests
<1> QED
  BY <1>1, <1>2, <1>3, <1>4, <1>5, <1>6, <1>7, <1>8, <1>9, <1>10, <1>11, <1>12,
     <1>13, <1>14, <1>15, <1>16
  DEF Next

LEMMA KeepsBudgetFits == IInv /\ [Next]_vars => BudgetFits'
<1> SUFFICES ASSUME IInv, [Next]_vars PROVE BudgetFits'
  OBVIOUS
<1> USE DEF IInv, TypeOK, engineVars, hostVars, history
<1>1. CASE \/ (\E plan \in Plans : AskPreview(plan))
           \/ (\E id \in 1 .. previews : AskStart(id)) \/ AskTick
  BY <1>1
  DEF AskPreview, Asks, AskStart, AskTick, BudgetFits, States, Files, Saved,
      Loaded
<1>2. CASE \/ AskPause \/ Stop
  BY <1>2 DEF AskPause, Halt, Stop, BudgetFits, States, Files, Saved, Loaded
<1>3. CASE \/ Expire \/ UNCHANGED vars
  BY <1>3 DEF Expire, vars, BudgetFits
<1>4. CASE \/ Pause \/ Start
  BY <1>4 DEF Pause, Begins, Save, Start, Finish, Check, BudgetFits
<1>5. CASE Preview
  BY <1>5, PreviewComes
  DEF PreviewOutcome, Finish, Save, SameLedger, BudgetFits, States, Files
<1>6. CASE StartChecked
  BY <1>6, StartComes
  DEF StartOutcome, Finish, Save, SameLedger, BudgetFits, States, Files
<1>7. CASE Tick
  <2>1. state.sent \in Nat /\ state.plan.max \in Nat
    <3>1. state.plan \in Plans \cup {NoPlan}
      OBVIOUS
    <3> QED  BY <3>1 DEF NoPlan, DmEngineAssumption
  <2>2. at' # "sending" /\ at' # "attemptSave" /\ at' # "startCheck" /\ UNCHANGED <<host, used>>
    BY <1>7 DEF Tick, Begins, Finish, Save, Check
  <2>3. /\ state'.sent = state.sent /\ state'.plan = state.plan
        /\ state'.phase \in {state.phase, "completed"}
    BY <1>7 DEF Tick, Begins, Finish, Save, Check
  <2>4. at' = "tickCheck" => state.sent < state.plan.max
    BY <1>7, <2>1 DEF Tick, Begins, Finish, Save, Check, LimitReached
  <2>5. at # "sending"
    BY <1>7 DEF Tick, Begins
  <2> QED  BY <2>1, <2>2, <2>3, <2>4, <2>5 DEF BudgetFits
<1>8. CASE TickChecked
  BY <1>8, TickComes
  DEF TickOutcome, TickGoesOn, TickPasses, TickRecords, TickAttempts, Finish,
      Save, SameRun, SameLedger, BudgetFits, States, Files, Saved, Loaded
<1>9. CASE CheckFails
  BY <1>9, CheckComes
  DEF CheckOutcome, Finish, Save, SameRun, SameLedger, BudgetFits, States,
      Files
<1>10. ASSUME NEW result \in {"sent", "unknown"}, SendEnds(result) PROVE BudgetFits'
  BY <1>10, SendComes DEF SendOutcome, Save, BudgetFits, States, Files
<1>11. CASE SaveEnds
  BY <1>11, SaveComes
  DEF SaveOutcome, Save, Finish, SameRun, BudgetFits, States, Files
<1>12. CASE SaveFails
  BY <1>12, FailComes
  DEF FailOutcome, Finish, Save, Halt, SameRun, SameLedger, BudgetFits, States,
      Files
<1>13. CASE Crash
  BY <1>13 DEF Crash, SaveAwaits, BudgetFits, States, Files, Saved, Loaded
<1>14. CASE Restart
  BY <1>14, RestartComes DEF RestartOutcome, BudgetFits, States, Files
<1> QED
  BY <1>1, <1>2, <1>3, <1>4, <1>5, <1>6, <1>7, <1>8, <1>9, <1>10, <1>11, <1>12,
     <1>13, <1>14
  DEF Next

LEMMA InitIInv == Init => IInv
<1> SUFFICES ASSUME Init PROVE IInv
  OBVIOUS
<1> DEFINE none == [k \in Keys |-> None]
<1>1. /\ state = Loaded([phase |-> "idle", ledger |-> none])
      /\ snap = [phase |-> "idle", ledger |-> none] /\ disk = snap
  BY DEF Init, Saved, Loaded
<1>2. none \in Ledgers /\ Recorded(none) = {} /\ \A k \in Keys : none[k] # "unknown"
  BY DEF Ledgers, Recorded, None
<1>3. IsFiniteSet({}) /\ Cardinality({}) = 0 /\ MaxLedger \in Nat /\ MaxPreviews \in Nat /\ 0 \in Ids
  BY FS_EmptySet DEF Ids, DmEngineAssumption
<1>4. LedgerFits(none)
  <2>1. IsFiniteSet(Recorded(none)) /\ Cardinality(Recorded(none)) = 0
    <3> HIDE DEF none
    <3> QED  BY <1>2, <1>3
  <2> HIDE DEF none
  <2> QED  BY <1>3, <2>1 DEF LedgerFits
<1> HIDE DEF none
<1>5. /\ state.ledger = none /\ state.phase = "idle" /\ state.sent = 0 /\ state \in States
      /\ snap.ledger = none /\ snap.phase = "idle" /\ disk = snap /\ snap \in Files
  BY <1>1, <1>2, <1>3 DEF Loaded, States, Files, Phases
<1>6. Entries(state) = Cardinality(Recorded(none))
  BY <1>5 DEF Entries, Recorded
<1>7. TypeOK
  <2>1. Entries(state) <= MaxLedger
    BY <1>4, <1>6 DEF LedgerFits
  <2>2. queue \in Seq(Operation)
    BY DEF Init
  <2> QED  BY <1>3, <1>5, <2>1, <2>2 DEF Init, TypeOK, States, Files
<1>8. LedgersFit
  BY <1>4, <1>5 DEF LedgersFit
<1>9. PreviewsFit
  <2>1. Asked(<<>>) = {}
    BY DEF Asked
  <2>2. Cardinality(Asked(<<>>)) = 0
    BY <1>3, <2>1
  <2>3. queue = <<>> /\ previews = 0
    BY DEF Init
  <2> QED  BY <1>3, <2>2, <2>3 DEF PreviewsFit
<1>10. QueueFits /\ AttemptFits /\ CallsKnown /\ UnknownRests /\ HaltHolds /\ BudgetFits
  BY <1>5 DEF Init, QueueFits, AttemptFits, CallsKnown, UnknownRests, HaltHolds, BudgetFits
<1> QED  BY <1>7, <1>8, <1>9, <1>10 DEF IInv

LEMMA KeepsIInv == IInv /\ [Next]_vars => IInv'
<1> SUFFICES ASSUME IInv, [Next]_vars PROVE IInv'
  OBVIOUS
<1>1. LedgersFit'
  BY KeepsLedgersFit DEF LedgersFit
<1>2. PreviewsFit'
  BY KeepsPreviewsFit DEF PreviewsFit
<1>3. Entries(state') <= MaxLedger
  BY <1>1 DEF LedgersFit, LedgerFits, Recorded, Entries
<1>4. StateTyped' /\ QueueTyped' /\ FilesTyped' /\ RestTyped' /\ FlagsTyped'
  BY KeepsStateTyped, KeepsQueueTyped, KeepsFilesTyped, KeepsRestTyped, KeepsFlagsTyped
<1>5. TypeOK'
  BY <1>3, <1>4 DEF TypeOK, StateTyped, QueueTyped, FilesTyped, RestTyped, FlagsTyped, States, Files
<1> QED
  BY <1>1, <1>2, <1>5, KeepsQueueFits, KeepsAttemptFits, KeepsCallsKnown, KeepsUnknownRests,
     KeepsHaltHolds, KeepsBudgetFits
  DEF IInv

\* The engine keeps IInv, whatever plans, keys and bounds it is given.
THEOREM EngineInvariant == Spec => []IInv
BY InitIInv, KeepsIInv, PTL DEF Spec

\* The ledger, in memory and on disk, is typed, fits its file and knows all that
\* was handed to the browser (tick, FileStore.save, init).
THEOREM LedgerIsSafe == Spec => []LedgerSafety
<1>1. IInv => LedgerSafety
  BY DEF IInv, CallsKnown, LedgerSafety, RecordedBeforeSend
<1> QED  BY <1>1, EngineInvariant, PTL

\* A send begins only where the save of its attempt ends.
LEMMA SendBegins ==
    ASSUME IInv, [Next]_vars, Sends
    PROVE  /\ at = "attemptSave" /\ ~stale /\ state.phase = "running" /\ host # "down"
           /\ cur' = cur /\ cur \notin calls
<1>1. CASE SaveEnds
  <2>1. SaveOutcome
    BY <1>1, SaveComes
  <2> QED  BY <2>1 DEF SaveOutcome, Save, Finish, Sends, IInv, AttemptFits
<1>2. CASE ~SaveEnds
  <2>1. at' # "sending"
    <3>1. CASE \/ \E plan \in Plans : AskPreview(plan)
               \/ \E id \in 1 .. previews : AskStart(id)
               \/ AskTick \/ AskPause \/ Stop \/ Expire \/ UNCHANGED vars
      BY <3>1 DEF AskPreview, AskStart, AskTick, AskPause, Stop, Expire, Asks, engineVars, vars, Sends
    <3>2. CASE Pause \/ Preview \/ Start \/ StartChecked \/ Tick
      BY <3>2 DEF Pause, Preview, Start, StartChecked, Tick, Save, Finish, Check
    <3>3. CASE TickChecked
      BY <3>3, TickComes DEF TickOutcome, TickGoesOn, TickPasses, TickRecords, TickAttempts,
         Finish, Save
    <3>4. CASE CheckFails \/ SaveFails \/ Crash \/ \E result \in {"sent", "unknown"} : SendEnds(result)
      BY <3>4, CheckComes, FailComes DEF CheckOutcome, FailOutcome, Crash, SendEnds, Save, Finish
    <3>5. CASE Restart
      BY <3>5 DEF Restart, Sends
    <3> QED  BY <1>2, <3>1, <3>2, <3>3, <3>4, <3>5 DEF Next
  <2> QED  BY <2>1 DEF Sends
<1> QED  BY <1>1, <1>2

\* No message goes out twice: not in another plan, not after a failed save, a
\* crash or an answer that never came (tick, init).
THEOREM SentOnlyOnce == Spec => SendOnce
<1>1. IInv /\ [Next]_vars => (Sends => cur' \notin calls)
  BY SendBegins
<1> QED  BY <1>1, EngineInvariant, PTL DEF Spec, SendOnce

\* After one send whose end is not known no other follows, in no plan and in no
\* process (preview, init).
THEOREM UnknownIsTheLast == Spec => UnknownStopsAll
<1> DEFINE AllSent == \A k \in calls : state.ledger[k] = "sent"
<1>1. ASSUME IInv, [Next]_vars, Sends PROVE AllSent
  <2>1. at = "attemptSave" /\ state.phase = "running" /\ host # "down"
    BY <1>1, SendBegins
  <2>2. \A k \in Keys : state.ledger[k] # "unknown"
    BY <1>1, <2>1 DEF IInv, UnknownRests, Resolved
  <2>3. calls \subseteq Keys
    BY <1>1 DEF IInv, TypeOK
  <2> QED  BY <1>1, <2>1, <2>2, <2>3 DEF IInv, CallsKnown
<1>2. IInv /\ [Next]_vars => (Sends => AllSent)
  BY <1>1
<1> QED  BY <1>2, EngineInvariant, PTL DEF Spec, UnknownStopsAll

\* A message belongs to a run that was started and not paused since, and is one
\* its plan still allows, however saves and checks overlap (start, tick, pause).
THEOREM SendsStayInTheRun == Spec => WithinTheRun
<1> DEFINE Allowed == ~halted /\ used < state.plan.max
<1>1. ASSUME IInv, [Next]_vars, Sends PROVE Allowed
  <2>1. at = "attemptSave" /\ state.phase = "running" /\ host # "down"
    BY <1>1, SendBegins
  <2>2. ~halted
    BY <1>1, <2>1 DEF IInv, HaltHolds
  <2>3. used \in Nat /\ state.sent \in Nat /\ state.plan.max \in Nat
    <3>1. state.plan \in Plans \cup {NoPlan} /\ used \in Nat /\ state.sent \in Nat
      BY <1>1 DEF IInv, TypeOK
    <3> QED  BY <3>1 DEF NoPlan, DmEngineAssumption
  <2>4. used <= state.sent /\ state.sent < state.plan.max
    BY <1>1, <2>1 DEF IInv, BudgetFits
  <2> QED  BY <2>2, <2>3, <2>4
<1>2. IInv /\ [Next]_vars => (Sends => Allowed)
  BY <1>1
<1> QED  BY <1>2, EngineInvariant, PTL DEF Spec, WithinTheRun

-----------------------------------------------------------------------------
(* The promise of MessageFates *)

\* An answer that is on record was heard by this process, and a process that is
\* gone knows what its file does.
SentStays ==
    /\ \A k \in Keys : snap.ledger[k] = "sent" \/ disk.ledger[k] = "sent" => state.ledger[k] = "sent"
    /\ host = "down" => state.ledger = disk.ledger
    /\ at = "sending" => cur \in calls

LEMMA KeepsSentStays == IInv /\ SentStays /\ [Next]_vars => SentStays'
<1> SUFFICES ASSUME IInv, SentStays, [Next]_vars PROVE SentStays'
  OBVIOUS
<1> USE DEF engineVars, hostVars, history
<1>0. /\ state.ledger \in Ledgers /\ snap.ledger \in Ledgers /\ disk.ledger \in Ledgers
      /\ at \in {"attemptSave", "sending"} => cur \in Keys /\ state.ledger[cur] = "attempting"
  BY DEF IInv, TypeOK, AttemptFits
<1>1. CASE \/ (\E plan \in Plans : AskPreview(plan)) \/ (\E id \in 1 .. previews : AskStart(id))
           \/ AskTick \/ Expire \/ UNCHANGED vars
  BY <1>1 DEF AskPreview, Asks, AskStart, AskTick, Expire, vars, SentStays
<1>2. CASE AskPause \/ Stop
  <2>1. state'.ledger = state.ledger /\ UNCHANGED <<snap, disk, at, cur, calls>>
    BY <1>2 DEF AskPause, Stop, Halt, IInv, TypeOK
  <2>2. host' # "down"
    BY <1>2 DEF AskPause, Stop
  <2> QED  BY <2>1, <2>2 DEF SentStays
<1>3. CASE Pause \/ Preview \/ Start \/ StartChecked \/ Tick \/ CheckFails \/ SaveFails
  <2>1. state'.ledger = state.ledger /\ snap' \in {snap, Saved(state')} /\ disk' = disk
    <3>1. CASE Pause \/ Start \/ Tick
      BY <3>1 DEF Pause, Start, Tick, Save, Finish, Check, IInv, TypeOK
    <3>2. CASE Preview
      BY <3>2, PreviewComes DEF PreviewOutcome, Finish, Save, SameLedger
    <3>3. CASE StartChecked
      BY <3>3, StartComes DEF StartOutcome, Finish, Save, SameLedger
    <3>4. CASE CheckFails
      BY <3>4, CheckComes DEF CheckOutcome, Finish, Save, SameLedger
    <3>5. CASE SaveFails
      BY <3>5, FailComes DEF FailOutcome, Finish, Save, Halt, SameLedger
    <3> QED  BY <1>3, <3>1, <3>2, <3>3, <3>4, <3>5
  <2>2. host' # "down" /\ at' # "sending"
    BY <1>3, PreviewComes, StartComes, CheckComes, FailComes
    DEF Pause, Begins, Start, Tick, Finish, Save, Check, Halt, PreviewOutcome, StartOutcome, CheckOutcome, FailOutcome
  <2> QED  BY <2>1, <2>2 DEF SentStays, Saved
<1>4. CASE TickChecked
  <2>1. TickOutcome
    BY <1>4, TickComes
  <2>2. disk' = disk /\ host' # "down" /\ at' # "sending"
    BY <2>1 DEF TickOutcome, TickGoesOn, TickPasses, TickRecords, TickAttempts, Finish, Save
  <2>3. CASE TickPasses \/ TickRecords
    BY <2>2, <2>3 DEF TickPasses, TickRecords, Finish, Save, Saved, SameLedger, SentStays
  <2>4. CASE TickAttempts
    <3>1. PICK k \in Keys : /\ state.ledger[k] = None
                            /\ state'.ledger = [state.ledger EXCEPT ![k] = "attempting"]
                            /\ snap' = Saved(state')
      BY <2>4 DEF TickAttempts, Save
    <3>2. \A j \in Keys : state'.ledger[j] = IF j = k THEN "attempting" ELSE state.ledger[j]
      BY <1>0, <3>1 DEF Ledgers
    <3> QED  BY <2>2, <3>1, <3>2 DEF SentStays, Saved, None
  <2> QED  BY <2>1, <2>3, <2>4 DEF TickOutcome, TickGoesOn
<1>5. ASSUME NEW result \in {"sent", "unknown"}, SendEnds(result) PROVE SentStays'
  <2>1. SendOutcome(result)
    BY <1>5, SendComes
  <2>2. \A j \in Keys : state'.ledger[j] = IF j = cur THEN result ELSE state.ledger[j]
    BY <1>0, <2>1 DEF SendOutcome, Ledgers
  <2> QED  BY <1>0, <2>1, <2>2 DEF SendOutcome, Save, Saved, SentStays
<1>6. CASE SaveEnds
  <2>1. SaveOutcome
    BY <1>6, SaveComes
  <2>2. CASE at = "attemptSave" /\ (stale \/ state.phase # "running")
    <3>1. \A j \in Keys : state'.ledger[j] = IF j = cur THEN None ELSE state.ledger[j]
      BY <1>0, <2>1, <2>2 DEF SaveOutcome, Save, Ledgers
    <3> QED  BY <1>0, <2>1, <2>2, <3>1 DEF SaveOutcome, Save, Saved, SentStays
  <2>3. CASE ~(at = "attemptSave" /\ (stale \/ state.phase # "running"))
    BY <2>1, <2>3 DEF SaveOutcome, Finish, SentStays
  <2> QED  BY <2>2, <2>3
<1>7. CASE Crash \/ Restart
  BY <1>7 DEF Crash, Restart, Loaded, SentStays
<1> QED  BY <1>1, <1>2, <1>3, <1>4, <1>5, <1>6, <1>7 DEF Next

\* The ends of messages are the same as long as nothing is handed over, nothing
\* comes back and nothing is forgotten.
LEMMA FatesStay ==
    ASSUME calls' = calls, at' = "sending" <=> at = "sending", at = "sending" => cur' = cur,
           \A k \in calls : state'.ledger[k] = "sent" <=> state.ledger[k] = "sent"
    PROVE  fates' = fates
BY DEF fates

\* The steps that hand nothing over and hear of no end: they close the run or
\* leave it as it is, but for a start that was checked.
LEMMA FatesRest ==
    ASSUME IInv, SentStays, [Next]_vars, ~Crash,
           \A result \in {"sent", "unknown"} : ~SendEnds(result),
           ~(SaveEnds /\ at' = "sending")
    PROVE  /\ fates' = fates
           /\ Sending' => Sending \/ (at = "startCheck" /\ ~stale)
<1> USE DEF engineVars, hostVars, history, Sending
<1>0. /\ state.ledger \in Ledgers /\ calls \subseteq Keys
      /\ at = "attemptSave" => cur \in Keys \ calls
      /\ \A k \in calls : state.ledger[k] # None
  BY DEF IInv, TypeOK, AttemptFits, CallsKnown
<1>1. CASE \/ (\E plan \in Plans : AskPreview(plan)) \/ (\E id \in 1 .. previews : AskStart(id))
           \/ AskTick \/ Expire \/ UNCHANGED vars
  <2>1. UNCHANGED <<state, calls, at, cur, host>>
    BY <1>1 DEF AskPreview, Asks, AskStart, AskTick, Expire, vars
  <2> QED  BY <2>1, FatesStay
<1>2. CASE AskPause \/ Stop
  <2>1. state'.ledger = state.ledger /\ UNCHANGED <<calls, at, cur>>
    BY <1>2 DEF AskPause, Stop, Halt, IInv, TypeOK
  <2>2. state'.phase # "running"
    BY <1>2 DEF AskPause, Stop, Halt, IInv, TypeOK
  <2> QED  BY <2>1, <2>2, FatesStay
<1>3. CASE Pause \/ Preview \/ Start \/ StartChecked \/ Tick \/ CheckFails \/ SaveFails
  <2>1. /\ state'.ledger = state.ledger /\ calls' = calls /\ at # "sending" /\ at' # "sending"
        /\ Sending' => Sending \/ (at = "startCheck" /\ ~stale)
    <3>1. CASE Pause \/ Start \/ Tick
      BY <3>1 DEF Pause, Start, Tick, Begins, Save, Finish, Check, IInv, TypeOK
    <3>2. CASE Preview
      BY <3>2, PreviewComes DEF PreviewOutcome, Finish, Save, SameLedger
    <3>3. CASE StartChecked
      BY <3>3, StartComes DEF StartOutcome, Finish, Save, SameLedger
    <3>4. CASE CheckFails
      BY <3>4, CheckComes DEF CheckOutcome, Finish, Save, SameLedger
    <3>5. CASE SaveFails
      BY <3>5, FailComes DEF FailOutcome, Finish, Save, Halt, SameLedger
    <3> QED  BY <1>3, <3>1, <3>2, <3>3, <3>4, <3>5
  <2> QED  BY <2>1, FatesStay
<1>4. CASE TickChecked
  <2>1. TickOutcome
    BY <1>4, TickComes
  <2>2. calls' = calls /\ at # "sending" /\ at' # "sending" /\ (Sending' => Sending)
    BY <2>1 DEF TickOutcome, TickGoesOn, TickPasses, TickRecords, TickAttempts, Finish, Save
  <2>3. \A k \in calls : state'.ledger[k] = state.ledger[k]
    BY <1>0, <2>1
    DEF TickOutcome, TickGoesOn, TickPasses, TickRecords, TickAttempts, SameLedger, Ledgers
  <2> QED  BY <2>2, <2>3, FatesStay
<1>5. CASE SaveEnds
  <2>1. SaveOutcome
    BY <1>5, SaveComes
  <2>2. calls' = calls /\ at # "sending" /\ at' # "sending" /\ (Sending' => Sending)
    BY <1>5, <2>1 DEF SaveOutcome, Finish, Save
  <2>3. \A k \in calls : state'.ledger[k] = state.ledger[k]
    BY <1>0, <1>5, <2>1 DEF SaveOutcome, Ledgers
  <2> QED  BY <2>2, <2>3, FatesStay
<1>6. CASE Restart
  <2>1. /\ \A k \in Keys : state'.ledger[k] = "sent" <=> disk.ledger[k] = "sent"
        /\ state'.phase # "running"
    BY <1>6 DEF Restart, Loaded, Recovered
  <2>2. state.ledger = disk.ledger /\ UNCHANGED <<calls, at, cur>>
    BY <1>6 DEF Restart, SentStays
  <2> QED  BY <1>0, <2>1, <2>2, FatesStay
<1> QED  BY <1>1, <1>2, <1>3, <1>4, <1>5, <1>6 DEF Next

\* Where a message can go out and where a run can open, all others have settled.
LEMMA EngineSettled ==
    ASSUME IInv, \/ at = "attemptSave" /\ state.phase = "running" /\ host # "down"
                 \/ at = "startCheck"
    PROVE  Fates!Settled
<1>1. at # "sending" /\ host # "down" /\ calls \subseteq Keys
  BY DEF IInv, TypeOK, QueueFits
<1>2. \A k \in calls : state.ledger[k] = "sent"
  BY <1>1 DEF IInv, CallsKnown, UnknownRests, Resolved
<1> QED  BY <1>1, <1>2 DEF Fates!Settled, fates

LEMMA EngineKeepsPromise ==
    IInv /\ SentStays /\ [Next]_vars => [Fates!FateNext]_(Fates!fateVars)
<1> SUFFICES ASSUME IInv, SentStays, [Next]_vars
             PROVE  Fates!FateNext \/ (fates' = fates /\ Sending' = Sending)
  BY DEF Fates!fateVars
<1>0. /\ state.ledger \in Ledgers /\ calls \subseteq Keys
      /\ at \in {"attemptSave", "sending"} => cur \in Keys /\ state.ledger[cur] = "attempting"
      /\ at = "attemptSave" => cur \notin calls
  BY DEF IInv, TypeOK, AttemptFits
<1>1. fates \in [Keys -> {"unsent", "flying", "sent", "unknown"}]
  BY DEF fates
<1>2. CASE Crash
  <2> DEFINE forgotten == {k \in Keys : fates[k] = "sent" /\ state'.ledger[k] # "sent"}
  <2>1. \A k \in Keys : state'.ledger[k] = "sent" => state.ledger[k] = "sent"
    BY <1>2 DEF Crash, Loaded, SentStays
  <2>2. calls' = calls /\ at' = "idle" /\ Sending' = FALSE
    BY <1>2 DEF Crash, Sending
  <2>3. fates' = [k \in Keys |-> IF fates[k] = "flying" \/ k \in forgotten THEN "unknown" ELSE fates[k]]
    <3>1. ASSUME NEW k \in Keys
          PROVE  fates'[k] = IF fates[k] = "flying" \/ k \in forgotten THEN "unknown" ELSE fates[k]
      BY <1>0, <2>1, <2>2 DEF fates
    <3>2. fates' = [k \in Keys |-> fates'[k]]
      BY DEF fates
    <3> QED  BY <3>1, <3>2
  <2>4. Fates!Crashes
    BY <2>2, <2>3 DEF Fates!Crashes
  <2> QED  BY <2>4 DEF Fates!FateNext
<1>3. ASSUME NEW result \in {"sent", "unknown"}, SendEnds(result) PROVE Fates!FateNext
  <2>1. SendOutcome(result)
    BY <1>3, SendComes
  <2>2. \A k \in Keys : state'.ledger[k] = IF k = cur THEN result ELSE state.ledger[k]
    BY <1>0, <2>1 DEF SendOutcome, Ledgers
  <2>3. at = "sending" /\ at' = "trySave" /\ calls' = calls /\ cur \in calls /\ cur \in Keys
    BY <1>0, <2>1 DEF SendOutcome, Save, history, SentStays
  <2>4. fates[cur] = "flying" /\ fates' = [fates EXCEPT ![cur] = result]
    <3>1. \A k \in Keys : fates'[k] = IF k = cur THEN result ELSE fates[k]
      BY <2>2, <2>3 DEF fates
    <3>2. fates' = [k \in Keys |-> fates'[k]]
      BY DEF fates
    <3>3. fates[cur] = "flying"
      BY <2>3 DEF fates
    <3> QED  BY <1>1, <3>1, <3>2, <3>3
  <2>5. IF result = "unknown" THEN Sending' = FALSE ELSE Sending' = Sending
    BY <2>1 DEF SendOutcome, hostVars, Sending
  <2>6. Fates!Answered(cur) \/ Fates!Lost(cur)
    BY <1>3, <2>4, <2>5 DEF Fates!Answered, Fates!Lost, Fates!Turns
  <2> QED  BY <2>3, <2>6 DEF Fates!FateNext
<1>4. CASE SaveEnds /\ at' = "sending"
  <2>1. /\ at = "attemptSave" /\ state.phase = "running" /\ host # "down"
        /\ calls' = calls \cup {cur} /\ UNCHANGED <<state, cur, host>>
    BY <1>4, SaveComes DEF SaveOutcome, Save, Finish, hostVars
  <2>2. fates[cur] = "unsent" /\ fates' = [fates EXCEPT ![cur] = "flying"]
    <3>1. \A k \in Keys : fates'[k] = IF k = cur THEN "flying" ELSE fates[k]
      BY <1>0, <1>4, <2>1 DEF fates
    <3>2. fates' = [k \in Keys |-> fates'[k]]
      BY DEF fates
    <3> QED  BY <1>0, <1>1, <2>1, <3>1, <3>2 DEF fates
  <2>3. Sending /\ Sending' = Sending
    BY <2>1 DEF Sending
  <2>4. Fates!Sends(cur)
    BY <2>1, <2>2, <2>3, EngineSettled DEF Fates!Sends, Fates!Turns
  <2> QED  BY <1>0, <2>1, <2>4 DEF Fates!FateNext
<1>5. CASE ~Crash /\ (\A result \in {"sent", "unknown"} : ~SendEnds(result)) /\ ~(SaveEnds /\ at' = "sending")
  <2>1. fates' = fates /\ (Sending' => Sending \/ (at = "startCheck" /\ ~stale))
    BY <1>5, FatesRest
  <2>2. Sending \in BOOLEAN /\ Sending' \in BOOLEAN
    BY DEF Sending
  <2>3. CASE ~Sending'
    BY <2>1, <2>2, <2>3 DEF Fates!FateNext, Fates!Closes
  <2>4. CASE Sending' /\ Sending
    BY <2>1, <2>2, <2>4
  <2>5. CASE Sending' /\ ~Sending
    BY <2>1, <2>2, <2>5, EngineSettled DEF Fates!FateNext, Fates!Opens
  <2> QED  BY <2>3, <2>4, <2>5
<1> QED  BY <1>2, <1>3, <1>4, <1>5

\* The engine implements MessageFates: a message goes out at most once, in an
\* open run and after all others have settled, and a crash may forget an answer
\* but no message (tick, init, preview).
THEOREM EngineSendsAsPromised == Spec => SendsAsPromised
<1>1. Init => SentStays /\ Fates!FateInit
  BY DEF Init, Loaded, Saved, SentStays, Fates!FateInit, fates, Sending
<1>2. Spec => [](IInv /\ SentStays)
  BY EngineInvariant, <1>1, KeepsSentStays, PTL DEF Spec
<1> QED  BY <1>1, <1>2, EngineKeepsPromise, PTL DEF Spec, SendsAsPromised, Fates!FateSpec
===============================================================================
