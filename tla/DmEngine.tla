------------------------------ MODULE DmEngine ------------------------------
(***************************************************************************)
(* DmEngine of mcp/douyin-dm: the local process that sends an approved     *)
(* list of private messages, or approved replies, one at a time.  Its      *)
(* operations are queued by exclusive() and run one after another; an      *)
(* operation gives way at each await (the browser check, a save of the     *)
(* state file, the send), and only pause() acts between.  A model step is  *)
(* the code from one await to the next.                                    *)
(*                                                                         *)
(* A key stands for what digest() hashes: a recipient and a message of a   *)
(* list, or one incoming message.  Incoming messages no rule matches are   *)
(* left out.  Whether nextAt has come is left open.                        *)
(***************************************************************************)
EXTENDS Naturals, Sequences, FiniteSets

CONSTANTS
    Keys,         \* what the ledger may hold
    NoKey,        \* no key
    Items,        \* the keys of incoming messages
    Plans,        \* the plans a user may approve: mode, recipients, max
    MaxLedger,    \* entries the ledger may hold (10000 in the code)
    MaxPreviews,  \* bound: previews asked for
    MaxQueue      \* bound: operations waiting at once

ASSUME DmEngineAssumption ==
    /\ NoKey \notin Keys /\ Items \subseteq Keys
    /\ \A p \in Plans : /\ p.mode \in {"outbound", "reply"} /\ p.max \in Nat \ {0}
                       /\ p.recipients \in Seq(Keys)
                       /\ \A i, j \in DOMAIN p.recipients :
                            p.recipients[i] = p.recipients[j] => i = j
    /\ MaxLedger \in Nat /\ MaxPreviews \in Nat /\ MaxQueue \in Nat

VARIABLES
    state,     \* DmEngine.state
    queue,     \* the operations exclusive() has not finished, the running one first
    at,        \* the await the running operation is at
    cur,       \* the key the running tick is about
    stale,     \* pause() was called since the running operation began (generation)
    expired,   \* now() >= state.expiresAt
    snap,      \* the clone of the state a save in progress is writing
    disk,      \* the state file
    host,      \* the process: up, stopping, closed (its store is), down
    previews,  \* previews answered: the previewIds a user knows
    calls,     \* history: the keys adapter.send was called for
    halted,    \* history: no start has begun since the last pause or restart
    used       \* history: calls of adapter.send since the last start

engineVars == <<state, at, queue, cur, stale>>
hostVars == <<host, previews>>
history == <<calls, halted, used>>
vars == <<engineVars, expired, snap, disk, hostVars, history>>

None == "none"
Phases == {"idle", "draft", "running", "paused", "completed", "blocked"}
Ledgers == [Keys -> {None, "attempting", "sent", "unknown"}]
NoPlan == [mode |-> None, recipients |-> <<>>, max |-> 0]
Ids == 0 .. MaxPreviews

Operation ==
    [op : {"preview"}, plan : Plans] \cup [op : {"start"}, id : Ids \ {0}, voided : BOOLEAN]
    \cup [op : {"tick", "pause", "stop"}]

\* What a restart can make use of: preview() and start() set the rest anew.
Saved(s) == [phase |-> s.phase, ledger |-> s.ledger]
Loaded(d) ==
    [phase |-> d.phase, ledger |-> d.ledger, plan |-> NoPlan, previewId |-> 0,
     sent |-> 0, cursor |-> 0, seen |-> {}]

Entries(s) == Cardinality({k \in Keys : s.ledger[k] # None})
LedgerFull(s) == Entries(s) >= MaxLedger

TypeOK ==
    /\ state \in [phase : Phases, ledger : Ledgers, plan : Plans \cup {NoPlan}, previewId : Ids,
                  sent : Nat, cursor : Nat, seen : SUBSET Items]
    /\ Entries(state) <= MaxLedger
    /\ queue \in Seq(Operation)
    /\ at \in {"idle", "save", "startCheck", "startSave",
               "tickCheck", "attemptSave", "sending", "trySave", "failSave"}
    /\ cur \in Keys \cup {NoKey}
    /\ stale \in BOOLEAN /\ expired \in BOOLEAN /\ halted \in BOOLEAN
    /\ snap \in [phase : Phases, ledger : Ledgers] /\ disk \in [phase : Phases, ledger : Ledgers]
    /\ host \in {"up", "stopping", "closed", "down"}
    /\ previews \in Ids
    /\ calls \subseteq Keys /\ used \in Nat

Init ==
    /\ state = Loaded([phase |-> "idle", ledger |-> [k \in Keys |-> None]])
    /\ disk = Saved(state) /\ snap = Saved(state)
    /\ queue = <<>> /\ at = "idle"
    /\ cur = NoKey
    /\ stale = FALSE /\ expired = FALSE
    /\ host = "up" /\ previews = 0
    /\ calls = {} /\ halted = TRUE /\ used = 0

-----------------------------------------------------------------------------
(* The users, the timer of stdio.ts and time *)

\* An operation begins as soon as the one before it has ended, before any
\* input is handled.
Quiet == at = "idle" => queue = <<>>

Asks(operation) ==
    /\ host # "down" /\ Quiet
    /\ Len(queue) < MaxQueue
    /\ queue' = Append(queue, operation)
    /\ UNCHANGED <<state, at, cur, stale, expired, snap, disk, hostVars, history>>

AskPreview(plan) ==
    /\ previews + Cardinality({i \in DOMAIN queue : queue[i].op = "preview"}) < MaxPreviews
    /\ Asks([op |-> "preview", plan |-> plan])

AskStart(id) ==
    Asks([op |-> "start", id |-> id, voided |-> FALSE])

\* The interval timer, which waits for the tick it asked for before.
AskTick ==
    /\ host = "up"
    /\ \A i \in DOMAIN queue : queue[i].op # "tick"
    /\ Asks([op |-> "tick"])

\* pause(): what it does at once, and its queued part.  The starts asked for
\* before it are marked as voided, which the code does not do.
Halt(ops, queued) ==
    /\ stale' = TRUE
    /\ state' = [state EXCEPT !.phase = IF @ = "running" THEN "paused" ELSE @]
    /\ queue' = Append([i \in DOMAIN ops |-> IF ops[i].op = "start"
                                             THEN [ops[i] EXCEPT !.voided = TRUE] ELSE ops[i]],
                       [op |-> queued])
    /\ halted' = TRUE

AskPause ==
    /\ host # "down" /\ Quiet
    /\ Len(queue) < MaxQueue
    /\ Halt(queue, "pause")
    /\ UNCHANGED <<at, cur, expired, snap, disk, hostVars, calls, used>>

\* stop() of stdio.ts, at a signal or the end of stdin
Stop ==
    /\ host = "up" /\ Quiet
    /\ Len(queue) < MaxQueue
    /\ host' = "stopping"
    /\ Halt(queue, "stop")
    /\ UNCHANGED <<at, cur, expired, snap, disk, previews, calls, used>>

Expire ==
    /\ state.phase = "running" /\ ~expired
    /\ expired' = TRUE
    /\ UNCHANGED <<engineVars, snap, disk, hostVars, history>>

-----------------------------------------------------------------------------
(* How an operation begins, gives way and ends *)

Begins(op) == host # "down" /\ at = "idle" /\ queue # <<>> /\ Head(queue).op = op
Resumes(await) == host # "down" /\ at = await

Check(await) == at' = await /\ UNCHANGED <<state, queue, snap, cur>>

\* save() clones the state before it gives way.
Save(await, s, key) ==
    /\ state' = s
    /\ snap' = Saved(s)
    /\ at' = await /\ cur' = key
    /\ UNCHANGED queue

\* stop() closes the store after its pause.
Finish(s) ==
    /\ state' = s
    /\ at' = "idle" /\ cur' = NoKey
    /\ queue' = Tail(queue)
    /\ host' = IF Head(queue).op = "stop" THEN "closed" ELSE host
    /\ UNCHANGED <<snap, stale>>

\* The catch block of tick()
Block(s) == Save("failSave", [s EXCEPT !.phase = "blocked"], NoKey)

\* The queued part of pause(), which stop() waits for
Pause ==
    /\ Begins("pause") \/ Begins("stop")
    /\ Save("save", state, NoKey)
    /\ UNCHANGED <<stale, expired, disk, hostVars, history>>

-----------------------------------------------------------------------------
(* preview *)

PreviewRefused ==
    \/ state.phase = "running"
    \/ \E k \in Keys : state.ledger[k] = "unknown"
    \/ LedgerFull(state)

Preview ==
    /\ Begins("preview")
    /\ \/ /\ PreviewRefused
          /\ Finish(state)
       \/ /\ ~PreviewRefused
          /\ Save("save", [state EXCEPT !.phase = "draft", !.plan = Head(queue).plan,
                                        !.previewId = previews + 1, !.sent = 0, !.cursor = 0],
                  NoKey)
          /\ stale' = FALSE
          /\ UNCHANGED host
    /\ UNCHANGED <<expired, disk, previews, history>>

-----------------------------------------------------------------------------
(* start *)

\* An out of range schedule refuses a start as well.
Start ==
    /\ Begins("start")
    /\ \/ /\ Finish(state)
          /\ UNCHANGED halted
       \/ /\ state.phase = "draft" /\ Head(queue).id = state.previewId
          /\ Check("startCheck")
          /\ stale' = FALSE /\ halted' = FALSE
          /\ UNCHANGED host
    /\ UNCHANGED <<expired, disk, previews, calls, used>>

\* The reply mode reads the inbox, whose messages are left unanswered.
Baseline(s) == {[s EXCEPT !.seen = b] : b \in IF s.plan.mode = "reply" THEN SUBSET Items ELSE {s.seen}}

\* Faulty: a pause while the browser was checked is not noticed.
StartCheckedAnyway ==
    /\ Resumes("startCheck")
    /\ \E s \in Baseline(state) :
        Save("startSave", [s EXCEPT !.phase = "running", !.previewId = 0], NoKey)
    /\ expired' = FALSE /\ used' = 0
    /\ UNCHANGED <<stale, host, disk, previews, calls, halted>>

StartChecked ==
    /\ Resumes("startCheck")
    /\ \E s \in Baseline(state) :
        \/ /\ stale
           /\ Finish(s)
           /\ UNCHANGED <<expired, used>>
        \/ /\ ~stale
           /\ Save("startSave", [s EXCEPT !.phase = "running", !.previewId = 0], NoKey)
           /\ expired' = FALSE /\ used' = 0
           /\ UNCHANGED <<stale, host>>
    /\ UNCHANGED <<disk, previews, calls, halted>>

-----------------------------------------------------------------------------
(* tick *)

LimitReached == expired \/ state.sent >= state.plan.max

Tick ==
    /\ Begins("tick")
    /\ \/ /\ state.phase = "running" => ~LimitReached
          /\ Finish(state)
       \/ /\ state.phase = "running" /\ LimitReached
          /\ Save("save", [state EXCEPT !.phase = "completed"], NoKey)
          /\ stale' = FALSE
          /\ UNCHANGED host
       \/ /\ state.phase = "running" /\ ~LimitReached
          /\ Check("tickCheck")
          /\ stale' = FALSE
          /\ UNCHANGED host
    /\ UNCHANGED <<expired, disk, previews, history>>

\* From the chosen key to the save of its ledger entry
Attempt(s, k) ==
    \/ /\ stale \/ s.phase # "running" \/ expired
       /\ Finish(s)
    \/ /\ ~stale /\ s.phase = "running" /\ ~expired
       /\ IF LedgerFull(s) THEN Block(s)
          ELSE Save("attemptSave", [s EXCEPT !.ledger[k] = "attempting"], k)
       /\ UNCHANGED <<stale, host>>

TickList ==
    LET next == state.plan.recipients[state.cursor + 1]
        listed == state.cursor < Len(state.plan.recipients)
    IN \/ /\ listed /\ state.ledger[next] = None
          /\ Attempt(state, next)
       \/ /\ listed /\ state.ledger[next] # None
          /\ Save("trySave", [state EXCEPT !.cursor = @ + 1], NoKey)
          /\ UNCHANGED <<stale, host>>
       \/ /\ ~listed
          /\ Save("trySave", [state EXCEPT !.phase = "completed"], NoKey)
          /\ UNCHANGED <<stale, host>>

\* Messages that are passed over stay without an answer in this plan, whether
\* they count as seen or as answered.
TickReplies ==
    \/ \E k \in Items \ state.seen :
        /\ state.ledger[k] = None
        /\ Attempt([state EXCEPT !.seen = @ \cup {k}], k)
    \/ /\ Save("trySave", state, NoKey)
       /\ UNCHANGED <<stale, host>>

TickChecked ==
    /\ Resumes("tickCheck")
    /\ IF state.plan.mode = "reply" THEN TickReplies ELSE TickList
    /\ UNCHANGED <<expired, disk, previews, calls, halted, used>>

CheckFails ==
    /\ \/ Resumes("startCheck") /\ Finish(state)
       \/ Resumes("tickCheck") /\ Block(state) /\ UNCHANGED <<stale, host>>
    /\ UNCHANGED <<expired, disk, previews, history>>

\* The ledger entry is on the disk: send, unless the run was halted meanwhile.
AttemptSaved ==
    /\ \/ /\ stale \/ state.phase # "running"
          /\ Save("trySave", [state EXCEPT !.ledger[cur] = None], NoKey)
          /\ UNCHANGED history
       \/ /\ ~stale /\ state.phase = "running"
          /\ at' = "sending"
          /\ calls' = calls \cup {cur} /\ used' = used + 1
          /\ UNCHANGED <<state, queue, cur, snap, halted>>
    /\ UNCHANGED <<stale, host, previews>>

\* Faulty: what is not known to be sent is taken for not sent.
SendEndsForRetry(result) ==
    /\ Resumes("sending")
    /\ Save("trySave",
            IF result = "unknown" THEN [state EXCEPT !.ledger[cur] = None, !.phase = "blocked"]
            ELSE [state EXCEPT !.ledger[cur] = "sent", !.sent = @ + 1], NoKey)
    /\ UNCHANGED <<stale, expired, disk, hostVars, history>>

SendEnds(result) ==
    /\ Resumes("sending")
    /\ LET s == [state EXCEPT !.ledger[cur] = result] IN
       Save("trySave",
            IF result = "unknown" THEN [s EXCEPT !.phase = "blocked"]
            ELSE [s EXCEPT !.sent = @ + 1, !.cursor = IF s.plan.mode = "outbound" THEN @ + 1 ELSE @],
            NoKey)
    /\ UNCHANGED <<stale, expired, disk, hostVars, history>>

-----------------------------------------------------------------------------
(* The state file *)

SaveAwaits == {"save", "startSave", "attemptSave", "trySave", "failSave"}

SaveEnds ==
    /\ at \in SaveAwaits
    /\ host \in {"up", "stopping"}
    /\ disk' = snap
    /\ IF at = "attemptSave" THEN AttemptSaved
       ELSE /\ Finish(state)
            /\ previews' = IF Head(queue).op = "preview" THEN state.previewId ELSE previews
            /\ UNCHANGED history
    /\ UNCHANGED expired

\* A tick whose last save fails makes stdio.ts stop.
FailTick ==
    /\ at' = "idle" /\ cur' = NoKey
    /\ IF host = "up"
       THEN host' = "stopping" /\ Halt(Tail(queue), "stop")
       ELSE queue' = Tail(queue) /\ UNCHANGED <<state, stale, host, halted>>
    /\ UNCHANGED snap

SaveFails ==
    /\ host # "down"
    /\ CASE at = "startSave" -> Finish([state EXCEPT !.phase = "blocked"]) /\ UNCHANGED halted
         [] at \in {"attemptSave", "trySave"} -> Block(state) /\ UNCHANGED <<stale, host, halted>>
         [] at = "failSave" \/ (at = "save" /\ Head(queue).op = "tick") -> FailTick
         [] at = "save" /\ Head(queue).op # "tick" -> Finish(state) /\ UNCHANGED halted
         [] OTHER -> FALSE
    /\ UNCHANGED <<expired, disk, previews, calls, used>>

-----------------------------------------------------------------------------
(* The process *)

\* The file is renamed into place: a save in progress is there or is not.
Crash ==
    /\ host # "down"
    /\ host' = "down"
    /\ \/ UNCHANGED disk
       \/ at \in SaveAwaits /\ host # "closed" /\ disk' = snap
    /\ state' = Loaded(disk') /\ snap' = disk'
    /\ queue' = <<>> /\ at' = "idle" /\ cur' = NoKey /\ stale' = FALSE
    /\ halted' = TRUE
    /\ UNCHANGED <<expired, previews, calls, used>>

\* Faulty: what was only attempted is tried again.
RecoveredForRetry(d) ==
    [ledger |-> [k \in Keys |-> IF d.ledger[k] = "attempting" THEN None ELSE d.ledger[k]],
     phase |-> IF d.phase = "running" THEN "paused" ELSE d.phase]

\* init(): an attempt whose end is not known blocks the account.
Recovered(d) ==
    LET attempting == {k \in Keys : d.ledger[k] = "attempting"} IN
    [ledger |-> [k \in Keys |-> IF k \in attempting THEN "unknown" ELSE d.ledger[k]],
     phase |-> IF attempting # {} THEN "blocked" ELSE IF d.phase = "running" THEN "paused" ELSE d.phase]

\* After a crash an operator has removed the lock file.
Restart ==
    /\ host = "down"
    /\ host' = "up"
    /\ disk' = Recovered(disk)
    /\ state' = Loaded(disk') /\ snap' = disk'
    /\ UNCHANGED <<queue, at, cur, stale, expired, previews, history>>

Next ==
    \/ \E plan \in Plans : AskPreview(plan)
    \/ \E id \in 1 .. previews : AskStart(id)
    \/ AskTick \/ AskPause \/ Stop \/ Expire
    \/ Pause \/ Preview \/ Start \/ StartChecked
    \/ Tick \/ TickChecked \/ CheckFails
    \/ \E result \in {"sent", "unknown"} : SendEnds(result)
    \/ SaveEnds \/ SaveFails
    \/ Crash \/ Restart

Spec == Init /\ [][Next]_vars

-----------------------------------------------------------------------------
(* Properties *)

Sends == at # "sending" /\ at' = "sending"

\* What was handed to the browser is in the state file, whatever crashed since
\* (engine.ts:131).
RecordedBeforeSend == \A k \in calls : disk.ledger[k] # None

\* The ledger, in memory and on disk, is typed, fits its file and knows all that
\* was handed to the browser.
LedgerSafety == TypeOK /\ RecordedBeforeSend

\* No message goes out twice: not in another plan, not after a failed save, a
\* crash or an answer that never came.
SendOnce == [][Sends => cur' \notin calls]_vars

\* After one send whose end is not known no other follows, in no plan and in
\* no process.
UnknownStopsAll == [][Sends => \A k \in calls : state.ledger[k] = "sent"]_vars

\* A message belongs to a run that was started and not paused since, and is one
\* its plan still allows: between a pause or a restart and the next start none
\* goes out, however saves and checks of the browser overlap (tick, pause).
WithinTheRun == [][Sends => ~halted /\ used < state.plan.max]_vars

\* "Set the stop flag immediately" (engine.ts:89): a start asked for before a
\* pause does not run after it.
PauseStopsAsked ==
    [][at = "startCheck" /\ at' = "startSave" => ~Head(queue).voided]_vars

\* What became of each message, as far as the ledger knows, and whether one may
\* be sent.
fates ==
    [k \in Keys |->
       IF k \notin calls THEN "unsent"
       ELSE IF at = "sending" /\ k = cur THEN "flying"
       ELSE IF state.ledger[k] = "sent" THEN "sent" ELSE "unknown"]
Sending == host # "down" /\ state.phase = "running"

Fates == INSTANCE MessageFates WITH Messages <- Keys, fate <- fates, open <- Sending

\* Every message goes out at most once, in an open run, after all others have
\* settled, whatever plan, pause, failed save or crash comes between.
SendsAsPromised == Fates!FateSpec
=============================================================================
