---------------------------- MODULE DouyinService ----------------------------
(***************************************************************************)
(* The Douyin lead service of one user (service.ts) with its scheduler:    *)
(* the automatic acquisition (acquisition.ts) that discovers works, lets   *)
(* the monitor (watch-monitor.ts) scan and classify comments and sends     *)
(* messages through the DM engine, the commands of the user interface      *)
(* (act), which stop everything before they queue, and the login whose     *)
(* signal all of them carry.  The workspace is LeadWorkspace; of the       *)
(* engine only the phases remain, DmEngine has the rest.                   *)
(***************************************************************************)
EXTENDS LeadWorkspace, Sequences, FiniteSets

CONSTANTS
    Slots,         \* requests the route may serve at once
    Kinds,         \* commands they may carry
    MaxPerDay,     \* policy.maxMessagesPerDay
    MaxCommands,   \* bound: commands asked
    MaxLogins,     \* bound: logins, restarts included
    MaxDays        \* bound: calendar days

ASSUME CallersAssumption ==
    Callers = Slots \cup {"monitor"} /\ Slots \cap {"acquisition", "engine", "monitor"} = {}
ASSUME BoundsAssumption ==
    MaxPerDay \in Nat /\ MaxCommands \in Nat /\ MaxLogins \in Nat \ {0} /\ MaxDays \in Nat \ {0}

VARIABLES
    session,       \* the login: its number, and whether it still lasts
    entrySignal,   \* entry.signal: the login the entry works for
    listens,       \* logins whose abort listener is registered
    acq, mon,      \* Acquisition and WatchMonitor
    approved,      \* entry.approvedProfile
    eng,           \* DmEngine: phase, what is left of its plan, who planned it
    op,            \* the operation the engine is in, across its awaits
    ledger,        \* <<person, message>> sent, and whether one end is unknown
    preview,       \* entry.ui.preview
    budget, day,   \* outreach-budget and the calendar
    cmds, tail,    \* commands and the queue of their bodies
    tk,            \* the turn of the scheduler
    attempts, used, asked  \* history and bounds: sends begun, on this day's budget

engine   == <<eng, op, ledger>>
timers   == <<acq, mon, tk>>
login    == <<session, entrySignal, listens>>
requests == <<cmds, tail, asked>>
money    == <<budget, day, attempts, used>>
vars     == <<workspace, login, timers, approved, engine, preview, money, requests>>

Live(s)    == session.on /\ s = session.number
NoApproval == [version |-> 0]
NoOp       == [kind |-> "none"]
NoPlan     == [by |-> "nobody", recipients |-> {}]
IdleTurn   == [at |-> "idle", by |-> "nobody"]
NoCommand  == [at |-> "none"]

\* The entry is created by the first call of a process.
Volatile(s) ==
    /\ entrySignal' = s /\ listens' = {s}
    /\ acq' = [phase |-> "idle", signal |-> s, login |-> s, expired |-> FALSE]
    /\ mon' = [phase |-> "idle", signal |-> s, login |-> s, by |-> "nobody"]
    /\ approved' = NoApproval /\ preview' = NoPlan /\ op' = NoOp /\ tk' = IdleTurn
    /\ cmds' = [c \in Slots |-> NoCommand] /\ tail' = <<>>

Init ==
    /\ WorkspaceInit \/ Analysed
    /\ session = [number |-> 1, on |-> TRUE] /\ entrySignal = 1 /\ listens = {1}
    /\ acq = [phase |-> "idle", signal |-> 1, login |-> 1, expired |-> FALSE]
    /\ mon = [phase |-> "idle", signal |-> 1, login |-> 1, by |-> "nobody"]
    /\ approved = NoApproval /\ preview = NoPlan /\ op = NoOp /\ tk = IdleTurn
    /\ eng = [phase |-> "idle", plan |-> NoPlan, login |-> 1]
    /\ ledger = [sent |-> {}, unknown |-> FALSE]
    /\ budget = [day |-> 1, attempts |-> 0] /\ day = 1
    /\ cmds = [c \in Slots |-> NoCommand] /\ tail = <<>>
    /\ attempts = [r \in Recipients |-> 0] /\ used = 0 /\ asked = 0

------------------------------------------------------------------------------
(* Stopping. *)

AcqBusy ==
    /\ tk.by = "acquisition"
    /\ tk.at \in {"discover", "monitor", "scan", "classify", "outreach", "preview",
                 "previewed", "starting", "sending"}

MonBusy == tk.at \in {"scan", "classify"}
EngineFree == op = NoOp

Cut(fields) ==
    IF tk.at = "idle" THEN tk
    ELSE [tk EXCEPT !.acqCut = @ \/ "acqCut" \in fields, !.monCut = @ \/ "monCut" \in fields]

PausedEngine    == IF eng.phase = "running" THEN [eng EXCEPT !.phase = "paused"] ELSE eng
CancelledOp     == IF op = NoOp THEN op ELSE [op EXCEPT !.cancelled = TRUE]
Pause           == eng' = PausedEngine /\ op' = CancelledOp /\ UNCHANGED ledger
StopMonitor     == mon' = [mon EXCEPT !.phase = "paused"]
StopAcquisition == acq' = [acq EXCEPT !.phase = "paused"]

\* acquisition.stop, monitor.stop and the synchronous part of engine.pause.
StopAll == StopAcquisition /\ StopMonitor /\ tk' = Cut({"acqCut", "monCut"}) /\ Pause

------------------------------------------------------------------------------
(* The login. *)

Logout ==
    /\ session.on /\ session' = [session EXCEPT !.on = FALSE]
    /\ IF session.number \in listens THEN StopAll ELSE UNCHANGED <<timers, engine>>
    /\ UNCHANGED <<workspace, entrySignal, listens, approved, preview, money, requests>>

Login ==
    /\ ~session.on /\ session.number < MaxLogins
    /\ session' = [number |-> session.number + 1, on |-> TRUE]
    /\ UNCHANGED <<workspace, entrySignal, listens, timers, approved, engine, preview, money, requests>>

LostNothing == FALSE

\* A message was on its way when the process ended.
Lost == op # NoOp /\ op.at = "send"

\* The process ends and a new one restores the login: the workspace, the
\* ledger and the budget are on disk, no approval is (DmEngine.init).
Restart ==
    /\ session.number < MaxLogins
    /\ session' = [number |-> session.number + 1, on |-> TRUE]
    /\ Volatile(session.number + 1)
    /\ ledger' = [ledger EXCEPT !.unknown = @ \/ Lost]
    /\ eng' = [PausedEngine EXCEPT !.phase = IF Lost THEN "blocked" ELSE @, !.plan.by = "nobody"]
    /\ WorkspaceRestart /\ UNCHANGED <<money, asked>>

------------------------------------------------------------------------------
(* Commands: entry() and act(). *)

At(c, place) == cmds' = [cmds EXCEPT ![c].at = place]
Ends(c)      == cmds' = [cmds EXCEPT ![c] = NoCommand]

\* A request is authorized.  If the entry still works for an earlier login,
\* it is bound to the new one first.
Ask(c, kind) ==
    /\ cmds[c] = NoCommand /\ session.on /\ asked < MaxCommands /\ asked' = asked + 1
    /\ IF entrySignal = session.number
       THEN /\ StopAll
            /\ cmds' = [cmds EXCEPT ![c] = [kind |-> kind, login |-> session.number, at |-> "settle"]]
       ELSE /\ StopAcquisition /\ tk' = Cut({"acqCut"}) /\ UNCHANGED <<mon, engine>>
            /\ cmds' = [cmds EXCEPT ![c] = [kind |-> kind, login |-> session.number, at |-> "rebind"]]
    /\ UNCHANGED <<workspace, login, approved, preview, money, tail>>

RebindAcquisition(c) ==
    /\ cmds[c].at = "rebind" /\ ~AcqBusy /\ At(c, "rebindMonitor")
    /\ acq' = [acq EXCEPT !.phase = "paused", !.signal = cmds[c].login]
    /\ StopMonitor /\ tk' = Cut({"acqCut", "monCut"}) /\ approved' = NoApproval
    /\ UNCHANGED <<workspace, login, engine, preview, money, tail, asked>>

RebindMonitor(c) ==
    /\ cmds[c].at = "rebindMonitor" /\ ~MonBusy /\ At(c, "rebindEngine")
    /\ mon' = [mon EXCEPT !.phase = "paused", !.signal = cmds[c].login]
    /\ tk' = Cut({"monCut"}) /\ Pause
    /\ UNCHANGED <<workspace, login, acq, approved, preview, money, tail, asked>>

RebindWithoutListener(c) ==
    /\ cmds[c].at = "rebindEngine" /\ EngineFree
    /\ entrySignal' = cmds[c].login
    /\ IF Live(cmds[c].login)
       THEN StopAll /\ At(c, "settle") /\ UNCHANGED listens
       ELSE Ends(c) /\ UNCHANGED <<timers, engine, listens>>
    /\ UNCHANGED <<workspace, session, approved, preview, money, tail, asked>>

\* The entry works for the new login; a login that ended meanwhile is refused.
RebindEntry(c) ==
    /\ cmds[c].at = "rebindEngine" /\ EngineFree
    /\ entrySignal' = cmds[c].login
    /\ IF Live(cmds[c].login)
       THEN StopAll /\ At(c, "settle") /\ listens' = listens \cup {cmds[c].login}
       ELSE Ends(c) /\ UNCHANGED <<timers, engine, listens>>
    /\ UNCHANGED <<workspace, session, approved, preview, money, tail, asked>>

Waits(c, from, to) ==
    /\ cmds[c].at = from /\ At(c, to)
    /\ UNCHANGED <<workspace, login, timers, approved, engine, preview, money, tail, asked>>

\* Commands that stop the monitor once more after everything has settled.
StopsAgain == {"pause-monitor", "profile", "model", "watch", "start"}

Settle(c) ==
    \/ ~AcqBusy /\ Waits(c, "settle", "settleMonitor")
    \/ ~MonBusy /\ Waits(c, "settleMonitor", "settleEngine")
    \/ /\ cmds[c].at = "settleEngine" /\ EngineFree
       /\ IF cmds[c].kind \in StopsAgain
          THEN At(c, "settleAgain") /\ StopMonitor /\ tk' = Cut({"monCut"}) /\ UNCHANGED <<acq, tail>>
          ELSE At(c, "queue") /\ tail' = Append(tail, c) /\ UNCHANGED timers
       /\ UNCHANGED <<workspace, login, approved, engine, preview, money, asked>>
    \/ /\ cmds[c].at = "settleAgain" /\ ~MonBusy
       /\ At(c, "queue") /\ tail' = Append(tail, c)
       /\ UNCHANGED <<workspace, login, timers, approved, engine, preview, money, asked>>

Turn(c) == tail # <<>> /\ Head(tail) = c
Done(c) == Ends(c) /\ tail' = Tail(tail)

BodyFailsForAll(c) ==
    /\ Turn(c) /\ cmds[c].at = "queue" /\ Ends(c)
    /\ UNCHANGED <<workspace, login, timers, approved, engine, preview, money, tail, asked>>

\* The body of a command throws: its login has ended, or it is refused.
BodyFails(c) ==
    /\ Turn(c) /\ cmds[c].at = "queue" /\ Done(c)
    /\ UNCHANGED <<workspace, login, timers, approved, engine, preview, money, asked>>

Body(c, kinds) == Turn(c) /\ cmds[c].at = "queue" /\ cmds[c].kind \in kinds /\ Live(cmds[c].login)

StartAcquisition(c) ==
    /\ Body(c, {"acquire"}) /\ Live(acq.signal)
    /\ approved' = [version |-> version, model |-> modelId]
    /\ acq' = [acq EXCEPT !.phase = "running", !.login = cmds[c].login, !.expired = FALSE]
    /\ tk' = Cut({"acqCut"}) /\ Done(c)
    /\ UNCHANGED <<workspace, login, mon, engine, preview, money, asked>>

StartMonitor(c) ==
    /\ Body(c, {"monitor"}) /\ Live(mon.signal) /\ eng.phase # "running"
    /\ mon' = [mon EXCEPT !.phase = "running", !.login = cmds[c].login, !.by = "user"]
    /\ tk' = Cut({"monCut"}) /\ Done(c)
    /\ UNCHANGED <<workspace, login, acq, approved, engine, preview, money, asked>>

PauseAcquisition(c) ==
    /\ Body(c, {"pause-acquisition", "pause-monitor"}) /\ Done(c)
    /\ approved' = (IF cmds[c].kind = "pause-acquisition" THEN NoApproval ELSE approved)
    /\ UNCHANGED <<workspace, login, timers, engine, preview, money, asked>>

\* Bodies that pause the engine before they change what it may send.
PausesFirst == {"profile", "model", "review", "pause"}

PauseInBody(c) ==
    /\ Body(c, PausesFirst) /\ At(c, "pausing") /\ Pause
    /\ UNCHANGED <<workspace, login, timers, approved, preview, money, tail, asked>>

EngineFreeAlways == TRUE

\* What `await engine.pause()` waits for.
Paused == EngineFree

Change(c) ==
    /\ Turn(c) /\ cmds[c].at = "pausing" /\ Paused /\ Done(c)
    /\ \/ cmds[c].kind = "profile" /\ \E n \in Modes : ConfigureProfile(n)
       \/ cmds[c].kind = "model" /\ \E m \in Models : SelectModel(m)
       \/ /\ cmds[c].kind = "review"
          /\ \E r \in Recipients, action \in {"approved", "excluded", "opted-out"} : Review(r, action)
       \/ UNCHANGED workspace            \* pause, or the change is refused
    /\ preview' = (IF cmds[c].kind = "pause" THEN preview ELSE NoPlan)
    /\ UNCHANGED <<login, timers, approved, engine, money, asked>>

ChangeWatch(c) ==
    /\ Body(c, {"watch"}) /\ ChangeWatches /\ Done(c)
    /\ UNCHANGED <<login, timers, approved, engine, preview, money, asked>>

\* engine.preview: refused while it runs or while the end of a send is unknown.
Previewable == eng.phase # "running" /\ ~ledger.unknown

Preview(c) ==
    /\ Body(c, {"preview"}) /\ EngineFree /\ Previewable /\ Done(c)
    /\ \E rs \in (SUBSET {r \in Recipients : Plannable(r)}) \ {{}} :
         preview' = [by |-> "user", recipients |-> rs]
    /\ eng' = [eng EXCEPT !.phase = "draft", !.plan = preview']
    /\ UNCHANGED <<workspace, login, timers, approved, op, ledger, money, asked>>

\* engine.start with the preview the user has seen, up to its check.
StartSending(c) ==
    /\ Body(c, {"start"}) /\ EngineFree /\ eng.phase = "draft"
    /\ preview # NoPlan /\ preview.by = eng.plan.by /\ \A r \in preview.recipients : Plannable(r)
    /\ op' = [kind |-> "start", at |-> "check", who |-> c, login |-> cmds[c].login,
              cancelled |-> FALSE, to |-> "nobody"]
    /\ At(c, "starting")
    /\ UNCHANGED <<workspace, login, timers, approved, eng, ledger, preview, money, tail, asked>>

AskAnalysis(c) ==
    /\ Body(c, {"analyze"}) /\ At(c, "analyzing") /\ \E k \in Comments : Analyze(c, k)
    /\ UNCHANGED <<login, timers, approved, engine, preview, money, tail, asked>>

EndAnalysis(c) ==
    /\ cmds[c].at = "analyzing" /\ Done(c)
    /\ \/ Live(cmds[c].login) /\ \E class \in Classes : AnalysisEnds(c, class)
       \/ AnalysisFails(c)
    /\ UNCHANGED <<login, timers, approved, engine, preview, money, asked>>

------------------------------------------------------------------------------
(* The engine. *)

\* guarded.check compares the signals: a start or tick of another login fails.
Checked == session.on /\ entrySignal = session.number

Started(o) == [eng EXCEPT !.phase = "running", !.login = o.login]

\* The check of a start by a command ends.
StartChecked(c) ==
    /\ op # NoOp /\ op.kind = "start" /\ op.who = c /\ op' = NoOp /\ Done(c)
    /\ \/ Checked /\ ~op.cancelled /\ eng' = Started(op)
       \/ UNCHANGED eng
    /\ UNCHANGED <<workspace, login, timers, approved, ledger, preview, money, asked>>

\* The next person of the plan, if the plan has any left.
Passed(r) == [eng EXCEPT !.plan.recipients = @ \ {r}]

\* guarded.send up to the browser: signal, preview and eligibility once more.
Guarded(r) == Live(entrySignal) /\ preview # NoPlan /\ Plannable(r)

\* A tick goes on after its check: to the send, or to its end.
TickPasses(r) ==
    IF <<r, eng.plan.by>> \in ledger.sent
    THEN op' = NoOp /\ eng' = Passed(r) /\ UNCHANGED <<ledger, attempts, used>>
    ELSE IF op.cancelled \/ eng.phase # "running"
    THEN op' = NoOp /\ UNCHANGED <<eng, ledger, attempts, used>>
    ELSE IF Guarded(r)
    THEN /\ op' = [op EXCEPT !.at = "send", !.to = r]
         /\ attempts' = [attempts EXCEPT ![r] = @ + 1]
         /\ used' = used + (IF eng.plan.by = "acquisition" THEN 1 ELSE 0)
         /\ UNCHANGED <<eng, ledger>>
    ELSE /\ op' = NoOp /\ ledger' = [ledger EXCEPT !.unknown = TRUE]
         /\ eng' = [eng EXCEPT !.phase = "blocked"] /\ UNCHANGED <<attempts, used>>

TickChecked ==
    /\ op # NoOp /\ op.kind = "tick" /\ op.at = "check"
    /\ \/ Checked /\ \E r \in eng.plan.recipients : TickPasses(r)
       \/ /\ Checked /\ eng.plan.recipients = {} /\ op' = NoOp
          /\ eng' = [eng EXCEPT !.phase = "completed"] /\ UNCHANGED <<ledger, attempts, used>>
       \/ /\ op' = NoOp /\ eng' = [eng EXCEPT !.phase = "blocked"]   \* the check fails
          /\ UNCHANGED <<ledger, attempts, used>>
    /\ UNCHANGED <<workspace, login, timers, approved, preview, budget, day, requests>>

\* The browser confirms the message and the person is marked as contacted.
Sent ==
    /\ op # NoOp /\ op.at = "send" /\ op' = NoOp
    /\ MarkContacted(op.to)
    /\ ledger' = [ledger EXCEPT !.sent = @ \cup {<<op.to, eng.plan.by>>}]
    /\ eng' = Passed(op.to)
    /\ UNCHANGED <<login, timers, approved, preview, money, requests>>

\* No answer, an abort, or a mark that cannot be saved.
SendUnknown ==
    /\ op # NoOp /\ op.at = "send" /\ op' = NoOp
    /\ ledger' = [ledger EXCEPT !.unknown = TRUE] /\ eng' = [eng EXCEPT !.phase = "blocked"]
    /\ UNCHANGED <<workspace, login, timers, approved, preview, money, requests>>

------------------------------------------------------------------------------
(* A turn of the scheduler: tick(), one at a time. *)

Pass(at, by) == [at |-> at, by |-> by, acqCut |-> FALSE, monCut |-> FALSE, to |-> "nobody"]
Goes(at)     == tk' = [tk EXCEPT !.at = at]

\* What a turn of the acquisition carries: controller, login and expiry.
SignalLive  == ~tk.acqCut /\ Live(acq.signal) /\ ~acq.expired
MonitorLive == ~tk.monCut /\ Live(mon.signal) /\ (tk.by = "acquisition" => SignalLive)

\* The policy still holds for the profile and model the user saw.
Valid == Live(entrySignal) /\ approved = [version |-> version, model |-> modelId]

\* The catch block of Acquisition.tick.
FailedTo(phase) ==
    IF tk.acqCut \/ ~Live(acq.signal) THEN acq ELSE [acq EXCEPT !.phase = phase]
Fails        == acq' = FailedTo(IF acq.expired THEN "completed" ELSE "blocked") /\ tk' = IdleTurn
FailsUnknown == acq' = FailedTo("blocked") /\ tk' = IdleTurn

TurnBegins ==
    /\ tk.at = "idle"
    /\ IF acq.phase = "running" THEN tk' = Pass("auth", "acquisition")
       ELSE mon.phase = "running" /\ tk' = Pass("auth", "monitor")
    /\ UNCHANGED <<workspace, login, acq, mon, approved, engine, preview, money, requests>>

\* The scheduler learns that the entry works for another login, or for none.
Authorized ==
    /\ tk.at = "auth"
    /\ IF ~session.on THEN tk' = IdleTurn /\ UNCHANGED <<acq, mon, engine>>
       ELSE IF session.number = entrySignal
       THEN Goes("models") /\ UNCHANGED <<acq, mon, engine>>
       ELSE IF tk.by = "acquisition"
       THEN StopAcquisition /\ StopMonitor /\ Pause /\ Goes("pausing")
       ELSE StopMonitor /\ tk' = IdleTurn /\ UNCHANGED <<acq, engine>>
    /\ UNCHANGED <<workspace, login, approved, preview, money, requests>>

\* The approved model was withdrawn, or the models cannot be read.
Withdrawn ==
    /\ tk.at = "models" /\ tk.by = "acquisition" /\ Goes("withdrawn")
    /\ approved' = NoApproval /\ StopMonitor /\ Pause
    /\ UNCHANGED <<workspace, login, acq, preview, money, requests>>

PausedTurn ==
    /\ tk.at = "pausing" /\ EngineFree /\ tk' = IdleTurn
    /\ UNCHANGED <<workspace, login, acq, mon, approved, engine, preview, money, requests>>

\* Acquisition.tick up to its first await.
AcquisitionTick ==
    /\ tk.by = "acquisition"
    /\ \/ tk.at = "models"
       \/ tk.at = "withdrawn" /\ EngineFree
    /\ IF acq.phase # "running" THEN tk' = IdleTurn /\ UNCHANGED acq
       ELSE IF acq.expired THEN acq' = [acq EXCEPT !.phase = "completed"] /\ tk' = IdleTurn
       ELSE IF ~Valid
       THEN /\ acq' = (IF Live(acq.signal) THEN [acq EXCEPT !.phase = "blocked"] ELSE acq)
            /\ tk' = IdleTurn
       ELSE /\ \E at \in {"discover", "monitor"} : tk' = Pass(at, "acquisition")
            /\ UNCHANGED acq
    /\ UNCHANGED <<workspace, login, mon, approved, engine, preview, money, requests>>

Discovers ==
    /\ tk.at = "discover"
    /\ \/ SignalLive /\ Goes("monitor") /\ UNCHANGED acq
       \/ Fails
    /\ UNCHANGED <<workspace, login, mon, approved, engine, preview, money, requests>>

\* The monitor hook of the acquisition, up to the scan.
MonitorHook ==
    /\ tk.at = "monitor"
    /\ \/ /\ SignalLive /\ mon.phase # "blocked" /\ Live(mon.signal)
          /\ tk' = [tk EXCEPT !.at = "scan", !.monCut = FALSE]
          /\ mon' = (IF mon.phase = "running" THEN mon
                     ELSE [mon EXCEPT !.phase = "running", !.login = acq.login, !.by = "acquisition"])
          /\ UNCHANGED acq
       \/ SignalLive /\ Goes("outreach") /\ UNCHANGED <<acq, mon>>     \* no watch is enabled
       \/ (mon.phase = "blocked" \/ ~Live(mon.signal) \/ ~SignalLive) /\ Fails /\ UNCHANGED mon
    /\ UNCHANGED <<workspace, login, approved, engine, preview, money, requests>>

\* WatchMonitor.tick of a monitor that runs by itself.
MonitorTick ==
    /\ tk.at = "models" /\ tk.by = "monitor"
    /\ tk' = (IF mon.phase = "running" THEN Pass("scan", "monitor") ELSE IdleTurn)
    /\ UNCHANGED <<workspace, login, acq, mon, approved, engine, preview, money, requests>>

Pending(k) == ~\E class \in Classes :
    decisions[k] = [class |-> class, version |-> version, model |-> modelId]

\* Where a turn goes when the monitor is done with it.
MonitorDone == IF tk.by = "acquisition" THEN Goes("outreach")
               ELSE tk' = (IF eng.phase = "running" THEN Pass("engine", "monitor") ELSE IdleTurn)

\* A source is read, or a comment classified: on to the next comment, if any.
MonitorGoesOn ==
    \/ Goes("classify") /\ \E k \in Comments : Pending(k) /\ Analyze("monitor", k)
    \/ MonitorDone /\ UNCHANGED workspace

Scanned ==
    /\ tk.at = "scan" /\ MonitorLive /\ MonitorGoesOn
    /\ UNCHANGED <<login, acq, mon, approved, engine, preview, money, requests>>

Classified ==
    /\ tk.at = "classify" /\ MonitorLive /\ Goes("scan")
    /\ \E class \in Classes : AnalysisEnds("monitor", class)
    /\ UNCHANGED <<login, acq, mon, approved, engine, preview, money, requests>>

\* The catch block of WatchMonitor.tick: the turn is aborted from outside,
\* or the monitor fails and is blocked, with the acquisition that runs it.
MonitorFails ==
    /\ tk.at \in {"scan", "classify"}
    /\ IF tk.at = "classify" THEN AnalysisFails("monitor") ELSE UNCHANGED workspace
    /\ \/ tk.by = "acquisition" /\ Fails                    \* its signal is aborted, or timed out
          /\ mon' = (IF tk.monCut THEN mon ELSE [mon EXCEPT !.phase = "paused"])
       \/ /\ tk.by = "acquisition" => SignalLive
          /\ IF tk.monCut \/ ~Live(mon.signal)
             THEN MonitorDone /\ UNCHANGED <<acq, mon>>
             ELSE /\ mon' = [mon EXCEPT !.phase = "blocked"]
                  /\ IF tk.by = "acquisition" THEN Fails ELSE MonitorDone /\ UNCHANGED acq
    /\ UNCHANGED <<login, approved, engine, preview, money, requests>>

UsedToday == IF budget.day = day THEN budget.attempts ELSE 0

\* An attempt is written down before it is made.
Reserve ==
    /\ budget' = [day |-> day, attempts |-> UsedToday + 1]
    /\ used' = (IF budget.day = day THEN used ELSE 0)

\* outreach up to the preview.  Nothing may be due, nobody left to write to,
\* or the budget of the day used up.
Outreach ==
    /\ tk.at = "outreach"
    /\ \/ SignalLive /\ tk' = IdleTurn /\ UNCHANGED <<acq, money>>
       \/ (~SignalLive \/ ~Valid) /\ Fails /\ UNCHANGED money
       \/ SignalLive /\ eng.phase = "blocked" /\ FailsUnknown /\ UNCHANGED money
       \/ /\ SignalLive /\ Valid /\ eng.phase # "blocked" /\ UsedToday < MaxPerDay
          /\ \E r \in Recipients : /\ Plannable(r) /\ \E k \in candidates[r].keys : Supports(k)
                                  /\ tk' = [tk EXCEPT !.at = "preview", !.to = r]
          /\ Reserve /\ UNCHANGED <<acq, day, attempts>>
    /\ UNCHANGED <<workspace, login, mon, approved, engine, preview, requests>>

\* The signal is compared once the attempt is written down, before the preview
\* joins the engine's queue: there it is made even if it is aborted meanwhile.
AcquisitionPreviews ==
    /\ tk.at = "preview"
    /\ \/ ~SignalLive /\ Fails /\ UNCHANGED <<preview, eng>>
       \/ EngineFree /\ ~Previewable /\ Fails /\ UNCHANGED <<preview, eng>>
       \/ /\ EngineFree /\ Previewable
          /\ preview' = [by |-> "acquisition", recipients |-> {tk.to}]
          /\ eng' = [eng EXCEPT !.phase = "draft", !.plan = preview']
          /\ IF SignalLive THEN Goes("previewed") /\ UNCHANGED acq ELSE Fails
    /\ UNCHANGED <<workspace, login, mon, approved, op, ledger, money, requests>>

\* The signal is compared once more when the preview is saved, then engine.start
\* joins the queue and goes up to its check.  Another preview may come first.
AcquisitionAsksStart ==
    /\ tk.at = "previewed"
    /\ \/ ~SignalLive /\ Fails /\ UNCHANGED op
       \/ /\ EngineFree /\ ~(eng.phase = "draft" /\ eng.plan.by = "acquisition")
          /\ Fails /\ UNCHANGED op
       \/ /\ EngineFree /\ eng.phase = "draft" /\ eng.plan.by = "acquisition"
          /\ op' = [kind |-> "start", at |-> "check", who |-> "acquisition", login |-> acq.login,
                    cancelled |-> FALSE, to |-> "nobody"]
          /\ Goes("starting") /\ UNCHANGED acq
    /\ UNCHANGED <<workspace, login, mon, approved, eng, ledger, preview, money, requests>>

TickBegins(who) ==
    op' = [kind |-> "tick", at |-> "check", who |-> who, login |-> eng.login,
           cancelled |-> FALSE, to |-> "nobody"]

\* The engine runs: its first tick follows, unless the signal was aborted
\* meanwhile, which leaves the engine running.
AcquisitionStarts ==
    /\ tk.at = "starting" /\ op # NoOp
    /\ \/ /\ Checked /\ ~op.cancelled /\ eng' = Started(op)
          /\ IF SignalLive THEN TickBegins("acquisition") /\ Goes("sending") /\ UNCHANGED acq
             ELSE op' = NoOp /\ Fails
       \/ op' = NoOp /\ Fails /\ UNCHANGED eng
    /\ UNCHANGED <<workspace, login, mon, approved, ledger, preview, money, requests>>

\* outreach knows how its message ended.
AcquisitionSent ==
    /\ tk.at = "sending" /\ EngineFree /\ preview' = NoPlan
    /\ IF <<tk.to, "acquisition">> \notin ledger.sent THEN FailsUnknown
       ELSE IF ~SignalLive THEN Fails
       ELSE tk' = IdleTurn /\ UNCHANGED acq
    /\ UNCHANGED <<workspace, login, mon, approved, engine, money, requests>>

\* The turn of an engine that runs by itself: it pauses without a login,
\* completes at its limits, or looks for the next person.
EngineTurn ==
    /\ \/ tk.at = "engine"
       \/ tk.at = "idle" /\ acq.phase # "running" /\ mon.phase # "running"
    /\ eng.phase = "running" /\ EngineFree
    /\ \/ ~Live(entrySignal) /\ Pause /\ tk' = IdleTurn
       \/ /\ Live(entrySignal) /\ eng' = [eng EXCEPT !.phase = "completed"]
          /\ tk' = IdleTurn /\ UNCHANGED <<op, ledger>>
       \/ /\ Live(entrySignal) /\ TickBegins("engine") /\ tk' = Pass("ticking", "engine")
          /\ UNCHANGED <<eng, ledger>>
    /\ UNCHANGED <<workspace, login, acq, mon, approved, preview, money, requests>>

EngineTurnEnds ==
    /\ \/ tk.at = "ticking" /\ EngineFree
       \/ tk.at = "engine" /\ eng.phase # "running"
    /\ tk' = IdleTurn
    /\ UNCHANGED <<workspace, login, acq, mon, approved, engine, preview, money, requests>>

------------------------------------------------------------------------------
(* Time. *)

Expire ==
    /\ acq.phase = "running" /\ ~acq.expired /\ acq' = [acq EXCEPT !.expired = TRUE]
    /\ UNCHANGED <<workspace, login, mon, tk, approved, engine, preview, money, requests>>

NextDay ==
    /\ day < MaxDays /\ day' = day + 1
    /\ UNCHANGED <<workspace, login, timers, approved, engine, preview, budget, attempts, used, requests>>

------------------------------------------------------------------------------
Scheduler ==
    \/ TurnBegins \/ Authorized \/ Withdrawn \/ PausedTurn \/ AcquisitionTick \/ Discovers
    \/ MonitorHook \/ MonitorTick \/ Scanned \/ Classified \/ MonitorFails
    \/ Outreach \/ AcquisitionPreviews \/ AcquisitionAsksStart \/ AcquisitionStarts
    \/ AcquisitionSent
    \/ EngineTurn \/ EngineTurnEnds

Sending == TickChecked \/ Sent \/ SendUnknown

Command(c) ==
    \/ RebindAcquisition(c) \/ RebindMonitor(c) \/ RebindEntry(c) \/ Settle(c)
    \/ BodyFails(c) \/ StartAcquisition(c) \/ StartMonitor(c) \/ PauseAcquisition(c)
    \/ PauseInBody(c) \/ Change(c) \/ ChangeWatch(c) \/ Preview(c)
    \/ StartSending(c) \/ StartChecked(c) \/ AskAnalysis(c) \/ EndAnalysis(c)

Next ==
    \/ Logout \/ Login \/ Restart \/ Expire \/ NextDay
    \/ \E c \in Slots : Command(c) \/ \E kind \in Kinds : Ask(c, kind)
    \/ Scheduler \/ Sending

Spec == Init /\ [][Next]_vars

\* The timer comes again every second, browser, model and login answer or time
\* out, and a command that polls every 20 ms does not meet a busy scheduler
\* each time.
FairSpec == Spec /\ WF_vars(Scheduler) /\ WF_vars(Sending) /\ \A c \in Slots : SF_vars(Command(c))

------------------------------------------------------------------------------
Signals  == 1..MaxLogins
Phases   == {"idle", "running", "paused", "blocked", "completed"}
Planners == {"nobody", "user", "acquisition"}
Plans    == [by : Planners, recipients : SUBSET Recipients]
Ops      == [kind : {"start", "tick"}, at : {"check", "send"}, who : Slots \cup {"acquisition", "engine"},
             login : Signals, cancelled : BOOLEAN, to : Recipients \cup {"nobody"}]
Commands == [kind : Kinds, login : Signals,
             at : {"rebind", "rebindMonitor", "rebindEngine", "settle", "settleMonitor", "settleEngine",
                   "settleAgain", "queue", "pausing", "starting", "analyzing"}]
Turns    == [at : {"auth", "models", "pausing", "withdrawn", "discover", "monitor", "scan", "classify",
                   "outreach", "preview", "previewed", "starting", "sending", "engine", "ticking"},
             by : {"acquisition", "monitor", "engine"},
             acqCut : BOOLEAN, monCut : BOOLEAN, to : Recipients \cup {"nobody"}]

ServiceTypes ==
    /\ session \in [number : Signals, on : BOOLEAN]
    /\ entrySignal \in Signals /\ listens \subseteq Signals
    /\ acq \in [phase : Phases, signal : Signals, login : Signals, expired : BOOLEAN]
    /\ mon \in [phase : Phases \ {"completed"}, signal : Signals, login : Signals, by : Planners]
    /\ approved \in {NoApproval} \cup [version : Nat, model : Models]
    /\ eng \in [phase : Phases \cup {"draft"}, plan : Plans, login : Signals]
    /\ op \in {NoOp} \cup Ops
    /\ op # NoOp /\ op.at = "send" => op.to \in Recipients
    /\ ledger \in [sent : SUBSET (Recipients \X {"user", "acquisition", "nobody"}), unknown : BOOLEAN]
    /\ preview \in Plans
    /\ budget \in [day : 1..MaxDays, attempts : 0..MaxPerDay] /\ day \in 1..MaxDays
    /\ cmds \in [Slots -> {NoCommand} \cup Commands] /\ tail \in Seq(Slots)
    /\ tk \in {IdleTurn} \cup Turns /\ (tk.at = "preview" => tk.to \in Recipients)
    /\ attempts \in [Recipients -> Nat] /\ used \in Nat /\ asked \in 0..MaxCommands

TypeOK == WorkspaceTypes /\ ServiceTypes

\* No message is on its way to a person who has opted out: the answer to the
\* review waits for the send, and no later turn sends (act, guarded.send).
OptOutRespected ==
    op # NoOp /\ op.at = "send" => candidates[op.to].review # "opted-out"

\* Nobody is written to twice, by the user or by the acquisition, with any
\* message, through restarts and whatever the profile becomes (markContacted,
\* messagePlan, preview).
OneMessageEach == \A r \in Recipients : attempts[r] <= 1

\* What runs was started under the login that lasts now (entry, rebind,
\* guarded.check, the abort listeners).
RunsUnderItsLogin ==
    /\ acq.phase = "running" => Live(acq.login)
    /\ mon.phase = "running" => Live(mon.login)
    /\ eng.phase = "running" => Live(eng.login)

\* Messages of the acquisition on the budget of a day never exceed what was
\* reserved for them, nor that the policy, through failures and restarts (outreach).
BudgetKept == used <= budget.attempts /\ budget.attempts <= MaxPerDay

\* Messages are counted: one for each person, and within the budget of the day.
MessagesKept == TypeOK /\ OneMessageEach /\ BudgetKept

\* Every command ends: stop and settle, the queue and the engine do not wait
\* for each other (act).
CommandsEnd == \A c \in Slots : cmds[c] # NoCommand ~> cmds[c] = NoCommand

\* The confirmed run lasts its minutes and no longer: once the acquisition is
\* completed, what it started does not run (Acquisition.tick).
RunEndsInTime ==
    acq.phase = "completed" => ~(mon.phase = "running" /\ mon.by = "acquisition")

\* What became of the message to each person.
fates ==
    [r \in Recipients |->
       IF attempts[r] = 0 THEN "unsent"
       ELSE IF op # NoOp /\ op.at = "send" /\ op.to = r THEN "flying"
       ELSE IF \E by \in Planners : <<r, by>> \in ledger.sent THEN "sent" ELSE "unknown"]

Fates == INSTANCE MessageFates WITH
    Messages <- Recipients, fate <- fates, open <- eng.phase = "running"

\* Every person is written to at most once, in an open run, after all other
\* messages have settled, whoever plans it and whatever stops it.
SendsAsPromised == Fates!FateSpec
==============================================================================
