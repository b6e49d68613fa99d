----------------------------- MODULE RunnerRouter -----------------------------
(***************************************************************************)
(* LocalRunnerRouter (src/runner/router/src/index.ts): the in-memory       *)
(* object of the cloud gateway that knows which runners may connect, which *)
(* of them are connected, and which dispatched jobs still wait for a       *)
(* result.  JavaScript runs each method and each timer callback to its end *)
(* before the next, so each is one action here; the interleavings are      *)
(* those of calls, callbacks and time.                                     *)
(*                                                                         *)
(* A method that throws leaves the router as it was.  What it throws is    *)
(* the operator ...Error of its arguments; the caller's reaction (the      *)
(* gateway closes the socket) is modelled where the caller is.  A dispatch *)
(* that is refused settles the caller's promise, so it is an action.       *)
(*                                                                         *)
(* A connection stands for the channel, the session and the handle that    *)
(* one attach call creates; it may be reused once its handle is            *)
(* disconnected, because such a handle can do nothing any more.            *)
(***************************************************************************)
EXTENDS Naturals

CONSTANTS
    Runners,        \* runner ids
    Conns,          \* connections
    Jobs,           \* dispatch calls, each with the job id it creates
    Tools,          \* tool names
    Devices,        \* device ids
    BindingOf,      \* the trusted device and capabilities of each runner
    HeartbeatTtl,   \* heartbeatTtlMs, in ticks
    JobTtl,         \* jobTtlMs, in ticks
    NoRunner,       \* undefined, where a runner id is expected
    NoConn          \* undefined, where a session is expected

ASSUME RouterAssumption ==
    /\ NoRunner \notin Runners
    /\ NoConn \notin Conns
    /\ HeartbeatTtl \in Nat
    /\ JobTtl \in Nat
    /\ BindingOf \in [Runners -> [device : Devices, caps : SUBSET Tools]]

VARIABLES
    bindings,   \* #bindings: the runners that are configured
    sessions,   \* #sessions: the connection of each connected runner
    owner,      \* per handle: its runner while `connected` is true
    seenAge,    \* per session: now - lastSeenAt, up to HeartbeatTtl + 1
    pending,    \* #pending: the runner each unanswered job was sent to
    armed,      \* the jobs whose timeout is scheduled
    left,       \* ticks until that timeout may fire
    outcome,    \* the promise each dispatch call returned
    sentOn      \* the connection whose channel carried the job

routerVars == <<bindings, sessions, owner, seenAge, pending, armed, left, outcome, sentOn>>

presence == <<sessions, owner, seenAge>>
jobState == <<pending, armed, left, outcome, sentOn>>

(***************************************************************************)
(* Types.  A registration and a heartbeat carry the identity the peer      *)
(* claims; RunnerRouterErrorCode is the set of codes.                      *)
(***************************************************************************)
Registrations == [runner : Runners, device : Devices, caps : SUBSET Tools]
Result == [job : Jobs, runner : Runners, ok : BOOLEAN]
Request == [runner : Runners, tool : Tools, approvalMissing : BOOLEAN]

DispatchRefusals ==
    {"RUNNER_NOT_CONFIGURED", "RUNNER_OFFLINE", "RUNNER_STALE", "CAPABILITY_DENIED"}
Settlements == {"succeeded", "REMOTE_TOOL_FAILED", "JOB_TIMEOUT", "CONNECTION_CLOSED"}
Outcomes == {"uncalled", "waiting"} \cup Settlements \cup DispatchRefusals

RouterTypes ==
    /\ bindings \subseteq Runners
    /\ sessions \in [Runners -> Conns \cup {NoConn}]
    /\ owner \in [Conns -> Runners \cup {NoRunner}]
    /\ seenAge \in [Conns -> 0 .. HeartbeatTtl + 1]
    /\ pending \in [Jobs -> Runners \cup {NoRunner}]
    /\ armed \subseteq Jobs
    /\ left \in [Jobs -> 0 .. JobTtl]
    /\ outcome \in [Jobs -> Outcomes]
    /\ sentOn \in [Jobs -> Conns \cup {NoConn}]

\* The constructor adds the bindings it is given.
RouterInit ==
    /\ bindings \in SUBSET Runners
    /\ sessions = [r \in Runners |-> NoConn]
    /\ owner = [c \in Conns |-> NoRunner]
    /\ seenAge = [c \in Conns |-> 0]
    /\ pending = [j \in Jobs |-> NoRunner]
    /\ armed = {}
    /\ left = [j \in Jobs |-> 0]
    /\ outcome = [j \in Jobs |-> "uncalled"]
    /\ sentOn = [j \in Jobs |-> NoConn]

-----------------------------------------------------------------------------
(* Bindings and sessions *)

\* An enrolment while the gateway runs; a second binding for the same runner
\* throws.
AddBinding(r) ==
    /\ r \notin bindings
    /\ bindings' = bindings \cup {r}
    /\ UNCHANGED <<presence, jobState>>

\* A registration names the device and exactly the capabilities of the binding.
MatchesBinding(reg) ==
    /\ reg.device = BindingOf[reg.runner].device
    /\ reg.caps = BindingOf[reg.runner].caps

\* Faulty: a second connection of a runner takes the place of the first.
AttachErrorTakeOver(reg) ==
    IF reg.runner \notin bindings THEN "RUNNER_NOT_CONFIGURED"
    ELSE IF ~MatchesBinding(reg) THEN "REGISTRATION_MISMATCH"
    ELSE "none"

AttachError(reg) ==
    IF reg.runner \notin bindings THEN "RUNNER_NOT_CONFIGURED"
    ELSE IF ~MatchesBinding(reg) THEN "REGISTRATION_MISMATCH"
    ELSE IF sessions[reg.runner] # NoConn THEN "RUNNER_ALREADY_CONNECTED"
    ELSE "none"

Attach(c, reg) ==
    /\ owner[c] = NoRunner
    /\ AttachError(reg) = "none"
    /\ sessions' = [sessions EXCEPT ![reg.runner] = c]
    /\ owner' = [owner EXCEPT ![c] = reg.runner]
    /\ seenAge' = [seenAge EXCEPT ![c] = 0]
    /\ UNCHANGED <<bindings, jobState>>

\* #assertCurrent: the handle is connected and its session is the current one.
IsCurrent(c) == owner[c] # NoRunner /\ sessions[owner[c]] = c

HeartbeatError(c, runner, device) ==
    IF ~IsCurrent(c) THEN "CONNECTION_CLOSED"
    ELSE IF runner # owner[c] \/ device # BindingOf[owner[c]].device THEN "REGISTRATION_MISMATCH"
    ELSE "none"

Heartbeat(c, runner, device) ==
    /\ HeartbeatError(c, runner, device) = "none"
    /\ seenAge' = [seenAge EXCEPT ![c] = 0]
    /\ UNCHANGED <<bindings, sessions, owner, jobState>>

\* status(): presence as the gateway reports it.
Online(r) == sessions[r] # NoConn
Stale(r) == Online(r) /\ seenAge[sessions[r]] > HeartbeatTtl

-----------------------------------------------------------------------------
(* Jobs *)

\* Take the jobs of S out of the pending table, cancel their timers and
\* settle their promises with code.
Settle(S, code) ==
    /\ pending' = [j \in Jobs |-> IF j \in S THEN NoRunner ELSE pending[j]]
    /\ armed' = armed \ S
    /\ left' = [j \in Jobs |-> IF j \in S THEN 0 ELSE left[j]]
    /\ outcome' = [j \in Jobs |-> IF j \in S THEN code ELSE outcome[j]]
    /\ UNCHANGED sentOn

PendingOf(r) == {j \in Jobs : pending[j] = r}

DispatchError(req) ==
    IF req.runner \notin bindings THEN "RUNNER_NOT_CONFIGURED"
    ELSE IF ~Online(req.runner) THEN "RUNNER_OFFLINE"
    ELSE IF Stale(req.runner) THEN "RUNNER_STALE"
    ELSE IF req.tool \notin BindingOf[req.runner].caps THEN "CAPABILITY_DENIED"
    ELSE IF req.approvalMissing THEN "CAPABILITY_DENIED"
    ELSE "none"

\* The promise is rejected before a job exists.
RefuseDispatch(j, req) ==
    /\ outcome[j] = "uncalled"
    /\ DispatchError(req) # "none"
    /\ outcome' = [outcome EXCEPT ![j] = DispatchError(req)]
    /\ UNCHANGED <<bindings, presence, pending, armed, left, sentOn>>

\* The timer is scheduled and the job is in the table before the channel sees
\* it; a channel that throws takes the job straight out again.
Dispatch(j, req, sendThrows) ==
    /\ outcome[j] = "uncalled"
    /\ DispatchError(req) = "none"
    /\ sentOn' = [sentOn EXCEPT ![j] = sessions[req.runner]]
    /\ IF sendThrows
       THEN /\ outcome' = [outcome EXCEPT ![j] = "CONNECTION_CLOSED"]
            /\ UNCHANGED <<pending, armed, left>>
       ELSE /\ outcome' = [outcome EXCEPT ![j] = "waiting"]
            /\ left' = [left EXCEPT ![j] = JobTtl]
            /\ pending' = [pending EXCEPT ![j] = req.runner]
            /\ armed' = armed \cup {j}
    /\ UNCHANGED <<bindings, presence>>

\* Faulty: any runner may answer any job that waits.
CompleteErrorAnyRunner(c, res) ==
    IF ~IsCurrent(c) THEN "CONNECTION_CLOSED"
    ELSE IF pending[res.job] = NoRunner \/ res.runner # owner[c] THEN "RESULT_MISMATCH"
    ELSE "none"

CompleteError(c, res) ==
    IF ~IsCurrent(c) THEN "CONNECTION_CLOSED"
    ELSE IF pending[res.job] = NoRunner \/ res.runner # owner[c] \/ pending[res.job] # owner[c]
         THEN "RESULT_MISMATCH"
    ELSE "none"

Complete(c, res) ==
    /\ CompleteError(c, res) = "none"
    /\ Settle({res.job}, IF res.ok THEN "succeeded" ELSE "REMOTE_TOOL_FAILED")
    /\ UNCHANGED <<bindings, presence>>

\* The scheduled callback: #rejectJob does nothing for a job no longer pending.
JobTimer(j) ==
    /\ j \in armed
    /\ left[j] = 0
    /\ IF pending[j] # NoRunner
       THEN Settle({j}, "JOB_TIMEOUT")
       ELSE armed' = armed \ {j} /\ UNCHANGED <<pending, left, outcome, sentOn>>
    /\ UNCHANGED <<bindings, presence>>

\* What disconnect does to presence.
Leaves(c) ==
    /\ owner[c] # NoRunner
    /\ owner' = [owner EXCEPT ![c] = NoRunner]
    /\ sessions' = IF sessions[owner[c]] = c
                   THEN [sessions EXCEPT ![owner[c]] = NoConn] ELSE sessions
    /\ seenAge' = [seenAge EXCEPT ![c] = 0]
    /\ UNCHANGED bindings

\* Faulty: the runner's jobs are left to their timers.
DisconnectKeepsJobs(c) == Leaves(c) /\ UNCHANGED jobState

\* Faulty: the runner's jobs are dropped and nobody is told.
DisconnectForgetsJobs(c) ==
    /\ Leaves(c)
    /\ pending' = [j \in Jobs |-> IF pending[j] = owner[c] THEN NoRunner ELSE pending[j]]
    /\ armed' = armed \ PendingOf(owner[c])
    /\ UNCHANGED <<left, outcome, sentOn>>

\* A second call of disconnect returns at once.  The session object is
\* garbage afterwards; its age is put back to 0 so that equal states are equal.
Disconnect(c) == Leaves(c) /\ Settle(PendingOf(owner[c]), "CONNECTION_CLOSED")

\* now() and the event loop's timers advance together.  A timer that is due
\* may still wait for its turn, so time is not held up by it.
Tick ==
    /\ seenAge' = [c \in Conns |->
            IF owner[c] # NoRunner /\ seenAge[c] <= HeartbeatTtl THEN seenAge[c] + 1 ELSE seenAge[c]]
    /\ left' = [j \in Jobs |-> IF j \in armed /\ left[j] > 0 THEN left[j] - 1 ELSE left[j]]
    /\ UNCHANGED <<bindings, sessions, owner, pending, armed, outcome, sentOn>>

-----------------------------------------------------------------------------
RouterNext ==
    \/ \E r \in Runners : AddBinding(r)
    \/ \E c \in Conns, reg \in Registrations : Attach(c, reg)
    \/ \E c \in Conns, r \in Runners, d \in Devices : Heartbeat(c, r, d)
    \/ \E j \in Jobs, req \in Request : RefuseDispatch(j, req)
    \/ \E j \in Jobs, req \in Request, sendThrows \in BOOLEAN : Dispatch(j, req, sendThrows)
    \/ \E c \in Conns, res \in Result : Complete(c, res)
    \/ \E j \in Jobs : JobTimer(j)
    \/ \E c \in Conns : Disconnect(c)
    \/ Tick

RouterSpec == RouterInit /\ [][RouterNext]_routerVars

\* Time passes and a timer that is due fires: the event loop's own promise.
\* Nothing is assumed of peers, channels or callers.
RouterFairness == WF_routerVars(Tick) /\ \A j \in Jobs : WF_routerVars(JobTimer(j))

RouterFairSpec == RouterSpec /\ RouterFairness

-----------------------------------------------------------------------------
(* What must hold *)

\* A handle that still counts itself connected is the session of its runner,
\* and every session has such a handle: attach and disconnect, called by
\* sockets that come and go in any order, never leave a runner whose entry
\* belongs to nobody (it could not attach again) nor two handles for one runner.
HandleIsSession ==
    /\ \A c \in Conns : owner[c] # NoRunner => sessions[owner[c]] = c
    /\ \A r \in Runners : sessions[r] # NoConn => owner[sessions[r]] = r

\* A promise is unsettled exactly as long as the pending table and the timer
\* know its job: no dispatch is forgotten, no timer outlives its job.
WaitingIsPending ==
    \A j \in Jobs :
        /\ outcome[j] = "waiting" <=> pending[j] # NoRunner
        /\ outcome[j] = "waiting" <=> j \in armed

\* The whole of it: the router's tables keep their types and agree with the
\* handles and the promises it gave out (attach, dispatch, disconnect).
PresenceKept == RouterTypes /\ HandleIsSession /\ WaitingIsPending

\* The pending table names a runner, not a connection; still a pending job
\* always waits for the connection that carried it, never for a later one of
\* the same runner that knows nothing of the job.
PendingOnCarrier ==
    \A j \in Jobs : pending[j] # NoRunner =>
        Online(pending[j]) /\ sessions[pending[j]] = sentOn[j]

\* A result settles a job only when it comes over the connection the job was
\* sent on, whatever job id and runner id the peer writes into it.
AnsweredByCarrier ==
    [][\A c \in Conns, res \in Result : Complete(c, res) => sentOn[res.job] = c]_routerVars

\* A runner that stays connected and is never heard of again is reported
\* stale from some moment on.
SilentGoesStale ==
    \A r \in Runners :
        (<>[]Online(r) /\ <>[][\A c \in Conns, d \in Devices : ~Heartbeat(c, r, d)]_routerVars)
            => <>[]Stale(r)

\* Every promise dispatch returned is settled: the event loop cannot lose one.
EveryJobSettles ==
    \A j \in Jobs : outcome[j] = "waiting" ~> outcome[j] \in Settlements

\* The router keeps the promise JobDelivery states to callers, who know of
\* connections that are up and of jobs, and of nothing else.
StatusOf(code) ==
    CASE code = "uncalled" -> "new"
      [] code \in DispatchRefusals -> "refused"
      [] code = "REMOTE_TOOL_FAILED" -> "failed"
      [] code = "JOB_TIMEOUT" -> "timed out"
      [] code = "CONNECTION_CLOSED" -> "lost"
      [] OTHER -> code

Delivery == INSTANCE JobDelivery WITH
    up <- {c \in Conns : owner[c] # NoRunner},
    carrier <- sentOn,
    status <- [j \in Jobs |-> StatusOf(outcome[j])]

DeliversJobs == Delivery!Spec
==============================================================================
