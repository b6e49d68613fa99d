------------------------------ MODULE RunnerLink ------------------------------
(***************************************************************************)
(* One Local Runner and its gateway: connectRunner                         *)
(* (src/runner/client/src/index.ts) and startRunnerGateway                 *)
(* (src/runner/gateway/src/index.ts) over WebSockets, with the gateway's   *)
(* LocalRunnerRouter (module RunnerRouter) inside.                         *)
(*                                                                         *)
(* A socket has an end on each side and a queue of frames in each          *)
(* direction.  A network failure cuts it: the frames in flight and all     *)
(* later ones are lost and neither end is told.  The client learns of it   *)
(* from its operating system, the gateway from its liveness timer.  What   *)
(* the ws package does is external to the repository:                      *)
(*   - send on a socket that is CONNECTING throws, on one that is CLOSING  *)
(*     or CLOSED it drops the frame;                                       *)
(*   - a socket that is CLOSING still delivers incoming messages;          *)
(*   - a close frame is answered by one, and a close handshake that does   *)
(*     not finish ends in a timeout;                                       *)
(*   - terminate() ends the socket at once, its close event comes later.   *)
(* A job here is one that runs for a while (local.codex_usage starts a     *)
(* child process), so sockets may come and go while it executes.           *)
(***************************************************************************)
EXTENDS RunnerRouter, Sequences

CONSTANTS
    Self,           \* the runner this client is
    HostKeepsLoop,  \* the process has referenced handles of its own, as a
                    \* program that embeds connectRunner may; cli.ts has none
    MaxFaults       \* bound on cuts, reboots and late pongs

VARIABLES
    gw,         \* the gateway's end of each socket
    alive,      \* sockets that answered the last ping
    up, down,   \* frames on their way to the gateway, to the client
    cut,        \* sockets whose network path is gone
    sock,       \* the client's variable socket, NoConn once it is closed
    cl,         \* readyState of sock; "starting" before the first connect
    proc,       \* the client's process
    executing,  \* jobs whose executeLocalJob has not returned
    stranded,   \* those of them that came over a socket that is closed by now
    faults      \* how many faults have happened

gatewayVars == <<gw, alive>>
linkVars == <<up, down, cut>>
clientVars == <<sock, cl, proc, executing, stranded>>
vars == <<routerVars, gatewayVars, linkVars, clientVars, faults>>

ASSUME LinkAssumption ==
    Self \in Runners /\ HostKeepsLoop \in BOOLEAN /\ MaxFaults \in Nat

(***************************************************************************)
(* Frames.  A registration always names the runner's own device and        *)
(* capabilities, a heartbeat and a result its own ids.  "fin" stands for   *)
(* the end of the TCP stream, "upgraded" and "unauthorized" for the answer *)
(* to the HTTP upgrade request.                                            *)
(***************************************************************************)
Plain(kind) == [kind |-> kind]
JobFrame(j) == [kind |-> "job", job |-> j]
ResultFrame(j, ok) == [kind |-> "result", job |-> j, ok |-> ok]
CloseFrame(code) == [kind |-> "close", code |-> code]

OwnRegistration ==
    [runner |-> Self, device |-> BindingOf[Self].device, caps |-> BindingOf[Self].caps]

UpFrames ==
    {Plain("register"), Plain("heartbeat"), Plain("fin"), CloseFrame(4400), CloseFrame(1000)}
    \cup [kind : {"result"}, job : Jobs, ok : BOOLEAN]
DownFrames ==
    {Plain("upgraded"), Plain("unauthorized"), Plain("fin"),
     CloseFrame(4400), CloseFrame(4403), CloseFrame(1000)}
    \cup [kind : {"job"}, job : Jobs]

TypeOK ==
    /\ RouterTypes
    /\ gw \in [Conns -> {"none", "open", "closing", "ended"}]
    /\ alive \subseteq Conns /\ cut \subseteq Conns
    /\ up \in [Conns -> Seq(UpFrames)] /\ down \in [Conns -> Seq(DownFrames)]
    /\ sock \in Conns \cup {NoConn}
    /\ cl \in {"starting", "connecting", "open", "closing", "closed"}
    /\ proc \in {"running", "stopped", "crashed", "exited"}
    /\ executing \subseteq Jobs /\ stranded \subseteq executing
    /\ faults \in 0 .. MaxFaults

Init ==
    /\ RouterInit
    /\ gw = [c \in Conns |-> "none"]
    /\ alive = {} /\ cut = {}
    /\ up = [c \in Conns |-> <<>>] /\ down = [c \in Conns |-> <<>>]
    /\ sock = NoConn
    /\ cl = "starting"
    /\ proc = "running"
    /\ executing = {} /\ stranded = {}
    /\ faults = 0

\* The queues after f is sent on c.  A frame is lost on a socket that is cut,
\* or whose other end is gone.
SentUp(c, f) ==
    IF c \in cut \/ gw[c] \in {"none", "ended"} THEN up ELSE [up EXCEPT ![c] = Append(@, f)]
SentDown(c, f) ==
    IF c \in cut \/ sock # c THEN down ELSE [down EXCEPT ![c] = Append(@, f)]

-----------------------------------------------------------------------------
(* The client *)

\* What keeps the client's event loop running while no socket is open: every
\* timer of connectRunner is unref'ed, so only an executing job's child
\* process or a handle of the host.
LoopAlive == HostKeepsLoop \/ executing # {}

\* Faulty: a client that lost its connection does not connect again.
ConnectOnce(c) ==
    /\ proc = "running" /\ cl = "starting" /\ gw[c] = "none"
    /\ sock' = c /\ cl' = "connecting"
    /\ UNCHANGED <<routerVars, gatewayVars, linkVars, proc, executing, stranded, faults>>

\* connect(): at the start of the process, later from the reconnect timer.
Connect(c) ==
    /\ proc = "running"
    /\ cl = "starting" \/ (cl = "closed" /\ LoopAlive)
    /\ gw[c] = "none"
    /\ sock' = c
    /\ cl' = "connecting"
    /\ UNCHANGED <<routerVars, gatewayVars, linkVars, proc, executing, stranded, faults>>

\* The client's end is gone, and with it the socket that the handlers of the
\* jobs still executing hold.  A socket without ends is as good as new.
LeaveSocket ==
    /\ sock' = NoConn
    /\ stranded' = executing'
    /\ down' = [c \in Conns |-> IF c = sock THEN <<>> ELSE down[c]]
    /\ cut' = {c \in cut : c # sock \/ gw[c] # "none"}

\* The socket's close event.  Codes 4401 and 4403 mean stop; every other one
\* leaves the reconnect timer behind, which is cl = "closed" in a running process.
ClientCloseEvent(code) ==
    /\ UNCHANGED executing
    /\ LeaveSocket
    /\ cl' = "closed"
    /\ proc' = IF proc = "running" /\ code \in {4401, 4403} THEN "stopped" ELSE proc

ClientHears(kind) ==
    /\ sock # NoConn
    /\ down[sock] # <<>>
    /\ Head(down[sock]).kind = kind

Consume == down' = [down EXCEPT ![sock] = Tail(@)]

\* 'open': register at once; the heartbeat interval starts.
ClientOpens ==
    /\ ClientHears("upgraded") /\ Consume
    /\ cl' = "open"
    /\ up' = SentUp(sock, Plain("register"))
    /\ UNCHANGED <<routerVars, gatewayVars, cut, sock, proc, executing, stranded, faults>>

\* 'unexpected-response' with status 401: stopped for good.
ClientRefused ==
    /\ ClientHears("unauthorized")
    /\ ClientCloseEvent(4401)
    /\ UNCHANGED <<routerVars, gatewayVars, up, faults>>

SendHeartbeat ==
    /\ cl = "open"
    /\ \A i \in DOMAIN up[sock] : up[sock][i] # Plain("heartbeat")
    /\ up' = SentUp(sock, Plain("heartbeat"))
    /\ UNCHANGED <<routerVars, gatewayVars, down, cut, clientVars, faults>>

\* 'message': the replay guard takes the job, or the client closes the socket.
\* Which of the two depends on clocks that are not related to the gateway's.
ClientTakesJob ==
    /\ ClientHears("job") /\ Consume
    /\ executing' = executing \cup {Head(down[sock]).job}
    /\ stranded' = stranded \ {Head(down[sock]).job}
    /\ UNCHANGED <<routerVars, gatewayVars, up, cut, sock, cl, proc, faults>>

ClientRejectsJob ==
    /\ ClientHears("job") /\ Consume
    /\ cl' = "closing"
    /\ up' = IF cl = "open" THEN SentUp(sock, CloseFrame(4400)) ELSE up
    /\ UNCHANGED <<routerVars, gatewayVars, cut, sock, proc, executing, stranded, faults>>

\* A close frame from the gateway is answered; while the client is closing it
\* is the answer to its own.
ClientHearsClose ==
    /\ ClientHears("close")
    /\ up' = IF cl = "open" THEN SentUp(sock, Plain("fin")) ELSE up
    /\ ClientCloseEvent(Head(down[sock]).code)
    /\ UNCHANGED <<routerVars, gatewayVars, faults>>

ClientHearsFin ==
    /\ ClientHears("fin")
    /\ ClientCloseEvent(1006)
    /\ UNCHANGED <<routerVars, gatewayVars, up, faults>>

\* The operating system reports a dead path, or the close handshake times out.
ClientGivesUp ==
    /\ sock # NoConn
    /\ sock \in cut \/ cl = "closing"
    /\ up' = SentUp(sock, Plain("fin"))
    /\ ClientCloseEvent(1006)
    /\ UNCHANGED <<routerVars, gatewayVars, faults>>

\* The process is gone with all it knew; its socket ends unless it was cut.
ProcessEnds(how) ==
    /\ proc' = how
    /\ executing' = {}
    /\ up' = IF sock = NoConn THEN up ELSE SentUp(sock, Plain("fin"))
    /\ LeaveSocket

\* Faulty: the result is awaited first, and sent on the socket of that moment.
FinishJobReadsLate(j, ok) ==
    /\ j \in executing
    /\ executing' = executing \ {j}
    /\ stranded' = stranded \ {j}
    /\ up' = IF cl = "open" THEN SentUp(sock, ResultFrame(j, ok)) ELSE up
    /\ UNCHANGED <<routerVars, gatewayVars, down, cut, sock, cl, proc, faults>>

\* executeLocalJob returns.  A result goes out on the socket the job came over:
\* the receiver of socket.send is evaluated before the await in its argument, so
\* the result is dropped when that socket has closed since.  A failure is sent
\* by the catch block, which reads the variable socket anew: while that one is
\* CONNECTING send throws, and the rejected handler ends the process.
FinishJob(j, ok) ==
    /\ j \in executing
    /\ IF ~ok /\ cl = "connecting"
       THEN /\ ProcessEnds("crashed")
            /\ cl' = "closed"
       ELSE /\ executing' = executing \ {j}
            /\ stranded' = stranded \ {j}
            /\ up' = IF cl = "open" /\ (ok => j \notin stranded)
                     THEN SentUp(sock, ResultFrame(j, ok)) ELSE up
            /\ UNCHANGED <<down, cut, sock, cl, proc>>
    /\ UNCHANGED <<routerVars, gatewayVars, faults>>

\* connectRunner(...).close()
Stop ==
    /\ proc = "running"
    /\ proc' = "stopped"
    /\ UNCHANGED executing
    /\ IF cl = "open"
       THEN /\ cl' = "closing"
            /\ up' = SentUp(sock, CloseFrame(1000))
            /\ UNCHANGED <<down, cut, sock, stranded>>
       ELSE IF cl = "connecting"
       THEN cl' = "closed" /\ up' = SentUp(sock, Plain("fin")) /\ LeaveSocket
       ELSE UNCHANGED <<cl, linkVars, sock, stranded>>
    /\ UNCHANGED <<routerVars, gatewayVars, faults>>

\* Node ends a process whose event loop is empty.  An executing job holds the
\* loop only until its child process ends, which may be before its answer (the
\* timers of codex-usage are unref'ed too); the job then ends with the process.
LoopEmpties ==
    /\ proc = "running"
    /\ cl = "closed"
    /\ ~HostKeepsLoop
    /\ proc' = "exited"
    /\ executing' = {} /\ stranded' = {}
    /\ UNCHANGED <<routerVars, gatewayVars, linkVars, sock, cl, faults>>

\* The service wrapper restarts a process that failed.
ServiceRestarts ==
    /\ proc = "crashed"
    /\ proc' = "running"
    /\ cl' = "starting"
    /\ UNCHANGED <<routerVars, gatewayVars, linkVars, sock, executing, stranded, faults>>

-----------------------------------------------------------------------------
(* Faults *)

Cut(c) ==
    /\ faults < MaxFaults
    /\ faults' = faults + 1
    /\ c \notin cut
    /\ sock = c \/ gw[c] \in {"open", "closing"}
    /\ cut' = cut \cup {c}
    /\ up' = [up EXCEPT ![c] = <<>>]
    /\ down' = [down EXCEPT ![c] = <<>>]
    /\ UNCHANGED <<routerVars, gatewayVars, clientVars>>

\* The service or the computer is restarted; the socket's end is sent unless a
\* cut came first.
Reboot ==
    /\ faults < MaxFaults
    /\ faults' = faults + 1
    /\ cl # "starting"
    /\ ProcessEnds("running")
    /\ cl' = "starting"
    /\ UNCHANGED <<routerVars, gatewayVars>>

\* The pong of a whole socket will not be back before the next round of the
\* gateway's timer: the client's event loop is busy, or its computer asleep.
PongIsLate(c) ==
    /\ faults < MaxFaults
    /\ faults' = faults + 1
    /\ c \in alive /\ sock = c /\ gw[c] \in {"open", "closing"}
    /\ alive' = alive \ {c}
    /\ UNCHANGED <<routerVars, gw, linkVars, clientVars>>

-----------------------------------------------------------------------------
(* The gateway *)

\* The client always sends the token it was given with its binding.
Authenticated == Self \in bindings

\* 'upgrade': a bearer token of a configured binding opens the socket.
Upgrade(c) ==
    /\ sock = c /\ cl = "connecting" /\ c \notin cut
    /\ gw[c] = "none" /\ down[c] = <<>>
    /\ IF Authenticated
       THEN /\ gw' = [gw EXCEPT ![c] = "open"]
            /\ alive' = alive \cup {c}
            /\ down' = [down EXCEPT ![c] = <<Plain("upgraded")>>]
       ELSE /\ down' = [down EXCEPT ![c] = <<Plain("unauthorized")>>]
            /\ UNCHANGED gatewayVars
    /\ UNCHANGED <<routerVars, up, cut, clientVars, faults>>

GatewayHears(c, kind) ==
    /\ gw[c] \in {"open", "closing"}
    /\ up[c] # <<>>
    /\ Head(up[c]).kind = kind

Consumes(c) == up' = [up EXCEPT ![c] = Tail(@)]

\* No message is delivered any more, the close event is to come.
Ends(c) ==
    /\ gw' = [gw EXCEPT ![c] = "ended"]
    /\ up' = [up EXCEPT ![c] = <<>>]

\* Faulty: the message is ignored and the socket kept.
RejectQuietly(c) == UNCHANGED <<gw, down, routerVars, alive>>

\* The catch block of the message handler.  A socket that is registered is
\* one whose handle is connected, as its close event has not come yet; close()
\* on a socket that is closing does nothing.
RejectMessage(c) ==
    /\ IF gw[c] = "open"
       THEN /\ gw' = [gw EXCEPT ![c] = "closing"]
            /\ down' = SentDown(c, CloseFrame(IF owner[c] = NoRunner THEN 4403 ELSE 4400))
       ELSE UNCHANGED <<gw, down>>
    /\ UNCHANGED <<routerVars, alive>>

Register(c) ==
    /\ GatewayHears(c, "register") /\ Consumes(c)
    /\ IF owner[c] = NoRunner /\ AttachError(OwnRegistration) = "none"
       THEN Attach(c, OwnRegistration) /\ UNCHANGED <<gatewayVars, down>>
       ELSE RejectMessage(c)
    /\ UNCHANGED <<cut, clientVars, faults>>

HearHeartbeat(c) ==
    /\ GatewayHears(c, "heartbeat") /\ Consumes(c)
    /\ IF HeartbeatError(c, Self, OwnRegistration.device) = "none"
       THEN Heartbeat(c, Self, OwnRegistration.device) /\ UNCHANGED <<gatewayVars, down>>
       ELSE RejectMessage(c)
    /\ UNCHANGED <<cut, clientVars, faults>>

HearResult(c) ==
    LET frame == Head(up[c])
        res == [job |-> frame.job, runner |-> Self, ok |-> frame.ok]
    IN  /\ GatewayHears(c, "result") /\ Consumes(c)
        /\ IF CompleteError(c, res) = "none"
           THEN Complete(c, res) /\ UNCHANGED <<gatewayVars, down>>
           ELSE RejectMessage(c)
        /\ UNCHANGED <<cut, clientVars, faults>>

\* The client's close frame: answered with the same code, the socket ends.
HearClose(c) ==
    /\ GatewayHears(c, "close")
    /\ Ends(c)
    /\ down' = IF gw[c] = "open" THEN SentDown(c, CloseFrame(Head(up[c]).code)) ELSE down
    /\ UNCHANGED <<routerVars, alive, cut, clientVars, faults>>

HearFin(c) ==
    /\ GatewayHears(c, "fin")
    /\ Ends(c)
    /\ UNCHANGED <<routerVars, alive, down, cut, clientVars, faults>>

CloseTimesOut(c) ==
    /\ gw[c] = "closing"
    /\ Ends(c)
    /\ down' = SentDown(c, Plain("fin"))
    /\ UNCHANGED <<routerVars, alive, cut, clientVars, faults>>

\* 'close' on the server side.
GatewayCloseEvent(c) ==
    /\ gw[c] = "ended"
    /\ gw' = [gw EXCEPT ![c] = "none"]
    /\ alive' = alive \ {c}
    /\ cut' = IF sock = c THEN cut ELSE cut \ {c}
    /\ IF owner[c] # NoRunner THEN Disconnect(c) ELSE UNCHANGED routerVars
    /\ UNCHANGED <<up, down, clientVars, faults>>

\* Faulty: pings are sent and their answers not looked at.
LivenessTimerPingsOnly ==
    /\ alive' = {c \in Conns : gw[c] \in {"open", "closing"}}
    /\ UNCHANGED <<routerVars, gw, linkVars, clientVars, faults>>

\* Every 15 seconds: sockets that did not answer the last ping are terminated,
\* the others are pinged.  A pong from a whole socket is back before the
\* next round unless PongIsLate, so answering is part of this step.
LivenessTimer ==
    LET dead == {c \in Conns : gw[c] \in {"open", "closing"} /\ c \notin alive}
        whole == {c \in alive : gw[c] \in {"open", "closing"} /\ c \notin cut /\ sock = c}
    IN  /\ gw' = [c \in Conns |-> IF c \in dead THEN "ended" ELSE gw[c]]
        /\ alive' = whole
        /\ up' = [c \in Conns |-> IF c \in dead THEN <<>> ELSE up[c]]
        /\ down' = [c \in Conns |-> IF c \in dead THEN SentDown(c, Plain("fin"))[c] ELSE down[c]]
        /\ UNCHANGED <<routerVars, cut, clientVars, faults>>

\* An HTTP caller asks for a job.  The channel is socket.send: it drops the
\* frame when the socket is no longer open.
DispatchJob(j, req) ==
    /\ Dispatch(j, req, FALSE)
    /\ LET c == sessions[req.runner] IN
       down' = IF gw[c] = "open" THEN SentDown(c, JobFrame(j)) ELSE down
    /\ UNCHANGED <<gatewayVars, up, cut, clientVars, faults>>

\* Steps of the router that no frame is part of.
RouterAlone ==
    /\ \/ \E j \in Jobs, req \in Request : RefuseDispatch(j, req)
       \/ \E j \in Jobs : JobTimer(j)
       \/ Tick
    /\ UNCHANGED <<gatewayVars, linkVars, clientVars, faults>>

-----------------------------------------------------------------------------
ClientHearsAny ==
    \/ ClientOpens \/ ClientRefused \/ ClientTakesJob \/ ClientRejectsJob
    \/ ClientHearsClose \/ ClientHearsFin

GatewayHearsAny(c) ==
    Register(c) \/ HearHeartbeat(c) \/ HearResult(c) \/ HearClose(c) \/ HearFin(c)

Next ==
    \/ \E c \in Conns : Connect(c)
    \/ ClientHearsAny
    \/ SendHeartbeat
    \/ ClientGivesUp
    \/ \E j \in Jobs, ok \in BOOLEAN : FinishJob(j, ok)
    \/ Stop
    \/ LoopEmpties
    \/ ServiceRestarts
    \/ \E c \in Conns : Cut(c) \/ PongIsLate(c)
    \/ Reboot
    \/ \E c \in Conns : Upgrade(c)
    \/ \E c \in Conns : GatewayHearsAny(c)
    \/ \E c \in Conns : CloseTimesOut(c) \/ GatewayCloseEvent(c)
    \/ LivenessTimer
    \/ \E j \in Jobs, req \in Request : DispatchJob(j, req)
    \/ RouterAlone

Spec == Init /\ [][Next]_vars

(***************************************************************************)
(* Both event loops run and their timers fire, frames on a whole socket    *)
(* arrive, the operating system reports a dead path in the end, and a job  *)
(* that runs returns (codex-usage gives each request 10 seconds).  Nothing *)
(* is assumed about faults, callers, heartbeats or close().                *)
(***************************************************************************)
Fairness ==
    /\ WF_vars(\E c \in Conns : Connect(c))
    /\ WF_vars(ClientHearsAny)
    /\ WF_vars(ClientGivesUp)
    /\ \A j \in Jobs : WF_vars(\E ok \in BOOLEAN : FinishJob(j, ok))
    /\ WF_vars(ServiceRestarts)
    /\ \A c \in Conns :
        /\ WF_vars(Upgrade(c))
        /\ WF_vars(GatewayHearsAny(c))
        /\ WF_vars(CloseTimesOut(c))
        /\ WF_vars(GatewayCloseEvent(c))
    /\ WF_vars(LivenessTimer)
    /\ WF_vars(Tick /\ UNCHANGED <<gatewayVars, linkVars, clientVars, faults>>)
    /\ \A j \in Jobs :
        WF_vars(JobTimer(j) /\ UNCHANGED <<gatewayVars, linkVars, clientVars, faults>>)

FairSpec == Spec /\ Fairness

-----------------------------------------------------------------------------
(* What must hold *)

\* A session stands for a socket whose close event is still to come: presence
\* never outlives the socket in a way no event will repair.
SessionHasSocket ==
    \A c \in Conns : owner[c] # NoRunner => gw[c] # "none"

\* Is f on its way in q?
Carries(q, f) == \E i \in DOMAIN q : q[i] = f

\* On a socket that both sides hold open a pending job is somewhere: on its
\* way down, in an executor that will answer on this socket, or on its way back.
NoJobIsLost ==
    \A j \in Jobs :
        LET c == sentOn[j] IN
        (pending[j] # NoRunner /\ c \notin cut /\ gw[c] = "open" /\ sock = c /\ cl = "open")
            => \/ Carries(down[c], JobFrame(j))
               \/ j \in executing \ stranded
               \/ \E ok \in BOOLEAN : Carries(up[c], ResultFrame(j, ok))

\* A result is only ever on the socket its job was sent on, however many came
\* and went while it was computed: on another one the gateway would answer it
\* by closing the socket, with all that is on it.
ResultsStay ==
    \A c \in Conns, j \in Jobs : Carries(up[c], ResultFrame(j, TRUE)) => sentOn[j] = c

\* No job is lost between two sides that are connected, and none is answered
\* where it was not asked (the message handler of connectRunner).
JobsKept == NoJobIsLost /\ ResultsStay

\* A socket that both sides hold open is registered or about to be: no runner
\* sits on a connection that will never carry a job while it believes itself
\* connected.
NoIdleSocket ==
    \A c \in Conns :
        (sock = c /\ cl = "open" /\ gw[c] = "open" /\ c \notin cut)
            => owner[c] = Self \/ Carries(up[c], Plain("register"))

\* Sessions and sockets agree: no session outlives its socket for good, and no
\* socket both sides hold open goes without a session (acceptSocket).
LinkSafety == TypeOK /\ SessionHasSocket /\ NoIdleSocket

\* A session on a cut socket goes, although neither side hears of the cut.
DeadSessionGoes ==
    \A c \in Conns : (owner[c] # NoRunner /\ c \in cut) ~> owner[c] = NoRunner

\* Faults end, and with a host that keeps the event loop the client is online
\* for good unless it was refused or stopped.
Connected == \E c \in Conns : sock = c /\ cl = "open" /\ gw[c] = "open" /\ owner[c] = Self
ComesOnline == <>[](Connected \/ proc = "stopped")

(***************************************************************************)
(* docs/specs/runner-websocket-transport.md:106 - "Client reconnect uses   *)
(* capped exponential backoff with jitter and stops on invalid             *)
(* configuration/authentication."  Read as what may stop a runner, it has  *)
(* three parts, and the code breaks each.                                  *)
(***************************************************************************)

\* A client that was not told to stop and is configured at the gateway is not
\* stopped.
AuthenticIsNotStopped ==
    [][(proc = "running" /\ proc' = "stopped" /\ ~Stop) => Self \notin bindings]_vars

\* No step of the client's own ends its process with an error.
ProcessDoesNotCrash == proc # "crashed"

\* A process that waits for its reconnect timer does not end instead.
ProcessDoesNotExit == proc # "exited"
==============================================================================
