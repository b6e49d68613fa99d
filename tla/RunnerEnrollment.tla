--------------------------- MODULE RunnerEnrollment ---------------------------
(***************************************************************************)
(* How a computer gets its device token: createEnrollmentService           *)
(* (src/runner/gateway/src/enrollment.ts) behind the gateway's enroll      *)
(* endpoint, and enrollRunner / loadInstalledRunnerConfig                  *)
(* (src/runner/client/src/enrollment.ts) run by the installed service.     *)
(*                                                                         *)
(* The gateway keeps its state in memory and in a file that is replaced by *)
(* a rename; redemptions run one after the other, each in steps between    *)
(* which requests arrive and the gateway may crash.  The client too goes   *)
(* through its files step by step and may be restarted at any of them; a   *)
(* client that fails ends its process and the service starts it again.     *)
(* A reply is lost, or comes after the client's 30 second limit.           *)
(***************************************************************************)
EXTENDS Naturals, Sequences

CONSTANTS
    Clients,        \* installed services
    Codes,          \* enrollment codes
    CodeOf,         \* the code typed into each installer
    Tokens,         \* device tokens, each with the binding made for it
    NoCode, NoToken,
    MaxAttempts,    \* bound on the requests of one client
    MaxCrashes      \* bound on crashes of the gateway

ASSUME EnrollmentAssumption ==
    /\ CodeOf \in [Clients -> Codes]
    /\ NoCode \notin Codes /\ NoToken \notin Tokens
    /\ MaxAttempts \in Nat /\ MaxCrashes \in Nat

VARIABLES
    gwUp,       \* the gateway's process runs
    disk,       \* the state file
    current,    \* the service's copy of it in memory
    bound,      \* bindings the router and the upgrade check know
    queue,      \* redemptions called and not settled, the head being run
    stage,      \* how far the head is
    token,      \* the token made for the head
    offered,    \* codes the offers file lists and whose time is not over
    minted,     \* the code each token was made for
    replies,    \* HTTP replies on their way
    pc,         \* the client's process
    attempt,    \* requests the client has made
    got,        \* the token in the reply the client read
    config,     \* runner.json
    bootstrap,  \* bootstrap.json
    crashes

gateway == <<gwUp, disk, current, bound, queue, stage, token, minted>>
client == <<pc, attempt, got, config, bootstrap>>
vars == <<gateway, offered, replies, client, crashes>>

State == [consumed : SUBSET Codes, bindings : SUBSET Tokens]
NoState == [consumed |-> {}, bindings |-> {}]
Request == [client : Clients, attempt : 1 .. MaxAttempts, code : Codes]

TypeOK ==
    /\ gwUp \in BOOLEAN
    /\ disk \in State /\ current \in State
    /\ bound \subseteq Tokens
    /\ queue \in Seq(Request)
    /\ stage \in {"check", "offers", "persist", "renamed"}
    /\ token \in Tokens \cup {NoToken}
    /\ offered \subseteq Codes
    /\ minted \in [Tokens -> Codes \cup {NoCode}]
    /\ replies \subseteq [client : Clients, attempt : 1 .. MaxAttempts, token : Tokens \cup {NoToken}]
    /\ pc \in [Clients -> {"off", "waiting", "save", "overwrite", "unlink", "ready"}]
    /\ attempt \in [Clients -> 0 .. MaxAttempts]
    /\ got \in [Clients -> Tokens \cup {NoToken}]
    /\ config \in [Clients -> Tokens \cup {NoToken}]
    /\ bootstrap \in [Clients -> {"code", "consumed", "absent"}]
    /\ crashes \in 0 .. MaxCrashes

Init ==
    /\ gwUp = TRUE
    /\ disk = NoState /\ current = NoState
    /\ bound = {}
    /\ queue = <<>> /\ stage = "check" /\ token = NoToken
    /\ offered \in SUBSET Codes
    /\ minted = [t \in Tokens |-> NoCode]
    /\ replies = {}
    /\ pc = [c \in Clients |-> "off"]
    /\ attempt = [c \in Clients |-> 0]
    /\ got = [c \in Clients |-> NoToken]
    /\ config = [c \in Clients |-> NoToken]
    /\ bootstrap = [c \in Clients |-> "code"]
    /\ crashes = 0

-----------------------------------------------------------------------------
(* The gateway *)

Head1 == queue[1]

Reply(req, t) ==
    replies' = replies \cup {[client |-> req.client, attempt |-> req.attempt, token |-> t]}

\* The head's promise settles and the next redemption may start: the queue
\* goes on after a failure as after a success.
Settle(t) ==
    /\ Reply(Head1, t)
    /\ queue' = Tail(queue)
    /\ stage' = "check"
    /\ token' = NoToken

\* CODE_CONSUMED, from memory; otherwise the offers file is opened.
CheckConsumed ==
    /\ queue # <<>> /\ stage = "check"
    /\ IF Head1.code \in current.consumed
       THEN Settle(NoToken)
       ELSE stage' = "offers" /\ UNCHANGED <<queue, token, replies>>
    /\ UNCHANGED <<gwUp, disk, current, bound, minted, offered, client, crashes>>

\* CODE_INVALID or CODE_EXPIRED, or a token and a binding of its own.
MakeBinding ==
    /\ stage = "offers"
    /\ IF Head1.code \notin offered
       THEN Settle(NoToken) /\ UNCHANGED minted
       ELSE /\ \E t \in Tokens :
                /\ minted[t] = NoCode
                /\ token' = t
                /\ minted' = [minted EXCEPT ![t] = Head1.code]
            /\ stage' = "persist"
            /\ UNCHANGED <<queue, replies>>
    /\ UNCHANGED <<gwUp, disk, current, bound, offered, client, crashes>>

\* Faulty: the code stays open.
NextStateKeepsCode ==
    [consumed |-> current.consumed, bindings |-> current.bindings \cup {token}]

NextState ==
    [consumed |-> current.consumed \cup {Head1.code},
     bindings |-> current.bindings \cup {token}]

\* persist(): the temporary file takes the place of the state file.
Rename ==
    /\ stage = "persist"
    /\ disk' = NextState
    /\ stage' = "renamed"
    /\ UNCHANGED <<gwUp, current, bound, queue, token, minted, offered, replies, client, crashes>>

\* Faulty: the failure is swallowed and the token handed out.
PersistFailsUnnoticed ==
    /\ stage = "persist"
    /\ Settle(token)
    /\ UNCHANGED <<gwUp, disk, current, bound, minted, offered, client, crashes>>

\* Faulty: the rejected promise is the one the next redemption waits for.
PersistFailureBlocks ==
    /\ stage = "persist"
    /\ Reply(Head1, NoToken)
    /\ stage' = "rejected"
    /\ UNCHANGED <<gwUp, disk, current, bound, queue, token, minted, offered, client, crashes>>

\* The disk refuses; nothing is taken over.
PersistFails ==
    /\ stage = "persist"
    /\ Settle(NoToken)
    /\ UNCHANGED <<gwUp, disk, current, bound, minted, offered, client, crashes>>

\* current = next, then the endpoint adds the binding to the router and to
\* the list the upgrade check searches, and answers 201.
Commit ==
    /\ stage = "renamed"
    /\ current' = NextState
    /\ bound' = bound \cup {token}
    /\ Settle(token)
    /\ UNCHANGED <<gwUp, disk, minted, offered, client, crashes>>

GatewayCrash ==
    /\ gwUp /\ crashes < MaxCrashes
    /\ crashes' = crashes + 1
    /\ gwUp' = FALSE
    /\ current' = NoState /\ bound' = {}
    /\ queue' = <<>> /\ stage' = "check" /\ token' = NoToken
    /\ UNCHANGED <<disk, minted, offered, replies, client>>

\* readState, and the bindings startRunnerGateway passes to its router.
GatewayStart ==
    /\ ~gwUp
    /\ gwUp' = TRUE
    /\ current' = disk /\ bound' = disk.bindings
    /\ UNCHANGED <<disk, queue, stage, token, minted, offered, replies, client, crashes>>

\* Time passes the expiresAt of an offer, or the operator withdraws it.
Expire(k) ==
    /\ k \in offered
    /\ offered' = offered \ {k}
    /\ UNCHANGED <<gateway, replies, client, crashes>>

-----------------------------------------------------------------------------
(* The client *)

\* loadInstalledRunnerConfig finds runner.json.
StartInstalled(c) ==
    /\ pc[c] = "off" /\ config[c] # NoToken
    /\ pc' = [pc EXCEPT ![c] = "ready"]
    /\ UNCHANGED <<gateway, offered, replies, attempt, got, config, bootstrap, crashes>>

\* No runner.json: enrollRunner posts the code of bootstrap.json.  A gateway
\* that is down, or whose rate limit is used up, calls no redemption.
StartEnrolling(c) ==
    /\ pc[c] = "off" /\ config[c] = NoToken /\ bootstrap[c] = "code"
    /\ attempt[c] < MaxAttempts
    /\ attempt' = [attempt EXCEPT ![c] = @ + 1]
    /\ pc' = [pc EXCEPT ![c] = "waiting"]
    /\ \/ /\ gwUp
          /\ queue' = Append(queue, [client |-> c, attempt |-> attempt[c] + 1, code |-> CodeOf[c]])
       \/ UNCHANGED queue
    /\ UNCHANGED <<gwUp, disk, current, bound, stage, token, minted,
                   offered, replies, got, config, bootstrap, crashes>>

\* The reply to the request the client waits for; an error ends the process.
ReadReply(c) ==
    /\ pc[c] = "waiting"
    /\ \E r \in replies :
        /\ r.client = c /\ r.attempt = attempt[c]
        /\ replies' = replies \ {r}
        /\ got' = [got EXCEPT ![c] = r.token]
        /\ pc' = [pc EXCEPT ![c] = IF r.token = NoToken THEN "off" ELSE "save"]
    /\ UNCHANGED <<gateway, offered, attempt, config, bootstrap, crashes>>

\* runner.json takes the place of its temporary file.
SaveConfig(c) ==
    /\ pc[c] = "save"
    /\ config' = [config EXCEPT ![c] = got[c]]
    /\ pc' = [pc EXCEPT ![c] = "overwrite"]
    /\ UNCHANGED <<gateway, offered, replies, attempt, got, bootstrap, crashes>>

OverwriteBootstrap(c) ==
    /\ pc[c] = "overwrite"
    /\ bootstrap' = [bootstrap EXCEPT ![c] = "consumed"]
    /\ pc' = [pc EXCEPT ![c] = "unlink"]
    /\ UNCHANGED <<gateway, offered, replies, attempt, got, config, crashes>>

UnlinkBootstrap(c) ==
    /\ pc[c] = "unlink"
    /\ bootstrap' = [bootstrap EXCEPT ![c] = "absent"]
    /\ pc' = [pc EXCEPT ![c] = "ready"]
    /\ UNCHANGED <<gateway, offered, replies, attempt, got, config, crashes>>

\* The 30 second limit, a lost reply, a file that cannot be written, a restart
\* of the service or of the computer: the process and what it held are gone.
ClientFails(c) ==
    /\ pc[c] # "off"
    /\ pc' = [pc EXCEPT ![c] = "off"]
    /\ got' = [got EXCEPT ![c] = NoToken]
    /\ replies' = {r \in replies : r.client # c}
    /\ UNCHANGED <<gateway, offered, attempt, config, bootstrap, crashes>>

-----------------------------------------------------------------------------
GatewayStep == CheckConsumed \/ MakeBinding \/ Rename \/ PersistFails \/ Commit

Next ==
    \/ GatewayStep
    \/ GatewayCrash
    \/ GatewayStart
    \/ \E k \in Codes : Expire(k)
    \/ \E c \in Clients :
        \/ StartInstalled(c) \/ StartEnrolling(c) \/ ReadReply(c) \/ SaveConfig(c)
        \/ OverwriteBootstrap(c) \/ UnlinkBootstrap(c) \/ ClientFails(c)

Spec == Init /\ [][Next]_vars

\* The gateway's event loop runs and the disk answers, one way or the other.
FairSpec == Spec /\ WF_vars(GatewayStep)

-----------------------------------------------------------------------------
(* What must hold *)

\* Tokens that count for something somewhere.
Valid ==
    disk.bindings \cup bound \cup ({config[c] : c \in Clients} \ {NoToken})

\* One code gives one device, whoever typed it, however requests for it
\* interleave, fail, are repeated or meet a restart.
OneDevicePerCode ==
    \A t, u \in Valid : minted[t] = minted[u] => t = u

\* A token that left the gateway is in the state file, so a restart cannot
\* make it invalid, and the running gateway lets it in.
InstalledIsBound ==
    \A t \in {r.token : r \in replies} \cup {got[c] : c \in Clients} \cup {config[c] : c \in Clients} :
        t # NoToken => t \in disk.bindings /\ (gwUp => t \in bound)

\* Between redemptions memory and file agree: no code is consumed in one and
\* open in the other.
MemoryIsDisk ==
    (gwUp /\ stage # "renamed") => current = disk /\ bound = disk.bindings

\* A code still lying in bootstrap.json beside an active runner.json, after a
\* crash between the two writes, is of no use to anybody.
LeftCodeIsSpent ==
    \A c \in Clients :
        (config[c] # NoToken /\ bootstrap[c] = "code") => CodeOf[c] \in disk.consumed

\* What an enrollment leaves behind, at any moment a crash can choose: one
\* device for each code, in the file, the memory and the installation alike
\* (redeemInternal, enrollRunner).
EnrollmentSafety ==
    TypeOK /\ OneDevicePerCode /\ InstalledIsBound /\ MemoryIsDisk /\ LeftCodeIsSpent

\* Every redemption that was called is settled: no failure blocks the queue.
QueueDrains == []<>(queue = <<>>)

(***************************************************************************)
(* docs/specs/windows-runner-installer.md:53 - "Installed service starts   *)
(* automatically and survives reboot/service restart."  A service whose    *)
(* own code has been redeemed in its name holds the token, or is about to: *)
(* the redemption still runs or its reply is still to be read.             *)
(***************************************************************************)
ServiceIsNotStranded ==
    \A c \in Clients :
        (CodeOf[c] \in disk.consumed /\ \A d \in Clients \ {c} : CodeOf[d] # CodeOf[c])
            => \/ config[c] # NoToken
               \/ got[c] # NoToken
               \/ \E r \in replies : r.client = c /\ r.token # NoToken
               \/ stage = "renamed" /\ Head1.client = c
==============================================================================
