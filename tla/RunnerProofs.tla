------------------------------ MODULE RunnerProofs ------------------------------
(***************************************************************************)
(* Proofs about the Local Runner relay.  About RunnerRouter, for every set *)
(* of runners, connections, jobs and tools and every pair of time limits:  *)
(* the inductive invariant RouterInv, the invariants it gives, the action  *)
(* property on answers, and that the router implements JobDelivery.  About *)
(* RunnerReplayGuard, for every capacity, skew, clock bound and set of job *)
(* ids.  About RunnerLink: that it uses its router as the router is        *)
(* specified, so that all of that holds in it, and the invariant LinkInv   *)
(* of sockets, frames and jobs.                                            *)
(***************************************************************************)
EXTENDS RunnerLink, RunnerReplayGuard, FiniteSetTheorems, TLAPS
(***************************************************************************)
(* The four invariants only hold together.  PendingOnCarrier survives a    *)
(* disconnect because the handle that disconnects is the session of its    *)
(* runner (HandleIsSession), and an attach because a pending job's runner  *)
(* is online, so the attach is refused.                                    *)
(***************************************************************************)
RouterInv ==
    /\ RouterTypes
    /\ HandleIsSession
    /\ WaitingIsPending
    /\ PendingOnCarrier

\* What Settle(S, code) does to the job table, for the actions that end jobs.
LEMMA SettleLemma ==
    ASSUME NEW S \in SUBSET Jobs, NEW code \in Settlements,
           RouterInv, Settle(S, code),
           UNCHANGED bindings,
           sessions' \in [Runners -> Conns \cup {NoConn}],
           \A j \in Jobs \ S : pending[j] # NoRunner => sessions'[pending[j]] = sessions[pending[j]],
           owner' \in [Conns -> Runners \cup {NoRunner}],
           seenAge' \in [Conns -> 0 .. HeartbeatTtl + 1]
    PROVE  RouterTypes' /\ WaitingIsPending' /\ PendingOnCarrier'
<1>1. code \in Outcomes /\ code # "waiting"
  BY DEF Settlements, Outcomes
<1>2. RouterTypes'
  BY <1>1, RouterAssumption DEF RouterInv, RouterTypes, Settle
<1>3. WaitingIsPending'
  BY <1>1 DEF RouterInv, RouterTypes, WaitingIsPending, Settle
<1>4. PendingOnCarrier'
  BY RouterAssumption DEF RouterInv, RouterTypes, PendingOnCarrier, Settle, Online
<1> QED
  BY <1>2, <1>3, <1>4

LEMMA RouterInvInit == RouterInit => RouterInv
BY RouterAssumption
   DEF RouterInit, RouterInv, RouterTypes, HandleIsSession, WaitingIsPending, PendingOnCarrier, Outcomes

LEMMA AddBindingStep ==
    ASSUME RouterInv, NEW r \in Runners, AddBinding(r)
    PROVE  RouterInv'
BY DEF AddBinding, presence, jobState, RouterInv, RouterTypes, HandleIsSession,
       WaitingIsPending, PendingOnCarrier, Online

LEMMA AttachStep ==
    ASSUME RouterInv, NEW c \in Conns, NEW reg \in Registrations, Attach(c, reg)
    PROVE  RouterInv'
<1>1. reg.runner \in Runners /\ sessions[reg.runner] = NoConn /\ owner[c] = NoRunner
  BY DEF Attach, AttachError, Registrations
<1> USE <1>1, RouterAssumption DEF Attach, jobState, RouterInv, RouterTypes
<1>2. RouterTypes'
  OBVIOUS
<1>3. HandleIsSession'
  BY DEF HandleIsSession
<1>4. WaitingIsPending'
  BY DEF WaitingIsPending
<1>5. PendingOnCarrier'
  BY DEF PendingOnCarrier, Online
<1> QED
  BY <1>2, <1>3, <1>4, <1>5

LEMMA HeartbeatStep ==
    ASSUME RouterInv, NEW c \in Conns, NEW r \in Runners, NEW d \in Devices, Heartbeat(c, r, d)
    PROVE  RouterInv'
BY RouterAssumption DEF Heartbeat, jobState, RouterInv, RouterTypes, HandleIsSession,
       WaitingIsPending, PendingOnCarrier, Online

LEMMA RefuseDispatchStep ==
    ASSUME RouterInv, NEW j \in Jobs, NEW req \in Request, RefuseDispatch(j, req)
    PROVE  RouterInv'
<1>1. DispatchError(req) \in Outcomes \ {"waiting"}
  BY DEF RefuseDispatch, DispatchError, Outcomes, DispatchRefusals
<1> USE DEF RefuseDispatch, presence, RouterInv
<1>2. RouterTypes'
  BY <1>1 DEF RouterTypes
<1>3. HandleIsSession'
  BY DEF HandleIsSession
<1>4. WaitingIsPending'
  BY <1>1 DEF WaitingIsPending, RouterTypes
<1>5. PendingOnCarrier'
  BY DEF PendingOnCarrier, Online
<1> QED
  BY <1>2, <1>3, <1>4, <1>5

LEMMA DispatchStep ==
    ASSUME RouterInv, NEW j \in Jobs, NEW req \in Request, NEW sendThrows \in BOOLEAN,
           Dispatch(j, req, sendThrows)
    PROVE  RouterInv'
<1>1. req.runner \in Runners /\ sessions[req.runner] # NoConn /\ pending[j] = NoRunner
  BY DEF Dispatch, DispatchError, Request, Online, RouterInv, WaitingIsPending
<1> USE <1>1, RouterAssumption DEF Dispatch, presence, RouterInv, RouterTypes
<1>2. RouterTypes'
  BY DEF Outcomes, Settlements
<1>3. HandleIsSession'
  BY DEF HandleIsSession
<1>4. WaitingIsPending'
  BY DEF WaitingIsPending
<1>5. PendingOnCarrier'
  BY DEF PendingOnCarrier, Online
<1> QED
  BY <1>2, <1>3, <1>4, <1>5

LEMMA CompleteStep ==
    ASSUME RouterInv, NEW c \in Conns, NEW res \in Result, Complete(c, res)
    PROVE  RouterInv'
<1>1. res.job \in Jobs
  BY DEF Result
<1>2. (IF res.ok THEN "succeeded" ELSE "REMOTE_TOOL_FAILED") \in Settlements
  BY DEF Settlements
<1>3. RouterTypes' /\ WaitingIsPending' /\ PendingOnCarrier'
  BY <1>1, <1>2, SettleLemma DEF Complete, presence, RouterInv, RouterTypes
<1>4. HandleIsSession'
  BY DEF Complete, presence, RouterInv, HandleIsSession
<1> QED
  BY <1>3, <1>4 DEF RouterInv

LEMMA JobTimerStep ==
    ASSUME RouterInv, NEW j \in Jobs, JobTimer(j)
    PROVE  RouterInv'
<1>1. pending[j] # NoRunner
  BY DEF JobTimer, RouterInv, WaitingIsPending
<1>2. RouterTypes' /\ WaitingIsPending' /\ PendingOnCarrier'
  BY <1>1, SettleLemma DEF JobTimer, presence, RouterInv, RouterTypes, Settlements
<1>3. HandleIsSession'
  BY <1>1 DEF JobTimer, presence, RouterInv, HandleIsSession
<1> QED
  BY <1>2, <1>3 DEF RouterInv

LEMMA DisconnectStep ==
    ASSUME RouterInv, NEW c \in Conns, Disconnect(c)
    PROVE  RouterInv'
<1>1. owner[c] \in Runners /\ sessions[owner[c]] = c
  BY DEF Disconnect, Leaves, RouterInv, RouterTypes, HandleIsSession
<1>2. PendingOf(owner[c]) \in SUBSET Jobs /\ "CONNECTION_CLOSED" \in Settlements
  BY DEF PendingOf, Settlements
<1>3. sessions' = [sessions EXCEPT ![owner[c]] = NoConn]
  BY <1>1 DEF Disconnect, Leaves
<1>4. RouterTypes' /\ WaitingIsPending' /\ PendingOnCarrier'
  <2>1. \A j \in Jobs \ PendingOf(owner[c]) :
            pending[j] # NoRunner => sessions'[pending[j]] = sessions[pending[j]]
    BY <1>1, <1>3 DEF PendingOf, RouterInv, RouterTypes
  <2>2. seenAge' \in [Conns -> 0 .. HeartbeatTtl + 1]
    BY RouterAssumption DEF Disconnect, Leaves, RouterInv, RouterTypes
  <2>3. owner' \in [Conns -> Runners \cup {NoRunner}]
    BY DEF Disconnect, Leaves, RouterInv, RouterTypes
  <2>4. sessions' \in [Runners -> Conns \cup {NoConn}]
    BY <1>3 DEF RouterInv, RouterTypes
  <2> QED
    BY <1>2, <2>1, <2>2, <2>3, <2>4, SettleLemma DEF Disconnect, Leaves
<1>5. HandleIsSession'
  BY <1>1, <1>3, RouterAssumption DEF Disconnect, Leaves, RouterInv, RouterTypes, HandleIsSession
<1> QED
  BY <1>4, <1>5 DEF RouterInv

LEMMA TickStep ==
    ASSUME RouterInv, Tick
    PROVE  RouterInv'
<1>1. RouterTypes'
  BY RouterAssumption DEF Tick, RouterInv, RouterTypes
<1>2. HandleIsSession' /\ WaitingIsPending' /\ PendingOnCarrier'
  BY DEF Tick, RouterInv, HandleIsSession, WaitingIsPending, PendingOnCarrier, Online
<1> QED
  BY <1>1, <1>2 DEF RouterInv

LEMMA RouterInvNext == RouterInv /\ [RouterNext]_routerVars => RouterInv'
<1> SUFFICES ASSUME RouterInv, [RouterNext]_routerVars PROVE RouterInv'
  OBVIOUS
<1>1. CASE \E r \in Runners : AddBinding(r)
  BY <1>1, AddBindingStep
<1>2. CASE \E c \in Conns, reg \in Registrations : Attach(c, reg)
  BY <1>2, AttachStep
<1>3. CASE \E c \in Conns, r \in Runners, d \in Devices : Heartbeat(c, r, d)
  BY <1>3, HeartbeatStep
<1>4. CASE \E j \in Jobs, req \in Request : RefuseDispatch(j, req)
  BY <1>4, RefuseDispatchStep
<1>5. CASE \E j \in Jobs, req \in Request, sendThrows \in BOOLEAN : Dispatch(j, req, sendThrows)
  BY <1>5, DispatchStep
<1>6. CASE \E c \in Conns, res \in Result : Complete(c, res)
  BY <1>6, CompleteStep
<1>7. CASE \E j \in Jobs : JobTimer(j)
  BY <1>7, JobTimerStep
<1>8. CASE \E c \in Conns : Disconnect(c)
  BY <1>8, DisconnectStep
<1>9. CASE Tick
  BY <1>9, TickStep
<1>10. CASE UNCHANGED routerVars
  BY <1>10 DEF routerVars, RouterInv, RouterTypes, HandleIsSession, WaitingIsPending, PendingOnCarrier, Online
<1> QED
  BY <1>1, <1>2, <1>3, <1>4, <1>5, <1>6, <1>7, <1>8, <1>9, <1>10 DEF RouterNext

LEMMA RouterInvAlways == RouterSpec => []RouterInv
BY RouterInvInit, RouterInvNext, PTL DEF RouterSpec

\* Every variable of the router keeps its type.
THEOREM RouterTyped == RouterSpec => []RouterTypes
BY RouterInvAlways, PTL DEF RouterInv

\* A connected handle is the session of its runner and the other way round.
THEOREM RouterHandles == RouterSpec => []HandleIsSession
BY RouterInvAlways, PTL DEF RouterInv

\* Promise, pending table and timer always agree on which jobs wait.
THEOREM RouterWaiting == RouterSpec => []WaitingIsPending
BY RouterInvAlways, PTL DEF RouterInv

\* The tables of the router agree, whatever attach, dispatch, heartbeat, timer
\* and disconnect do and in whatever order.
THEOREM RouterPresence == RouterSpec => []PresenceKept
BY RouterTyped, RouterHandles, RouterWaiting, PTL DEF PresenceKept

\* A pending job waits for the connection that carried it.
THEOREM RouterCarrier == RouterSpec => []PendingOnCarrier
BY RouterInvAlways, PTL DEF RouterInv

\* Only the connection that carried a job can answer it.
THEOREM RouterAnswers == RouterSpec => AnsweredByCarrier
<1>1. RouterInv => (\A c \in Conns, res \in Result : Complete(c, res) => sentOn[res.job] = c)
  BY RouterAssumption
     DEF RouterInv, RouterTypes, PendingOnCarrier, Complete, CompleteError, IsCurrent, Result
<1>2. RouterInv /\ [RouterNext]_routerVars =>
        [\A c \in Conns, res \in Result : Complete(c, res) => sentOn[res.job] = c]_routerVars
  BY <1>1
<1> QED
  BY <1>2, RouterInvAlways, PTL DEF RouterSpec, AnsweredByCarrier

-----------------------------------------------------------------------------
(***************************************************************************)
(* The router implements JobDelivery.  Calls that only change bindings,    *)
(* ages or timers are stuttering steps of JobDelivery; a disconnect, which *)
(* settles the jobs of a runner, is the loss of one connection, because    *)
(* the jobs pending on the runner are those its session carries.           *)
(***************************************************************************)
openConns == {c \in Conns : owner[c] # NoRunner}
status == [j \in Jobs |-> StatusOf(outcome[j])]

LEMMA StatusCases ==
    /\ StatusOf("uncalled") = "new"
    /\ StatusOf("waiting") = "waiting"
    /\ StatusOf("succeeded") = "succeeded"
    /\ StatusOf("REMOTE_TOOL_FAILED") = "failed"
    /\ StatusOf("JOB_TIMEOUT") = "timed out"
    /\ StatusOf("CONNECTION_CLOSED") = "lost"
    /\ \A code \in DispatchRefusals : StatusOf(code) = "refused"
    /\ \A code \in Outcomes : StatusOf(code) = "waiting" => code = "waiting"
BY DEF StatusOf, DispatchRefusals, Outcomes, Settlements

LEMMA DeliveryInit == RouterInit => Delivery!Init
BY StatusCases DEF RouterInit, Delivery!Init

\* Steps that leave handles, promises and carriers alone.
LEMMA DeliveryStutter ==
    ASSUME UNCHANGED <<owner, outcome, sentOn>>
    PROVE  UNCHANGED Delivery!vars
BY DEF Delivery!vars

LEMMA DeliveryAttach ==
    ASSUME RouterInv, NEW c \in Conns, NEW reg \in Registrations, Attach(c, reg)
    PROVE  Delivery!Open(c)
BY RouterAssumption
   DEF Attach, jobState, Registrations, RouterInv, RouterTypes, Delivery!Open

LEMMA DeliveryRefuse ==
    ASSUME RouterInv, NEW j \in Jobs, NEW req \in Request, RefuseDispatch(j, req)
    PROVE  Delivery!Refuse(j)
<1>1. DispatchError(req) \in DispatchRefusals
  BY DEF RefuseDispatch, DispatchError, DispatchRefusals
<1> QED
  BY <1>1, StatusCases DEF RefuseDispatch, presence, RouterInv, RouterTypes, Delivery!Refuse

LEMMA DeliveryDispatch ==
    ASSUME RouterInv, NEW j \in Jobs, NEW req \in Request, NEW sendThrows \in BOOLEAN,
           Dispatch(j, req, sendThrows)
    PROVE  \E c \in Conns, end \in {"waiting", "lost"} : Delivery!Issue(j, c, end)
<1> DEFINE c == sessions[req.runner]
           end == IF sendThrows THEN "lost" ELSE "waiting"
<1>1. c \in Conns /\ owner[c] # NoRunner
  BY RouterAssumption
     DEF Dispatch, DispatchError, Request, Online, RouterInv, RouterTypes, HandleIsSession
<1>2. Delivery!Issue(j, c, end)
  BY <1>1, StatusCases DEF Dispatch, presence, RouterInv, RouterTypes, Delivery!Issue
<1> QED
  BY <1>1, <1>2

LEMMA DeliveryAnswer ==
    ASSUME RouterInv, NEW c \in Conns, NEW res \in Result, Complete(c, res)
    PROVE  \E end \in {"succeeded", "failed"} : Delivery!Answer(res.job, end)
<1> DEFINE end == IF res.ok THEN "succeeded" ELSE "failed"
<1>1. /\ res.job \in Jobs
      /\ outcome[res.job] = "waiting"
      /\ sentOn[res.job] = c
      /\ owner[c] # NoRunner
  BY DEF Complete, CompleteError, IsCurrent, Result, RouterInv, WaitingIsPending, PendingOnCarrier
<1>2. Delivery!Answer(res.job, end)
  BY <1>1, StatusCases DEF Complete, Settle, presence, RouterInv, RouterTypes, Delivery!Answer
<1> QED
  BY <1>2

LEMMA DeliveryTimeOut ==
    ASSUME RouterInv, NEW j \in Jobs, JobTimer(j)
    PROVE  Delivery!TimeOut(j)
<1>1. outcome[j] = "waiting" /\ pending[j] # NoRunner
  BY DEF JobTimer, RouterInv, WaitingIsPending
<1> QED
  BY <1>1, StatusCases DEF JobTimer, Settle, presence, RouterInv, RouterTypes, Delivery!TimeOut

LEMMA DeliveryLose ==
    ASSUME RouterInv, NEW c \in Conns, Disconnect(c)
    PROVE  Delivery!Lose(c)
<1>1. owner[c] \in Runners /\ sessions[owner[c]] = c
  BY DEF Disconnect, Leaves, RouterInv, RouterTypes, HandleIsSession
\* A job another runner's session carries is not carried by c.
<1>2. \A j \in Jobs : j \in PendingOf(owner[c])
                       <=> StatusOf(outcome[j]) = "waiting" /\ sentOn[j] = c
  <2> TAKE j \in Jobs
  <2>1. pending[j] # NoRunner <=> StatusOf(outcome[j]) = "waiting"
    BY StatusCases DEF RouterInv, RouterTypes, WaitingIsPending
  <2>2. pending[j] # NoRunner => owner[sentOn[j]] = pending[j] /\ sessions[pending[j]] = sentOn[j]
    BY RouterAssumption DEF RouterInv, RouterTypes, HandleIsSession, PendingOnCarrier, Online
  <2> QED
    BY <1>1, <2>1, <2>2, RouterAssumption DEF PendingOf
<1>3. openConns' = openConns \ {c} /\ c \in openConns
  BY DEF Disconnect, Leaves, RouterInv, RouterTypes, openConns
<1>4. status' = [j \in Jobs |->
          IF status[j] = "waiting" /\ sentOn[j] = c THEN "lost" ELSE status[j]]
  BY <1>2, StatusCases DEF Disconnect, Leaves, Settle, status
<1> QED
  BY <1>3, <1>4 DEF Disconnect, Leaves, Settle, openConns, status, Delivery!Lose

LEMMA DeliveryNext == RouterInv /\ [RouterNext]_routerVars => [Delivery!Next]_Delivery!vars
<1> SUFFICES ASSUME RouterInv, [RouterNext]_routerVars PROVE [Delivery!Next]_Delivery!vars
  OBVIOUS
<1>1. CASE \E r \in Runners : AddBinding(r)
  BY <1>1, DeliveryStutter DEF AddBinding, presence, jobState
<1>2. CASE \E c \in Conns, reg \in Registrations : Attach(c, reg)
  BY <1>2, DeliveryAttach DEF Delivery!Next
<1>3. CASE \E c \in Conns, r \in Runners, d \in Devices : Heartbeat(c, r, d)
  BY <1>3, DeliveryStutter DEF Heartbeat, jobState
<1>4. CASE \E j \in Jobs, req \in Request : RefuseDispatch(j, req)
  BY <1>4, DeliveryRefuse DEF Delivery!Next
<1>5. CASE \E j \in Jobs, req \in Request, sendThrows \in BOOLEAN : Dispatch(j, req, sendThrows)
  BY <1>5, DeliveryDispatch DEF Delivery!Next
<1>6. CASE \E c \in Conns, res \in Result : Complete(c, res)
  <2>1. PICK c \in Conns, res \in Result : Complete(c, res)
    BY <1>6
  <2>2. res.job \in Jobs
    BY DEF Result
  <2> QED
    BY <2>1, <2>2, DeliveryAnswer DEF Delivery!Next
<1>7. CASE \E j \in Jobs : JobTimer(j)
  BY <1>7, DeliveryTimeOut DEF Delivery!Next
<1>8. CASE \E c \in Conns : Disconnect(c)
  BY <1>8, DeliveryLose DEF Delivery!Next
<1>9. CASE Tick
  BY <1>9, DeliveryStutter DEF Tick
<1>10. CASE UNCHANGED routerVars
  BY <1>10, DeliveryStutter DEF routerVars
<1> QED
  BY <1>1, <1>2, <1>3, <1>4, <1>5, <1>6, <1>7, <1>8, <1>9, <1>10 DEF RouterNext

\* The router implements the promise made to callers.
THEOREM RouterDelivers == RouterSpec => DeliversJobs
BY DeliveryInit, DeliveryNext, RouterInvAlways, PTL DEF RouterSpec, DeliversJobs, Delivery!Spec

-----------------------------------------------------------------------------
(***************************************************************************)
(* What the guard remembers has run, and what has run and is not           *)
(* remembered has expired: the second part is what makes forgetting safe.  *)
(***************************************************************************)
GuardInv ==
    /\ GuardTypes
    /\ accepted \subseteq executed
    /\ ForgottenIsExpired
    /\ IsFiniteSet(executed)
    /\ WindowBounded

LEMMA RememberedIsSmall ==
    ASSUME GuardInv
    PROVE  /\ Remembered \subseteq accepted
           /\ IsFiniteSet(Remembered)
           /\ Cardinality(Remembered) \in Nat
           /\ Cardinality(Remembered) <= Capacity
<1>1. Remembered \subseteq accepted
  BY DEF Remembered
<1>2. /\ IsFiniteSet(Remembered)
      /\ Cardinality(Remembered) <= Cardinality(accepted)
  BY <1>1, FS_Subset DEF GuardInv, WindowBounded
<1>3. Cardinality(Remembered) \in Nat /\ Cardinality(accepted) \in Nat
  BY <1>2, FS_CardinalityType DEF GuardInv, WindowBounded
<1> QED
  BY <1>1, <1>2, <1>3, GuardAssumption DEF GuardInv, WindowBounded

LEMMA GuardInvInit == GuardInit => GuardInv
<1> SUFFICES ASSUME GuardInit PROVE GuardInv
  OBVIOUS
<1>1. GuardTypes /\ accepted \subseteq executed /\ ForgottenIsExpired
  BY GuardAssumption DEF GuardInit, GuardTypes, Times, ForgottenIsExpired
<1>2. IsFiniteSet({}) /\ Cardinality({}) = 0
  BY FS_EmptySet
<1>3. IsFiniteSet(executed) /\ WindowBounded
  BY <1>2, GuardAssumption DEF GuardInit, WindowBounded
<1> QED
  BY <1>1, <1>3 DEF GuardInv

\* What is evicted has expired.
LEMMA EvictedIsExpired ==
    ASSUME GuardInv
    PROVE  \A i \in executed \ Remembered : now > envelope[i].expiresAt
BY DEF GuardInv, GuardTypes, ForgottenIsExpired, Remembered, Envelope, Times

LEMMA AcceptStep ==
    ASSUME GuardInv, NEW j \in JobIds, Accept(j)
    PROVE  GuardInv'
<1>1. GuardTypes'
  BY RememberedIsSmall DEF Accept, GuardInv, GuardTypes
<1>2. (accepted \subseteq executed)'
  BY RememberedIsSmall DEF Accept, GuardInv
<1>3. ForgottenIsExpired'
  BY EvictedIsExpired DEF Accept, ForgottenIsExpired
<1>4. IsFiniteSet(executed)'
  BY FS_AddElement DEF Accept, GuardInv
<1>5. WindowBounded'
  <2>1. Cardinality(Remembered) < Capacity /\ j \notin Remembered
    BY RememberedIsSmall, GuardAssumption DEF Accept, AcceptError
  <2>2. /\ IsFiniteSet(Remembered \cup {j})
        /\ Cardinality(Remembered \cup {j}) = Cardinality(Remembered) + 1
    BY <2>1, RememberedIsSmall, FS_AddElement
  <2> QED
    BY <2>1, <2>2, RememberedIsSmall, GuardAssumption DEF Accept, WindowBounded
<1> QED
  BY <1>1, <1>2, <1>3, <1>4, <1>5 DEF GuardInv

LEMMA RejectStep ==
    ASSUME GuardInv, NEW j \in JobIds, Reject(j)
    PROVE  GuardInv'
<1>1. GuardTypes' /\ (accepted \subseteq executed)' /\ IsFiniteSet(executed)'
  BY RememberedIsSmall DEF Reject, GuardInv, GuardTypes
<1>2. ForgottenIsExpired'
  BY EvictedIsExpired DEF Reject, ForgottenIsExpired
<1>3. WindowBounded'
  BY RememberedIsSmall DEF Reject, WindowBounded
<1> QED
  BY <1>1, <1>2, <1>3 DEF GuardInv

LEMMA AdvanceStep ==
    ASSUME GuardInv, Advance
    PROVE  GuardInv'
<1>1. ForgottenIsExpired'
  BY GuardAssumption DEF Advance, GuardInv, GuardTypes, ForgottenIsExpired, Envelope, Times
<1>2. GuardTypes' /\ (accepted \subseteq executed)' /\ IsFiniteSet(executed)' /\ WindowBounded'
  BY DEF Advance, GuardInv, GuardTypes, WindowBounded
<1> QED
  BY <1>1, <1>2 DEF GuardInv

LEMMA GuardInvNext == GuardInv /\ [GuardNext]_guardVars => GuardInv'
<1> SUFFICES ASSUME GuardInv, [GuardNext]_guardVars PROVE GuardInv'
  OBVIOUS
<1>1. CASE Advance
  BY <1>1, AdvanceStep
<1>2. CASE \E j \in JobIds : Accept(j) \/ Reject(j)
  BY <1>2, AcceptStep, RejectStep
<1>3. CASE UNCHANGED guardVars
  BY <1>3 DEF guardVars, GuardInv, GuardTypes, ForgottenIsExpired, WindowBounded
<1> QED
  BY <1>1, <1>2, <1>3 DEF GuardNext

LEMMA GuardInvAlways == GuardSpec => []GuardInv
BY GuardInvInit, GuardInvNext, PTL DEF GuardSpec

\* A forgotten job is one the expiry check refuses.
THEOREM GuardForgetsExpired == GuardSpec => []ForgottenIsExpired
BY GuardInvAlways, PTL DEF GuardInv

\* The guard never remembers more than its capacity.
THEOREM GuardBounded == GuardSpec => []WindowBounded
BY GuardInvAlways, PTL DEF GuardInv

\* No envelope runs twice.
THEOREM GuardExecutesOnce == GuardSpec => ExecutedOnce
<1>1. ASSUME GuardInv, NEW j \in JobIds, Accept(j)
      PROVE  j \notin executed
  <2>1. j \notin Remembered
    BY <1>1 DEF Accept, AcceptError
  <2>2. ~(now > envelope[j].expiresAt)
    BY <1>1 DEF Accept, AcceptError, AuthorizeError
  <2> QED
    BY <1>1, <2>1, <2>2, EvictedIsExpired
<1>2. GuardInv /\ [GuardNext]_guardVars => [\A j \in JobIds : Accept(j) => j \notin executed]_guardVars
  BY <1>1
<1> QED
  BY <1>2, GuardInvAlways, PTL DEF GuardSpec, ExecutedOnce

\* The guard is only said to be full when it is full of unexpired jobs.
THEOREM GuardFullOfLive == GuardSpec => []FullOfLiveJobs
<1>1. GuardInv => FullOfLiveJobs
  <2> SUFFICES ASSUME GuardInv, NEW j \in JobIds, AcceptError(j) = "REPLAY_WINDOW_FULL"
               PROVE  Cardinality({i \in executed : now <= envelope[i].expiresAt}) >= Capacity
    BY DEF FullOfLiveJobs
  <2> DEFINE live == {i \in executed : now <= envelope[i].expiresAt}
  <2>1. Cardinality(Remembered) >= Capacity
    BY DEF AcceptError, AuthorizeError
  <2>2. Remembered \subseteq live /\ live \subseteq executed
    BY DEF GuardInv, GuardTypes, Remembered, Envelope, Times
  <2>3. IsFiniteSet(live) /\ Cardinality(Remembered) <= Cardinality(live)
    BY <2>2, FS_Subset DEF GuardInv
  <2>4. Cardinality(live) \in Nat
    BY <2>3, FS_CardinalityType
  <2> QED
    BY <2>1, <2>3, <2>4, RememberedIsSmall, GuardAssumption
<1> QED
  BY <1>1, GuardInvAlways, PTL

\* The memory of RunnerReplayGuard.accept as a whole, for every capacity.
THEOREM GuardWindow == GuardSpec => []WindowSafety
<1>1. GuardInv => GuardTypes /\ ForgottenIsExpired /\ WindowBounded
  BY DEF GuardInv
<1> QED
  BY <1>1, GuardInvAlways, GuardFullOfLive, PTL DEF WindowSafety

-----------------------------------------------------------------------------
(***************************************************************************)
(* The link.  Its inductive invariant adds to the router's what holds of   *)
(* the two ends of a socket and of the frames between them.                *)
(***************************************************************************)
USE RouterAssumption, LinkAssumption

\* The parts of TypeOK that take a proof each.
EndsTyped ==
    /\ gw \in [Conns -> {"none", "open", "closing", "ended"}]
    /\ alive \subseteq Conns /\ cut \subseteq Conns
    /\ faults \in 0 .. MaxFaults
QueuesTyped == up \in [Conns -> Seq(UpFrames)] /\ down \in [Conns -> Seq(DownFrames)]
ClientTyped ==
    /\ sock \in Conns \cup {NoConn}
    /\ cl \in {"starting", "connecting", "open", "closing", "closed"}
    /\ proc \in {"running", "stopped", "crashed", "exited"}
    /\ executing \subseteq Jobs /\ stranded \subseteq executing

\* The only runner that attaches is the client's, to a socket with a gateway end.
OwnSessions == \A c \in Conns :
    owner[c] \in {Self, NoRunner} /\ (owner[c] = Self => gw[c] # "none")

\* Nothing waits for an end that is gone.
UpIsHeard   == \A c \in Conns : gw[c] \in {"none", "ended"} => up[c] = <<>>
DownIsHeard == \A c \in Conns : c # sock => down[c] = <<>>

\* The client has a socket from connect() to the close event.
SocketFits ==
    /\ sock = NoConn <=> cl \in {"starting", "closed"}
    /\ proc = "crashed" => sock = NoConn

\* The client says nothing before its socket is open, so no session is older
\* than the socket.
OpensFirst == cl = "connecting" => up[sock] = <<>> /\ owner[sock] = NoRunner

\* A socket opens once, and nothing comes before that.
UpgradedFirst ==
    \A c \in Conns : \A i \in DOMAIN down[c] :
        down[c][i] = Plain("upgraded") => i = 1 /\ cl = "connecting"

\* A job id is sent once, and from then on whatever is under way of it belongs
\* to the socket it was sent on.
SentOnce == \A j \in Jobs : outcome[j] = "uncalled" => sentOn[j] = NoConn
JobsStay ==
    /\ \A c \in Conns, j \in Jobs : Carries(down[c], JobFrame(j)) => sentOn[j] = c
    /\ \A j \in executing \ stranded : sock \in Conns /\ sentOn[j] = sock

LinkInv ==
    /\ RouterInv
    /\ EndsTyped /\ QueuesTyped /\ ClientTyped
    /\ OwnSessions /\ UpIsHeard /\ DownIsHeard
    /\ SocketFits /\ OpensFirst /\ UpgradedFirst
    /\ SentOnce /\ JobsStay
    /\ NoIdleSocket /\ NoJobIsLost /\ ResultsStay

(***************************************************************************)
(* Queues and frames.                                                      *)
(***************************************************************************)
LEMMA HeadAndTail ==
    ASSUME NEW S, NEW q \in Seq(S), q # <<>>
    PROVE  /\ Head(q) \in S /\ Tail(q) \in Seq(S)
           /\ 1 \in DOMAIN q /\ Head(q) = q[1]
           /\ \A i \in DOMAIN Tail(q) : i + 1 \in DOMAIN q /\ i + 1 > 1 /\ Tail(q)[i] = q[i + 1]
           /\ \A i \in DOMAIN q : i > 1 => i - 1 \in DOMAIN Tail(q) /\ Tail(q)[i - 1] = q[i]
           /\ \A i \in DOMAIN q : i >= 1
OBVIOUS

LEMMA CarriesAppend ==
    ASSUME NEW S, NEW q \in Seq(S), NEW f \in S
    PROVE  Carries(Append(q, f), f) /\ \A g : Carries(q, g) => Carries(Append(q, f), g)
<1>1. Append(q, f)[Len(q) + 1] = f /\ Len(q) + 1 \in DOMAIN Append(q, f)
  OBVIOUS
<1>2. \A i \in DOMAIN q : i \in DOMAIN Append(q, f) /\ Append(q, f)[i] = q[i]
  OBVIOUS
<1> QED  BY <1>1, <1>2 DEF Carries

\* What is taken from a queue is its head, the rest stays.
LEMMA CarriesTail ==
    ASSUME NEW S, NEW q \in Seq(S), q # <<>>, NEW g, Carries(q, g)
    PROVE  g = Head(q) \/ Carries(Tail(q), g)
<1>1. PICK i \in DOMAIN q : q[i] = g
  BY DEF Carries
<1>2. CASE i = 1
  BY <1>1, <1>2, HeadAndTail
<1>3. CASE i > 1
  BY <1>1, <1>3, HeadAndTail DEF Carries
<1> QED  BY <1>2, <1>3, HeadAndTail

LEMMA FramesAre ==
    /\ \A kind \in {"register", "heartbeat", "fin"} : Plain(kind) \in UpFrames
    /\ \A code \in {4400, 1000} : CloseFrame(code) \in UpFrames
    /\ \A j \in Jobs, ok \in BOOLEAN : ResultFrame(j, ok) \in UpFrames
    /\ \A kind \in {"upgraded", "unauthorized", "fin"} : Plain(kind) \in DownFrames
    /\ \A code \in {4400, 4403, 1000} : CloseFrame(code) \in DownFrames
    /\ \A j \in Jobs : JobFrame(j) \in DownFrames
BY DEF UpFrames, DownFrames, Plain, CloseFrame, ResultFrame, JobFrame

LEMMA FrameKinds ==
    /\ \A f \in UpFrames : f.kind = "close" => f.code \in {4400, 1000}
    /\ \A f \in UpFrames : f.kind = "result" =>
           f.job \in Jobs /\ f.ok \in BOOLEAN /\ f = ResultFrame(f.job, f.ok)
    /\ \A f \in DownFrames : f.kind = "job" => f.job \in Jobs /\ f = JobFrame(f.job)
    /\ \A kind : Plain(kind).kind = kind
    /\ \A code : CloseFrame(code).kind = "close"
    /\ \A j, ok : ResultFrame(j, ok).kind = "result" /\ ResultFrame(j, ok).job = j
    /\ \A j : JobFrame(j).kind = "job" /\ JobFrame(j).job = j
BY DEF UpFrames, DownFrames, Plain, CloseFrame, ResultFrame, JobFrame

\* A frame that is sent is the last of its queue, or lost.
LEMMA SentUpIs ==
    ASSUME QueuesTyped, NEW c \in Conns, NEW f \in UpFrames
    PROVE  /\ SentUp(c, f) \in [Conns -> Seq(UpFrames)]
           /\ \A d \in Conns : d # c => SentUp(c, f)[d] = up[d]
           /\ SentUp(c, f)[c] = IF c \in cut \/ gw[c] \in {"none", "ended"}
                                THEN up[c] ELSE Append(up[c], f)
BY DEF QueuesTyped, SentUp

LEMMA SentDownIs ==
    ASSUME QueuesTyped, NEW c \in Conns, NEW f \in DownFrames
    PROVE  /\ SentDown(c, f) \in [Conns -> Seq(DownFrames)]
           /\ \A d \in Conns : d # c => SentDown(c, f)[d] = down[d]
           /\ SentDown(c, f)[c] = IF c \in cut \/ sock # c
                                  THEN down[c] ELSE Append(down[c], f)
BY DEF QueuesTyped, SentDown

-----------------------------------------------------------------------------
(***************************************************************************)
(* What the steps of the client have in common, and those of the gateway:  *)
(* the one only adds to up and the other only to down.                     *)
(***************************************************************************)
ClientStep ==
    \/ \E c \in Conns : Connect(c)
    \/ ClientHearsAny \/ SendHeartbeat \/ ClientGivesUp
    \/ \E j \in Jobs, ok \in BOOLEAN : FinishJob(j, ok)
    \/ Stop \/ LoopEmpties \/ ServiceRestarts \/ Reboot

UpGrows ==
    /\ up' \in [Conns -> Seq(UpFrames)]
    /\ \A c \in Conns :
        /\ c # sock \/ gw[c] \in {"none", "ended"} => up'[c] = up[c]
        /\ \A f : Carries(up[c], f) => Carries(up'[c], f)

LEMMA SentUpGrows ==
    ASSUME QueuesTyped, NEW c \in Conns, NEW f \in UpFrames
    PROVE  /\ \A g : Carries(up[c], g) => Carries(SentUp(c, f)[c], g)
           /\ gw[c] \in {"none", "ended"} => SentUp(c, f)[c] = up[c]
<1>1. CASE SentUp(c, f)[c] = up[c]
  BY <1>1
<1>2. CASE SentUp(c, f)[c] = Append(up[c], f) /\ gw[c] \notin {"none", "ended"}
  BY <1>2, CarriesAppend DEF QueuesTyped
<1> QED  BY <1>1, <1>2, SentUpIs

LEMMA SendingUp ==
    ASSUME QueuesTyped,
           up' = up \/ (sock \in Conns /\ \E f \in UpFrames : up' = SentUp(sock, f))
    PROVE  UpGrows
<1>1. CASE up' = up
  BY <1>1 DEF QueuesTyped, UpGrows
<1>2. ASSUME sock \in Conns, NEW f \in UpFrames, up' = SentUp(sock, f)
      PROVE  UpGrows
  <2>1. up' \in [Conns -> Seq(UpFrames)] /\ \A c \in Conns : c # sock => up'[c] = up[c]
    BY <1>2, SentUpIs
  <2>2. /\ \A g : Carries(up[sock], g) => Carries(up'[sock], g)
        /\ gw[sock] \in {"none", "ended"} => up'[sock] = up[sock]
    BY <1>2, SentUpGrows
  <2> QED  BY <2>1, <2>2 DEF UpGrows
<1> QED  BY <1>1, <1>2

LEMMA ClientSends ==
    ASSUME LinkInv, ClientStep
    PROVE  UpGrows /\ UNCHANGED <<routerVars, gatewayVars>>
<1>1. UNCHANGED <<routerVars, gatewayVars>>
  BY DEF ClientStep, Connect, ClientHearsAny, ClientOpens, ClientRefused, ClientTakesJob,
         ClientRejectsJob, ClientHearsClose, ClientHearsFin, SendHeartbeat, ClientGivesUp,
         FinishJob, Stop, LoopEmpties, ServiceRestarts, Reboot, linkVars, clientVars
<1>2. sock # NoConn => sock \in Conns
  BY DEF LinkInv, ClientTyped
<1>3. cl \in {"connecting", "open", "closing"} => sock \in Conns
  BY <1>2 DEF LinkInv, SocketFits
<1>4. up' = up \/ (sock \in Conns /\ \E f \in UpFrames : up' = SentUp(sock, f))
  <2>1. CASE ClientHearsAny
    BY <2>1, <1>2, FramesAre
    DEF ClientHearsAny, ClientOpens, ClientRefused, ClientTakesJob, ClientRejectsJob,
        ClientHearsClose, ClientHearsFin, ClientHears
  <2>2. CASE SendHeartbeat \/ ClientGivesUp \/ Stop
    BY <2>2, <1>2, <1>3, FramesAre DEF SendHeartbeat, ClientGivesUp, Stop, linkVars
  <2>3. ASSUME NEW j \in Jobs, NEW ok \in BOOLEAN, FinishJob(j, ok)
        PROVE  up' = up \/ (sock \in Conns /\ \E f \in UpFrames : up' = SentUp(sock, f))
    BY <2>3, <1>2, <1>3, FramesAre DEF FinishJob, ProcessEnds
  <2>4. CASE Reboot
    BY <2>4, <1>2, FramesAre DEF Reboot, ProcessEnds
  <2>5. CASE (\E c \in Conns : Connect(c)) \/ LoopEmpties \/ ServiceRestarts
    BY <2>5 DEF Connect, LoopEmpties, ServiceRestarts, linkVars
  <2> QED  BY <2>1, <2>2, <2>3, <2>4, <2>5 DEF ClientStep
<1> QED  BY <1>1, <1>4, SendingUp DEF LinkInv

\* An open socket of the client was open before, unless it opens now.
LEMMA ClientStaysOpen ==
    ASSUME LinkInv, ClientStep, cl' = "open"
    PROVE  \/ ClientOpens
           \/ /\ cl = "open" /\ UNCHANGED <<sock, cut>>
              /\ \/ ClientTakesJob \/ SendHeartbeat
                 \/ \E j \in Jobs, ok \in BOOLEAN : FinishJob(j, ok)
BY DEF ClientStep, Connect, ClientHearsAny, ClientRefused, ClientTakesJob, ClientRejectsJob,
       ClientHearsClose, ClientHearsFin, SendHeartbeat, ClientGivesUp, ClientCloseEvent,
       FinishJob, Stop, LoopEmpties, ServiceRestarts, Reboot, linkVars, clientVars

GatewayStep ==
    \/ \E c \in Conns : GatewayHearsAny(c) \/ CloseTimesOut(c) \/ GatewayCloseEvent(c) \/ PongIsLate(c)
    \/ LivenessTimer
    \/ \E j \in Jobs, req \in Request : DispatchJob(j, req)
    \/ RouterAlone

DownGrows ==
    /\ down' \in [Conns -> Seq(DownFrames)]
    /\ \A c \in Conns :
        /\ c # sock => down'[c] = down[c]
        /\ \A f : Carries(down[c], f) => Carries(down'[c], f)
        /\ \A i \in DOMAIN down'[c] : down'[c][i] = Plain("upgraded") =>
               i \in DOMAIN down[c] /\ down[c][i] = Plain("upgraded")

LEMMA AppendGrows ==
    ASSUME NEW S, NEW q \in Seq(S), NEW f \in S, NEW g, g # f
    PROVE  \A i \in DOMAIN Append(q, f) : Append(q, f)[i] = g => i \in DOMAIN q /\ q[i] = g
OBVIOUS

LEMMA SentDownGrows ==
    ASSUME QueuesTyped, NEW c \in Conns, NEW f \in DownFrames, f # Plain("upgraded")
    PROVE  /\ \A g : Carries(down[c], g) => Carries(SentDown(c, f)[c], g)
           /\ \A i \in DOMAIN SentDown(c, f)[c] : SentDown(c, f)[c][i] = Plain("upgraded") =>
                  i \in DOMAIN down[c] /\ down[c][i] = Plain("upgraded")
           /\ c # sock => SentDown(c, f)[c] = down[c]
<1>1. CASE SentDown(c, f)[c] = down[c]
  BY <1>1
<1>2. CASE SentDown(c, f)[c] = Append(down[c], f) /\ sock = c
  BY <1>2, CarriesAppend, AppendGrows DEF QueuesTyped
<1> QED  BY <1>1, <1>2, SentDownIs

LEMMA SendingDown ==
    ASSUME QueuesTyped,
           down' = down \/ (\E c \in Conns, f \in DownFrames \ {Plain("upgraded")} : down' = SentDown(c, f))
    PROVE  DownGrows
<1>1. CASE down' = down
  BY <1>1 DEF QueuesTyped, DownGrows
<1>2. ASSUME NEW c \in Conns, NEW f \in DownFrames \ {Plain("upgraded")}, down' = SentDown(c, f)
      PROVE  DownGrows
  <2>1. down' \in [Conns -> Seq(DownFrames)] /\ \A d \in Conns : d # c => down'[d] = down[d]
    BY <1>2, SentDownIs
  <2>2. /\ \A g : Carries(down[c], g) => Carries(down'[c], g)
        /\ \A i \in DOMAIN down'[c] : down'[c][i] = Plain("upgraded") =>
               i \in DOMAIN down[c] /\ down[c][i] = Plain("upgraded")
        /\ c # sock => down'[c] = down[c]
    BY <1>2, SentDownGrows
  <2> QED  BY <2>1, <2>2 DEF DownGrows
<1> QED  BY <1>1, <1>2

LEMMA OwnRegistrationIs ==
    OwnRegistration \in Registrations /\ OwnRegistration.runner = Self /\ OwnRegistration.device \in Devices
BY DEF OwnRegistration, Registrations

\* A message that is refused leaves its socket closing.
LEMMA Rejecting ==
    ASSUME LinkInv, NEW c \in Conns, gw[c] \in {"open", "closing"}, RejectMessage(c)
    PROVE  /\ UNCHANGED <<routerVars, alive>> /\ gw' = [gw EXCEPT ![c] = "closing"]
           /\ DownGrows
<1> USE DEF LinkInv
<1>1. UNCHANGED <<routerVars, alive>> /\ gw' = [gw EXCEPT ![c] = "closing"]
  BY DEF EndsTyped, RejectMessage
<1>2. down' = down \/ \E code \in {4403, 4400} : down' = SentDown(c, CloseFrame(code))
  BY DEF RejectMessage
<1>3. \A code \in {4403, 4400} : CloseFrame(code) \in DownFrames \ {Plain("upgraded")}
  BY FramesAre, FrameKinds
<1> QED  BY <1>1, <1>2, <1>3, SendingDown

\* A message of the client is taken from its queue; then the socket is closing,
\* or the router has done what the message says.
Heard(c) ==
    /\ gw[c] \in {"open", "closing"}
    /\ up[c] # <<>> /\ Head(up[c]) \in UpFrames
    /\ up' = [up EXCEPT ![c] = Tail(@)]
    /\ UNCHANGED <<sentOn, alive, cut, clientVars, faults>>
    /\ gw' = gw \/ gw' = [gw EXCEPT ![c] = "closing"]
    /\ \A d \in Conns : owner'[d] = owner[d] \/ (d = c /\ owner'[d] = Self)
    /\ \A j \in Jobs : pending'[j] = pending[j] \/ pending'[j] = NoRunner
    /\ gw'[c] = "open" =>
        /\ Head(up[c]).kind = "register" => owner'[c] = Self
        /\ Head(up[c]).kind = "result" => pending'[Head(up[c]).job] = NoRunner

LEMMA HearingDoes ==
    ASSUME LinkInv, NEW c \in Conns, Register(c) \/ HearHeartbeat(c) \/ HearResult(c)
    PROVE  Heard(c) /\ DownGrows
<1> USE DEF LinkInv
<1>1. gw[c] \in {"open", "closing"} /\ up[c] # <<>>
  BY DEF Register, HearHeartbeat, HearResult, GatewayHears
<1>2. Head(up[c]) \in UpFrames
  BY <1>1, HeadAndTail DEF QueuesTyped
<1>3. up' = [up EXCEPT ![c] = Tail(@)] /\ UNCHANGED <<cut, clientVars, faults>>
  BY DEF Register, HearHeartbeat, HearResult, Consumes
<1>4. CASE RejectMessage(c)
  <2>1. UNCHANGED routerVars /\ alive' = alive /\ gw' = [gw EXCEPT ![c] = "closing"] /\ DownGrows
    BY <1>1, <1>4, Rejecting
  <2>2. gw'[c] # "open"
    BY <2>1 DEF EndsTyped
  <2> QED  BY <1>1, <1>2, <1>3, <2>1, <2>2 DEF Heard, routerVars
<1>5. CASE ~RejectMessage(c)
  <2>1. UNCHANGED <<gatewayVars, down>>
    BY <1>5 DEF Register, HearHeartbeat, HearResult
  <2>2. DownGrows
    BY <2>1, SendingDown
  <2>3. CASE Register(c)
    <3>1. Attach(c, OwnRegistration) /\ Head(up[c]).kind = "register"
      BY <1>5, <2>3 DEF Register, GatewayHears
    <3>2. owner' = [owner EXCEPT ![c] = Self] /\ UNCHANGED <<pending, sentOn>>
      BY <3>1, OwnRegistrationIs DEF Attach, jobState
    <3> QED  BY <1>1, <1>2, <1>3, <2>1, <2>2, <3>1, <3>2 DEF Heard, gatewayVars, RouterInv, RouterTypes
  <2>4. CASE HearHeartbeat(c)
    <3>1. Heartbeat(c, Self, OwnRegistration.device) /\ Head(up[c]).kind = "heartbeat"
      BY <1>5, <2>4 DEF HearHeartbeat, GatewayHears
    <3>2. UNCHANGED <<owner, pending, sentOn>>
      BY <3>1 DEF Heartbeat, jobState
    <3> QED  BY <1>1, <1>2, <1>3, <2>1, <2>2, <3>1, <3>2 DEF Heard, gatewayVars
  <2>5. CASE HearResult(c)
    <3> DEFINE res == [job |-> Head(up[c]).job, runner |-> Self, ok |-> Head(up[c]).ok]
    <3>1. Complete(c, res) /\ Head(up[c]).kind = "result"
      BY <1>5, <2>5 DEF HearResult, GatewayHears
    <3>2. /\ UNCHANGED <<owner, sentOn>>
          /\ pending' = [j \in Jobs |-> IF j \in {Head(up[c]).job} THEN NoRunner ELSE pending[j]]
      BY <3>1 DEF Complete, Settle, presence
    <3>3. Head(up[c]).job \in Jobs
      BY <1>2, <3>1, FrameKinds
    <3> QED  BY <1>1, <1>2, <1>3, <2>1, <2>2, <3>1, <3>2, <3>3 DEF Heard, gatewayVars
  <2> QED  BY <2>3, <2>4, <2>5
<1> QED  BY <1>4, <1>5

LEMMA GatewaySends ==
    ASSUME LinkInv, GatewayStep
    PROVE  DownGrows /\ UNCHANGED clientVars
<1> USE DEF LinkInv
<1>1. \A code \in {4403, 4400, 1000} : CloseFrame(code) \in DownFrames \ {Plain("upgraded")}
  BY FramesAre, FrameKinds
<1>2. Plain("fin") \in DownFrames \ {Plain("upgraded")}
  BY FramesAre DEF Plain
<1>3. \A j \in Jobs : JobFrame(j) \in DownFrames \ {Plain("upgraded")}
  BY FramesAre, FrameKinds
<1>4. ASSUME NEW c \in Conns, Register(c) \/ HearHeartbeat(c) \/ HearResult(c)
      PROVE  DownGrows /\ UNCHANGED clientVars
  BY <1>4, HearingDoes DEF Heard
<1>5. ASSUME NEW c \in Conns, HearClose(c)
      PROVE  DownGrows /\ UNCHANGED clientVars
  <2>1. Head(up[c]) \in UpFrames /\ Head(up[c]).kind = "close"
    BY <1>5, HeadAndTail DEF HearClose, GatewayHears, QueuesTyped
  <2>2. Head(up[c]).code \in {4400, 1000}
    BY <2>1, FrameKinds
  <2> QED  BY <1>1, <1>5, <2>2, SendingDown DEF HearClose
<1>6. ASSUME NEW c \in Conns, CloseTimesOut(c)
      PROVE  DownGrows /\ UNCHANGED clientVars
  BY <1>2, <1>6, SendingDown DEF CloseTimesOut
<1>7. ASSUME NEW c \in Conns, HearFin(c) \/ GatewayCloseEvent(c) \/ PongIsLate(c)
      PROVE  DownGrows /\ UNCHANGED clientVars
  BY <1>7, SendingDown DEF HearFin, GatewayCloseEvent, PongIsLate, linkVars
<1>8. CASE LivenessTimer
  <2> DEFINE dead == {c \in Conns : gw[c] \in {"open", "closing"} /\ c \notin alive}
  <2>1. down' = [c \in Conns |-> IF c \in dead THEN SentDown(c, Plain("fin"))[c] ELSE down[c]]
    BY <1>8 DEF LivenessTimer
  <2>2. ASSUME NEW c \in Conns PROVE SentDown(c, Plain("fin"))[c] \in Seq(DownFrames)
    BY <1>2, SentDownIs
  <2>3. down' \in [Conns -> Seq(DownFrames)]
    BY <2>1, <2>2 DEF QueuesTyped
  <2>4. UNCHANGED clientVars
    BY <1>8 DEF LivenessTimer
  <2> HIDE DEF dead
  <2> QED  BY <1>2, <2>1, <2>3, <2>4, SentDownGrows DEF DownGrows, QueuesTyped
<1>9. ASSUME NEW j \in Jobs, NEW req \in Request, DispatchJob(j, req)
      PROVE  DownGrows /\ UNCHANGED clientVars
  <2>1. sessions[req.runner] \in Conns
    BY <1>9 DEF DispatchJob, Dispatch, DispatchError, Online, Request, RouterInv, RouterTypes
  <2> QED  BY <1>3, <1>9, <2>1, SendingDown DEF DispatchJob
<1>10. CASE RouterAlone
  BY <1>10, SendingDown DEF RouterAlone, linkVars
<1> QED  BY <1>4, <1>5, <1>6, <1>7, <1>8, <1>9, <1>10 DEF GatewayStep, GatewayHearsAny

-----------------------------------------------------------------------------
(***************************************************************************)
(* The link does with its router what the router offers.                   *)
(***************************************************************************)

LEMMA StepsAre ==
    Next <=> ClientStep \/ GatewayStep \/ \E c \in Conns : Cut(c) \/ Upgrade(c)
BY DEF Next, ClientStep, GatewayStep

LEMMA LinkRoutes == LinkInv /\ [Next]_vars => [RouterNext]_routerVars
<1> SUFFICES ASSUME LinkInv, [Next]_vars PROVE [RouterNext]_routerVars
  OBVIOUS
<1>1. ASSUME NEW c \in Conns, Register(c) PROVE [RouterNext]_routerVars
  BY <1>1, OwnRegistrationIs DEF Register, RejectMessage, RouterNext
<1>2. ASSUME NEW c \in Conns, HearHeartbeat(c) PROVE [RouterNext]_routerVars
  BY <1>2, OwnRegistrationIs DEF HearHeartbeat, RejectMessage, RouterNext
<1>3. ASSUME NEW c \in Conns, HearResult(c) PROVE [RouterNext]_routerVars
  <2> DEFINE res == [job |-> Head(up[c]).job, runner |-> Self, ok |-> Head(up[c]).ok]
  <2>1. Head(up[c]) \in UpFrames /\ Head(up[c]).kind = "result"
    BY <1>3, HeadAndTail DEF HearResult, GatewayHears, LinkInv, QueuesTyped
  <2>2. res \in Result
    BY <2>1, FrameKinds DEF Result
  <2>3. Complete(c, res) \/ UNCHANGED routerVars
    BY <1>3 DEF HearResult, RejectMessage
  <2> QED  BY <2>2, <2>3 DEF RouterNext
<1>4. ASSUME NEW c \in Conns, GatewayCloseEvent(c) PROVE [RouterNext]_routerVars
  BY <1>4 DEF GatewayCloseEvent, RouterNext
<1>5. CASE \E j \in Jobs, req \in Request : DispatchJob(j, req)
  BY <1>5 DEF DispatchJob, RouterNext
<1>6. CASE RouterAlone
  BY <1>6 DEF RouterAlone, RouterNext
<1>7. CASE ClientStep
  BY <1>7, ClientSends
<1>8. ASSUME NEW c \in Conns,
             Cut(c) \/ Upgrade(c) \/ HearClose(c) \/ HearFin(c) \/ CloseTimesOut(c) \/ PongIsLate(c)
      PROVE  [RouterNext]_routerVars
  BY <1>8 DEF Cut, Upgrade, HearClose, HearFin, CloseTimesOut, PongIsLate
<1>9. CASE LivenessTimer \/ UNCHANGED vars
  BY <1>9 DEF LivenessTimer, vars
<1> QED
  BY <1>1, <1>2, <1>3, <1>4, <1>5, <1>6, <1>7, <1>8, <1>9, StepsAre
  DEF GatewayStep, GatewayHearsAny

LEMMA KeepsRouterInv == LinkInv /\ [Next]_vars => RouterInv'
BY LinkRoutes, RouterInvNext DEF LinkInv

-----------------------------------------------------------------------------
(***************************************************************************)
(* Every step keeps every part of LinkInv.                                 *)
(***************************************************************************)
LEMMA KeepsEndsTyped == LinkInv /\ [Next]_vars => EndsTyped'
<1> SUFFICES ASSUME LinkInv, [Next]_vars PROVE EndsTyped'
  OBVIOUS
<1> USE DEF LinkInv
<1>1. CASE ClientStep
  <2>1. UNCHANGED <<gw, alive>>
    BY <1>1, ClientSends DEF gatewayVars
  <2>2. cut' = cut \/ LeaveSocket
    BY <1>1
    DEF ClientStep, Connect, ClientHearsAny, ClientOpens, ClientRefused, ClientTakesJob,
        ClientRejectsJob, ClientHearsClose, ClientHearsFin, SendHeartbeat, ClientGivesUp,
        ClientCloseEvent, FinishJob, ProcessEnds, Stop, LoopEmpties, ServiceRestarts,
        Reboot, linkVars
  <2>3. faults' = faults \/ (faults < MaxFaults /\ faults' = faults + 1)
    BY <1>1
    DEF ClientStep, Connect, ClientHearsAny, ClientOpens, ClientRefused, ClientTakesJob,
        ClientRejectsJob, ClientHearsClose, ClientHearsFin, SendHeartbeat, ClientGivesUp,
        FinishJob, Stop, LoopEmpties, ServiceRestarts, Reboot
  <2> QED  BY <2>1, <2>2, <2>3 DEF EndsTyped, LeaveSocket
<1>2. ASSUME NEW c \in Conns, Register(c) \/ HearHeartbeat(c) \/ HearResult(c)
      PROVE  EndsTyped'
  BY <1>2, HearingDoes DEF Heard, EndsTyped
<1>3. ASSUME NEW c \in Conns, HearClose(c) \/ HearFin(c) \/ CloseTimesOut(c) \/ GatewayCloseEvent(c)
      PROVE  EndsTyped'
  BY <1>3 DEF HearClose, HearFin, CloseTimesOut, Ends, GatewayCloseEvent, EndsTyped
<1>4. ASSUME NEW c \in Conns, PongIsLate(c) \/ Cut(c) \/ Upgrade(c)
      PROVE  EndsTyped'
  BY <1>4 DEF PongIsLate, Cut, Upgrade, linkVars, gatewayVars, EndsTyped
<1>5. CASE LivenessTimer
  BY <1>5 DEF LivenessTimer, EndsTyped
<1>6. CASE (\E j \in Jobs, req \in Request : DispatchJob(j, req)) \/ RouterAlone \/ UNCHANGED vars
  BY <1>6 DEF DispatchJob, RouterAlone, vars, gatewayVars, linkVars, EndsTyped
<1> QED
  BY <1>1, <1>2, <1>3, <1>4, <1>5, <1>6, StepsAre DEF GatewayStep, GatewayHearsAny

LEMMA KeepsClientTyped == LinkInv /\ [Next]_vars => ClientTyped'
<1> SUFFICES ASSUME LinkInv, [Next]_vars PROVE ClientTyped'
  OBVIOUS
<1> USE DEF LinkInv
<1>1. CASE ClientTakesJob
  <2>1. Head(down[sock]) \in DownFrames /\ Head(down[sock]).kind = "job"
    BY <1>1, HeadAndTail DEF ClientTakesJob, ClientHears, QueuesTyped, ClientTyped
  <2>2. Head(down[sock]).job \in Jobs
    BY <2>1, FrameKinds
  <2> QED  BY <1>1, <2>2 DEF ClientTakesJob, ClientTyped
<1>2. CASE ClientHearsAny /\ ~ClientTakesJob
  BY <1>2
  DEF ClientHearsAny, ClientOpens, ClientRefused, ClientRejectsJob, ClientHearsClose,
      ClientHearsFin, ClientCloseEvent, LeaveSocket, ClientTyped
<1>3. CASE SendHeartbeat \/ ClientGivesUp \/ Stop \/ LoopEmpties \/ ServiceRestarts \/ Reboot
  BY <1>3
  DEF SendHeartbeat, ClientGivesUp, ClientCloseEvent, Stop, LoopEmpties, ServiceRestarts,
      Reboot, ProcessEnds, LeaveSocket, clientVars, ClientTyped
<1>4. ASSUME NEW j \in Jobs, NEW ok \in BOOLEAN, FinishJob(j, ok)
      PROVE  ClientTyped'
  BY <1>4 DEF FinishJob, ProcessEnds, LeaveSocket, ClientTyped
<1>5. ASSUME NEW c \in Conns, Connect(c) \/ Cut(c) \/ Upgrade(c)
      PROVE  ClientTyped'
  BY <1>5 DEF Connect, Cut, Upgrade, clientVars, ClientTyped
<1>6. CASE GatewayStep \/ UNCHANGED vars
  BY <1>6, GatewaySends DEF vars, clientVars, ClientTyped
<1> QED  BY <1>1, <1>2, <1>3, <1>4, <1>5, <1>6, StepsAre DEF ClientStep

LEMMA KeepsQueuesTyped == LinkInv /\ [Next]_vars => QueuesTyped'
<1> SUFFICES ASSUME LinkInv, [Next]_vars PROVE QueuesTyped'
  OBVIOUS
<1> USE DEF LinkInv
<1>1. CASE ClientStep
  <2>1. down' = down \/ LeaveSocket \/ (ClientHearsAny /\ Consume)
    BY <1>1
    DEF ClientStep, Connect, ClientHearsAny, ClientOpens, ClientRefused, ClientTakesJob,
        ClientRejectsJob, ClientHearsClose, ClientHearsFin, SendHeartbeat, ClientGivesUp,
        ClientCloseEvent, FinishJob, ProcessEnds, Stop, LoopEmpties, ServiceRestarts,
        Reboot, linkVars
  <2>2. CASE ClientHearsAny /\ Consume
    <3>1. sock \in Conns /\ down[sock] # <<>>
      BY <2>2
      DEF ClientHearsAny, ClientOpens, ClientRefused, ClientTakesJob, ClientRejectsJob,
          ClientHearsClose, ClientHearsFin, ClientHears, ClientTyped
    <3>2. Tail(down[sock]) \in Seq(DownFrames)
      BY <3>1, HeadAndTail DEF QueuesTyped
    <3> QED  BY <1>1, <2>2, <3>2, ClientSends DEF Consume, UpGrows, QueuesTyped
  <2>3. CASE LeaveSocket
    <3>1. <<>> \in Seq(DownFrames)
      OBVIOUS
    <3>2. down' \in [Conns -> Seq(DownFrames)]
      BY <2>3, <3>1 DEF LeaveSocket, QueuesTyped
    <3> QED  BY <1>1, <3>2, ClientSends DEF UpGrows, QueuesTyped
  <2>4. CASE down' = down
    BY <1>1, <2>4, ClientSends DEF UpGrows, QueuesTyped
  <2> QED  BY <2>1, <2>2, <2>3, <2>4
<1>2. CASE GatewayStep
  <2>1. down' \in [Conns -> Seq(DownFrames)]
    BY <1>2, GatewaySends DEF DownGrows
  <2>2. ASSUME NEW c \in Conns, Register(c) \/ HearHeartbeat(c) \/ HearResult(c)
        PROVE  up' \in [Conns -> Seq(UpFrames)]
    <3>1. up[c] # <<>> /\ up' = [up EXCEPT ![c] = Tail(@)]
      BY <2>2, HearingDoes DEF Heard
    <3>2. Tail(up[c]) \in Seq(UpFrames)
      BY <3>1, HeadAndTail DEF QueuesTyped
    <3> QED  BY <3>1, <3>2 DEF QueuesTyped
  <2>3. ASSUME NEW c \in Conns,
               HearClose(c) \/ HearFin(c) \/ CloseTimesOut(c) \/ GatewayCloseEvent(c) \/ PongIsLate(c)
        PROVE  up' \in [Conns -> Seq(UpFrames)]
    <3>1. <<>> \in Seq(UpFrames)
      OBVIOUS
    <3>2. up' = up \/ up' = [up EXCEPT ![c] = <<>>]
      BY <2>3
      DEF HearClose, HearFin, CloseTimesOut, Ends, GatewayCloseEvent, PongIsLate, linkVars
    <3> QED  BY <3>1, <3>2 DEF QueuesTyped
  <2>4. CASE LivenessTimer \/ (\E j \in Jobs, req \in Request : DispatchJob(j, req)) \/ RouterAlone
    <3>1. <<>> \in Seq(UpFrames)
      OBVIOUS
    <3>2. CASE LivenessTimer
      <4> DEFINE dead == {c \in Conns : gw[c] \in {"open", "closing"} /\ c \notin alive}
      <4>1. up' = [c \in Conns |-> IF c \in dead THEN <<>> ELSE up[c]]
        BY <3>2 DEF LivenessTimer
      <4> HIDE DEF dead
      <4> QED  BY <2>1, <3>1, <4>1 DEF QueuesTyped
    <3>3. CASE up' = up
      BY <2>1, <3>3 DEF QueuesTyped
    <3> QED  BY <2>4, <3>2, <3>3 DEF DispatchJob, RouterAlone, linkVars
  <2> QED
    BY <1>2, <2>1, <2>2, <2>3, <2>4 DEF GatewayStep, GatewayHearsAny, QueuesTyped
<1>3. ASSUME NEW c \in Conns, Cut(c) \/ Upgrade(c)
      PROVE  QueuesTyped'
  <2>1. <<Plain("upgraded")>> \in Seq(DownFrames) /\ <<Plain("unauthorized")>> \in Seq(DownFrames)
    BY FramesAre
  <2>2. CASE Upgrade(c)
    BY <2>1, <2>2 DEF Upgrade, QueuesTyped
  <2>3. CASE Cut(c)
    <3>1. <<>> \in Seq(UpFrames) /\ <<>> \in Seq(DownFrames)
      OBVIOUS
    <3> QED  BY <2>3, <3>1 DEF Cut, QueuesTyped
  <2> QED  BY <1>3, <2>2, <2>3
<1>4. CASE UNCHANGED vars
  BY <1>4 DEF vars, linkVars, QueuesTyped
<1> QED  BY <1>1, <1>2, <1>3, <1>4, StepsAre

LEMMA KeepsOwnSessions == LinkInv /\ [Next]_vars => OwnSessions'
<1> SUFFICES ASSUME LinkInv, [Next]_vars PROVE OwnSessions'
  OBVIOUS
<1> USE DEF LinkInv
<1>1. CASE ClientStep
  BY <1>1, ClientSends DEF routerVars, gatewayVars, OwnSessions
<1>2. ASSUME NEW c \in Conns, Register(c) \/ HearHeartbeat(c) \/ HearResult(c)
      PROVE  OwnSessions'
  BY <1>2, HearingDoes DEF Heard, EndsTyped, OwnSessions
<1>3. ASSUME NEW c \in Conns, HearClose(c) \/ HearFin(c) \/ CloseTimesOut(c)
      PROVE  OwnSessions'
  BY <1>3 DEF HearClose, HearFin, CloseTimesOut, Ends, routerVars, EndsTyped, OwnSessions
<1>4. ASSUME NEW c \in Conns, GatewayCloseEvent(c)
      PROVE  OwnSessions'
  <2>1. owner' = [owner EXCEPT ![c] = NoRunner]
    BY <1>4 DEF GatewayCloseEvent, Disconnect, Leaves, routerVars, RouterInv, RouterTypes
  <2>2. gw' = [gw EXCEPT ![c] = "none"]
    BY <1>4 DEF GatewayCloseEvent
  <2>3. Self # NoRunner
    OBVIOUS
  <2> QED  BY <2>1, <2>2, <2>3 DEF EndsTyped, RouterInv, RouterTypes, OwnSessions
<1>5. ASSUME NEW c \in Conns, PongIsLate(c) \/ Cut(c) \/ Upgrade(c)
      PROVE  OwnSessions'
  BY <1>5 DEF PongIsLate, Cut, Upgrade, routerVars, gatewayVars, EndsTyped, OwnSessions
<1>6. CASE LivenessTimer \/ UNCHANGED vars
  BY <1>6 DEF LivenessTimer, vars, routerVars, gatewayVars, EndsTyped, OwnSessions
<1>7. CASE (\E j \in Jobs, req \in Request : DispatchJob(j, req)) \/ RouterAlone
  <2>1. UNCHANGED <<owner, gw>>
    BY <1>7
    DEF DispatchJob, Dispatch, RouterAlone, RefuseDispatch, JobTimer, Tick, presence, gatewayVars
  <2> QED  BY <2>1 DEF OwnSessions
<1> QED
  BY <1>1, <1>2, <1>3, <1>4, <1>5, <1>6, <1>7, StepsAre DEF GatewayStep, GatewayHearsAny

LEMMA KeepsUpIsHeard == LinkInv /\ [Next]_vars => UpIsHeard'
<1> SUFFICES ASSUME LinkInv, [Next]_vars PROVE UpIsHeard'
  OBVIOUS
<1> USE DEF LinkInv
<1>1. CASE ClientStep
  <2>1. UpGrows /\ gw' = gw
    BY <1>1, ClientSends DEF gatewayVars
  <2> QED  BY <2>1 DEF UpGrows, UpIsHeard
<1>2. ASSUME NEW c \in Conns, Register(c) \/ HearHeartbeat(c) \/ HearResult(c)
      PROVE  UpIsHeard'
  <2>1. Heard(c)
    BY <1>2, HearingDoes
  <2>2. gw'[c] \in {"open", "closing"} /\ \A d \in Conns : d # c => gw'[d] = gw[d] /\ up'[d] = up[d]
    BY <2>1 DEF Heard, EndsTyped, QueuesTyped
  <2> QED  BY <2>2 DEF UpIsHeard
<1>3. ASSUME NEW c \in Conns, HearClose(c) \/ HearFin(c) \/ CloseTimesOut(c) \/ GatewayCloseEvent(c)
      PROVE  UpIsHeard'
  <2>1. CASE Ends(c)
    BY <2>1 DEF Ends, EndsTyped, QueuesTyped, UpIsHeard
  <2>2. CASE GatewayCloseEvent(c)
    BY <2>2 DEF GatewayCloseEvent, EndsTyped, QueuesTyped, UpIsHeard
  <2> QED  BY <1>3, <2>1, <2>2 DEF HearClose, HearFin, CloseTimesOut
<1>4. ASSUME NEW c \in Conns, PongIsLate(c) \/ Cut(c) \/ Upgrade(c)
      PROVE  UpIsHeard'
  BY <1>4
  DEF PongIsLate, Cut, Upgrade, gatewayVars, linkVars, EndsTyped, QueuesTyped, UpIsHeard
<1>5. CASE LivenessTimer
  BY <1>5 DEF LivenessTimer, EndsTyped, QueuesTyped, UpIsHeard
<1>6. CASE (\E j \in Jobs, req \in Request : DispatchJob(j, req)) \/ RouterAlone \/ UNCHANGED vars
  BY <1>6 DEF DispatchJob, RouterAlone, vars, gatewayVars, linkVars, UpIsHeard
<1> QED
  BY <1>1, <1>2, <1>3, <1>4, <1>5, <1>6, StepsAre DEF GatewayStep, GatewayHearsAny

\* What a step of the client does to its end of the socket and its own queue:
\* it leaves the socket, takes a frame, stays as it is or closes, or has none.
Takes ==
    /\ sock \in Conns /\ sock' = sock
    /\ down[sock] # <<>> /\ Consume
    /\ cl' \in {"open", "closing"} \/ (cl' = cl /\ up' = up)
    /\ proc' = proc
Stays ==
    /\ UNCHANGED <<sock, down>>
    /\ cl' = cl \/ (cl = "open" /\ cl' = "closing")
    /\ cl' = "connecting" => up' = up
    /\ proc' # "crashed" \/ proc' = proc
Begins ==
    /\ sock = NoConn /\ UNCHANGED <<up, down>>
    /\ proc' = "running"
    /\ \/ cl' = "starting" /\ sock' = NoConn
       \/ cl' = "connecting" /\ sock' \in Conns /\ gw[sock'] = "none"

LEMMA ClientMoves ==
    ASSUME LinkInv, ClientStep
    PROVE  (LeaveSocket /\ cl' \in {"starting", "closed"}) \/ Takes \/ Stays \/ Begins
<1> USE DEF LinkInv
<1>1. CASE ClientHearsAny
  <2>1. sock \in Conns /\ down[sock] # <<>>
    BY <1>1
    DEF ClientHearsAny, ClientOpens, ClientRefused, ClientTakesJob, ClientRejectsJob,
        ClientHearsClose, ClientHearsFin, ClientHears, ClientTyped
  <2>2. CASE ClientOpens \/ ClientTakesJob \/ ClientRejectsJob
    BY <2>1, <2>2 DEF ClientOpens, ClientTakesJob, ClientRejectsJob, Takes
  <2>3. CASE ClientRefused \/ ClientHearsClose \/ ClientHearsFin
    BY <2>3 DEF ClientRefused, ClientHearsClose, ClientHearsFin, ClientCloseEvent
  <2> QED  BY <1>1, <2>2, <2>3 DEF ClientHearsAny
<1>2. ASSUME NEW c \in Conns, Connect(c) PROVE Begins
  BY <1>2 DEF Connect, linkVars, SocketFits, Begins
<1>3. CASE ServiceRestarts
  BY <1>3 DEF ServiceRestarts, linkVars, SocketFits, Begins
<1>4. CASE SendHeartbeat
  BY <1>4 DEF SendHeartbeat, clientVars, Stays
<1>5. CASE ClientGivesUp \/ Reboot
  BY <1>5 DEF ClientGivesUp, ClientCloseEvent, Reboot, ProcessEnds
<1>6. CASE LoopEmpties
  BY <1>6 DEF LoopEmpties, linkVars, Stays
<1>7. CASE Stop
  BY <1>7 DEF Stop, linkVars, Stays
<1>8. ASSUME NEW j \in Jobs, NEW ok \in BOOLEAN, FinishJob(j, ok)
      PROVE  (LeaveSocket /\ cl' \in {"starting", "closed"}) \/ Stays
  BY <1>8 DEF FinishJob, ProcessEnds, Stays
<1> QED  BY <1>1, <1>2, <1>3, <1>4, <1>5, <1>6, <1>7, <1>8 DEF ClientStep

\* A frame that is taken leaves the later ones; every other queue is empty.
LEMMA TakesDown ==
    ASSUME LinkInv, Takes
    PROVE  /\ \A c \in Conns : c # sock => down'[c] = down[c]
           /\ down'[sock] = Tail(down[sock])
           /\ \A i \in DOMAIN down'[sock] : down'[sock][i] # Plain("upgraded")
<1> USE DEF LinkInv
<1>1. sock \in Conns /\ down[sock] \in Seq(DownFrames) /\ down[sock] # <<>>
  BY DEF Takes, QueuesTyped
<1>2. \A c \in Conns : c # sock => down'[c] = down[c]
  BY <1>1 DEF Takes, Consume, QueuesTyped
<1>3. down'[sock] = Tail(down[sock])
  BY <1>1 DEF Takes, Consume, QueuesTyped
<1>4. \A i \in DOMAIN Tail(down[sock]) :
        i + 1 \in DOMAIN down[sock] /\ i + 1 > 1 /\ Tail(down[sock])[i] = down[sock][i + 1]
  BY <1>1, HeadAndTail
<1>5. ASSUME NEW i \in DOMAIN Tail(down[sock]), Tail(down[sock])[i] = Plain("upgraded") PROVE FALSE
  <2>1. i + 1 = 1
    BY <1>1, <1>4, <1>5 DEF UpgradedFirst
  <2> QED  BY <1>4, <2>1
<1> QED  BY <1>2, <1>3, <1>5

LEMMA KeepsDownIsHeard == LinkInv /\ [Next]_vars => DownIsHeard'
<1> SUFFICES ASSUME LinkInv, [Next]_vars PROVE DownIsHeard'
  OBVIOUS
<1> USE DEF LinkInv
<1>1. CASE ClientStep
  <2>1. CASE LeaveSocket
    BY <2>1 DEF LeaveSocket, DownIsHeard
  <2>2. CASE Takes
    BY <2>2, TakesDown DEF Takes, DownIsHeard
  <2>3. CASE Stays \/ Begins
    BY <2>3 DEF Stays, Begins, DownIsHeard
  <2> QED  BY <1>1, <2>1, <2>2, <2>3, ClientMoves
<1>2. CASE GatewayStep
  BY <1>2, GatewaySends DEF DownGrows, clientVars, DownIsHeard
<1>3. ASSUME NEW c \in Conns, Cut(c) \/ Upgrade(c)
      PROVE  DownIsHeard'
  BY <1>3 DEF Cut, Upgrade, clientVars, QueuesTyped, DownIsHeard
<1>4. CASE UNCHANGED vars
  BY <1>4 DEF vars, linkVars, clientVars, DownIsHeard
<1> QED  BY <1>1, <1>2, <1>3, <1>4, StepsAre

LEMMA KeepsSocketFits == LinkInv /\ [Next]_vars => SocketFits'
<1> SUFFICES ASSUME LinkInv, [Next]_vars PROVE SocketFits'
  OBVIOUS
<1> USE DEF LinkInv
<1>1. CASE ClientStep
  <2>1. CASE LeaveSocket /\ cl' \in {"starting", "closed"}
    BY <2>1 DEF LeaveSocket, SocketFits
  <2>2. CASE Takes
    BY <2>2 DEF Takes, SocketFits
  <2>3. CASE Stays
    BY <2>3 DEF Stays, SocketFits
  <2>4. CASE Begins
    BY <2>4 DEF Begins, SocketFits
  <2> QED  BY <1>1, <2>1, <2>2, <2>3, <2>4, ClientMoves
<1>2. CASE GatewayStep \/ UNCHANGED vars
  BY <1>2, GatewaySends DEF vars, clientVars, SocketFits
<1>3. ASSUME NEW c \in Conns, Cut(c) \/ Upgrade(c)
      PROVE  SocketFits'
  BY <1>3 DEF Cut, Upgrade, clientVars, SocketFits
<1> QED  BY <1>1, <1>2, <1>3, StepsAre

LEMMA KeepsOpensFirst == LinkInv /\ [Next]_vars => OpensFirst'
<1> SUFFICES ASSUME LinkInv, [Next]_vars, cl' = "connecting"
             PROVE  up'[sock'] = <<>> /\ owner'[sock'] = NoRunner
  BY DEF OpensFirst
<1> USE DEF LinkInv
<1>1. CASE ClientStep
  <2>1. owner' = owner
    BY <1>1, ClientSends DEF routerVars
  <2>2. CASE Takes \/ Stays
    BY <2>1, <2>2 DEF Takes, Stays, OpensFirst
  <2>3. CASE Begins
    <3>1. sock' \in Conns /\ gw[sock'] = "none" /\ up' = up
      BY <2>3 DEF Begins
    <3>2. owner[sock'] # Self
      BY <3>1 DEF OwnSessions
    <3> QED  BY <2>1, <3>1, <3>2 DEF UpIsHeard, OwnSessions
  <2> QED  BY <1>1, <2>2, <2>3, ClientMoves
<1>2. ASSUME UNCHANGED <<sock, cl>>
      PROVE  sock \in Conns /\ up[sock] = <<>> /\ owner[sock] = NoRunner
  BY <1>2 DEF OpensFirst, SocketFits, ClientTyped
<1>3. ASSUME NEW c \in Conns, Register(c) \/ HearHeartbeat(c) \/ HearResult(c)
      PROVE  up'[sock'] = <<>> /\ owner'[sock'] = NoRunner
  <2>1. Heard(c)
    BY <1>3, HearingDoes
  <2>2. c # sock
    BY <1>2, <2>1 DEF Heard, clientVars
  <2> QED  BY <1>2, <2>1, <2>2 DEF Heard, clientVars, QueuesTyped
<1>4. ASSUME NEW c \in Conns, HearClose(c) \/ HearFin(c) \/ CloseTimesOut(c)
      PROVE  up'[sock'] = <<>> /\ owner'[sock'] = NoRunner
  BY <1>2, <1>4 DEF HearClose, HearFin, CloseTimesOut, Ends, routerVars, clientVars, QueuesTyped
<1>5. ASSUME NEW c \in Conns, GatewayCloseEvent(c)
      PROVE  up'[sock'] = <<>> /\ owner'[sock'] = NoRunner
  <2>1. owner' = owner \/ owner' = [owner EXCEPT ![c] = NoRunner]
    BY <1>5 DEF GatewayCloseEvent, Disconnect, Leaves, routerVars
  <2> QED
    BY <1>2, <1>5, <2>1 DEF GatewayCloseEvent, clientVars, RouterInv, RouterTypes
<1>6. ASSUME NEW c \in Conns, PongIsLate(c) \/ Cut(c) \/ Upgrade(c)
      PROVE  up'[sock'] = <<>> /\ owner'[sock'] = NoRunner
  BY <1>2, <1>6 DEF PongIsLate, Cut, Upgrade, linkVars, routerVars, clientVars, QueuesTyped
<1>7. CASE LivenessTimer
  BY <1>2, <1>7 DEF LivenessTimer, routerVars, clientVars
<1>8. CASE (\E j \in Jobs, req \in Request : DispatchJob(j, req)) \/ RouterAlone
  <2>1. UNCHANGED <<owner, up, sock, cl>>
    BY <1>8
    DEF DispatchJob, Dispatch, RouterAlone, RefuseDispatch, JobTimer, Tick, presence, linkVars, clientVars
  <2> QED  BY <1>2, <2>1
<1>9. CASE UNCHANGED vars
  BY <1>2, <1>9 DEF vars, routerVars, linkVars, clientVars
<1> QED
  BY <1>1, <1>3, <1>4, <1>5, <1>6, <1>7, <1>8, <1>9, StepsAre DEF GatewayStep, GatewayHearsAny

LEMMA KeepsUpgradedFirst == LinkInv /\ [Next]_vars => UpgradedFirst'
<1> SUFFICES ASSUME LinkInv, [Next]_vars,
                    NEW c \in Conns, NEW i \in DOMAIN down'[c], down'[c][i] = Plain("upgraded")
             PROVE  i = 1 /\ cl' = "connecting"
  BY DEF UpgradedFirst
<1> USE DEF LinkInv
<1> DOMAIN <<>> = {}
  OBVIOUS
<1>1. CASE ClientStep
  <2>1. CASE LeaveSocket
    BY <2>1 DEF LeaveSocket, DownIsHeard
  <2>2. CASE Takes
    BY <2>2, TakesDown DEF Takes, DownIsHeard
  <2>3. CASE Stays
    BY <2>3 DEF Stays, UpgradedFirst
  <2>4. CASE Begins
    <3>1. c # sock
      BY <2>4 DEF Begins
    <3> QED  BY <2>4, <3>1 DEF Begins, DownIsHeard
  <2> QED  BY <1>1, <2>1, <2>2, <2>3, <2>4, ClientMoves
<1>2. CASE GatewayStep
  BY <1>2, GatewaySends DEF DownGrows, clientVars, UpgradedFirst
<1>3. ASSUME NEW d \in Conns, Cut(d)
      PROVE  i = 1 /\ cl' = "connecting"
  BY <1>3 DEF Cut, clientVars, QueuesTyped, UpgradedFirst
<1>4. ASSUME NEW d \in Conns, Upgrade(d)
      PROVE  i = 1 /\ cl' = "connecting"
  <2>1. \A f : DOMAIN <<f>> = {1}
    OBVIOUS
  <2>2. CASE c = d
    <3>1. down'[c] = <<Plain("upgraded")>> \/ down'[c] = <<Plain("unauthorized")>>
      BY <1>4, <2>2 DEF Upgrade, QueuesTyped
    <3> QED  BY <1>4, <2>1, <3>1 DEF Upgrade, clientVars
  <2>3. CASE c # d
    BY <1>4, <2>3 DEF Upgrade, clientVars, QueuesTyped, UpgradedFirst
  <2> QED  BY <2>2, <2>3
<1>5. CASE UNCHANGED vars
  BY <1>5 DEF vars, linkVars, clientVars, UpgradedFirst
<1> QED  BY <1>1, <1>2, <1>3, <1>4, <1>5, StepsAre

\* The client opens a socket no session has used yet.
LEMMA OpensUnused ==
    ASSUME LinkInv, ClientOpens
    PROVE  sock \in Conns /\ cl = "connecting" /\ owner[sock] = NoRunner
<1> USE DEF LinkInv
<1>1. sock \in Conns /\ down[sock] # <<>> /\ Head(down[sock]).kind = "upgraded"
  BY DEF ClientOpens, ClientHears, ClientTyped
<1>2. /\ down[sock] \in Seq(DownFrames) /\ Head(down[sock]) \in DownFrames
      /\ 1 \in DOMAIN down[sock] /\ Head(down[sock]) = down[sock][1]
  BY <1>1, HeadAndTail DEF QueuesTyped
<1>3. Head(down[sock]) = Plain("upgraded")
  BY <1>1, <1>2 DEF DownFrames, Plain, CloseFrame
<1> QED  BY <1>1, <1>2, <1>3 DEF UpgradedFirst, OpensFirst

LEMMA KeepsNoIdleSocket == LinkInv /\ [Next]_vars => NoIdleSocket'
<1> SUFFICES ASSUME LinkInv, [Next]_vars,
                    NEW c \in Conns, sock' = c, cl' = "open", gw'[c] = "open", c \notin cut'
             PROVE  owner'[c] = Self \/ Carries(up'[c], Plain("register"))
  BY DEF NoIdleSocket
<1> USE DEF LinkInv
<1>1. CASE ClientStep
  <2>1. UpGrows /\ UNCHANGED <<gw, owner>>
    BY <1>1, ClientSends DEF routerVars, gatewayVars
  <2>2. CASE ClientOpens
    <3>1. sock = c /\ c \notin cut /\ gw[c] = "open" /\ up' = SentUp(c, Plain("register"))
      BY <2>1, <2>2 DEF ClientOpens
    <3>2. Plain("register") \in UpFrames
      BY FramesAre
    <3>3. up'[c] = Append(up[c], Plain("register"))
      BY <3>1, <3>2, SentUpIs
    <3> QED  BY <3>2, <3>3, CarriesAppend DEF QueuesTyped
  <2>3. CASE cl = "open" /\ UNCHANGED <<sock, cut>>
    BY <2>1, <2>3 DEF UpGrows, NoIdleSocket
  <2> QED  BY <1>1, <2>2, <2>3, ClientStaysOpen
<1>2. CASE GatewayStep
  <2>1. sock = c /\ cl = "open"
    BY <1>2, GatewaySends DEF clientVars
  <2>2. ASSUME NEW d \in Conns, Register(d) \/ HearHeartbeat(d) \/ HearResult(d)
        PROVE  owner'[c] = Self \/ Carries(up'[c], Plain("register"))
    <3>1. Heard(d)
      BY <2>2, HearingDoes
    <3>2. gw[c] = "open" /\ c \notin cut
      BY <3>1 DEF Heard, EndsTyped
    <3>3. CASE owner[c] = Self
      BY <3>1, <3>3 DEF Heard
    <3>4. CASE c # d /\ Carries(up[c], Plain("register"))
      BY <3>1, <3>4 DEF Heard, QueuesTyped
    <3>5. CASE c = d /\ Carries(up[c], Plain("register"))
      <4>1. up'[c] = Tail(up[c]) /\ up[c] # <<>> /\ up[c] \in Seq(UpFrames)
        BY <3>1, <3>5 DEF Heard, QueuesTyped
      <4>2. Plain("register") = Head(up[c]) \/ Carries(Tail(up[c]), Plain("register"))
        BY <3>5, <4>1, CarriesTail
      <4>3. Plain("register").kind = "register"
        BY FrameKinds
      <4>4. Head(up[c]).kind = "register" => owner'[c] = Self
        BY <3>1, <3>5 DEF Heard
      <4> QED  BY <4>1, <4>2, <4>3, <4>4
    <3> QED  BY <2>1, <3>2, <3>3, <3>4, <3>5 DEF NoIdleSocket
  <2>3. ASSUME NEW d \in Conns,
               HearClose(d) \/ HearFin(d) \/ CloseTimesOut(d) \/ GatewayCloseEvent(d)
        PROVE  gw[c] = "open" /\ c \notin cut /\ up'[c] = up[c] /\ owner'[c] = owner[c]
    <3>1. d # c /\ gw[c] = "open" /\ up'[c] = up[c]
      BY <2>3 DEF HearClose, HearFin, CloseTimesOut, GatewayCloseEvent, Ends, EndsTyped, QueuesTyped
    <3>2. c \notin cut
      BY <2>3, <3>1 DEF HearClose, HearFin, CloseTimesOut, GatewayCloseEvent
    <3>3. owner'[c] = owner[c]
      BY <2>3, <3>1
      DEF HearClose, HearFin, CloseTimesOut, GatewayCloseEvent, Disconnect, Leaves, routerVars,
          RouterInv, RouterTypes
    <3> QED  BY <3>1, <3>2, <3>3
  <2>4. ASSUME NEW d \in Conns, PongIsLate(d)
        PROVE  gw[c] = "open" /\ c \notin cut /\ up'[c] = up[c] /\ owner'[c] = owner[c]
    BY <2>4 DEF PongIsLate, linkVars, routerVars
  <2>5. CASE LivenessTimer
    <3>1. gw[c] = "open" /\ c \notin cut /\ up'[c] = up[c] /\ owner'[c] = owner[c]
      BY <2>5 DEF LivenessTimer, routerVars
    <3> QED  BY <2>1, <3>1 DEF NoIdleSocket
  <2>6. CASE (\E j \in Jobs, req \in Request : DispatchJob(j, req)) \/ RouterAlone
    <3>1. UNCHANGED <<gw, cut, up, owner>>
      BY <2>6
      DEF DispatchJob, Dispatch, RouterAlone, RefuseDispatch, JobTimer, Tick, presence,
          gatewayVars, linkVars
    <3> QED  BY <2>1, <3>1 DEF NoIdleSocket
  <2> QED
    BY <1>2, <2>1, <2>2, <2>3, <2>4, <2>5, <2>6 DEF GatewayStep, GatewayHearsAny, NoIdleSocket
<1>3. ASSUME NEW d \in Conns, Cut(d)
      PROVE  owner'[c] = Self \/ Carries(up'[c], Plain("register"))
  BY <1>3 DEF Cut, clientVars, gatewayVars, routerVars, QueuesTyped, NoIdleSocket
<1>4. ASSUME NEW d \in Conns, Upgrade(d)
      PROVE  FALSE
  BY <1>4 DEF Upgrade, clientVars
<1>5. CASE UNCHANGED vars
  BY <1>5 DEF vars, linkVars, clientVars, gatewayVars, routerVars, NoIdleSocket
<1> QED  BY <1>1, <1>2, <1>3, <1>4, <1>5, StepsAre

\* Where a job is that was sent and not answered.
OnItsWay(j, c) ==
    \/ Carries(down[c], JobFrame(j))
    \/ j \in executing \ stranded
    \/ \E ok \in BOOLEAN : Carries(up[c], ResultFrame(j, ok))

BothOpen(c) == c \notin cut /\ gw[c] = "open" /\ sock = c /\ cl = "open"

LEMMA NoJobIsLostIs ==
    NoJobIsLost <=> \A j \in Jobs :
        pending[j] # NoRunner /\ BothOpen(sentOn[j]) => OnItsWay(j, sentOn[j])
BY DEF NoJobIsLost, BothOpen, OnItsWay

LEMMA ClientKeepsJobs ==
    ASSUME LinkInv, ClientStep, NEW j \in Jobs, NEW c \in Conns,
           sentOn[j] = c, pending[j] # NoRunner, c \notin cut', gw[c] = "open", sock' = c, cl' = "open"
    PROVE  OnItsWay(j, c)'
<1> USE DEF LinkInv
<1>1. UpGrows /\ gw' = gw
  BY ClientSends DEF gatewayVars
<1>2. ~ClientOpens
  <2>1. owner[c] # NoRunner
    BY DEF RouterInv, PendingOnCarrier, HandleIsSession, Online, RouterTypes
  <2> QED  BY <2>1, OpensUnused DEF ClientOpens
<1>3. cl = "open" /\ UNCHANGED <<sock, cut>>
  BY <1>2, ClientStaysOpen
<1>4. OnItsWay(j, c)
  BY <1>3, NoJobIsLostIs DEF BothOpen
<1>5. CASE ClientTakesJob
  <2>1. down[c] \in Seq(DownFrames) /\ down[c] # <<>> /\ down'[c] = Tail(down[c])
    BY <1>3, <1>5 DEF ClientTakesJob, ClientHears, Consume, QueuesTyped
  <2>2. executing' = executing \cup {Head(down[c]).job} /\ stranded' = stranded \ {Head(down[c]).job}
    BY <1>3, <1>5 DEF ClientTakesJob
  <2>3. CASE Carries(down[c], JobFrame(j))
    <3>1. JobFrame(j) = Head(down[c]) \/ Carries(Tail(down[c]), JobFrame(j))
      BY <2>1, <2>3, CarriesTail
    <3> QED  BY <2>1, <2>2, <3>1, FrameKinds DEF OnItsWay
  <2> QED  BY <1>1, <1>4, <2>2, <2>3 DEF OnItsWay, UpGrows
<1>6. CASE SendHeartbeat
  BY <1>1, <1>4, <1>6 DEF SendHeartbeat, clientVars, OnItsWay, UpGrows
<1>7. ASSUME NEW i \in Jobs, NEW ok \in BOOLEAN, FinishJob(i, ok)
      PROVE  OnItsWay(j, c)'
  <2>1. /\ executing' = executing \ {i} /\ stranded' = stranded \ {i} /\ down' = down
        /\ i \notin stranded => up' = SentUp(c, ResultFrame(i, ok))
    BY <1>3, <1>7 DEF FinishJob
  <2> SUFFICES ASSUME i = j, i \notin stranded PROVE OnItsWay(j, c)'
    BY <1>1, <1>4, <2>1 DEF OnItsWay, UpGrows
  <2>2. ResultFrame(i, ok) \in UpFrames /\ up' = SentUp(c, ResultFrame(i, ok))
    BY <2>1, FramesAre
  <2>3. up'[c] = Append(up[c], ResultFrame(i, ok))
    BY <1>3, <2>2, SentUpIs
  <2>4. Carries(up'[c], ResultFrame(i, ok))
    BY <2>2, <2>3, CarriesAppend DEF QueuesTyped
  <2> QED  BY <1>1, <1>4, <2>1, <2>4 DEF OnItsWay, UpGrows
<1> QED  BY <1>2, <1>5, <1>6, <1>7, ClientStaysOpen

\* A job the gateway still waits for after a message of the client is not the
\* one the message answered.
LEMMA HearingKeepsJobs ==
    ASSUME LinkInv, NEW d \in Conns, Heard(d), DownGrows, NEW j \in Jobs, NEW c \in Conns,
           OnItsWay(j, c), pending'[j] # NoRunner, gw'[c] = "open"
    PROVE  OnItsWay(j, c)'
<1> USE DEF LinkInv
<1>1. /\ UNCHANGED <<executing, stranded>>
      /\ \A f : Carries(down[c], f) => Carries(down'[c], f)
  BY DEF Heard, clientVars, DownGrows
<1>2. ASSUME NEW ok \in BOOLEAN, Carries(up[c], ResultFrame(j, ok))
      PROVE  Carries(up'[c], ResultFrame(j, ok))
  <2>1. CASE c # d
    BY <1>2, <2>1 DEF Heard, QueuesTyped
  <2>2. CASE c = d
    <3>1. up'[c] = Tail(up[c]) /\ up[c] # <<>> /\ up[c] \in Seq(UpFrames)
      BY <2>2 DEF Heard, QueuesTyped
    <3>2. ResultFrame(j, ok) = Head(up[c]) \/ Carries(Tail(up[c]), ResultFrame(j, ok))
      BY <1>2, <3>1, CarriesTail
    <3>3. ResultFrame(j, ok) # Head(up[c])
      BY <2>2, FrameKinds DEF Heard
    <3> QED  BY <3>1, <3>2, <3>3
  <2> QED  BY <2>1, <2>2
<1> QED  BY <1>1, <1>2 DEF OnItsWay

LEMMA KeepsNoJobIsLost == LinkInv /\ [Next]_vars => NoJobIsLost'
<1> SUFFICES ASSUME LinkInv, [Next]_vars, NEW j \in Jobs, NEW c,
                    c = sentOn'[j], pending'[j] # NoRunner, BothOpen(c)'
             PROVE  OnItsWay(j, c)'
  BY DEF NoJobIsLost, BothOpen, OnItsWay
<1> USE DEF LinkInv
<1>0. c \in Conns
  <2>1. sock' \in Conns \cup {NoConn} /\ (sock' = NoConn => cl' \in {"starting", "closed"})
    BY KeepsClientTyped, KeepsSocketFits DEF ClientTyped, SocketFits
  <2> QED  BY <2>1 DEF BothOpen
<1>1. CASE ClientStep
  <2>1. UNCHANGED <<sentOn, pending, gw>>
    BY <1>1, ClientSends DEF routerVars, gatewayVars
  <2> QED  BY <1>0, <1>1, <2>1, ClientKeepsJobs DEF BothOpen
<1>2. ASSUME pending[j] # NoRunner, sentOn[j] = c, BothOpen(c)
      PROVE  OnItsWay(j, c)
  BY <1>2, NoJobIsLostIs
<1>3. CASE GatewayStep
  <2>1. sock = c /\ cl = "open" /\ UNCHANGED <<executing, stranded>> /\ DownGrows
    BY <1>3, GatewaySends DEF clientVars, BothOpen
  <2>2. ASSUME NEW d \in Conns, Register(d) \/ HearHeartbeat(d) \/ HearResult(d)
        PROVE  OnItsWay(j, c)'
    <3>1. Heard(d)
      BY <2>2, HearingDoes
    <3>2. gw[c] = "open" /\ c \notin cut /\ pending[j] # NoRunner /\ sentOn[j] = c
      BY <1>0, <3>1 DEF Heard, BothOpen, EndsTyped
    <3> QED  BY <1>0, <1>2, <2>1, <3>1, <3>2, HearingKeepsJobs DEF BothOpen
  <2>3. ASSUME NEW d \in Conns,
               HearClose(d) \/ HearFin(d) \/ CloseTimesOut(d) \/ GatewayCloseEvent(d)
        PROVE  OnItsWay(j, c)'
    <3>1. d # c /\ gw[c] = "open" /\ up'[c] = up[c]
      BY <1>0, <2>3
      DEF HearClose, HearFin, CloseTimesOut, GatewayCloseEvent, Ends, EndsTyped, QueuesTyped, BothOpen
    <3>2. c \notin cut
      BY <2>3, <3>1 DEF HearClose, HearFin, CloseTimesOut, GatewayCloseEvent, BothOpen
    <3>3. pending[j] # NoRunner /\ sentOn[j] = c
      BY <2>3
      DEF HearClose, HearFin, CloseTimesOut, GatewayCloseEvent, Disconnect, Settle, routerVars
    <3> QED  BY <1>0, <1>2, <2>1, <3>1, <3>2, <3>3 DEF BothOpen, OnItsWay, DownGrows
  <2>4. ASSUME NEW d \in Conns, PongIsLate(d)
        PROVE  OnItsWay(j, c)'
    BY <1>2, <2>1, <2>4 DEF PongIsLate, linkVars, routerVars, BothOpen, OnItsWay
  <2>5. CASE LivenessTimer
    <3>1. /\ gw[c] = "open" /\ c \notin cut /\ up'[c] = up[c]
          /\ pending[j] # NoRunner /\ sentOn[j] = c
      BY <1>0, <2>5 DEF LivenessTimer, routerVars, BothOpen
    <3> QED  BY <1>0, <1>2, <2>1, <3>1 DEF BothOpen, OnItsWay, DownGrows
  <2>6. ASSUME NEW i \in Jobs, NEW req \in Request, DispatchJob(i, req)
        PROVE  OnItsWay(j, c)'
    <3>1. UNCHANGED <<gw, cut, up>> /\ Dispatch(i, req, FALSE)
      BY <2>6 DEF DispatchJob, gatewayVars
    <3>2. CASE i # j
      <4>1. pending[j] # NoRunner /\ sentOn[j] = c
        BY <3>1, <3>2 DEF Dispatch, RouterInv, RouterTypes
      <4> QED  BY <1>0, <1>2, <2>1, <3>1, <4>1 DEF BothOpen, OnItsWay, DownGrows
    <3>3. CASE i = j
      <4>1. sessions[req.runner] = c
        BY <3>1, <3>3 DEF Dispatch, RouterInv, RouterTypes
      <4>2. c \notin cut /\ gw[c] = "open"
        BY <3>1 DEF BothOpen
      <4>3. down' = SentDown(c, JobFrame(j)) /\ JobFrame(j) \in DownFrames
        BY <2>6, <3>3, <4>1, <4>2, FramesAre DEF DispatchJob
      <4>4. down'[c] = Append(down[c], JobFrame(j))
        BY <1>0, <2>1, <4>2, <4>3, SentDownIs
      <4> QED  BY <1>0, <4>3, <4>4, CarriesAppend DEF OnItsWay, QueuesTyped
    <3> QED  BY <3>2, <3>3
  <2>7. CASE RouterAlone
    <3>1. UNCHANGED <<gw, cut, up>> /\ pending[j] # NoRunner /\ sentOn[j] = c
      BY <2>7
      DEF RouterAlone, RefuseDispatch, JobTimer, Settle, Tick, gatewayVars, linkVars
    <3> QED  BY <1>0, <1>2, <2>1, <3>1 DEF BothOpen, OnItsWay, DownGrows
  <2> QED
    BY <1>3, <2>2, <2>3, <2>4, <2>5, <2>6, <2>7 DEF GatewayStep, GatewayHearsAny
<1>4. ASSUME NEW d \in Conns, Cut(d)
      PROVE  OnItsWay(j, c)'
  BY <1>0, <1>2, <1>4
  DEF Cut, clientVars, gatewayVars, routerVars, QueuesTyped, BothOpen, OnItsWay
<1>5. ASSUME NEW d \in Conns, Upgrade(d)
      PROVE  FALSE
  BY <1>5 DEF Upgrade, clientVars, BothOpen
<1>6. CASE UNCHANGED vars
  BY <1>2, <1>6 DEF vars, linkVars, clientVars, gatewayVars, routerVars, BothOpen, OnItsWay
<1> QED  BY <1>1, <1>3, <1>4, <1>5, <1>6, StepsAre

(***************************************************************************)
(* Jobs and their sockets.                                                 *)
(***************************************************************************)
LEMMA AppendAdds ==
    ASSUME NEW S, NEW q \in Seq(S), NEW f \in S, NEW g, Carries(Append(q, f), g)
    PROVE  g = f \/ Carries(q, g)
BY DEF Carries

LEMMA TailAdds ==
    ASSUME NEW S, NEW q \in Seq(S), q # <<>>, NEW g, Carries(Tail(q), g)
    PROVE  Carries(q, g)
BY HeadAndTail DEF Carries

LEMMA SentUpAdds ==
    ASSUME QueuesTyped, NEW c \in Conns, NEW f \in UpFrames, up' = SentUp(c, f)
    PROVE  \A d \in Conns, g \in UpFrames :
               Carries(up'[d], g) => Carries(up[d], g) \/ (g = f /\ d = c)
<1>1. \A d \in Conns : d # c => up'[d] = up[d]
  BY SentUpIs
<1>2. up'[c] = up[c] \/ up'[c] = Append(up[c], f)
  BY SentUpIs
<1>3. \A g \in UpFrames : Carries(Append(up[c], f), g) => g = f \/ Carries(up[c], g)
  BY AppendAdds DEF QueuesTyped
<1> QED  BY <1>1, <1>2, <1>3

LEMMA SentDownAdds ==
    ASSUME QueuesTyped, NEW c \in Conns, NEW f \in DownFrames,
           NEW d \in Conns, NEW g, Carries(SentDown(c, f)[d], g)
    PROVE  Carries(down[d], g) \/ (g = f /\ d = c)
<1>1. CASE SentDown(c, f)[d] = down[d]
  BY <1>1
<1>2. CASE d = c /\ SentDown(c, f)[d] = Append(down[d], f)
  BY <1>2, AppendAdds DEF QueuesTyped
<1>3. d # c => SentDown(c, f)[d] = down[d]
  BY SentDownIs
<1>4. SentDown(c, f)[c] = down[c] \/ SentDown(c, f)[c] = Append(down[c], f)
  BY SentDownIs
<1> QED  BY <1>1, <1>2, <1>3, <1>4

\* A job that was sent is not sent again.
LEMMA SendsOnce ==
    ASSUME LinkInv, [Next]_vars
    PROVE  SentOnce' /\ \A j \in Jobs : sentOn[j] # NoConn => sentOn'[j] = sentOn[j]
<1> USE DEF LinkInv, RouterInv, RouterTypes, SentOnce
<1>1. [RouterNext]_routerVars
  BY LinkRoutes
<1>2. ASSUME NEW j \in Jobs, NEW req \in Request, NEW sendThrows \in BOOLEAN,
             Dispatch(j, req, sendThrows)
      PROVE  SentOnce' /\ \A i \in Jobs : sentOn[i] # NoConn => sentOn'[i] = sentOn[i]
  BY <1>2 DEF Dispatch
<1>3. CASE ~\E j \in Jobs, req \in Request, sendThrows \in BOOLEAN : Dispatch(j, req, sendThrows)
  <2>1. sentOn' = sentOn
    BY <1>1, <1>3
    DEF RouterNext, AddBinding, Attach, Heartbeat, RefuseDispatch, Complete, JobTimer,
        Disconnect, Settle, Tick, routerVars, jobState
  <2>2. \A j \in Jobs : outcome'[j] = "uncalled" => outcome[j] = "uncalled"
    <3>1. CASE UNCHANGED outcome
      BY <3>1
    <3>2. ASSUME NEW S, NEW code \in Settlements, Settle(S, code)
          PROVE  \A j \in Jobs : outcome'[j] = "uncalled" => outcome[j] = "uncalled"
      BY <3>2 DEF Settle, Settlements
    <3>3. ASSUME NEW j \in Jobs, NEW req \in Request, RefuseDispatch(j, req)
          PROVE  \A i \in Jobs : outcome'[i] = "uncalled" => outcome[i] = "uncalled"
      BY <3>3 DEF RefuseDispatch, DispatchError
    <3>4. \/ UNCHANGED outcome
          \/ \E S : \E code \in Settlements : Settle(S, code)
          \/ \E j \in Jobs, req \in Request : RefuseDispatch(j, req)
      BY <1>1, <1>3
      DEF RouterNext, AddBinding, Attach, Heartbeat, Complete, JobTimer, Disconnect, Tick,
          routerVars, jobState, Settlements
    <3> QED  BY <3>1, <3>2, <3>3, <3>4
  <2> QED  BY <2>1, <2>2
<1> QED  BY <1>2, <1>3

\* The client answers on its socket what came over that socket.
LEMMA ClientAnswers ==
    ASSUME LinkInv, ClientStep, NEW j \in Jobs
    PROVE  /\ \A c \in Conns : Carries(up'[c], ResultFrame(j, TRUE)) =>
               Carries(up[c], ResultFrame(j, TRUE)) \/ (c = sock /\ j \in executing \ stranded)
           /\ \A c \in Conns : Carries(down'[c], JobFrame(j)) => Carries(down[c], JobFrame(j))
           /\ j \in executing' \ stranded' =>
               /\ sock \in Conns /\ sock' = sock
               /\ j \in executing \ stranded \/ Carries(down[sock], JobFrame(j))
<1> USE DEF LinkInv
<1>1. \A c \in Conns : Carries(down'[c], JobFrame(j)) => Carries(down[c], JobFrame(j))
  <2>1. CASE LeaveSocket
    BY <2>1 DEF LeaveSocket, Carries
  <2>2. CASE Takes
    <3>1. sock \in Conns /\ down[sock] # <<>> /\ down[sock] \in Seq(DownFrames)
      BY <2>2 DEF Takes, QueuesTyped
    <3> QED  BY <2>2, <3>1, TakesDown, TailAdds
  <2>3. CASE Stays \/ Begins
    BY <2>3 DEF Stays, Begins
  <2> QED  BY <2>1, <2>2, <2>3, ClientMoves
<1>0. QueuesTyped /\ (sock # NoConn => sock \in Conns)
  BY DEF ClientTyped
<1>2. \A c \in Conns : Carries(up'[c], ResultFrame(j, TRUE)) =>
          Carries(up[c], ResultFrame(j, TRUE)) \/ (c = sock /\ j \in executing \ stranded)
  <2> DEFINE others == {f \in UpFrames : f.kind # "result"}
  <2>0. ResultFrame(j, TRUE) \in UpFrames /\ \A f \in others : f \in UpFrames /\ f # ResultFrame(j, TRUE)
    <3>1. ResultFrame(j, TRUE) \in UpFrames
      BY DEF ResultFrame, UpFrames
    <3>2. ResultFrame(j, TRUE).kind = "result"
      BY DEF ResultFrame
    <3> QED  BY <3>1, <3>2
  <2>1. ASSUME NEW i \in Jobs, NEW ok \in BOOLEAN, FinishJob(i, ok)
        PROVE  \/ up' = up
               \/ sock \in Conns /\ \E f \in others : up' = SentUp(sock, f)
               \/ /\ sock \in Conns /\ up' = SentUp(sock, ResultFrame(i, ok))
                  /\ ok => i \in executing \ stranded
    <3>1. cl = "open" => sock \in Conns
      BY DEF SocketFits, ClientTyped
    <3>2. Plain("fin") \in others
      BY FramesAre, FrameKinds
    <3> HIDE DEF others
    <3> QED  BY <2>1, <3>1, <3>2 DEF FinishJob, ProcessEnds, ClientTyped
  <2>2. CASE ~\E i \in Jobs, ok \in BOOLEAN : FinishJob(i, ok)
    <3>1. cl \in {"connecting", "open"} => sock \in Conns
      BY DEF SocketFits, ClientTyped
    <3>2. /\ \A kind \in {"register", "heartbeat", "fin"} : Plain(kind) \in others
          /\ \A code \in {4400, 1000} : CloseFrame(code) \in others
      BY FramesAre, FrameKinds
    <3> HIDE DEF others
    <3>3. ASSUME ClientHearsAny \/ SendHeartbeat \/ ClientGivesUp
          PROVE  up' = up \/ (sock \in Conns /\ \E f \in others : up' = SentUp(sock, f))
      <4>1. up' = up \/ (sock # NoConn /\ \E f \in others : up' = SentUp(sock, f))
        BY <3>1, <3>2, <3>3, RouterAssumption
        DEF ClientHearsAny, ClientOpens, ClientRefused, ClientTakesJob, ClientRejectsJob,
            ClientHearsClose, ClientHearsFin, ClientHears, SendHeartbeat, ClientGivesUp
      <4> QED  BY <1>0, <4>1
    <3>4. ASSUME Stop \/ Reboot
          PROVE  up' = up \/ (sock \in Conns /\ \E f \in others : up' = SentUp(sock, f))
      <4>1. up' = up \/ (sock # NoConn /\ \E f \in others : up' = SentUp(sock, f))
        BY <3>1, <3>2, <3>4 DEF Stop, Reboot, ProcessEnds, linkVars
      <4> QED  BY <1>0, <4>1
    <3>5. ASSUME (\E c \in Conns : Connect(c)) \/ LoopEmpties \/ ServiceRestarts
          PROVE  up' = up
      BY <3>5 DEF Connect, LoopEmpties, ServiceRestarts, linkVars
    <3>6. up' = up \/ (sock \in Conns /\ \E f \in others : up' = SentUp(sock, f))
      BY <2>2, <3>3, <3>4, <3>5 DEF ClientStep
    <3>7. ASSUME sock \in Conns, NEW f \in others, up' = SentUp(sock, f)
          PROVE  \A c \in Conns : Carries(up'[c], ResultFrame(j, TRUE)) =>
                     Carries(up[c], ResultFrame(j, TRUE))
      BY <1>0, <2>0, <3>7, SentUpAdds
    <3> QED  BY <3>6, <3>7
  <2>3. CASE \E i \in Jobs, ok \in BOOLEAN : FinishJob(i, ok)
    <3>1. \A i \in Jobs, ok \in BOOLEAN :
              ResultFrame(i, ok) = ResultFrame(j, TRUE) => i = j /\ ok = TRUE
      BY DEF ResultFrame
    <3>2. ASSUME sock \in Conns, NEW f \in UpFrames, up' = SentUp(sock, f)
          PROVE  \A c \in Conns : Carries(up'[c], ResultFrame(j, TRUE)) =>
                     Carries(up[c], ResultFrame(j, TRUE)) \/ (c = sock /\ f = ResultFrame(j, TRUE))
      <4> DEFINE g == ResultFrame(j, TRUE)
      <4>1. g \in UpFrames
        BY <2>0
      <4> HIDE DEF g
      <4>2. \A c \in Conns : Carries(up'[c], g) => Carries(up[c], g) \/ (g = f /\ c = sock)
        BY <1>0, <3>2, <4>1, SentUpAdds
      <4> QED  BY <4>2 DEF g
    <3> HIDE DEF others
    <3>5. PICK i \in Jobs, ok \in BOOLEAN : FinishJob(i, ok)
      BY <2>3
    <3>6. CASE up' = up
      BY <3>6
    <3>7. CASE sock \in Conns /\ \E f \in others : up' = SentUp(sock, f)
      BY <2>0, <3>2, <3>7
    <3>8. CASE /\ sock \in Conns /\ up' = SentUp(sock, ResultFrame(i, ok))
               /\ ok => i \in executing \ stranded
      <4>1. ResultFrame(i, ok) \in UpFrames
        BY FramesAre
      <4>2. ResultFrame(i, ok) = ResultFrame(j, TRUE) => i = j /\ i \in executing \ stranded
        BY <3>1, <3>8
      <4>3. \A c \in Conns : Carries(up'[c], ResultFrame(j, TRUE)) =>
                Carries(up[c], ResultFrame(j, TRUE)) \/ (c = sock /\ ResultFrame(i, ok) = ResultFrame(j, TRUE))
        BY <3>2, <3>8, <4>1
      <4> QED  BY <4>2, <4>3
    <3> QED  BY <2>1, <3>5, <3>6, <3>7, <3>8
  <2> QED  BY <2>2, <2>3
<1>3. ASSUME j \in executing' \ stranded'
      PROVE  /\ sock \in Conns /\ sock' = sock
             /\ j \in executing \ stranded \/ Carries(down[sock], JobFrame(j))
  <2>1. CASE ClientTakesJob
    <3>1. sock \in Conns /\ sock' = sock /\ down[sock] # <<>>
      BY <2>1 DEF ClientTakesJob, ClientHears, ClientTyped
    <3>2. Head(down[sock]) \in DownFrames /\ 1 \in DOMAIN down[sock] /\ Head(down[sock]) = down[sock][1]
      BY <3>1, HeadAndTail DEF QueuesTyped
    <3>3. Head(down[sock]) = JobFrame(Head(down[sock]).job)
      BY <2>1, <3>2, FrameKinds DEF ClientTakesJob, ClientHears
    <3>4. Carries(down[sock], Head(down[sock]))
      BY <3>2 DEF Carries
    <3> QED  BY <1>3, <2>1, <3>1, <3>3, <3>4 DEF ClientTakesJob
  <2>2. CASE ~ClientTakesJob
    <3>1. executing' \subseteq executing /\ (stranded' = executing' \/ (sock' = sock /\ executing' \ stranded' \subseteq executing \ stranded) \/ (sock = NoConn /\ UNCHANGED <<executing, stranded>>))
      <4>1. CASE ClientHearsAny \/ SendHeartbeat \/ ClientGivesUp
        BY <2>2, <4>1
        DEF ClientHearsAny, ClientOpens, ClientRefused, ClientRejectsJob, ClientHearsClose,
            ClientHearsFin, SendHeartbeat, ClientGivesUp, ClientCloseEvent, LeaveSocket, clientVars
      <4>2. CASE Stop \/ LoopEmpties \/ Reboot \/ ServiceRestarts
        BY <4>2 DEF Stop, LoopEmpties, Reboot, ProcessEnds, LeaveSocket, ServiceRestarts
      <4>3. ASSUME NEW c \in Conns, Connect(c)
            PROVE  UNCHANGED <<executing, stranded>> /\ sock = NoConn
        BY <4>3 DEF Connect, SocketFits
      <4>4. ASSUME NEW i \in Jobs, NEW ok \in BOOLEAN, FinishJob(i, ok)
            PROVE  /\ executing' \subseteq executing
                   /\ stranded' = executing' \/ (sock' = sock /\ executing' \ stranded' \subseteq executing \ stranded)
        BY <4>4 DEF FinishJob, ProcessEnds, LeaveSocket
      <4> QED  BY <2>2, <4>1, <4>2, <4>3, <4>4 DEF ClientStep
    <3> QED  BY <1>3, <3>1, RouterAssumption DEF JobsStay
  <2> QED  BY <2>1, <2>2
<1> QED  BY <1>1, <1>2, <1>3

\* The gateway sends a job on the socket it notes, and no result.
LEMMA GatewayAsks ==
    ASSUME LinkInv, GatewayStep, NEW j \in Jobs, NEW c \in Conns
    PROVE  /\ Carries(up'[c], ResultFrame(j, TRUE)) => Carries(up[c], ResultFrame(j, TRUE))
           /\ Carries(down'[c], JobFrame(j)) => Carries(down[c], JobFrame(j)) \/ sentOn'[j] = c
<1> USE DEF LinkInv
<1> DEFINE others == {f \in DownFrames : f.kind # "job"}
<1>0. QueuesTyped
  OBVIOUS
<1>1. \A f : ~Carries(<<>>, f)
  BY DEF Carries
<1>2. \A d \in Conns : up[d] # <<>> => \A f : Carries(Tail(up[d]), f) => Carries(up[d], f)
  BY TailAdds DEF QueuesTyped
<1>3. ASSUME \/ down' = down
             \/ \E d \in Conns, f \in others : down' = SentDown(d, f)
      PROVE  Carries(down'[c], JobFrame(j)) => Carries(down[c], JobFrame(j))
  <2>1. ASSUME NEW d \in Conns, NEW f \in others, down' = SentDown(d, f), Carries(down'[c], JobFrame(j))
        PROVE  Carries(down[c], JobFrame(j))
    <3>1. f \in DownFrames /\ f # JobFrame(j)
      BY FrameKinds
    <3>2. Carries(SentDown(d, f)[c], JobFrame(j))
      BY <2>1
    <3> QED  BY <1>0, <3>1, <3>2, SentDownAdds
  <2> HIDE DEF others
  <2> QED  BY <1>3, <2>1
<1>4. /\ \A code \in {4403, 4400, 1000} : CloseFrame(code) \in others
      /\ Plain("fin") \in others
  BY FramesAre, FrameKinds
<1> HIDE DEF others
<1>5. ASSUME NEW d \in Conns, Register(d) \/ HearHeartbeat(d) \/ HearResult(d)
      PROVE  /\ Carries(up'[c], ResultFrame(j, TRUE)) => Carries(up[c], ResultFrame(j, TRUE))
             /\ Carries(down'[c], JobFrame(j)) => Carries(down[c], JobFrame(j))
  <2>1. up[d] # <<>> /\ up' = [up EXCEPT ![d] = Tail(@)]
    BY <1>5, HearingDoes DEF Heard
  <2>2. down' = down \/ \E f \in others : down' = SentDown(d, f)
    BY <1>4, <1>5 DEF Register, HearHeartbeat, HearResult, RejectMessage
  <2> QED  BY <1>2, <1>3, <2>1, <2>2 DEF QueuesTyped
<1>6. ASSUME NEW d \in Conns, HearClose(d) \/ HearFin(d) \/ CloseTimesOut(d)
      PROVE  /\ Carries(up'[c], ResultFrame(j, TRUE)) => Carries(up[c], ResultFrame(j, TRUE))
             /\ Carries(down'[c], JobFrame(j)) => Carries(down[c], JobFrame(j))
  <2>1. up' = [up EXCEPT ![d] = <<>>]
    BY <1>6 DEF HearClose, HearFin, CloseTimesOut, Ends
  <2>2. down' = down \/ \E f \in others : down' = SentDown(d, f)
    <3>1. CASE HearClose(d)
      <4>1. Head(up[d]) \in UpFrames /\ Head(up[d]).kind = "close"
        BY <3>1, HeadAndTail DEF HearClose, GatewayHears, QueuesTyped
      <4> QED  BY <1>4, <3>1, <4>1, FrameKinds DEF HearClose
    <3> QED  BY <1>4, <1>6, <3>1 DEF HearFin, CloseTimesOut
  <2> QED  BY <1>1, <1>3, <2>1, <2>2 DEF QueuesTyped
<1>7. ASSUME NEW d \in Conns, GatewayCloseEvent(d) \/ PongIsLate(d)
      PROVE  UNCHANGED <<up, down>>
  BY <1>7 DEF GatewayCloseEvent, PongIsLate, linkVars
<1>8. CASE LivenessTimer
  <2>1. up'[c] = up[c] \/ up'[c] = <<>>
    BY <1>8 DEF LivenessTimer
  <2>2. down'[c] = down[c] \/ down'[c] = SentDown(c, Plain("fin"))[c]
    BY <1>8 DEF LivenessTimer
  <2>3. Plain("fin") \in DownFrames /\ Plain("fin") # JobFrame(j)
    BY FramesAre, FrameKinds
  <2>4. Carries(SentDown(c, Plain("fin"))[c], JobFrame(j)) => Carries(down[c], JobFrame(j))
    BY <1>0, <2>3, SentDownAdds
  <2> QED  BY <1>1, <2>1, <2>2, <2>4
<1>9. ASSUME NEW i \in Jobs, NEW req \in Request, DispatchJob(i, req)
      PROVE  /\ up' = up
             /\ Carries(down'[c], JobFrame(j)) => Carries(down[c], JobFrame(j)) \/ sentOn'[j] = c
  <2>1. sessions[req.runner] \in Conns /\ sentOn'[i] = sessions[req.runner]
    BY <1>9 DEF DispatchJob, Dispatch, DispatchError, Online, Request, RouterInv, RouterTypes
  <2>2. down' = down \/ down' = SentDown(sessions[req.runner], JobFrame(i))
    BY <1>9 DEF DispatchJob
  <2>3. JobFrame(i) \in DownFrames /\ (JobFrame(i) = JobFrame(j) => i = j)
    BY FramesAre DEF JobFrame
  <2> DEFINE d == sessions[req.runner]
  <2>4. Carries(SentDown(d, JobFrame(i))[c], JobFrame(j)) =>
            Carries(down[c], JobFrame(j)) \/ (JobFrame(j) = JobFrame(i) /\ c = d)
    <3> HIDE DEF d
    <3>1. d \in Conns
      BY <2>1 DEF d
    <3> QED  BY <1>0, <2>3, <3>1, SentDownAdds
  <2>5. up' = up
    BY <1>9 DEF DispatchJob
  <2> QED  BY <2>1, <2>2, <2>3, <2>4, <2>5
<1>10. CASE RouterAlone
  BY <1>10 DEF RouterAlone, linkVars
<1> QED  BY <1>5, <1>6, <1>7, <1>8, <1>9, <1>10 DEF GatewayStep, GatewayHearsAny

LEMMA KeepsJobsStay == LinkInv /\ [Next]_vars => SentOnce' /\ JobsStay' /\ ResultsStay'
<1> SUFFICES ASSUME LinkInv, [Next]_vars PROVE SentOnce' /\ JobsStay' /\ ResultsStay'
  OBVIOUS
<1> USE DEF LinkInv
<1>1. \A j \in Jobs : sentOn[j] \in Conns => sentOn'[j] = sentOn[j]
  BY SendsOnce, RouterAssumption
<1>2. CASE ClientStep
  <2>1. ASSUME NEW c \in Conns, NEW j \in Jobs, Carries(up'[c], ResultFrame(j, TRUE))
        PROVE  sentOn'[j] = c
    <3>1. Carries(up[c], ResultFrame(j, TRUE)) \/ (c = sock /\ j \in executing \ stranded)
      BY <1>2, <2>1, ClientAnswers
    <3>2. sentOn[j] = c
      BY <3>1 DEF ResultsStay, JobsStay
    <3> QED  BY <1>1, <3>2
  <2>2. ASSUME NEW c \in Conns, NEW j \in Jobs, Carries(down'[c], JobFrame(j))
        PROVE  sentOn'[j] = c
    <3>1. Carries(down[c], JobFrame(j))
      BY <1>2, <2>2, ClientAnswers
    <3>2. sentOn[j] = c
      BY <3>1 DEF JobsStay
    <3> QED  BY <1>1, <3>2
  <2>3. \A j \in executing' \ stranded' : sock' \in Conns /\ sentOn'[j] = sock'
    <3>1. executing' \subseteq Jobs
      BY KeepsClientTyped DEF ClientTyped
    <3> QED  BY <1>1, <1>2, <3>1, ClientAnswers DEF JobsStay
  <2> QED  BY <2>1, <2>2, <2>3, SendsOnce DEF JobsStay, ResultsStay
<1>3. CASE GatewayStep
  <2>1. UNCHANGED <<sock, executing, stranded>>
    BY <1>3, GatewaySends DEF clientVars
  <2>2. ASSUME NEW c \in Conns, NEW j \in Jobs, Carries(up'[c], ResultFrame(j, TRUE))
        PROVE  sentOn'[j] = c
    <3>1. Carries(up[c], ResultFrame(j, TRUE))
      BY <1>3, <2>2, GatewayAsks
    <3>2. sentOn[j] = c
      BY <3>1 DEF ResultsStay
    <3> QED  BY <1>1, <3>2
  <2>3. ASSUME NEW c \in Conns, NEW j \in Jobs, Carries(down'[c], JobFrame(j))
        PROVE  sentOn'[j] = c
    <3>1. Carries(down[c], JobFrame(j)) \/ sentOn'[j] = c
      BY <1>3, <2>3, GatewayAsks
    <3> QED  BY <1>1, <3>1 DEF JobsStay
  <2>4. \A j \in executing \ stranded : sock \in Conns /\ sentOn'[j] = sock
    BY <1>1 DEF JobsStay, ClientTyped
  <2> QED  BY <2>1, <2>2, <2>3, <2>4, SendsOnce DEF JobsStay, ResultsStay
<1>4. ASSUME NEW d \in Conns, Cut(d) \/ Upgrade(d)
      PROVE  JobsStay' /\ ResultsStay'
  <2>1. UNCHANGED <<sock, executing, stranded, sentOn>>
    BY <1>4 DEF Cut, Upgrade, clientVars, routerVars
  <2>2. \A f : ~Carries(<<>>, f)
    BY DEF Carries
  <2>3. \A j \in Jobs : ~Carries(<<Plain("upgraded")>>, JobFrame(j)) /\ ~Carries(<<Plain("unauthorized")>>, JobFrame(j))
    <3>1. \A j \in Jobs : Plain("upgraded") # JobFrame(j) /\ Plain("unauthorized") # JobFrame(j)
      BY FrameKinds
    <3> QED  BY <3>1 DEF Carries
  <2>4. \A c \in Conns : up'[c] \in {up[c], <<>>} /\ down'[c] \in {down[c], <<>>, <<Plain("upgraded")>>, <<Plain("unauthorized")>>}
    BY <1>4 DEF Cut, Upgrade, QueuesTyped
  <2>5. \A c \in Conns, j \in Jobs :
          /\ Carries(up'[c], ResultFrame(j, TRUE)) => Carries(up[c], ResultFrame(j, TRUE))
          /\ Carries(down'[c], JobFrame(j)) => Carries(down[c], JobFrame(j))
    BY <2>2, <2>3, <2>4
  <2> QED  BY <2>1, <2>5 DEF JobsStay, ResultsStay
<1>5. CASE UNCHANGED vars
  <2>1. UNCHANGED <<up, down, sock, executing, stranded, sentOn>>
    BY <1>5 DEF vars, linkVars, clientVars, routerVars
  <2> QED  BY <2>1, SendsOnce DEF JobsStay, ResultsStay
<1> QED  BY <1>2, <1>3, <1>4, <1>5, SendsOnce, StepsAre

LEMMA LinkInvInit == Init => LinkInv
<1> SUFFICES ASSUME Init PROVE LinkInv
  OBVIOUS
<1>1. RouterInv
  BY RouterInvInit DEF Init
<1>2. <<>> \in Seq(UpFrames) /\ <<>> \in Seq(DownFrames) /\ DOMAIN <<>> = {}
  OBVIOUS
<1>3. EndsTyped /\ QueuesTyped /\ ClientTyped
  BY <1>2 DEF Init, EndsTyped, QueuesTyped, ClientTyped
<1>4. OwnSessions /\ UpIsHeard /\ DownIsHeard /\ SocketFits /\ OpensFirst /\ UpgradedFirst
  BY <1>2
  DEF Init, RouterInit, OwnSessions, UpIsHeard, DownIsHeard, SocketFits, OpensFirst, UpgradedFirst
<1>5. NoIdleSocket /\ NoJobIsLost
  BY DEF Init, RouterInit, NoIdleSocket, NoJobIsLost
<1>6. SentOnce /\ JobsStay /\ ResultsStay
  BY <1>2 DEF Init, RouterInit, SentOnce, JobsStay, ResultsStay, Carries
<1> QED  BY <1>1, <1>3, <1>4, <1>5, <1>6 DEF LinkInv

LEMMA LinkInvNext == LinkInv /\ [Next]_vars => LinkInv'
BY KeepsRouterInv, KeepsEndsTyped, KeepsQueuesTyped, KeepsClientTyped, KeepsOwnSessions,
   KeepsUpIsHeard, KeepsDownIsHeard, KeepsSocketFits, KeepsOpensFirst, KeepsUpgradedFirst,
   KeepsNoIdleSocket, KeepsNoJobIsLost, KeepsJobsStay
DEF LinkInv

LEMMA LinkInvAlways == Spec => []LinkInv
BY LinkInvInit, LinkInvNext, PTL DEF Spec

\* Sessions and sockets agree, whatever is cut, closed, restarted or late:
\* acceptSocket leaves no session without a socket and no open socket without
\* a session or a registration on its way.
THEOREM LinkIsSafe == Spec => []LinkSafety
<1>1. LinkInv => LinkSafety
  BY DEF LinkInv, RouterInv, EndsTyped, QueuesTyped, ClientTyped, OwnSessions,
         LinkSafety, TypeOK, SessionHasSocket
<1> QED  BY <1>1, LinkInvAlways, PTL

\* On a socket both sides hold open, a job the gateway waits for is on its way
\* to the client, in an executor that will answer there, or on its way back;
\* and no result is ever on another socket than the one its job was sent on.
THEOREM LinkKeepsJobs == Spec => []JobsKept
<1>1. LinkInv => JobsKept
  BY DEF LinkInv, JobsKept
<1> QED  BY <1>1, LinkInvAlways, PTL

\* The gateway and its client do with the router only what RunnerRouter says
\* may be done with it: the messages and close events of sockets, in any order
\* they come, are a behaviour of attach, heartbeat, complete and disconnect.
THEOREM LinkIsRouter == Spec => RouterSpec
<1>1. Init => RouterInit
  BY DEF Init
<1> QED  BY <1>1, LinkRoutes, LinkInvAlways, PTL DEF Spec, RouterSpec

\* So the router's tables stay right behind real sockets.
COROLLARY LinkPresence == Spec => []PresenceKept /\ []PendingOnCarrier
BY LinkIsRouter, RouterPresence, RouterCarrier, PTL

\* And callers of the gateway get what JobDelivery promises, of real sockets too.
COROLLARY LinkDelivers == Spec => AnsweredByCarrier /\ DeliversJobs
BY LinkIsRouter, RouterAnswers, RouterDelivers, PTL
==============================================================================
