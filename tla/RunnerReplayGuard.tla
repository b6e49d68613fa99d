--------------------------- MODULE RunnerReplayGuard ---------------------------
(***************************************************************************)
(* RunnerReplayGuard and authorizeRunnerJob                                *)
(* (src/runner/protocol/src/index.ts): the runner's decision to execute a  *)
(* job envelope.  Envelopes may arrive late, twice and in any order.  The  *)
(* guard forgets a job once it has expired, to stay bounded, and relies on *)
(* the expiry check to keep a forgotten job from running again: the two    *)
(* comparisons must meet exactly.                                          *)
(*                                                                         *)
(* now is Date.now() of the runner's computer and is assumed never to step *)
(* back; one guard lives as long as the runner's process.                  *)
(***************************************************************************)
EXTENDS Naturals, FiniteSets

CONSTANTS
    JobIds,       \* job ids; an id comes with one envelope only
    Capacity,   \* capacity of the guard
    Skew,       \* MAX_RUNNER_CLOCK_SKEW_MS
    MaxTime     \* bound on every clock value

ASSUME GuardAssumption ==
    /\ Capacity \in Nat \ {0}
    /\ Skew \in Nat
    /\ MaxTime \in Nat

Times == 0 .. MaxTime

VARIABLES
    now,        \* the clock read by each accept call
    envelope,   \* what the gateway issued under each id
    accepted,   \* #accepted: the ids the guard remembers
    executed    \* history: the jobs handed to the executor

guardVars == <<now, envelope, accepted, executed>>

\* parseRunnerJob refuses any envelope that does not expire after it is
\* issued.  mine: subject, runner, device and capability are this binding's.
Envelope ==
    {e \in [issuedAt : Times, expiresAt : Times, mine : BOOLEAN] : e.issuedAt < e.expiresAt}

GuardTypes ==
    /\ now \in Times
    /\ envelope \in [JobIds -> Envelope]
    /\ accepted \subseteq JobIds
    /\ executed \subseteq JobIds

GuardInit ==
    /\ now = 0
    /\ envelope \in [JobIds -> Envelope]
    /\ accepted = {}
    /\ executed = {}

-----------------------------------------------------------------------------
\* authorizeRunnerJob: the first check that fails names the error.
AuthorizeError(j) ==
    IF ~envelope[j].mine THEN "MISMATCH"
    ELSE IF envelope[j].issuedAt > now + Skew THEN "JOB_NOT_YET_VALID"
    ELSE IF now > envelope[j].expiresAt THEN "JOB_EXPIRED"
    ELSE "none"

\* Faulty: an id is forgotten at its expiry, when it may still run.
RememberedBefore == {i \in accepted : envelope[i].expiresAt > now}

\* Faulty: nothing is forgotten.
RememberedAll == accepted

\* The ids that are still in the map after the loop that starts every accept.
Remembered == {i \in accepted : ~(envelope[i].expiresAt < now)}

AcceptError(j) ==
    IF AuthorizeError(j) # "none" THEN AuthorizeError(j)
    ELSE IF j \in Remembered THEN "JOB_REPLAYED"
    ELSE IF Cardinality(Remembered) >= Capacity THEN "REPLAY_WINDOW_FULL"
    ELSE "none"

Accept(j) ==
    /\ AcceptError(j) = "none"
    /\ accepted' = Remembered \cup {j}
    /\ executed' = executed \cup {j}
    /\ UNCHANGED <<now, envelope>>

\* A refused envelope has evicted expired ids all the same.
Reject(j) ==
    /\ AcceptError(j) # "none"
    /\ accepted' = Remembered
    /\ UNCHANGED <<now, envelope, executed>>

Advance ==
    /\ \E t \in Times : t > now /\ now' = t
    /\ UNCHANGED <<envelope, accepted, executed>>

GuardNext == Advance \/ \E j \in JobIds : Accept(j) \/ Reject(j)

GuardSpec == GuardInit /\ [][GuardNext]_guardVars

-----------------------------------------------------------------------------
\* A job that ran and that the guard no longer remembers is one the expiry
\* check refuses, now and, as the clock only advances, for ever.
ForgottenIsExpired ==
    \A j \in executed \ accepted : now > envelope[j].expiresAt

\* However late, often and disordered an envelope arrives, it runs once.
ExecutedOnce ==
    [][\A j \in JobIds : Accept(j) => j \notin executed]_guardVars

\* The memory of the guard stays within its capacity.
WindowBounded ==
    IsFiniteSet(accepted) /\ Cardinality(accepted) <= Capacity

\* "Replay window full" costs the runner its connection; it is only said when
\* the window is full of jobs that could still be replayed.
FullOfLiveJobs ==
    \A j \in JobIds : AcceptError(j) = "REPLAY_WINDOW_FULL" =>
        Cardinality({i \in executed : now <= envelope[i].expiresAt}) >= Capacity

\* The memory of the guard as a whole: typed, within its capacity, forgetting
\* only what has expired and full only of what has not (RunnerReplayGuard.accept).
WindowSafety ==
    GuardTypes /\ ForgottenIsExpired /\ WindowBounded /\ FullOfLiveJobs
==============================================================================
