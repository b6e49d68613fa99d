--------------------------- MODULE ConfirmedChanges ---------------------------
(***************************************************************************)
(* What the community market promises whoever confirms a change of the     *)
(* Profile's plugins (docs/install-and-uninstall.md): a confirmation is    *)
(* one-shot, one change runs at a time, the package manager works only for *)
(* the change that runs and never outlives it, and the offer to restart    *)
(* comes from a completed change and is taken once.  MarketInstall         *)
(* implements it.                                                          *)
(***************************************************************************)
CONSTANTS Tokens,         \* confirmations
          NoToken         \* none of them

VARIABLES phase,          \* of each confirmation
          working         \* the confirmation pnpm works for, or NoToken

changeVars == <<phase, working>>

ChangeInit == phase = [t \in Tokens |-> "new"] /\ working = NoToken

Becomes(t, from, to) == phase[t] = from /\ phase' = [phase EXCEPT ![t] = to]

Offer(t) == Becomes(t, "new", "offered") /\ UNCHANGED working

Begin(t) ==
  /\ \A u \in Tokens : phase[u] # "running"
  /\ Becomes(t, "offered", "running")
  /\ UNCHANGED working

Work(t) == phase[t] = "running" /\ working' = t /\ UNCHANGED phase
Rest == working' = NoToken /\ UNCHANGED phase

Complete(t) ==
  /\ Becomes(t, "running", "completed")
  /\ working # t
  /\ UNCHANGED working

(* Confirmations expire, are withdrawn, fail with their change, are taken, *)
(* or go with the process; what pnpm did for one of them ends before.      *)
Spend(T) ==
  /\ \A t \in T : phase[t] # "new"
  /\ phase' = [t \in Tokens |-> IF t \in T THEN "spent" ELSE phase[t]]
  /\ working' \in {working, NoToken} \ T

ChangeNext ==
  \/ Rest
  \/ \E t \in Tokens : Offer(t) \/ Begin(t) \/ Work(t) \/ Complete(t)
  \/ \E T \in SUBSET Tokens : Spend(T)

ChangeSpec == ChangeInit /\ [][ChangeNext]_changeVars
=============================================================================
