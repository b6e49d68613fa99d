----------------------------- MODULE LoginEpochs -----------------------------
(***************************************************************************)
(* What the platform login promises the local services that ask it for     *)
(* authority (authorizeLocal, authorizeChat, authorizeTemplates): time is  *)
(* cut into epochs, each with one AbortSignal; within an epoch authority   *)
(* is given for one owner at most, and an epoch that ended never comes     *)
(* back.  PlatformAccess implements it; GeoDesktop is built on it.         *)
(***************************************************************************)
EXTENDS Naturals

CONSTANTS Identities,     \* tenant members that can be let in
          NoId

ASSUME NoIdAssumption == NoId \notin Identities

VARIABLES epoch,          \* number of the newest AbortController
          live,           \* its signal is not aborted
          owner           \* whom authority is given for, or NoId

epochVars == <<epoch, live, owner>>

EpochInit == epoch = 0 /\ live = FALSE /\ owner = NoId

(* A new operation aborts the former signal and makes a new one. *)
Renew == epoch' = epoch + 1 /\ live' = TRUE /\ owner' = NoId

(* The operation ends well: authority is given for one member. *)
Admit(i) ==
  /\ live /\ owner = NoId
  /\ owner' = i
  /\ UNCHANGED <<epoch, live>>

(* The controller is disposed. *)
Close == epoch' = epoch + 1 /\ live' = FALSE /\ owner' = NoId

EpochNext == Renew \/ Close \/ \E i \in Identities : Admit(i)

EpochSpec == EpochInit /\ [][EpochNext]_epochVars

(* A signal made in epoch e still authorises whoever holds it. *)
Valid(e) == live /\ e = epoch
=============================================================================
