--------------------------- MODULE PlatformAccess ---------------------------
(***************************************************************************)
(* The platform login of the desktop: PlatformDevAccessController          *)
(* (plugins/fs-platform-access/src/dev-access.ts) with the protected vault *)
(* of each Profile, the login workspace that publishes one Profile for     *)
(* each tenant member (workspace.ts) and the Profile selection of the      *)
(* launcher (dsh-plugin-desktop/src/profile-service.ts).                   *)
(*                                                                         *)
(* Operations of the controller run one at a time; what comes between      *)
(* their steps is dispose(), the end of the process at any point, and a    *)
(* restart that loads the Profile then selected.  A Profile is named by    *)
(* the identity it is bound to, NoId being the release profile.            *)
(***************************************************************************)
EXTENDS Naturals, FiniteSets

CONSTANTS Identities,     \* tenant members the accounts at hand can become
          NoId,
          MaxCalls,       \* bound: calls of the user interface
          MaxBoots        \* bound: restarts of the process

ASSUME IdentitiesAssumption == NoId \notin Identities

VARIABLES
  selected,   \* Profile the next process boots
  vault,      \* stored session of each Profile, by its identity
  ws,         \* files of the workspace Profile of each identity
  ships,      \* the installed release profile holds the GEO plugin
  host,       \* the process: profile, booted files, restart flags
  gen,        \* #generation; the signal of a former one is aborted
  disposed,
  phase,      \* phase of the published snapshot
  session,    \* identity of #session, or NoId
  pending,    \* identities offered by the provisional login, {} without
  op,         \* the operation at the head of the queue
  loggedOut,  \* history: Profiles whose logout was reported done
  calls, boots

diskVars == <<selected, vault, ws, ships>>
loginVars == <<gen, disposed, phase, session, pending, op>>
boundVars == <<calls, boots>>
vars == <<diskVars, host, loginVars, loggedOut, boundVars>>

Profiles == Identities \cup {NoId}
Kinds == {"login", "restore", "refresh", "select", "logout"}
Places == {"api", "load", "enter", "copy", "declare", "patch", "switch",
           "restart", "save", "context", "expire", "clear", "revoke"}
NoOp == [kind |-> "none", at |-> "none", gen |-> 0, id |-> NoId,
         changed |-> FALSE]

-----------------------------------------------------------------------------
(* Workspace files: the Profile directory (renamed into place), the market *)
(* part of its patch, GEO's copied code, manifest entry and patch entry.   *)

Absent == [made |-> FALSE, market |-> FALSE, code |-> "none",
           declared |-> FALSE, patched |-> FALSE]

Workspaces == [made : BOOLEAN, market : BOOLEAN,
               code : {"none", "partial", "whole"},
               declared : BOOLEAN, patched : BOOLEAN]

Published == [made |-> TRUE, market |-> TRUE,
              code |-> IF ships THEN "whole" ELSE "none",
              declared |-> ships, patched |-> ships]

(* The workspaces former releases left: none, one from before the market  *)
(* patch, one from before GEO.                                             *)
Left == {Absent, [Absent EXCEPT !.made = TRUE],
         [Absent EXCEPT !.made = TRUE, !.market = TRUE]}

NeedsGeo(i) == ships /\ ~(ws[i].declared /\ ws[i].patched)

Exists(p) == p # NoId => ws[p].made

(* DesktopLoginWorkspace.accepts *)
Accepts(i) == i # NoId /\ host.profile = i

(* A process that starts: the launcher loads the selected Profile. *)
Started(p) == [profile |-> p,
               booted |-> IF p = NoId THEN Absent ELSE ws[p],
               geoRestart |-> FALSE, committed |-> {}, asked |-> FALSE]

Begun(kind, at) == [kind |-> kind, at |-> at, gen |-> gen + 1,
                    id |-> NoId, changed |-> FALSE]

Init ==
  /\ ws \in [Identities -> Left]
  /\ ships \in BOOLEAN
  /\ selected \in {p \in Profiles : Exists(p)}
  /\ vault \in [Profiles -> Profiles]
  /\ \A p \in Profiles : vault[p] # NoId => vault[p] = p /\ Exists(p)
  /\ host = [profile |-> NoId, booted |-> Absent, geoRestart |-> FALSE,
             committed |-> {}, asked |-> FALSE]
  /\ gen = 0 /\ disposed = TRUE /\ phase = "signed_out" /\ session = NoId
  /\ pending = {} /\ op = NoOp
  /\ loggedOut = {} /\ calls = 0 /\ boots = 0

-----------------------------------------------------------------------------
(* Where the operation stands. *)

At(kinds, at) == op # NoOp /\ op.kind \in kinds /\ op.at = at
Current == op.gen = gen
Idle == op = NoOp /\ ~disposed
Goes(at) == op' = [op EXCEPT !.at = at]
Ends == op' = NoOp
Called == calls < MaxCalls /\ calls' = calls + 1 /\ UNCHANGED boots

Stored(p, i) == vault' = [vault EXCEPT ![p] = i]

(* Deleting the stored session succeeds or is refused by the vault. *)
Cleared == Stored(host.profile, NoId)
ClearedOrNot == Cleared \/ UNCHANGED vault

(* #beginOperation: the former signal is aborted, the generation counted. *)
Begins(kind, at) == gen' = gen + 1 /\ op' = Begun(kind, at)

-----------------------------------------------------------------------------
(* Password login: nobody is let in before a tenant is chosen. *)

LoginAsked ==
  /\ Idle /\ Called
  /\ Begins("login", "api")
  /\ session' = NoId /\ pending' = {} /\ phase' = "loading"
  /\ loggedOut' = {}
  /\ UNCHANGED <<diskVars, host, disposed>>

LoginAnswered ==
  /\ At({"login"}, "api") /\ Current
  /\ \E offered \in SUBSET Identities \ {{}} : pending' = offered
  /\ phase' = "selecting_tenant" /\ Ends
  /\ UNCHANGED <<diskVars, host, gen, disposed, session, loggedOut, boundVars>>

(* Variant: a refused login of a former generation never ends. *)
LoginRefusedAtOnce ==
  /\ At({"login"}, "api") /\ Current
  /\ Goes("clear")
  /\ UNCHANGED <<diskVars, host, gen, disposed, phase, session, pending,
                 loggedOut, boundVars>>

LoginRefused ==
  /\ At({"login"}, "api")
  /\ IF Current THEN Goes("clear") ELSE Ends
  /\ UNCHANGED <<diskVars, host, gen, disposed, phase, session, pending,
                 loggedOut, boundVars>>

LoginFails ==
  /\ At({"login"}, "clear")
  /\ ClearedOrNot
  /\ phase' = "error" /\ Ends
  /\ UNCHANGED <<selected, ws, ships, host, gen, disposed, session, pending,
                 loggedOut, boundVars>>

-----------------------------------------------------------------------------
(* Failures of restore and refresh (#handleFailure) and of the choice of a *)
(* tenant, whose catch does not compare the generation.                    *)

Told ==
  /\ IF op.kind = "select" THEN session' = NoId /\ phase' = "error"
     ELSE /\ UNCHANGED session
          /\ IF Current THEN phase' = "error" ELSE UNCHANGED phase
  /\ Ends

(* The platform answers that the session is no longer good. *)
Expires ==
  IF op.kind \in {"restore", "refresh"} /\ Current
  THEN Goes("expire") /\ UNCHANGED <<session, phase>>
  ELSE Told

Fails ==
  /\ op # NoOp /\ op.kind \in {"restore", "refresh", "select"}
  /\ op.at # "expire"
  /\ Told \/ (op.at \in {"api", "context"} /\ Expires)
  /\ UNCHANGED <<diskVars, host, gen, disposed, pending, loggedOut, boundVars>>

Expired ==
  /\ At({"restore", "refresh"}, "expire")
  /\ ClearedOrNot
  /\ session' = NoId /\ phase' = "expired" /\ Ends
  /\ UNCHANGED <<selected, ws, ships, host, gen, disposed, pending,
                 loggedOut, boundVars>>

-----------------------------------------------------------------------------
(* Restoring the stored session, at the start of the process and on a      *)
(* refresh that finds no session.                                          *)

RestoreAsked ==
  /\ Idle /\ session = NoId /\ phase # "selecting_tenant" /\ Called
  /\ Begins("restore", "load")
  /\ phase' = "loading"
  /\ UNCHANGED <<diskVars, host, disposed, session, pending, loggedOut>>

Loaded ==
  /\ At({"restore"}, "load")
  /\ LET stored == vault[host.profile] IN
     \/ ~Current /\ Ends /\ UNCHANGED <<phase, session>>
     \/ /\ Current /\ ~Accepts(stored)
        /\ session' = NoId /\ phase' = "signed_out" /\ Ends
     \/ /\ Current /\ Accepts(stored)
        /\ op' = [op EXCEPT !.at = "enter", !.id = stored]
        /\ UNCHANGED <<phase, session>>
  /\ UNCHANGED <<diskVars, host, gen, disposed, pending, loggedOut, boundVars>>

-----------------------------------------------------------------------------
(* The choice of a tenant: a second login, bound to it. *)

SelectAsked(i) ==
  /\ Idle /\ phase = "selecting_tenant" /\ i \in pending /\ Called
  /\ gen' = gen + 1
  /\ op' = [Begun("select", "api") EXCEPT !.id = i]
  /\ pending' = {} /\ phase' = "loading"
  /\ UNCHANGED <<diskVars, host, disposed, session, loggedOut>>

SelectAnswered ==
  /\ At({"select"}, "api") /\ Current
  /\ Goes("enter")
  /\ UNCHANGED <<diskVars, host, gen, disposed, phase, session, pending,
                 loggedOut, boundVars>>

-----------------------------------------------------------------------------
(* DesktopLoginWorkspace.enter, one action for each file it publishes. *)

Publishes(i, files) == ws' = [ws EXCEPT ![i] = files]

EnterCreates ==
  /\ At(Kinds, "enter") /\ ~ws[op.id].made
  /\ Publishes(op.id, Published)
  /\ UNCHANGED <<selected, vault, ships, host, loginVars, loggedOut, boundVars>>

EnterPatchesMarket ==
  /\ At(Kinds, "enter") /\ ws[op.id].made /\ ~ws[op.id].market
  /\ Publishes(op.id, [ws[op.id] EXCEPT !.market = TRUE])
  /\ op' = [op EXCEPT !.changed = TRUE]
  /\ UNCHANGED <<selected, vault, ships, host, gen, disposed, phase, session,
                 pending, loggedOut, boundVars>>

(* Variant: the copy of the code is not awaited. *)
EnterCopiesUnawaited ==
  /\ At(Kinds, "enter") /\ ws[op.id].market /\ NeedsGeo(op.id)
  /\ Publishes(op.id, [ws[op.id] EXCEPT !.code = "partial"])
  /\ Goes("declare")
  /\ UNCHANGED <<selected, vault, ships, host, gen, disposed, phase, session,
                 pending, loggedOut, boundVars>>

EnterCopies ==
  /\ At(Kinds, "enter") /\ ws[op.id].market /\ NeedsGeo(op.id)
  /\ Publishes(op.id, [ws[op.id] EXCEPT !.code = "partial"])
  /\ Goes("copy")
  /\ UNCHANGED <<selected, vault, ships, host, gen, disposed, phase, session,
                 pending, loggedOut, boundVars>>

EnterCopied ==
  /\ At(Kinds, "copy")
  /\ Publishes(op.id, [ws[op.id] EXCEPT !.code = "whole"])
  /\ Goes("declare")
  /\ UNCHANGED <<selected, vault, ships, host, gen, disposed, phase, session,
                 pending, loggedOut, boundVars>>

EnterDeclares ==
  /\ At(Kinds, "declare")
  /\ Publishes(op.id, [ws[op.id] EXCEPT !.declared = TRUE])
  /\ Goes("patch")
  /\ UNCHANGED <<selected, vault, ships, host, gen, disposed, phase, session,
                 pending, loggedOut, boundVars>>

EnterPatches ==
  /\ At(Kinds, "patch")
  /\ Publishes(op.id, [ws[op.id] EXCEPT !.patched = TRUE])
  /\ host' = [host EXCEPT !.geoRestart = @ \/ Accepts(op.id)]
  /\ op' = [op EXCEPT !.at = "enter", !.changed = TRUE]
  /\ UNCHANGED <<selected, vault, ships, gen, disposed, phase, session,
                 pending, loggedOut, boundVars>>

Upgraded == ws[op.id].made /\ ws[op.id].market /\ ~NeedsGeo(op.id)

(* This process already runs the Profile, and nothing was changed in it. *)
RunsIt == Accepts(op.id) /\ ~op.changed /\ ~host.geoRestart

EnterAccepts ==
  /\ At({"restore", "select"}, "enter") /\ Upgraded /\ RunsIt
  /\ \/ op.kind = "select" /\ Goes("save") /\ UNCHANGED session
     \/ op.kind = "restore" /\ Current /\ Goes("context") /\ session' = op.id
     \/ op.kind = "restore" /\ ~Current /\ Ends /\ UNCHANGED session
  /\ UNCHANGED <<diskVars, host, gen, disposed, phase, pending, loggedOut,
                 boundVars>>

(* Variant: the session is stored in the vault of the process. *)
EnterRefersHere ==
  /\ At(Kinds, "enter") /\ Upgraded /\ ~RunsIt
  /\ Stored(host.profile, op.id)
  /\ Goes("switch")
  /\ UNCHANGED <<selected, ws, ships, host, gen, disposed, phase, session,
                 pending, loggedOut, boundVars>>

(* The session is stored for the Profile of its identity, which is then   *)
(* to be booted.                                                           *)
EnterRefers ==
  /\ At(Kinds, "enter") /\ Upgraded /\ ~RunsIt
  /\ Stored(op.id, op.id)
  /\ Goes("switch")
  /\ UNCHANGED <<selected, ws, ships, host, gen, disposed, phase, session,
                 pending, loggedOut, boundVars>>

(* DesktopProfileService.select of another Profile persists it first; one *)
(* already chosen is not overwritten.  select of the Profile that runs     *)
(* does nothing, restartCurrent restarts it.                               *)
Restarting == host.geoRestart /\ host.profile = op.id

SwitchPersists ==
  /\ At(Kinds, "switch")
  /\ host.committed \subseteq {op.id}
  /\ Restarting \/ host.profile # op.id
  /\ IF Restarting THEN UNCHANGED <<selected, host>>
     ELSE selected' = op.id /\ host' = [host EXCEPT !.committed = {op.id}]
  /\ Goes("restart")
  /\ UNCHANGED <<vault, ws, ships, gen, disposed, phase, session, pending,
                 loggedOut, boundVars>>

SwitchToItself ==
  /\ At(Kinds, "switch") /\ ~Restarting /\ host.profile = op.id
  /\ Ends
  /\ UNCHANGED <<diskVars, host, gen, disposed, phase, session, pending,
                 loggedOut, boundVars>>

SwitchRestarts ==
  /\ At(Kinds, "restart")
  /\ host' = [host EXCEPT !.asked = TRUE]
  /\ Ends
  /\ UNCHANGED <<diskVars, gen, disposed, phase, session, pending,
                 loggedOut, boundVars>>

-----------------------------------------------------------------------------
(* Refresh of the tokens of a session, and the end every admission has in *)
(* common: the vault is written, the context of the tenant is loaded.      *)

(* Variant: a refresh goes on under the former generation. *)
RefreshAskedWithin ==
  /\ Idle /\ session # NoId /\ phase # "selecting_tenant" /\ Called
  /\ op' = [Begun("refresh", "api") EXCEPT !.id = session, !.gen = gen]
  /\ phase' = "loading"
  /\ UNCHANGED <<diskVars, host, gen, disposed, session, pending, loggedOut>>

RefreshAsked ==
  /\ Idle /\ session # NoId /\ phase # "selecting_tenant" /\ Called
  /\ gen' = gen + 1
  /\ op' = [Begun("refresh", "api") EXCEPT !.id = session]
  /\ phase' = "loading"
  /\ UNCHANGED <<diskVars, host, disposed, session, pending, loggedOut>>

RefreshAnswered ==
  /\ At({"refresh"}, "api") /\ Current
  /\ Goes("save")
  /\ UNCHANGED <<diskVars, host, gen, disposed, phase, session, pending,
                 loggedOut, boundVars>>

Saved ==
  /\ At({"refresh", "select"}, "save")
  /\ Stored(host.profile, op.id)
  /\ IF op.kind = "refresh" /\ ~Current THEN Ends /\ UNCHANGED session
     ELSE Goes("context") /\ session' = op.id
  /\ UNCHANGED <<selected, ws, ships, host, gen, disposed, phase, pending,
                 loggedOut, boundVars>>

ContextLoaded ==
  /\ At(Kinds, "context")
  /\ IF Current THEN phase' = "ready" ELSE UNCHANGED phase
  /\ Ends
  /\ UNCHANGED <<diskVars, host, gen, disposed, session, pending, loggedOut,
                 boundVars>>

-----------------------------------------------------------------------------
(* Logout: locally first; by the user, by the timer of a provisional login *)
(* or by a choice that comes too late.                                     *)

LogoutBegins ==
  /\ Idle
  /\ Begins("logout", "clear")
  /\ session' = NoId /\ pending' = {}
  /\ UNCHANGED <<diskVars, host, disposed, phase, loggedOut>>

LogoutAsked == LogoutBegins /\ Called
PendingExpires == LogoutBegins /\ pending # {} /\ UNCHANGED boundVars

LogoutClears ==
  /\ At({"logout"}, "clear")
  /\ \/ /\ Cleared
        /\ phase' = IF Current THEN "signed_out" ELSE phase
        /\ loggedOut' = loggedOut \cup {host.profile}
     \/ /\ phase' = IF Current THEN "error" ELSE phase
        /\ UNCHANGED <<vault, loggedOut>>
  /\ Goes("revoke")
  /\ UNCHANGED <<selected, ws, ships, host, gen, disposed, session, pending,
                 boundVars>>

LogoutRevoked ==
  /\ At({"logout"}, "revoke")
  /\ Ends
  /\ UNCHANGED <<diskVars, host, gen, disposed, phase, session, pending,
                 loggedOut, boundVars>>

-----------------------------------------------------------------------------
(* The process: the user picks a Profile, the plugin is disposed, the      *)
(* process ends at any point and another one starts (maybe a new release). *)

UserSelects(p) ==
  /\ ~disposed /\ Called
  /\ host.committed = {} /\ p # host.profile
  /\ Exists(p)
  /\ selected' = p
  /\ host' = [host EXCEPT !.committed = {p}, !.asked = TRUE]
  /\ UNCHANGED <<vault, ws, ships, loginVars, loggedOut>>

Dispose ==
  /\ ~disposed
  /\ disposed' = TRUE /\ gen' = gen + 1
  /\ session' = NoId /\ pending' = {} /\ phase' = "signed_out"
  /\ UNCHANGED <<diskVars, host, op, loggedOut, boundVars>>

Boot ==
  /\ boots < MaxBoots /\ boots' = boots + 1
  /\ ships' \in {ships, TRUE}
  /\ host' = Started(selected)
  /\ disposed' = FALSE /\ session' = NoId /\ pending' = {}
  /\ Begins("restore", "load") /\ phase' = "loading"
  /\ UNCHANGED <<selected, vault, ws, loggedOut, calls>>

Enter == \/ EnterCreates \/ EnterPatchesMarket \/ EnterCopies \/ EnterCopied
         \/ EnterDeclares \/ EnterPatches \/ EnterAccepts \/ EnterRefers
         \/ SwitchPersists \/ SwitchToItself \/ SwitchRestarts

OpStep == \/ LoginAnswered \/ LoginRefused \/ LoginFails
          \/ Fails \/ Expired \/ Loaded \/ SelectAnswered \/ Enter
          \/ RefreshAnswered \/ Saved \/ ContextLoaded
          \/ LogoutClears \/ LogoutRevoked

Asked == \/ LoginAsked \/ RestoreAsked \/ RefreshAsked
         \/ LogoutAsked \/ PendingExpires
         \/ \E i \in Identities : SelectAsked(i)
         \/ \E p \in Profiles : UserSelects(p)

Next == OpStep \/ Asked \/ Dispose \/ Boot

Spec == Init /\ [][Next]_vars

(* Every await of an operation settles: files and vault are local, and the *)
(* HTTP client gives a silent platform up after five minutes.              *)
FairSpec == Spec /\ WF_vars(OpStep)

-----------------------------------------------------------------------------
(* Properties. *)

Operations == [kind : Kinds, at : Places, gen : Nat, id : Profiles,
               changed : BOOLEAN]

(* Every variable keeps to the values the controller gives it; an          *)
(* operation that enters a workspace does so for some identity.            *)
TypeOK ==
  /\ selected \in Profiles /\ vault \in [Profiles -> Profiles]
  /\ ws \in [Identities -> Workspaces] /\ ships \in BOOLEAN
  /\ host \in [profile : Profiles, booted : Workspaces, geoRestart : BOOLEAN,
               committed : SUBSET Profiles, asked : BOOLEAN]
  /\ gen \in Nat /\ disposed \in BOOLEAN
  /\ phase \in {"signed_out", "loading", "selecting_tenant", "ready",
                "error", "expired"}
  /\ session \in Profiles /\ pending \in SUBSET Identities
  /\ op \in Operations \cup {NoOp}
  /\ op # NoOp /\ op.kind \in {"select", "refresh"} => op.id \in Identities
  /\ loggedOut \in SUBSET Profiles /\ calls \in Nat /\ boots \in Nat

(* A process bound to the Profile of a tenant member never holds the       *)
(* session of anybody else, however logins, restarts and choices mix.      *)
SessionFitsProfile == session # NoId => session = host.profile

(* No Profile's vault ever holds the session of another identity.          *)
VaultFitsProfile == \A p \in Profiles : vault[p] \in {NoId, p}

(* Members are kept apart, in the memory of the process and in the vaults  *)
(* of the Profiles (accepts, DesktopLoginWorkspace.enter, save).           *)
MembersApart == TypeOK /\ SessionFitsProfile /\ VaultFitsProfile

(* After a logout that was reported done, its Profile holds no session, in *)
(* memory or on disk, until somebody logs in again: nothing that was under *)
(* way (a refresh, a restore, a restart) brings it back.                   *)
LoggedOutStaysOut ==
  \A p \in loggedOut : /\ vault[p] = NoId
                       /\ host.profile = p => session = NoId

(* Whose session it is and whether there is one: both in spite of whatever *)
(* else is under way (accepts, enter, save, clear).                        *)
SessionSafety == MembersApart /\ LoggedOutStaysOut

(* A workspace whose patch loads GEO has GEO's whole code and its manifest *)
(* entry, wherever a crash fell in the upgrade.                            *)
PatchedIsWhole ==
  \A i \in Identities : ws[i].patched => ws[i].declared /\ ws[i].code = "whole"

(* A member is let in only by a process that runs the GEO plugin its       *)
(* workspace has: an upgrade under a running process locks it.             *)
GeoIsRunning ==
  session # NoId /\ ws[session].patched => host.booted.patched

(* An upgrade is whole wherever it was interrupted, and locks the process  *)
(* that does not run it (DesktopLoginWorkspace.enter).                     *)
UpgradeKept == PatchedIsWhole /\ GeoIsRunning

(* "restoration applies workspace upgrades before enabling the old Host    *)
(* generation": whoever is let in runs the files the workspace has.        *)
EnabledIsUpgraded ==
  session # NoId => host.booted.market = ws[session].market

(* The queue moves on: every operation ends, whatever fails in it.         *)
OperationsEnd == (op # NoOp) ~> (op = NoOp)

(* Whom authorizeLocal, authorizeChat and authorizeTemplates speak for.    *)
Owner == IF ~disposed /\ phase = "ready" THEN session ELSE NoId

Epochs == INSTANCE LoginEpochs WITH
            epoch <- gen, live <- ~disposed, owner <- Owner

(* The controller keeps the promise of LoginEpochs: under one AbortSignal  *)
(* authority is given for one identity at most, and never again after.     *)
KeepsEpochs == Epochs!EpochSpec
=============================================================================
