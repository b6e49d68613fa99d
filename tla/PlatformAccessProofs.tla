------------------------- MODULE PlatformAccessProofs -------------------------
(***************************************************************************)
(* Who is let in, for every number of identities, calls and restarts.      *)
(* SessionSafety and UpgradeKept are not inductive: they say nothing of    *)
(* the operation that runs, which carries the identity of a session to be  *)
(* stored (OpIdentity), has or has not a session beside it (OpSession) and *)
(* stands between two files of an upgrade (UpgradeStage).                  *)
(***************************************************************************)
EXTENDS PlatformAccess, TLAPS

(* Places inside DesktopLoginWorkspace.enter and the switch after it. *)
Entering == {"enter", "copy", "declare", "patch", "switch", "restart"}

OpPlaced ==
  /\ op.kind = "login" => op.at \in {"api", "clear"}
  /\ op.kind = "logout" => op.at \in {"clear", "revoke"}
  /\ op.kind = "refresh" => op.at \in {"api", "save", "context", "expire"}
  /\ op.kind = "select" => op.at \in Entering \cup {"api", "save", "context"}
  /\ op.kind = "restore" => op.at \in Entering \cup {"load", "context", "expire"}

(* What is about to be stored or admitted here belongs to this Profile. *)
OpIdentity ==
  /\ op.kind = "restore" /\ op.at # "load" =>
       op.id \in Identities /\ op.id = host.profile
  /\ op.kind = "refresh" \/ op.at = "save" => op.id = host.profile

(* An operation that may let somebody in does not run for somebody whose   *)
(* logout was reported done, nor in a process that must restart.           *)
OpSession ==
  /\ op.kind \in {"login", "logout"} => session = NoId
  /\ op.kind \in {"restore", "select"} /\ op.at \notin {"context", "expire"} =>
       session = NoId
  /\ op.kind \in {"login", "restore", "refresh", "select"} => phase # "ready"
  /\ op.kind \in {"login", "select"} => loggedOut = {}
  /\ op.kind = "refresh" \/ (op.kind = "restore" /\ op.at # "load") =>
       host.profile \notin loggedOut
  /\ op.kind = "refresh" \/ op.at = "save" => ~host.geoRestart

(* A provisional login lets nobody in and nothing runs beside it. *)
PendingAlone ==
  pending # {} => /\ op = NoOp /\ phase = "selecting_tenant"
                  /\ session = NoId /\ loggedOut = {}

(* How far the upgrade of the operation's workspace has come. *)
UpgradeStage ==
  /\ op.at = "copy" => ~ws[op.id].patched
  /\ op.at = "declare" => ws[op.id].code = "whole"
  /\ op.at = "patch" => ws[op.id].code = "whole" /\ ws[op.id].declared
  /\ op.at = "switch" => ws[op.id].made

ProfilesMade == Exists(selected) /\ Exists(host.profile)

(* GEO published under a running process is not unnoticed by it. *)
GeoNoticed ==
  /\ host.profile # NoId /\ ws[host.profile].patched =>
       host.booted.patched \/ host.geoRestart
  /\ session # NoId => ~host.geoRestart

IInv ==
  /\ TypeOK /\ SessionFitsProfile /\ VaultFitsProfile /\ LoggedOutStaysOut
  /\ PatchedIsWhole
  /\ OpPlaced /\ OpIdentity /\ OpSession /\ PendingAlone
  /\ UpgradeStage /\ ProfilesMade /\ GeoNoticed

(* The parts of TypeOK that take a proof each. *)
OpTyped ==
  /\ op \in Operations \cup {NoOp}
  /\ op.kind \in {"select", "refresh"} => op.id \in Identities

Hosts == [profile : Profiles, booted : Workspaces, geoRestart : BOOLEAN,
          committed : SUBSET Profiles, asked : BOOLEAN]

FilesTyped ==
  /\ selected \in Profiles /\ vault \in [Profiles -> Profiles]
  /\ ws \in [Identities -> Workspaces] /\ ships \in BOOLEAN

RestTyped ==
  /\ gen \in Nat /\ disposed \in BOOLEAN
  /\ phase \in {"signed_out", "loading", "selecting_tenant", "ready",
                "error", "expired"}
  /\ session \in Profiles /\ pending \in SUBSET Identities
  /\ loggedOut \in SUBSET Profiles /\ calls \in Nat /\ boots \in Nat

USE IdentitiesAssumption

LEMMA OpGoes ==
  ASSUME op \in Operations, NEW at \in Places, Goes(at)
  PROVE  /\ op' \in Operations /\ op' # NoOp
         /\ op'.at = at /\ op'.kind = op.kind /\ op'.id = op.id /\ op'.gen = op.gen
BY DEF Goes, Operations, NoOp, Kinds

LEMMA OpBegins ==
  ASSUME gen \in Nat, NEW kind \in Kinds, NEW at \in Places
  PROVE  /\ Begun(kind, at) \in Operations
         /\ Begun(kind, at).kind = kind /\ Begun(kind, at).at = at
         /\ Begun(kind, at).id = NoId
BY DEF Begun, Operations, Profiles

LEMMA Nothing ==
  /\ NoOp.kind = "none" /\ NoOp.at = "none" /\ NoOp.id = NoId
  /\ \A o \in Operations : o # NoOp
BY DEF NoOp, Operations, Kinds

LEMMA OpNamed ==
  ASSUME NEW o \in Operations, NEW i \in Identities, NEW at \in Places,
         op' = [o EXCEPT !.at = at, !.id = i]
  PROVE  /\ op' \in Operations /\ op'.kind = o.kind
         /\ op'.at = at /\ op'.id = i
BY DEF Operations, Profiles

LEMMA OpFor ==
  ASSUME gen \in Nat, NEW kind \in Kinds, NEW i \in Identities,
         op' = [Begun(kind, "api") EXCEPT !.id = i]
  PROVE  /\ op' \in Operations /\ op'.kind = kind
         /\ op'.at = "api" /\ op'.id = i
<1> DEFINE o == Begun(kind, "api")
<1>1. o \in Operations /\ o.kind = kind /\ o.at = "api"
  BY OpBegins DEF Places
<1>2. op' = [o EXCEPT !.id = i]
  OBVIOUS
<1> HIDE DEF o
<1> QED  BY <1>1, <1>2 DEF Operations, Profiles

LEMMA Upgrades ==
  ASSUME NEW w \in Workspaces
  PROVE  /\ [w EXCEPT !.market = TRUE] \in Workspaces
         /\ [w EXCEPT !.declared = TRUE] \in Workspaces
         /\ [w EXCEPT !.patched = TRUE] \in Workspaces
BY DEF Workspaces

LEMMA KeepsOpTyped == IInv /\ [Next]_vars => OpTyped'
<1> SUFFICES ASSUME IInv, [Next]_vars PROVE OpTyped'
  OBVIOUS
<1> USE DEF IInv, TypeOK, diskVars, loginVars, boundVars
<1>1. CASE LoginAsked
  BY <1>1
  DEF LoginAsked, Idle, Called, Begins, Begun, OpTyped, Entering, OpPlaced,
      OpIdentity, OpSession, UpgradeStage, PendingAlone, SessionFitsProfile,
      Operations, NoOp, Profiles, Places, Kinds
<1>2. CASE RestoreAsked
  BY <1>2
  DEF RestoreAsked, Idle, Called, Begins, Begun, OpTyped, Entering, OpPlaced,
      OpIdentity, OpSession, UpgradeStage, PendingAlone, SessionFitsProfile,
      Operations, NoOp, Profiles, Places, Kinds
<1>3. CASE RefreshAsked
  <2>1. session \in Identities
    BY <1>3 DEF RefreshAsked, Profiles
  <2> QED  BY <1>3, <2>1, OpFor DEF RefreshAsked, OpTyped, Kinds
<1>4. CASE LogoutBegins
  BY <1>4
  DEF LogoutBegins, Idle, Begins, Begun, OpTyped, Entering, OpPlaced,
      OpIdentity, OpSession, UpgradeStage, PendingAlone, SessionFitsProfile,
      Operations, NoOp, Profiles, Places, Kinds
<1>5. ASSUME NEW i \in Identities, SelectAsked(i) PROVE OpTyped'
  BY <1>5, OpFor DEF SelectAsked, OpTyped, Kinds
<1>6. CASE \/ LoginAnswered \/ LoginRefused \/ LoginFails \/ Fails
           \/ Expired
  BY <1>6
  DEF LoginAnswered, At, Current, Ends, LoginRefused, Goes, LoginFails,
      ClearedOrNot, Cleared, Stored, Fails, Told, Expires, Expired, OpTyped,
      Entering, OpPlaced, OpIdentity, OpSession, UpgradeStage, PendingAlone,
      SessionFitsProfile, Operations, NoOp, Profiles, Places, Kinds
<1>7. CASE Loaded
  BY <1>7, Nothing
  DEF Loaded, At, Current, Accepts, Ends, OpTyped, Entering, OpPlaced,
      OpIdentity, OpSession, UpgradeStage, PendingAlone, SessionFitsProfile,
      Operations, NoOp, Profiles, Places, Kinds
<1>8. CASE SelectAnswered
  BY <1>8
  DEF SelectAnswered, At, Current, Goes, OpTyped, Entering, OpPlaced,
      OpIdentity, OpSession, UpgradeStage, PendingAlone, SessionFitsProfile,
      Operations, NoOp, Profiles, Places, Kinds
<1>9. CASE RefreshAnswered
  BY <1>9
  DEF RefreshAnswered, At, Current, Goes, OpTyped, Entering, OpPlaced,
      OpIdentity, OpSession, UpgradeStage, PendingAlone, SessionFitsProfile,
      Operations, NoOp, Profiles, Places, Kinds
<1>10. CASE Saved
  BY <1>10
  DEF Saved, At, Stored, Current, Goes, Ends, OpTyped, Entering, OpPlaced,
      OpIdentity, OpSession, UpgradeStage, PendingAlone, SessionFitsProfile,
      Operations, NoOp, Profiles, Places, Kinds
<1>11. CASE ContextLoaded
  BY <1>11, Nothing DEF ContextLoaded, At, Current, Ends, OpTyped, Entering
<1>12. CASE EnterAccepts
  BY <1>12
  DEF EnterAccepts, At, Upgraded, RunsIt, Accepts, NeedsGeo, Goes, Current,
      Ends, OpTyped, Entering, OpPlaced, OpIdentity, OpSession, UpgradeStage,
      PendingAlone, SessionFitsProfile, Operations, NoOp, Profiles, Places,
      Kinds
<1>13. CASE EnterCreates
  BY <1>13, Nothing DEF EnterCreates, OpTyped, Entering
<1>14. CASE EnterPatchesMarket
  BY <1>14, Nothing
  DEF EnterPatchesMarket, At, Publishes, OpTyped, Entering, OpPlaced,
      OpIdentity, OpSession, UpgradeStage, PendingAlone, SessionFitsProfile,
      Operations, NoOp, Profiles, Places, Kinds
<1>15. CASE EnterCopies
  BY <1>15
  DEF EnterCopies, At, Publishes, NeedsGeo, Goes, OpTyped, Entering, OpPlaced,
      OpIdentity, OpSession, UpgradeStage, PendingAlone, SessionFitsProfile,
      Operations, NoOp, Profiles, Places, Kinds
<1>16. CASE EnterCopied
  BY <1>16
  DEF EnterCopied, At, Publishes, Goes, OpTyped, Entering, OpPlaced,
      OpIdentity, OpSession, UpgradeStage, PendingAlone, SessionFitsProfile,
      Operations, NoOp, Profiles, Places, Kinds
<1>17. CASE EnterDeclares
  BY <1>17
  DEF EnterDeclares, At, Publishes, Goes, OpTyped, Entering, OpPlaced,
      OpIdentity, OpSession, UpgradeStage, PendingAlone, SessionFitsProfile,
      Operations, NoOp, Profiles, Places, Kinds
<1>18. CASE EnterPatches
  BY <1>18, Nothing
  DEF EnterPatches, At, Publishes, Accepts, OpTyped, Entering, OpPlaced,
      OpIdentity, OpSession, UpgradeStage, PendingAlone, SessionFitsProfile,
      Operations, NoOp, Profiles, Places, Kinds
<1>19. CASE \/ EnterRefers \/ SwitchPersists \/ SwitchToItself
            \/ SwitchRestarts
  BY <1>19
  DEF EnterRefers, At, Upgraded, RunsIt, Accepts, NeedsGeo, Stored, Goes,
      SwitchPersists, Restarting, SwitchToItself, Ends, SwitchRestarts,
      OpTyped, Entering, OpPlaced, OpIdentity, OpSession, UpgradeStage,
      PendingAlone, SessionFitsProfile, Operations, NoOp, Profiles, Places,
      Kinds
<1>20. CASE \/ LogoutClears \/ LogoutRevoked
  BY <1>20
  DEF LogoutClears, At, Cleared, Stored, Current, Goes, LogoutRevoked, Ends,
      OpTyped, Entering, OpPlaced, OpIdentity, OpSession, UpgradeStage,
      PendingAlone, SessionFitsProfile, Operations, NoOp, Profiles, Places,
      Kinds
<1>21. ASSUME NEW p \in Profiles, UserSelects(p) PROVE OpTyped'
  BY <1>21, Nothing DEF UserSelects, OpTyped, Entering
<1>22. CASE Boot
  BY <1>22
  DEF Boot, Started, Begins, Begun, OpTyped, Entering, OpPlaced, OpIdentity,
      OpSession, UpgradeStage, PendingAlone, SessionFitsProfile, Operations,
      NoOp, Profiles, Places, Kinds
<1>23. CASE \/ Dispose \/ UNCHANGED vars
  BY <1>23, Nothing DEF Dispose, vars, OpTyped, Entering
<1> QED
  BY <1>1, <1>2, <1>3, <1>4, <1>5, <1>6, <1>7, <1>8, <1>9, <1>10, <1>11, <1>12,
     <1>13, <1>14, <1>15, <1>16, <1>17, <1>18, <1>19, <1>20, <1>21, <1>22,
     <1>23
  DEF Next, OpStep, Asked, Enter, LogoutAsked, PendingExpires

LEMMA KeepsHostTyped == IInv /\ [Next]_vars => host' \in Hosts
<1> SUFFICES ASSUME IInv, [Next]_vars PROVE host' \in Hosts
  OBVIOUS
<1> USE DEF IInv, TypeOK, diskVars, loginVars, boundVars
<1>1. CASE \/ LoginAsked \/ RestoreAsked \/ RefreshAsked
           \/ LogoutBegins
  BY <1>1 DEF LoginAsked, RestoreAsked, RefreshAsked, LogoutBegins, Hosts
<1>2. ASSUME NEW i \in Identities, SelectAsked(i) PROVE host' \in Hosts
  BY <1>2 DEF SelectAsked, Hosts
<1>3. CASE \/ LoginAnswered \/ LoginRefused \/ LoginFails \/ Fails
           \/ Expired
  BY <1>3 DEF LoginAnswered, LoginRefused, LoginFails, Fails, Expired, Hosts
<1>4. CASE \/ Loaded \/ SelectAnswered \/ RefreshAnswered \/ Saved
           \/ ContextLoaded \/ EnterAccepts
  BY <1>4
  DEF Loaded, SelectAnswered, RefreshAnswered, Saved, ContextLoaded,
      EnterAccepts, Hosts
<1>5. CASE \/ EnterCreates \/ EnterPatchesMarket \/ EnterCopies
           \/ EnterCopied \/ EnterDeclares \/ EnterPatches
  BY <1>5
  DEF EnterCreates, At, Publishes, Published, EnterPatchesMarket, EnterCopies,
      NeedsGeo, Goes, EnterCopied, EnterDeclares, EnterPatches, Accepts, Hosts,
      Workspaces, Absent, OpPlaced, OpIdentity, OpSession, UpgradeStage,
      PendingAlone, SessionFitsProfile, Operations, NoOp, Profiles, Places,
      Kinds
<1>6. CASE EnterRefers
  BY <1>6 DEF EnterRefers, Hosts
<1>7. CASE SwitchPersists
  BY <1>7
  DEF SwitchPersists, At, Restarting, Goes, Hosts, Workspaces, Absent,
      OpPlaced, OpIdentity, OpSession, UpgradeStage, PendingAlone,
      SessionFitsProfile, Operations, NoOp, Profiles, Places, Kinds
<1>8. CASE SwitchToItself
  BY <1>8 DEF SwitchToItself, Hosts
<1>9. CASE SwitchRestarts
  BY <1>9, Nothing
  DEF SwitchRestarts, At, Goes, Ends, Hosts, Workspaces, Absent, OpPlaced,
      OpIdentity, OpSession, UpgradeStage, PendingAlone, SessionFitsProfile,
      Operations, NoOp, Profiles, Places, Kinds
<1>10. CASE \/ LogoutClears \/ LogoutRevoked
  BY <1>10 DEF LogoutClears, LogoutRevoked, Hosts
<1>11. ASSUME NEW p \in Profiles, UserSelects(p) PROVE host' \in Hosts
  BY <1>11, Nothing
  DEF UserSelects, Called, Exists, Hosts, Workspaces, Absent, OpPlaced,
      OpIdentity, OpSession, UpgradeStage, PendingAlone, SessionFitsProfile,
      Operations, NoOp, Profiles, Places, Kinds
<1>12. CASE Boot
  BY <1>12
  DEF Boot, Started, Begins, Begun, Hosts, Workspaces, Absent, OpPlaced,
      OpIdentity, OpSession, UpgradeStage, PendingAlone, SessionFitsProfile,
      Operations, NoOp, Profiles, Places, Kinds
<1>13. CASE \/ Dispose \/ UNCHANGED vars
  BY <1>13 DEF Dispose, vars, Hosts
<1> QED
  BY <1>1, <1>2, <1>3, <1>4, <1>5, <1>6, <1>7, <1>8, <1>9, <1>10, <1>11, <1>12,
     <1>13
  DEF Next, OpStep, Asked, Enter, LogoutAsked, PendingExpires

LEMMA KeepsFilesTyped == IInv /\ [Next]_vars => FilesTyped'
<1> SUFFICES ASSUME IInv, [Next]_vars PROVE FilesTyped'
  OBVIOUS
<1> USE DEF IInv, TypeOK, diskVars, loginVars, boundVars
<1>1. CASE \/ LoginAsked \/ RestoreAsked \/ RefreshAsked
           \/ LogoutBegins
  BY <1>1 DEF LoginAsked, RestoreAsked, RefreshAsked, LogoutBegins, FilesTyped
<1>2. ASSUME NEW i \in Identities, SelectAsked(i) PROVE FilesTyped'
  BY <1>2 DEF SelectAsked, FilesTyped
<1>3. CASE \/ LoginAnswered \/ LoginRefused \/ LoginFails \/ Fails
           \/ Expired
  BY <1>3
  DEF LoginAnswered, At, Current, Ends, LoginRefused, Goes, LoginFails,
      ClearedOrNot, Cleared, Stored, Fails, Told, Expires, Expired, FilesTyped,
      Workspaces, OpPlaced, OpIdentity, OpSession, UpgradeStage, PendingAlone,
      SessionFitsProfile, Operations, NoOp, Profiles, Places, Kinds
<1>4. CASE \/ Loaded \/ SelectAnswered \/ RefreshAnswered \/ Saved
           \/ ContextLoaded \/ EnterAccepts
  BY <1>4
  DEF Loaded, At, Current, Accepts, Ends, SelectAnswered, Goes,
      RefreshAnswered, Saved, Stored, ContextLoaded, EnterAccepts, Upgraded,
      RunsIt, NeedsGeo, FilesTyped, Workspaces, OpPlaced, OpIdentity,
      OpSession, UpgradeStage, PendingAlone, SessionFitsProfile, Operations,
      NoOp, Profiles, Places, Kinds
<1>5. CASE EnterCreates
  BY <1>5
  DEF EnterCreates, At, Publishes, Published, FilesTyped, Workspaces, OpPlaced,
      OpIdentity, OpSession, UpgradeStage, PendingAlone, SessionFitsProfile,
      Operations, NoOp, Profiles, Places, Kinds
<1>6. CASE EnterPatchesMarket
  <2>1. op.id \in Identities => ws[op.id] \in Workspaces
    OBVIOUS
  <2> QED  BY <1>6, <2>1, Upgrades DEF EnterPatchesMarket, FilesTyped, Publishes
<1>7. CASE EnterCopies
  BY <1>7
  DEF EnterCopies, At, Publishes, NeedsGeo, Goes, FilesTyped, Workspaces,
      OpPlaced, OpIdentity, OpSession, UpgradeStage, PendingAlone,
      SessionFitsProfile, Operations, NoOp, Profiles, Places, Kinds
<1>8. CASE EnterCopied
  BY <1>8
  DEF EnterCopied, At, Publishes, Goes, FilesTyped, Workspaces, OpPlaced,
      OpIdentity, OpSession, UpgradeStage, PendingAlone, SessionFitsProfile,
      Operations, NoOp, Profiles, Places, Kinds
<1>9. CASE EnterDeclares
  <2>1. op.id \in Identities => ws[op.id] \in Workspaces
    OBVIOUS
  <2> QED  BY <1>9, <2>1, Upgrades DEF EnterDeclares, FilesTyped, Publishes
<1>10. CASE EnterPatches
  <2>1. op.id \in Identities => ws[op.id] \in Workspaces
    OBVIOUS
  <2> QED  BY <1>10, <2>1, Upgrades DEF EnterPatches, FilesTyped, Publishes
<1>11. CASE \/ EnterRefers \/ SwitchPersists \/ SwitchToItself
            \/ SwitchRestarts
  BY <1>11
  DEF EnterRefers, At, Upgraded, RunsIt, Accepts, NeedsGeo, Stored, Goes,
      SwitchPersists, Restarting, SwitchToItself, Ends, SwitchRestarts,
      FilesTyped, Workspaces, OpPlaced, OpIdentity, OpSession, UpgradeStage,
      PendingAlone, SessionFitsProfile, Operations, NoOp, Profiles, Places,
      Kinds
<1>12. CASE \/ LogoutClears \/ LogoutRevoked
  BY <1>12
  DEF LogoutClears, At, Cleared, Stored, Current, Goes, LogoutRevoked, Ends,
      FilesTyped, Workspaces, OpPlaced, OpIdentity, OpSession, UpgradeStage,
      PendingAlone, SessionFitsProfile, Operations, NoOp, Profiles, Places,
      Kinds
<1>13. ASSUME NEW p \in Profiles, UserSelects(p) PROVE FilesTyped'
  BY <1>13 DEF UserSelects, FilesTyped
<1>14. CASE Boot
  BY <1>14, Nothing
  DEF Boot, Started, Begins, Begun, FilesTyped, Workspaces, OpPlaced,
      OpIdentity, OpSession, UpgradeStage, PendingAlone, SessionFitsProfile,
      Operations, NoOp, Profiles, Places, Kinds
<1>15. CASE \/ Dispose \/ UNCHANGED vars
  BY <1>15 DEF Dispose, vars, FilesTyped
<1> QED
  BY <1>1, <1>2, <1>3, <1>4, <1>5, <1>6, <1>7, <1>8, <1>9, <1>10, <1>11, <1>12,
     <1>13, <1>14, <1>15
  DEF Next, OpStep, Asked, Enter, LogoutAsked, PendingExpires

LEMMA KeepsRestTyped == IInv /\ [Next]_vars => RestTyped'
<1> SUFFICES ASSUME IInv, [Next]_vars PROVE RestTyped'
  OBVIOUS
<1> USE DEF IInv, TypeOK, diskVars, loginVars, boundVars
<1>1. CASE \/ LoginAsked \/ RestoreAsked \/ RefreshAsked
  BY <1>1
  DEF LoginAsked, Idle, Called, Begins, Begun, RestoreAsked, RefreshAsked,
      RestTyped, OpPlaced, OpIdentity, OpSession, UpgradeStage, PendingAlone,
      SessionFitsProfile, Operations, NoOp, Profiles, Places, Kinds
<1>2. CASE \/ LogoutAsked \/ PendingExpires
  BY <1>2
  DEF LogoutAsked, LogoutBegins, Idle, Begins, Called, PendingExpires,
      RestTyped, OpPlaced, OpIdentity, OpSession, UpgradeStage, PendingAlone,
      SessionFitsProfile, Operations, NoOp, Profiles, Places, Kinds
<1>3. ASSUME NEW i \in Identities, SelectAsked(i) PROVE RestTyped'
  BY <1>3 DEF SelectAsked, Idle, Called, Begun, RestTyped
<1>4. CASE \/ LoginAnswered \/ LoginRefused \/ LoginFails \/ Fails
           \/ Expired
  BY <1>4
  DEF LoginAnswered, At, Current, Ends, LoginRefused, Goes, LoginFails,
      ClearedOrNot, Cleared, Stored, Fails, Told, Expires, Expired, RestTyped,
      OpPlaced, OpIdentity, OpSession, UpgradeStage, PendingAlone,
      SessionFitsProfile, Operations, NoOp, Profiles, Places, Kinds
<1>5. CASE \/ Loaded \/ SelectAnswered \/ RefreshAnswered \/ Saved
           \/ ContextLoaded \/ EnterAccepts
  BY <1>5
  DEF Loaded, At, Current, Accepts, Ends, SelectAnswered, Goes,
      RefreshAnswered, Saved, Stored, ContextLoaded, EnterAccepts, Upgraded,
      RunsIt, NeedsGeo, RestTyped, OpPlaced, OpIdentity, OpSession,
      UpgradeStage, PendingAlone, SessionFitsProfile, Operations, NoOp,
      Profiles, Places, Kinds
<1>6. CASE \/ EnterCreates \/ EnterPatchesMarket \/ EnterCopies
           \/ EnterCopied \/ EnterDeclares \/ EnterPatches
  BY <1>6
  DEF EnterCreates, EnterPatchesMarket, EnterCopies, EnterCopied,
      EnterDeclares, EnterPatches, RestTyped
<1>7. CASE \/ EnterRefers \/ SwitchPersists \/ SwitchToItself
           \/ SwitchRestarts
  BY <1>7
  DEF EnterRefers, SwitchPersists, SwitchToItself, SwitchRestarts, RestTyped
<1>8. CASE \/ LogoutClears \/ LogoutRevoked
  BY <1>8 DEF LogoutClears, LogoutRevoked, RestTyped
<1>9. ASSUME NEW p \in Profiles, UserSelects(p) PROVE RestTyped'
  BY <1>9 DEF UserSelects, Called, Exists, RestTyped
<1>10. CASE Boot
  <2>1. boots' \in Nat /\ gen' \in Nat /\ calls' \in Nat
    BY <1>10 DEF Boot, Begins
  <2>2. disposed' \in BOOLEAN /\ session' \in Profiles /\ pending' \in SUBSET Identities
    BY <1>10 DEF Boot, Profiles
  <2>3. phase' = "loading" /\ loggedOut' \in SUBSET Profiles
    BY <1>10 DEF Boot
  <2> QED  BY <2>1, <2>2, <2>3 DEF RestTyped
<1>11. CASE Dispose
  BY <1>11
  DEF Dispose, RestTyped, OpPlaced, OpIdentity, OpSession, UpgradeStage,
      PendingAlone, SessionFitsProfile, Operations, NoOp, Profiles, Places,
      Kinds
<1>12. CASE UNCHANGED vars
  BY <1>12 DEF vars, RestTyped
<1> QED
  BY <1>1, <1>2, <1>3, <1>4, <1>5, <1>6, <1>7, <1>8, <1>9, <1>10, <1>11, <1>12
  DEF Next, OpStep, Asked, Enter, LogoutAsked, PendingExpires

LEMMA KeepsSessionFitsProfile == IInv /\ [Next]_vars => SessionFitsProfile'
<1> SUFFICES ASSUME IInv, [Next]_vars PROVE SessionFitsProfile'
  OBVIOUS
<1> USE DEF IInv, TypeOK, diskVars, loginVars, boundVars
<1>1. CASE \/ LoginAsked \/ RestoreAsked \/ RefreshAsked
           \/ LogoutBegins
  BY <1>1
  DEF LoginAsked, RestoreAsked, RefreshAsked, LogoutBegins, SessionFitsProfile
<1>2. ASSUME NEW i \in Identities, SelectAsked(i) PROVE SessionFitsProfile'
  BY <1>2 DEF SelectAsked, SessionFitsProfile
<1>3. CASE \/ LoginAnswered \/ LoginRefused \/ LoginFails \/ Fails
           \/ Expired
  BY <1>3
  DEF LoginAnswered, At, Current, Ends, LoginRefused, Goes, LoginFails,
      ClearedOrNot, Cleared, Stored, Fails, Told, Expires, Expired,
      SessionFitsProfile
<1>4. CASE \/ Loaded \/ SelectAnswered \/ RefreshAnswered \/ Saved
           \/ ContextLoaded \/ EnterAccepts
  BY <1>4
  DEF Loaded, At, Current, Accepts, Ends, SelectAnswered, Goes,
      RefreshAnswered, Saved, Stored, ContextLoaded, EnterAccepts, Upgraded,
      RunsIt, NeedsGeo, SessionFitsProfile, OpPlaced, OpIdentity, OpSession,
      UpgradeStage, PendingAlone, Operations, NoOp, Profiles, Places, Kinds
<1>5. CASE \/ EnterCreates \/ EnterPatchesMarket \/ EnterCopies
           \/ EnterCopied \/ EnterDeclares \/ EnterPatches
  BY <1>5
  DEF EnterCreates, EnterPatchesMarket, EnterCopies, EnterCopied,
      EnterDeclares, EnterPatches, SessionFitsProfile
<1>6. CASE \/ EnterRefers \/ SwitchPersists \/ SwitchToItself
           \/ SwitchRestarts
  BY <1>6
  DEF EnterRefers, SwitchPersists, SwitchToItself, SwitchRestarts,
      SessionFitsProfile
<1>7. CASE \/ LogoutClears \/ LogoutRevoked
  BY <1>7 DEF LogoutClears, LogoutRevoked, SessionFitsProfile
<1>8. ASSUME NEW p \in Profiles, UserSelects(p) PROVE SessionFitsProfile'
  BY <1>8 DEF UserSelects, SessionFitsProfile
<1>9. CASE Boot
  BY <1>9 DEF Boot, SessionFitsProfile
<1>10. CASE \/ Dispose \/ UNCHANGED vars
  BY <1>10 DEF Dispose, vars, SessionFitsProfile
<1> QED
  BY <1>1, <1>2, <1>3, <1>4, <1>5, <1>6, <1>7, <1>8, <1>9, <1>10
  DEF Next, OpStep, Asked, Enter, LogoutAsked, PendingExpires

LEMMA KeepsVaultFitsProfile == IInv /\ [Next]_vars => VaultFitsProfile'
<1> SUFFICES ASSUME IInv, [Next]_vars PROVE VaultFitsProfile'
  OBVIOUS
<1> USE DEF IInv, TypeOK, diskVars, loginVars, boundVars
<1>1. CASE \/ LoginAsked \/ RestoreAsked \/ RefreshAsked
           \/ LogoutBegins
  BY <1>1
  DEF LoginAsked, RestoreAsked, RefreshAsked, LogoutBegins, VaultFitsProfile
<1>2. ASSUME NEW i \in Identities, SelectAsked(i) PROVE VaultFitsProfile'
  BY <1>2 DEF SelectAsked, VaultFitsProfile
<1>3. CASE \/ LoginAnswered \/ LoginRefused \/ LoginFails \/ Fails
           \/ Expired
  BY <1>3
  DEF LoginAnswered, At, Current, Ends, LoginRefused, Goes, LoginFails,
      ClearedOrNot, Cleared, Stored, Fails, Told, Expires, Expired,
      VaultFitsProfile
<1>4. CASE \/ Loaded \/ SelectAnswered \/ RefreshAnswered \/ Saved
           \/ ContextLoaded \/ EnterAccepts
  BY <1>4
  DEF Loaded, At, Current, Accepts, Ends, SelectAnswered, Goes,
      RefreshAnswered, Saved, Stored, ContextLoaded, EnterAccepts, Upgraded,
      RunsIt, NeedsGeo, VaultFitsProfile, OpPlaced, OpIdentity, OpSession,
      UpgradeStage, PendingAlone, SessionFitsProfile, Operations, NoOp,
      Profiles, Places, Kinds
<1>5. CASE \/ EnterCreates \/ EnterPatchesMarket \/ EnterCopies
           \/ EnterCopied \/ EnterDeclares \/ EnterPatches
  BY <1>5
  DEF EnterCreates, EnterPatchesMarket, EnterCopies, EnterCopied,
      EnterDeclares, EnterPatches, VaultFitsProfile
<1>6. CASE \/ EnterRefers \/ SwitchPersists \/ SwitchToItself
           \/ SwitchRestarts
  BY <1>6
  DEF EnterRefers, At, Upgraded, RunsIt, Accepts, NeedsGeo, Stored, Goes,
      SwitchPersists, Restarting, SwitchToItself, Ends, SwitchRestarts,
      VaultFitsProfile
<1>7. CASE \/ LogoutClears \/ LogoutRevoked
  BY <1>7
  DEF LogoutClears, At, Cleared, Stored, Current, Goes, LogoutRevoked, Ends,
      VaultFitsProfile
<1>8. ASSUME NEW p \in Profiles, UserSelects(p) PROVE VaultFitsProfile'
  BY <1>8 DEF UserSelects, VaultFitsProfile
<1>9. CASE Boot
  BY <1>9 DEF Boot, VaultFitsProfile
<1>10. CASE \/ Dispose \/ UNCHANGED vars
  BY <1>10 DEF Dispose, vars, VaultFitsProfile
<1> QED
  BY <1>1, <1>2, <1>3, <1>4, <1>5, <1>6, <1>7, <1>8, <1>9, <1>10
  DEF Next, OpStep, Asked, Enter, LogoutAsked, PendingExpires

LEMMA KeepsLoggedOutStaysOut == IInv /\ [Next]_vars => LoggedOutStaysOut'
<1> SUFFICES ASSUME IInv, [Next]_vars PROVE LoggedOutStaysOut'
  OBVIOUS
<1> USE DEF IInv, TypeOK, diskVars, loginVars, boundVars
<1>1. CASE \/ LoginAsked \/ RestoreAsked \/ RefreshAsked
           \/ LogoutBegins
  BY <1>1
  DEF LoginAsked, RestoreAsked, RefreshAsked, LogoutBegins, LoggedOutStaysOut
<1>2. ASSUME NEW i \in Identities, SelectAsked(i) PROVE LoggedOutStaysOut'
  BY <1>2 DEF SelectAsked, LoggedOutStaysOut
<1>3. CASE \/ LoginAnswered \/ LoginRefused \/ LoginFails \/ Fails
           \/ Expired
  BY <1>3
  DEF LoginAnswered, At, Current, Ends, LoginRefused, Goes, LoginFails,
      ClearedOrNot, Cleared, Stored, Fails, Told, Expires, Expired,
      LoggedOutStaysOut
<1>4. CASE \/ Loaded \/ SelectAnswered \/ RefreshAnswered \/ Saved
           \/ ContextLoaded \/ EnterAccepts
  BY <1>4
  DEF Loaded, At, Current, Accepts, Ends, SelectAnswered, Goes,
      RefreshAnswered, Saved, Stored, ContextLoaded, EnterAccepts, Upgraded,
      RunsIt, NeedsGeo, LoggedOutStaysOut, OpPlaced, OpIdentity, OpSession,
      UpgradeStage, PendingAlone, SessionFitsProfile, Operations, NoOp,
      Profiles, Places, Kinds
<1>5. CASE \/ EnterCreates \/ EnterPatchesMarket \/ EnterCopies
           \/ EnterCopied \/ EnterDeclares \/ EnterPatches
  BY <1>5
  DEF EnterCreates, EnterPatchesMarket, EnterCopies, EnterCopied,
      EnterDeclares, EnterPatches, LoggedOutStaysOut
<1>6. CASE \/ EnterRefers \/ SwitchPersists \/ SwitchToItself
           \/ SwitchRestarts
  BY <1>6
  DEF EnterRefers, At, Upgraded, RunsIt, Accepts, NeedsGeo, Stored, Goes,
      SwitchPersists, Restarting, SwitchToItself, Ends, SwitchRestarts,
      LoggedOutStaysOut, OpPlaced, OpIdentity, OpSession, UpgradeStage,
      PendingAlone, SessionFitsProfile, Operations, NoOp, Profiles, Places,
      Kinds
<1>7. CASE \/ LogoutClears \/ LogoutRevoked
  BY <1>7
  DEF LogoutClears, At, Cleared, Stored, Current, Goes, LogoutRevoked, Ends,
      LoggedOutStaysOut, OpPlaced, OpIdentity, OpSession, UpgradeStage,
      PendingAlone, SessionFitsProfile, Operations, NoOp, Profiles, Places,
      Kinds
<1>8. ASSUME NEW p \in Profiles, UserSelects(p) PROVE LoggedOutStaysOut'
  BY <1>8 DEF UserSelects, LoggedOutStaysOut
<1>9. CASE Boot
  BY <1>9 DEF Boot, LoggedOutStaysOut
<1>10. CASE \/ Dispose \/ UNCHANGED vars
  BY <1>10 DEF Dispose, vars, LoggedOutStaysOut
<1> QED
  BY <1>1, <1>2, <1>3, <1>4, <1>5, <1>6, <1>7, <1>8, <1>9, <1>10
  DEF Next, OpStep, Asked, Enter, LogoutAsked, PendingExpires

LEMMA KeepsPatchedIsWhole == IInv /\ [Next]_vars => PatchedIsWhole'
<1> SUFFICES ASSUME IInv, [Next]_vars PROVE PatchedIsWhole'
  OBVIOUS
<1> USE DEF IInv, TypeOK, diskVars, loginVars, boundVars
<1>1. CASE \/ LoginAsked \/ RestoreAsked \/ RefreshAsked
           \/ LogoutBegins
  BY <1>1
  DEF LoginAsked, RestoreAsked, RefreshAsked, LogoutBegins, PatchedIsWhole
<1>2. ASSUME NEW i \in Identities, SelectAsked(i) PROVE PatchedIsWhole'
  BY <1>2 DEF SelectAsked, PatchedIsWhole
<1>3. CASE \/ LoginAnswered \/ LoginRefused \/ LoginFails \/ Fails
           \/ Expired
  BY <1>3
  DEF LoginAnswered, LoginRefused, LoginFails, Fails, Expired, PatchedIsWhole
<1>4. CASE \/ Loaded \/ SelectAnswered \/ RefreshAnswered \/ Saved
           \/ ContextLoaded \/ EnterAccepts
  BY <1>4
  DEF Loaded, SelectAnswered, RefreshAnswered, Saved, ContextLoaded,
      EnterAccepts, PatchedIsWhole
<1>5. CASE \/ EnterCreates \/ EnterPatchesMarket \/ EnterCopies
           \/ EnterCopied \/ EnterDeclares \/ EnterPatches
  BY <1>5
  DEF EnterCreates, At, Publishes, Published, EnterPatchesMarket, EnterCopies,
      NeedsGeo, Goes, EnterCopied, EnterDeclares, EnterPatches, Accepts,
      PatchedIsWhole, Workspaces, OpPlaced, OpIdentity, OpSession,
      UpgradeStage, PendingAlone, SessionFitsProfile, Operations, NoOp,
      Profiles, Places, Kinds
<1>6. CASE \/ EnterRefers \/ SwitchPersists \/ SwitchToItself
           \/ SwitchRestarts
  BY <1>6
  DEF EnterRefers, SwitchPersists, SwitchToItself, SwitchRestarts,
      PatchedIsWhole
<1>7. CASE \/ LogoutClears \/ LogoutRevoked
  BY <1>7 DEF LogoutClears, LogoutRevoked, PatchedIsWhole
<1>8. ASSUME NEW p \in Profiles, UserSelects(p) PROVE PatchedIsWhole'
  BY <1>8 DEF UserSelects, PatchedIsWhole
<1>9. CASE Boot
  BY <1>9 DEF Boot, PatchedIsWhole
<1>10. CASE \/ Dispose \/ UNCHANGED vars
  BY <1>10 DEF Dispose, vars, PatchedIsWhole
<1> QED
  BY <1>1, <1>2, <1>3, <1>4, <1>5, <1>6, <1>7, <1>8, <1>9, <1>10
  DEF Next, OpStep, Asked, Enter, LogoutAsked, PendingExpires

LEMMA KeepsOpPlaced == IInv /\ [Next]_vars => OpPlaced'
<1> SUFFICES ASSUME IInv, [Next]_vars PROVE OpPlaced'
  OBVIOUS
<1> USE DEF IInv, TypeOK, diskVars, loginVars, boundVars
<1>1. CASE \/ LoginAsked \/ RestoreAsked \/ RefreshAsked
           \/ LogoutBegins
  BY <1>1
  DEF LoginAsked, Idle, Called, Begins, Begun, RestoreAsked, RefreshAsked,
      LogoutBegins, OpPlaced
<1>2. ASSUME NEW i \in Identities, SelectAsked(i) PROVE OpPlaced'
  BY <1>2 DEF SelectAsked, Idle, Called, Begun, OpPlaced
<1>3. CASE \/ LoginAnswered \/ LoginRefused \/ LoginFails \/ Fails
           \/ Expired
  BY <1>3
  DEF LoginAnswered, At, Current, Ends, LoginRefused, Goes, LoginFails,
      ClearedOrNot, Cleared, Stored, Fails, Told, Expires, Expired, OpPlaced,
      Entering, OpIdentity, OpSession, UpgradeStage, PendingAlone,
      SessionFitsProfile, Operations, NoOp, Profiles, Places, Kinds
<1>4. CASE Loaded
  BY <1>4, Nothing
  DEF Loaded, At, Current, Accepts, Ends, OpPlaced, Entering, OpIdentity,
      OpSession, UpgradeStage, PendingAlone, SessionFitsProfile, Operations,
      NoOp, Profiles, Places, Kinds
<1>5. CASE SelectAnswered
  BY <1>5 DEF SelectAnswered, At, Current, Goes, OpPlaced, Entering
<1>6. CASE RefreshAnswered
  BY <1>6 DEF RefreshAnswered, At, Current, Goes, OpPlaced
<1>7. CASE Saved
  BY <1>7
  DEF Saved, At, Stored, Current, Goes, Ends, OpPlaced, Entering, OpIdentity,
      OpSession, UpgradeStage, PendingAlone, SessionFitsProfile, Operations,
      NoOp, Profiles, Places, Kinds
<1>8. CASE ContextLoaded
  BY <1>8, Nothing DEF ContextLoaded, At, Current, Ends, OpPlaced, Entering
<1>9. CASE EnterAccepts
  BY <1>9
  DEF EnterAccepts, At, Upgraded, RunsIt, Accepts, NeedsGeo, Goes, Current,
      Ends, OpPlaced, Entering, OpIdentity, OpSession, UpgradeStage,
      PendingAlone, SessionFitsProfile, Operations, NoOp, Profiles, Places,
      Kinds
<1>10. CASE \/ EnterCreates \/ EnterPatchesMarket \/ EnterCopies
            \/ EnterCopied \/ EnterDeclares \/ EnterPatches
  BY <1>10, Nothing
  DEF EnterCreates, At, Publishes, Published, EnterPatchesMarket, EnterCopies,
      NeedsGeo, Goes, EnterCopied, EnterDeclares, EnterPatches, Accepts,
      OpPlaced, Entering, OpIdentity, OpSession, UpgradeStage, PendingAlone,
      SessionFitsProfile, Operations, NoOp, Profiles, Places, Kinds
<1>11. CASE \/ EnterRefers \/ SwitchPersists \/ SwitchToItself
            \/ SwitchRestarts
  BY <1>11
  DEF EnterRefers, At, Upgraded, RunsIt, Accepts, NeedsGeo, Stored, Goes,
      SwitchPersists, Restarting, SwitchToItself, Ends, SwitchRestarts,
      OpPlaced, Entering, OpIdentity, OpSession, UpgradeStage, PendingAlone,
      SessionFitsProfile, Operations, NoOp, Profiles, Places, Kinds
<1>12. CASE \/ LogoutClears \/ LogoutRevoked
  BY <1>12
  DEF LogoutClears, At, Cleared, Stored, Current, Goes, LogoutRevoked, Ends,
      OpPlaced, Entering, OpIdentity, OpSession, UpgradeStage, PendingAlone,
      SessionFitsProfile, Operations, NoOp, Profiles, Places, Kinds
<1>13. ASSUME NEW p \in Profiles, UserSelects(p) PROVE OpPlaced'
  BY <1>13 DEF UserSelects, OpPlaced
<1>14. CASE Boot
  BY <1>14 DEF Boot, Started, Begins, Begun, OpPlaced
<1>15. CASE \/ Dispose \/ UNCHANGED vars
  BY <1>15 DEF Dispose, vars, OpPlaced
<1> QED
  BY <1>1, <1>2, <1>3, <1>4, <1>5, <1>6, <1>7, <1>8, <1>9, <1>10, <1>11, <1>12,
     <1>13, <1>14, <1>15
  DEF Next, OpStep, Asked, Enter, LogoutAsked, PendingExpires

LEMMA KeepsOpIdentity == IInv /\ [Next]_vars => OpIdentity'
<1> SUFFICES ASSUME IInv, [Next]_vars PROVE OpIdentity'
  OBVIOUS
<1> USE DEF IInv, TypeOK, diskVars, loginVars, boundVars
<1>1. CASE \/ LoginAsked \/ RestoreAsked \/ RefreshAsked
           \/ LogoutBegins
  BY <1>1
  DEF LoginAsked, Idle, Called, Begins, Begun, RestoreAsked, RefreshAsked,
      LogoutBegins, OpIdentity, Entering, OpPlaced, OpSession, UpgradeStage,
      PendingAlone, SessionFitsProfile, Operations, NoOp, Profiles, Places,
      Kinds
<1>2. ASSUME NEW i \in Identities, SelectAsked(i) PROVE OpIdentity'
  BY <1>2 DEF SelectAsked, Idle, Called, Begun, OpIdentity
<1>3. CASE \/ LoginAnswered \/ LoginRefused \/ LoginFails \/ Fails
           \/ Expired
  BY <1>3
  DEF LoginAnswered, At, Current, Ends, LoginRefused, Goes, LoginFails,
      ClearedOrNot, Cleared, Stored, Fails, Told, Expires, Expired, OpIdentity,
      Entering, OpPlaced, OpSession, UpgradeStage, PendingAlone,
      SessionFitsProfile, Operations, NoOp, Profiles, Places, Kinds
<1>4. CASE Loaded
  BY <1>4, Nothing
  DEF Loaded, At, Current, Accepts, Ends, OpIdentity, Entering, OpPlaced,
      OpSession, UpgradeStage, PendingAlone, SessionFitsProfile, Operations,
      NoOp, Profiles, Places, Kinds
<1>5. CASE SelectAnswered
  BY <1>5 DEF SelectAnswered, At, Current, Goes, OpIdentity
<1>6. CASE RefreshAnswered
  BY <1>6 DEF RefreshAnswered, At, Current, Goes, OpIdentity
<1>7. CASE Saved
  BY <1>7
  DEF Saved, At, Stored, Current, Goes, Ends, OpIdentity, Entering, OpPlaced,
      OpSession, UpgradeStage, PendingAlone, SessionFitsProfile, Operations,
      NoOp, Profiles, Places, Kinds
<1>8. CASE ContextLoaded
  BY <1>8, Nothing DEF ContextLoaded, At, Current, Ends, OpIdentity, Entering
<1>9. CASE EnterAccepts
  BY <1>9
  DEF EnterAccepts, At, Upgraded, RunsIt, Accepts, NeedsGeo, Goes, Current,
      Ends, OpIdentity, Entering, OpPlaced, OpSession, UpgradeStage,
      PendingAlone, SessionFitsProfile, Operations, NoOp, Profiles, Places,
      Kinds
<1>10. CASE EnterCreates
  BY <1>10, Nothing
  DEF EnterCreates, At, Publishes, Published, OpIdentity, Entering, OpPlaced,
      OpSession, UpgradeStage, PendingAlone, SessionFitsProfile, Operations,
      NoOp, Profiles, Places, Kinds
<1>11. CASE EnterPatchesMarket
  BY <1>11, Nothing
  DEF EnterPatchesMarket, At, Publishes, OpIdentity, Entering, OpPlaced,
      OpSession, UpgradeStage, PendingAlone, SessionFitsProfile, Operations,
      NoOp, Profiles, Places, Kinds
<1>12. CASE EnterCopies
  BY <1>12, Nothing
  DEF EnterCopies, At, Publishes, NeedsGeo, Goes, OpIdentity, Entering,
      OpPlaced, OpSession, UpgradeStage, PendingAlone, SessionFitsProfile,
      Operations, NoOp, Profiles, Places, Kinds
<1>13. CASE EnterCopied
  BY <1>13, Nothing
  DEF EnterCopied, At, Publishes, Goes, OpIdentity, Entering, OpPlaced,
      OpSession, UpgradeStage, PendingAlone, SessionFitsProfile, Operations,
      NoOp, Profiles, Places, Kinds
<1>14. CASE EnterDeclares
  BY <1>14, Nothing
  DEF EnterDeclares, At, Publishes, Goes, OpIdentity, Entering, OpPlaced,
      OpSession, UpgradeStage, PendingAlone, SessionFitsProfile, Operations,
      NoOp, Profiles, Places, Kinds
<1>15. CASE EnterPatches
  BY <1>15, Nothing
  DEF EnterPatches, At, Publishes, Accepts, OpIdentity, Entering, OpPlaced,
      OpSession, UpgradeStage, PendingAlone, SessionFitsProfile, Operations,
      NoOp, Profiles, Places, Kinds
<1>16. CASE \/ EnterRefers \/ SwitchPersists \/ SwitchToItself
            \/ SwitchRestarts
  BY <1>16
  DEF EnterRefers, At, Upgraded, RunsIt, Accepts, NeedsGeo, Stored, Goes,
      SwitchPersists, Restarting, SwitchToItself, Ends, SwitchRestarts,
      OpIdentity, Entering, OpPlaced, OpSession, UpgradeStage, PendingAlone,
      SessionFitsProfile, Operations, NoOp, Profiles, Places, Kinds
<1>17. CASE \/ LogoutClears \/ LogoutRevoked
  BY <1>17
  DEF LogoutClears, At, Cleared, Stored, Current, Goes, LogoutRevoked, Ends,
      OpIdentity, Entering, OpPlaced, OpSession, UpgradeStage, PendingAlone,
      SessionFitsProfile, Operations, NoOp, Profiles, Places, Kinds
<1>18. ASSUME NEW p \in Profiles, UserSelects(p) PROVE OpIdentity'
  BY <1>18 DEF UserSelects, OpIdentity
<1>19. CASE Boot
  BY <1>19 DEF Boot, Started, Begins, Begun, OpIdentity
<1>20. CASE \/ Dispose \/ UNCHANGED vars
  BY <1>20 DEF Dispose, vars, OpIdentity
<1> QED
  BY <1>1, <1>2, <1>3, <1>4, <1>5, <1>6, <1>7, <1>8, <1>9, <1>10, <1>11, <1>12,
     <1>13, <1>14, <1>15, <1>16, <1>17, <1>18, <1>19, <1>20
  DEF Next, OpStep, Asked, Enter, LogoutAsked, PendingExpires

LEMMA KeepsOpSession == IInv /\ [Next]_vars => OpSession'
<1> SUFFICES ASSUME IInv, [Next]_vars PROVE OpSession'
  OBVIOUS
<1> USE DEF IInv, TypeOK, diskVars, loginVars, boundVars
<1>1. CASE LoginAsked
  BY <1>1 DEF LoginAsked, Idle, Called, Begins, Begun, OpSession
<1>2. CASE RestoreAsked
  BY <1>2 DEF RestoreAsked, Idle, Called, Begins, Begun, OpSession
<1>3. CASE RefreshAsked
  <2>1. /\ session \in Identities /\ ~host.geoRestart
        /\ host.profile = session /\ host.profile \notin loggedOut
    BY <1>3 DEF RefreshAsked, GeoNoticed, SessionFitsProfile, LoggedOutStaysOut, Profiles
  <2>2. op'.kind = "refresh" /\ op'.at = "api"
    BY <1>3 DEF RefreshAsked, Begun
  <2> QED  BY <1>3, <2>1, <2>2 DEF RefreshAsked, OpSession
<1>4. CASE LogoutBegins
  BY <1>4 DEF LogoutBegins, Idle, Begins, Begun, OpSession
<1>5. ASSUME NEW i \in Identities, SelectAsked(i) PROVE OpSession'
  BY <1>5
  DEF SelectAsked, Idle, Called, Begun, OpSession, Entering, OpPlaced,
      OpIdentity, UpgradeStage, PendingAlone, SessionFitsProfile, Operations,
      NoOp, Profiles, Places, Kinds
<1>6. CASE \/ LoginAnswered \/ LoginRefused \/ LoginFails \/ Fails
           \/ Expired
  BY <1>6
  DEF LoginAnswered, At, Current, Ends, LoginRefused, Goes, LoginFails,
      ClearedOrNot, Cleared, Stored, Fails, Told, Expires, Expired, OpSession,
      Entering, OpPlaced, OpIdentity, UpgradeStage, PendingAlone,
      SessionFitsProfile, Operations, NoOp, Profiles, Places, Kinds
<1>7. CASE Loaded
  <2>1. op \in Operations /\ op.kind = "restore" /\ op.at = "load"
    BY <1>7 DEF Loaded, At
  <2>2. CASE op' = NoOp
    BY <1>7, <2>2, Nothing DEF Loaded, OpSession
  <2>3. CASE op' # NoOp
    <3> DEFINE stored == vault[host.profile]
    <3>1. /\ stored \in Identities /\ host.profile = stored
          /\ op' = [op EXCEPT !.at = "enter", !.id = stored]
          /\ UNCHANGED <<host, phase, session, loggedOut>>
      BY <1>7, <2>3 DEF Loaded, Accepts, Ends, Profiles
    <3>2. op'.kind = "restore" /\ op'.at = "enter"
      BY <2>1, <3>1, OpNamed DEF Places
    <3>3. stored # NoId
      BY <3>1
    <3>4. host.profile \notin loggedOut
      BY <3>1, <3>3 DEF LoggedOutStaysOut
    <3> QED  BY <2>1, <3>1, <3>2, <3>4 DEF OpSession
  <2> QED  BY <2>2, <2>3
<1>8. CASE SelectAnswered
  BY <1>8 DEF SelectAnswered, At, Current, Goes, OpSession
<1>9. CASE RefreshAnswered
  BY <1>9 DEF RefreshAnswered, At, Current, Goes, OpSession
<1>10. CASE Saved
  BY <1>10
  DEF Saved, At, Stored, Current, Goes, Ends, OpSession, Entering, OpPlaced,
      OpIdentity, UpgradeStage, PendingAlone, SessionFitsProfile, Operations,
      NoOp, Profiles, Places, Kinds
<1>11. CASE ContextLoaded
  BY <1>11, Nothing DEF ContextLoaded, At, Current, Ends, OpSession, Entering
<1>12. CASE EnterAccepts
  BY <1>12
  DEF EnterAccepts, At, Upgraded, RunsIt, Accepts, NeedsGeo, Goes, Current,
      Ends, OpSession, Entering, OpPlaced, OpIdentity, UpgradeStage,
      PendingAlone, SessionFitsProfile, Operations, NoOp, Profiles, Places,
      Kinds
<1>13. CASE EnterCreates
  BY <1>13 DEF EnterCreates, OpSession
<1>14. CASE EnterPatchesMarket
  BY <1>14 DEF EnterPatchesMarket, OpSession
<1>15. CASE EnterCopies
  BY <1>15 DEF EnterCopies, At, Publishes, NeedsGeo, Goes, OpSession
<1>16. CASE EnterCopied
  BY <1>16 DEF EnterCopied, At, Publishes, Goes, OpSession
<1>17. CASE EnterDeclares
  BY <1>17 DEF EnterDeclares, At, Publishes, Goes, OpSession
<1>18. CASE EnterPatches
  BY <1>18
  DEF EnterPatches, At, Publishes, Accepts, OpSession, Entering, OpPlaced,
      OpIdentity, UpgradeStage, PendingAlone, SessionFitsProfile, Operations,
      NoOp, Profiles, Places, Kinds
<1>19. CASE \/ EnterRefers \/ SwitchPersists \/ SwitchToItself
            \/ SwitchRestarts
  BY <1>19
  DEF EnterRefers, At, Upgraded, RunsIt, Accepts, NeedsGeo, Stored, Goes,
      SwitchPersists, Restarting, SwitchToItself, Ends, SwitchRestarts,
      OpSession, Entering, OpPlaced, OpIdentity, UpgradeStage, PendingAlone,
      SessionFitsProfile, Operations, NoOp, Profiles, Places, Kinds
<1>20. CASE \/ LogoutClears \/ LogoutRevoked
  BY <1>20
  DEF LogoutClears, At, Cleared, Stored, Current, Goes, LogoutRevoked, Ends,
      OpSession, Entering, OpPlaced, OpIdentity, UpgradeStage, PendingAlone,
      SessionFitsProfile, Operations, NoOp, Profiles, Places, Kinds
<1>21. ASSUME NEW p \in Profiles, UserSelects(p) PROVE OpSession'
  BY <1>21 DEF UserSelects, OpSession
<1>22. CASE Boot
  BY <1>22 DEF Boot, Started, Begins, Begun, OpSession
<1>23. CASE \/ Dispose \/ UNCHANGED vars
  BY <1>23 DEF Dispose, vars, OpSession
<1> QED
  BY <1>1, <1>2, <1>3, <1>4, <1>5, <1>6, <1>7, <1>8, <1>9, <1>10, <1>11, <1>12,
     <1>13, <1>14, <1>15, <1>16, <1>17, <1>18, <1>19, <1>20, <1>21, <1>22,
     <1>23
  DEF Next, OpStep, Asked, Enter, LogoutAsked, PendingExpires

LEMMA KeepsPendingAlone == IInv /\ [Next]_vars => PendingAlone'
<1> SUFFICES ASSUME IInv, [Next]_vars PROVE PendingAlone'
  OBVIOUS
<1> USE DEF IInv, TypeOK, diskVars, loginVars, boundVars
<1>1. CASE \/ LoginAsked \/ RestoreAsked \/ RefreshAsked
           \/ LogoutBegins
  BY <1>1
  DEF LoginAsked, RestoreAsked, RefreshAsked, LogoutBegins, PendingAlone
<1>2. ASSUME NEW i \in Identities, SelectAsked(i) PROVE PendingAlone'
  BY <1>2 DEF SelectAsked, PendingAlone
<1>3. CASE \/ LoginAnswered \/ LoginRefused \/ LoginFails \/ Fails
           \/ Expired
  BY <1>3
  DEF LoginAnswered, At, Current, Ends, LoginRefused, Goes, LoginFails,
      ClearedOrNot, Cleared, Stored, Fails, Told, Expires, Expired,
      PendingAlone, OpPlaced, OpIdentity, OpSession, UpgradeStage,
      SessionFitsProfile, Operations, NoOp, Profiles, Places, Kinds
<1>4. CASE \/ Loaded \/ SelectAnswered \/ RefreshAnswered \/ Saved
           \/ ContextLoaded \/ EnterAccepts
  BY <1>4
  DEF Loaded, At, Current, Accepts, Ends, SelectAnswered, Goes,
      RefreshAnswered, Saved, Stored, ContextLoaded, EnterAccepts, Upgraded,
      RunsIt, NeedsGeo, PendingAlone
<1>5. CASE \/ EnterCreates \/ EnterPatchesMarket \/ EnterCopies
           \/ EnterCopied \/ EnterDeclares \/ EnterPatches
  BY <1>5
  DEF EnterCreates, At, Publishes, Published, EnterPatchesMarket, EnterCopies,
      NeedsGeo, Goes, EnterCopied, EnterDeclares, EnterPatches, Accepts,
      PendingAlone
<1>6. CASE \/ EnterRefers \/ SwitchPersists \/ SwitchToItself
           \/ SwitchRestarts
  BY <1>6
  DEF EnterRefers, At, Upgraded, RunsIt, Accepts, NeedsGeo, Stored, Goes,
      SwitchPersists, Restarting, SwitchToItself, Ends, SwitchRestarts,
      PendingAlone
<1>7. CASE \/ LogoutClears \/ LogoutRevoked
  BY <1>7
  DEF LogoutClears, At, Cleared, Stored, Current, Goes, LogoutRevoked, Ends,
      PendingAlone
<1>8. ASSUME NEW p \in Profiles, UserSelects(p) PROVE PendingAlone'
  BY <1>8 DEF UserSelects, PendingAlone
<1>9. CASE Boot
  BY <1>9 DEF Boot, PendingAlone
<1>10. CASE \/ Dispose \/ UNCHANGED vars
  BY <1>10 DEF Dispose, vars, PendingAlone
<1> QED
  BY <1>1, <1>2, <1>3, <1>4, <1>5, <1>6, <1>7, <1>8, <1>9, <1>10
  DEF Next, OpStep, Asked, Enter, LogoutAsked, PendingExpires

LEMMA KeepsUpgradeStage == IInv /\ [Next]_vars => UpgradeStage'
<1> SUFFICES ASSUME IInv, [Next]_vars PROVE UpgradeStage'
  OBVIOUS
<1> USE DEF IInv, TypeOK, diskVars, loginVars, boundVars
<1>1. CASE \/ LoginAsked \/ RestoreAsked \/ RefreshAsked
           \/ LogoutBegins
  BY <1>1
  DEF LoginAsked, Idle, Called, Begins, Begun, RestoreAsked, RefreshAsked,
      LogoutBegins, UpgradeStage
<1>2. ASSUME NEW i \in Identities, SelectAsked(i) PROVE UpgradeStage'
  BY <1>2 DEF SelectAsked, Idle, Called, Begun, UpgradeStage
<1>3. CASE \/ LoginAnswered \/ LoginRefused \/ LoginFails \/ Fails
           \/ Expired
  BY <1>3
  DEF LoginAnswered, At, Current, Ends, LoginRefused, Goes, LoginFails,
      ClearedOrNot, Cleared, Stored, Fails, Told, Expires, Expired,
      UpgradeStage, Entering, Workspaces, PatchedIsWhole, OpPlaced, OpIdentity,
      OpSession, PendingAlone, SessionFitsProfile, Operations, NoOp, Profiles,
      Places, Kinds
<1>4. CASE Loaded
  BY <1>4, Nothing
  DEF Loaded, At, Current, Accepts, Ends, UpgradeStage, Entering, Workspaces,
      PatchedIsWhole, OpPlaced, OpIdentity, OpSession, PendingAlone,
      SessionFitsProfile, Operations, NoOp, Profiles, Places, Kinds
<1>5. CASE SelectAnswered
  BY <1>5 DEF SelectAnswered, At, Current, Goes, UpgradeStage
<1>6. CASE RefreshAnswered
  BY <1>6 DEF RefreshAnswered, At, Current, Goes, UpgradeStage
<1>7. CASE Saved
  BY <1>7
  DEF Saved, At, Stored, Current, Goes, Ends, UpgradeStage, Entering,
      Workspaces, PatchedIsWhole, OpPlaced, OpIdentity, OpSession,
      PendingAlone, SessionFitsProfile, Operations, NoOp, Profiles, Places,
      Kinds
<1>8. CASE ContextLoaded
  BY <1>8, Nothing
  DEF ContextLoaded, At, Current, Ends, UpgradeStage, Entering, Workspaces,
      PatchedIsWhole
<1>9. CASE EnterAccepts
  BY <1>9
  DEF EnterAccepts, At, Upgraded, RunsIt, Accepts, NeedsGeo, Goes, Current,
      Ends, UpgradeStage, Entering, Workspaces, PatchedIsWhole, OpPlaced,
      OpIdentity, OpSession, PendingAlone, SessionFitsProfile, Operations,
      NoOp, Profiles, Places, Kinds
<1>10. CASE EnterCreates
  BY <1>10 DEF EnterCreates, At, Publishes, Published, UpgradeStage
<1>11. CASE EnterPatchesMarket
  BY <1>11 DEF EnterPatchesMarket, At, Publishes, UpgradeStage
<1>12. CASE EnterCopies
  BY <1>12
  DEF EnterCopies, At, Publishes, NeedsGeo, Goes, UpgradeStage, Entering,
      Workspaces, PatchedIsWhole, OpPlaced, OpIdentity, OpSession,
      PendingAlone, SessionFitsProfile, Operations, NoOp, Profiles, Places,
      Kinds
<1>13. CASE EnterCopied
  BY <1>13
  DEF EnterCopied, At, Publishes, Goes, UpgradeStage, Entering, Workspaces,
      PatchedIsWhole, OpPlaced, OpIdentity, OpSession, PendingAlone,
      SessionFitsProfile, Operations, NoOp, Profiles, Places, Kinds
<1>14. CASE EnterDeclares
  BY <1>14
  DEF EnterDeclares, At, Publishes, Goes, UpgradeStage, Entering, Workspaces,
      PatchedIsWhole, OpPlaced, OpIdentity, OpSession, PendingAlone,
      SessionFitsProfile, Operations, NoOp, Profiles, Places, Kinds
<1>15. CASE EnterPatches
  BY <1>15 DEF EnterPatches, UpgradeStage
<1>16. CASE \/ EnterRefers \/ SwitchPersists \/ SwitchToItself
            \/ SwitchRestarts
  BY <1>16
  DEF EnterRefers, At, Upgraded, RunsIt, Accepts, NeedsGeo, Stored, Goes,
      SwitchPersists, Restarting, SwitchToItself, Ends, SwitchRestarts,
      UpgradeStage, Entering, Workspaces, PatchedIsWhole, OpPlaced, OpIdentity,
      OpSession, PendingAlone, SessionFitsProfile, Operations, NoOp, Profiles,
      Places, Kinds
<1>17. CASE \/ LogoutClears \/ LogoutRevoked
  BY <1>17
  DEF LogoutClears, At, Cleared, Stored, Current, Goes, LogoutRevoked, Ends,
      UpgradeStage, Entering, Workspaces, PatchedIsWhole, OpPlaced, OpIdentity,
      OpSession, PendingAlone, SessionFitsProfile, Operations, NoOp, Profiles,
      Places, Kinds
<1>18. ASSUME NEW p \in Profiles, UserSelects(p) PROVE UpgradeStage'
  BY <1>18 DEF UserSelects, UpgradeStage
<1>19. CASE Boot
  BY <1>19 DEF Boot, Started, Begins, Begun, UpgradeStage
<1>20. CASE \/ Dispose \/ UNCHANGED vars
  BY <1>20 DEF Dispose, vars, UpgradeStage
<1> QED
  BY <1>1, <1>2, <1>3, <1>4, <1>5, <1>6, <1>7, <1>8, <1>9, <1>10, <1>11, <1>12,
     <1>13, <1>14, <1>15, <1>16, <1>17, <1>18, <1>19, <1>20
  DEF Next, OpStep, Asked, Enter, LogoutAsked, PendingExpires

LEMMA KeepsProfilesMade == IInv /\ [Next]_vars => ProfilesMade'
<1> SUFFICES ASSUME IInv, [Next]_vars PROVE ProfilesMade'
  OBVIOUS
<1> USE DEF IInv, TypeOK, diskVars, loginVars, boundVars
<1>1. CASE \/ LoginAsked \/ RestoreAsked \/ RefreshAsked
           \/ LogoutBegins
  BY <1>1
  DEF LoginAsked, RestoreAsked, RefreshAsked, LogoutBegins, ProfilesMade,
      Exists, Entering, Workspaces
<1>2. ASSUME NEW i \in Identities, SelectAsked(i) PROVE ProfilesMade'
  BY <1>2 DEF SelectAsked, ProfilesMade, Exists, Entering, Workspaces
<1>3. CASE \/ LoginAnswered \/ LoginRefused \/ LoginFails \/ Fails
           \/ Expired
  BY <1>3
  DEF LoginAnswered, LoginRefused, LoginFails, Fails, Expired, ProfilesMade,
      Exists, Entering, Workspaces
<1>4. CASE \/ Loaded \/ SelectAnswered \/ RefreshAnswered \/ Saved
           \/ ContextLoaded \/ EnterAccepts
  BY <1>4
  DEF Loaded, SelectAnswered, RefreshAnswered, Saved, ContextLoaded,
      EnterAccepts, ProfilesMade, Exists, Entering, Workspaces
<1>5. CASE \/ EnterCreates \/ EnterPatchesMarket \/ EnterCopies
           \/ EnterCopied \/ EnterDeclares \/ EnterPatches
  BY <1>5, Nothing
  DEF EnterCreates, At, Publishes, Published, EnterPatchesMarket, EnterCopies,
      NeedsGeo, Goes, EnterCopied, EnterDeclares, EnterPatches, Accepts,
      ProfilesMade, Exists, Entering, Workspaces, OpPlaced, OpIdentity,
      OpSession, UpgradeStage, PendingAlone, SessionFitsProfile, Operations,
      NoOp, Profiles, Places, Kinds
<1>6. CASE \/ EnterRefers \/ SwitchPersists \/ SwitchToItself
           \/ SwitchRestarts
  BY <1>6
  DEF EnterRefers, At, Upgraded, RunsIt, Accepts, NeedsGeo, Stored, Goes,
      SwitchPersists, Restarting, SwitchToItself, Ends, SwitchRestarts,
      ProfilesMade, Exists, Entering, Workspaces, OpPlaced, OpIdentity,
      OpSession, UpgradeStage, PendingAlone, SessionFitsProfile, Operations,
      NoOp, Profiles, Places, Kinds
<1>7. CASE \/ LogoutClears \/ LogoutRevoked
  BY <1>7
  DEF LogoutClears, LogoutRevoked, ProfilesMade, Exists, Entering, Workspaces
<1>8. ASSUME NEW p \in Profiles, UserSelects(p) PROVE ProfilesMade'
  BY <1>8 DEF UserSelects, Called, Exists, ProfilesMade
<1>9. CASE Boot
  BY <1>9
  DEF Boot, Started, Begins, Begun, ProfilesMade, Exists, Entering, Workspaces
<1>10. CASE \/ Dispose \/ UNCHANGED vars
  BY <1>10 DEF Dispose, vars, ProfilesMade, Exists, Entering, Workspaces
<1> QED
  BY <1>1, <1>2, <1>3, <1>4, <1>5, <1>6, <1>7, <1>8, <1>9, <1>10
  DEF Next, OpStep, Asked, Enter, LogoutAsked, PendingExpires

LEMMA KeepsGeoNoticed == IInv /\ [Next]_vars => GeoNoticed'
<1> SUFFICES ASSUME IInv, [Next]_vars PROVE GeoNoticed'
  OBVIOUS
<1> USE DEF IInv, TypeOK, diskVars, loginVars, boundVars
<1>1. CASE \/ LoginAsked \/ RestoreAsked \/ RefreshAsked
           \/ LogoutBegins
  BY <1>1 DEF LoginAsked, RestoreAsked, RefreshAsked, LogoutBegins, GeoNoticed
<1>2. ASSUME NEW i \in Identities, SelectAsked(i) PROVE GeoNoticed'
  BY <1>2 DEF SelectAsked, GeoNoticed
<1>3. CASE \/ LoginAnswered \/ LoginRefused \/ LoginFails \/ Fails
           \/ Expired
  BY <1>3
  DEF LoginAnswered, At, Current, Ends, LoginRefused, Goes, LoginFails,
      ClearedOrNot, Cleared, Stored, Fails, Told, Expires, Expired, GeoNoticed
<1>4. CASE \/ Loaded \/ SelectAnswered \/ RefreshAnswered \/ Saved
           \/ ContextLoaded \/ EnterAccepts
  BY <1>4
  DEF Loaded, At, Current, Accepts, Ends, SelectAnswered, Goes,
      RefreshAnswered, Saved, Stored, ContextLoaded, EnterAccepts, Upgraded,
      RunsIt, NeedsGeo, GeoNoticed, Entering, Workspaces, ProfilesMade, Exists,
      OpPlaced, OpIdentity, OpSession, UpgradeStage, PendingAlone,
      SessionFitsProfile, Operations, NoOp, Profiles, Places, Kinds
<1>5. CASE \/ EnterCreates \/ EnterPatchesMarket \/ EnterCopies
           \/ EnterCopied \/ EnterDeclares \/ EnterPatches
  BY <1>5
  DEF EnterCreates, At, Publishes, Published, EnterPatchesMarket, EnterCopies,
      NeedsGeo, Goes, EnterCopied, EnterDeclares, EnterPatches, Accepts,
      GeoNoticed, Entering, Workspaces, ProfilesMade, Exists, OpPlaced,
      OpIdentity, OpSession, UpgradeStage, PendingAlone, SessionFitsProfile,
      Operations, NoOp, Profiles, Places, Kinds
<1>6. CASE \/ EnterRefers \/ SwitchPersists \/ SwitchToItself
           \/ SwitchRestarts
  BY <1>6
  DEF EnterRefers, SwitchPersists, SwitchToItself, SwitchRestarts, GeoNoticed
<1>7. CASE \/ LogoutClears \/ LogoutRevoked
  BY <1>7 DEF LogoutClears, LogoutRevoked, GeoNoticed
<1>8. ASSUME NEW p \in Profiles, UserSelects(p) PROVE GeoNoticed'
  BY <1>8 DEF UserSelects, GeoNoticed
<1>9. CASE Boot
  BY <1>9 DEF Boot, Started, Begins, Begun, GeoNoticed
<1>10. CASE \/ Dispose \/ UNCHANGED vars
  BY <1>10 DEF Dispose, vars, GeoNoticed
<1> QED
  BY <1>1, <1>2, <1>3, <1>4, <1>5, <1>6, <1>7, <1>8, <1>9, <1>10
  DEF Next, OpStep, Asked, Enter, LogoutAsked, PendingExpires

LEMMA InitIInv == Init => IInv
<1> SUFFICES ASSUME Init PROVE IInv
  OBVIOUS
<1> USE DEF Init
<1>1. Left \subseteq Workspaces /\ \A w \in Left : ~w.patched
  <2>1. Absent \in Workspaces /\ ~Absent.patched
    BY DEF Absent, Workspaces
  <2>2. ASSUME NEW w \in Workspaces, ~w.patched
        PROVE  /\ [w EXCEPT !.made = TRUE] \in Workspaces
               /\ ~[w EXCEPT !.made = TRUE].patched
               /\ [w EXCEPT !.made = TRUE, !.market = TRUE] \in Workspaces
               /\ ~[w EXCEPT !.made = TRUE, !.market = TRUE].patched
    BY <2>2 DEF Workspaces
  <2> QED  BY <2>1, <2>2 DEF Left
<1>2. TypeOK
  BY <1>1 DEF TypeOK, Profiles, Workspaces, Absent, Operations, NoOp
<1>3. /\ SessionFitsProfile /\ VaultFitsProfile /\ LoggedOutStaysOut
      /\ PendingAlone /\ ProfilesMade /\ GeoNoticed
  BY DEF SessionFitsProfile, VaultFitsProfile, LoggedOutStaysOut, PendingAlone,
     ProfilesMade, Exists, GeoNoticed
<1>4. PatchedIsWhole
  BY <1>1 DEF PatchedIsWhole
<1>5. OpPlaced /\ OpIdentity /\ OpSession /\ UpgradeStage
  BY Nothing DEF OpPlaced, OpIdentity, OpSession, UpgradeStage, Entering
<1> QED  BY <1>2, <1>3, <1>4, <1>5 DEF IInv

LEMMA KeepsTypeOK == IInv /\ [Next]_vars => TypeOK'
BY KeepsOpTyped, KeepsHostTyped, KeepsFilesTyped, KeepsRestTyped
DEF TypeOK, OpTyped, Hosts, FilesTyped, RestTyped

THEOREM AccessInvariant == Spec => []IInv
<1>1. IInv /\ [Next]_vars => IInv'
  BY KeepsTypeOK, KeepsSessionFitsProfile, KeepsVaultFitsProfile,
     KeepsLoggedOutStaysOut, KeepsPatchedIsWhole, KeepsOpPlaced,
     KeepsOpIdentity, KeepsOpSession, KeepsPendingAlone, KeepsUpgradeStage,
     KeepsProfilesMade, KeepsGeoNoticed
  DEF IInv
<1> QED  BY InitIInv, <1>1, PTL DEF Spec

(* Members are kept apart, and whoever was logged out stays out, whatever  *)
(* is under way when the process is disposed, ends or starts again         *)
(* (accepts, DesktopLoginWorkspace.enter, save, clear).                    *)
THEOREM SessionsAreSafe == Spec => []SessionSafety
<1>1. IInv => SessionSafety
  BY DEF IInv, SessionSafety, MembersApart
<1> QED  BY <1>1, AccessInvariant, PTL

(* The upgrade of a workspace is whole wherever a crash fell in it, and    *)
(* nobody is let in by a process that does not run it.                     *)
THEOREM UpgradesAreKept == Spec => []UpgradeKept
<1>1. IInv => UpgradeKept
  BY DEF IInv, UpgradeKept, GeoIsRunning, SessionFitsProfile, GeoNoticed
<1> QED  BY <1>1, AccessInvariant, PTL

-----------------------------------------------------------------------------
(* The controller implements LoginEpochs.                                  *)

LEMMA EpochsInit == Init => Epochs!EpochInit
BY DEF Init, Epochs!EpochInit, Owner

(* A new AbortController: nobody is the owner while the operation begins.  *)
LEMMA EpochRenews ==
  ASSUME \/ LoginAsked \/ RestoreAsked \/ RefreshAsked \/ LogoutBegins \/ Boot
         \/ \E i \in Identities : SelectAsked(i)
  PROVE  Epochs!Renew
<1>1. gen' = gen + 1
  BY DEF LoginAsked, RestoreAsked, RefreshAsked, LogoutBegins, Boot, SelectAsked, Begins
<1>2. ~disposed'
  BY DEF LoginAsked, RestoreAsked, RefreshAsked, LogoutBegins, Boot, SelectAsked, Idle
<1>3. phase' = "loading" \/ session' = NoId
  BY DEF LoginAsked, RestoreAsked, RefreshAsked, LogoutBegins, Boot, SelectAsked
<1>4. Owner' = NoId
  BY <1>3 DEF Owner
<1> QED  BY <1>1, <1>2, <1>4 DEF Epochs!Renew

LEMMA EpochCloses ==
  ASSUME Dispose
  PROVE  Epochs!Close
BY DEF Dispose, Epochs!Close, Owner

(* While an operation runs nobody is the owner, so that what it does to    *)
(* the session and the phase before its end is not seen.                   *)
LEMMA NobodyMeanwhile ==
  ASSUME IInv, op # NoOp
  PROVE  Owner = NoId
BY DEF IInv, TypeOK, OpSession, Owner, Operations, Kinds

LEMMA EpochStays ==
  ASSUME IInv, OpStep, ~ContextLoaded
  PROVE  UNCHANGED <<gen, disposed, Owner>>
<1>1. op # NoOp
  BY Nothing DEF OpStep, Enter, LoginAnswered, LoginRefused, LoginFails, Fails,
     Expired, Loaded, SelectAnswered, RefreshAnswered, Saved, LogoutClears,
     LogoutRevoked, EnterCreates, EnterPatchesMarket, EnterCopies, EnterCopied,
     EnterDeclares, EnterPatches, EnterAccepts, EnterRefers, SwitchPersists,
     SwitchToItself, SwitchRestarts, At
<1>2. UNCHANGED <<gen, disposed>>
  BY DEF OpStep, Enter, LoginAnswered, LoginRefused, LoginFails, Fails,
     Expired, Loaded, SelectAnswered, RefreshAnswered, Saved, LogoutClears,
     LogoutRevoked, EnterCreates, EnterPatchesMarket, EnterCopies, EnterCopied,
     EnterDeclares, EnterPatches, EnterAccepts, EnterRefers, SwitchPersists,
     SwitchToItself, SwitchRestarts, loginVars
<1>3. Owner' = NoId
  <2>1. phase' # "ready" \/ session' = NoId
    <3>1. CASE op' # NoOp
      <4>1. OpSession' /\ OpTyped'
        BY KeepsOpSession, KeepsOpTyped DEF Next
      <4> QED  BY <3>1, <4>1 DEF OpSession, OpTyped, Operations, Kinds
    <3>2. CASE op' = NoOp
      BY <3>2, Nothing
      DEF IInv, TypeOK, OpSession, OpPlaced, OpStep, Enter, LoginAnswered, LoginRefused, LoginFails,
          Fails, Told, Expires, Expired, Loaded, SelectAnswered,
          RefreshAnswered, Saved, LogoutClears, LogoutRevoked, EnterCreates,
          EnterPatchesMarket, EnterCopies, EnterCopied, EnterDeclares,
          EnterPatches, EnterAccepts, EnterRefers, SwitchPersists,
          SwitchToItself, SwitchRestarts, At, Goes, loginVars, Operations, Kinds
    <3> QED  BY <3>1, <3>2
  <2> QED  BY <2>1 DEF Owner
<1> QED  BY <1>1, <1>2, <1>3, NobodyMeanwhile

(* The one step that lets somebody in. *)
LEMMA EpochAdmits ==
  ASSUME IInv, ContextLoaded
  PROVE  Epochs!EpochNext \/ UNCHANGED <<gen, disposed, Owner>>
<1>1. op # NoOp /\ UNCHANGED <<gen, disposed, session>>
  BY Nothing DEF ContextLoaded, At
<1>2. Owner = NoId
  BY <1>1, NobodyMeanwhile
<1>3. CASE Owner' = NoId
  BY <1>1, <1>2, <1>3
<1>4. CASE Owner' # NoId
  <2>1. ~disposed /\ Owner' = session /\ session \in Identities
    BY <1>1, <1>4 DEF Owner, IInv, TypeOK, Profiles
  <2>2. Epochs!Admit(session)
    BY <1>1, <1>2, <2>1 DEF Epochs!Admit
  <2> QED  BY <2>1, <2>2 DEF Epochs!EpochNext
<1> QED  BY <1>3, <1>4

LEMMA EpochsNext == IInv /\ [Next]_vars => [Epochs!EpochNext]_Epochs!epochVars
<1> SUFFICES ASSUME IInv, [Next]_vars
             PROVE  Epochs!EpochNext \/ UNCHANGED <<gen, disposed, Owner>>
  BY DEF Epochs!epochVars
<1>1. CASE Asked
  <2>1. CASE \E p \in Profiles : UserSelects(p)
    BY <2>1 DEF UserSelects, loginVars, Owner
  <2> QED
    BY <1>1, <2>1, EpochRenews DEF Asked, LogoutAsked, PendingExpires, Epochs!EpochNext
<1>2. CASE Dispose \/ Boot
  BY <1>2, EpochCloses, EpochRenews DEF Epochs!EpochNext
<1>3. CASE OpStep
  BY <1>3, EpochStays, EpochAdmits
<1>4. CASE UNCHANGED vars
  BY <1>4 DEF vars, loginVars, Owner
<1> QED  BY <1>1, <1>2, <1>3, <1>4 DEF Next

(* Under one AbortSignal authority is given for one identity at most, and  *)
(* never again once the signal is aborted (#beginOperation, dispose,       *)
(* authorizeLocal).                                                        *)
THEOREM EpochsAreKept == Spec => KeepsEpochs
BY EpochsInit, EpochsNext, AccessInvariant, PTL
DEF Spec, KeepsEpochs, Epochs!EpochSpec
===============================================================================
