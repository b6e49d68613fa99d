-------------------------- MODULE MarketInstallProofs --------------------------
(***************************************************************************)
(* What the market offers and installs, for every number of sources,       *)
(* items, requests and confirmations.  MarketSafety is not inductive: a    *)
(* page on its way whose generation is current must be of a source in use  *)
(* (PagesInUse), and requests and confirmations carry the observation they *)
(* began with (WellFormed).                                                *)
(***************************************************************************)
EXTENDS MarketInstall, TLAPS

Changing == {"check", "pnpm", "bundle", "write", "validate"}

PagesInUse ==
  \A f \in Fetchers : fetch[f] # NoFetch =>
    /\ fetch[f].gen <= gen[fetch[f].src]
    /\ Current(f) => InUse(fetch[f].src)

RequestFormed(x) ==
  /\ x.at # "idle" => x.pkg \in Packages
  /\ x.at \in Changing => x.token \in Tokens
  /\ x.at \in {"precheck", "verify"} => x.kind = "install"
  /\ x.kind = "install" => x.item \in Items /\ x.stamp # 0

IntentFormed(x) ==
  /\ x.shown => x.kind # "none"
  /\ x.kind # "none" => x.pkg \in Packages
  /\ x.kind = "install" => x.item \in Items /\ x.stamp # 0

WellFormed ==
  /\ \A r \in Requests : /\ RequestFormed(req[r])
                         /\ child = r => req[r].at = "pnpm"
  /\ \A t \in Tokens : IntentFormed(intents[t])

MarketInv == TypeOK /\ CandidatesInUse /\ PagesInUse /\ WellFormed

USE MarketAssumption

LEMMA Placeholders ==
  /\ Idle \in Operations /\ RequestFormed(Idle)
  /\ NoIntent \in Confirmations /\ IntentFormed(NoIntent)
BY DEF Idle, Operations, Stages, Kinds, Previewing, Saved, Unread,
       RequestFormed, NoIntent, Confirmations, IntentFormed, Changing

LEMMA MarketInit == Init => MarketInv
<1> SUFFICES ASSUME Init PROVE MarketInv
  OBVIOUS
<1> USE DEF Init
<1>1. TypeOK
  BY Placeholders DEF TypeOK, Saved
<1>2. CandidatesInUse
  BY DEF CandidatesInUse, NoIntent
<1>3. PagesInUse
  BY DEF PagesInUse
<1>4. WellFormed
  BY Placeholders DEF WellFormed
<1> QED  BY <1>1, <1>2, <1>3, <1>4 DEF MarketInv

LEMMA RequestMoves ==
  ASSUME req \in [Requests -> Operations],
         NEW r \in Requests, NEW at \in Stages, Moves(r, at)
  PROVE  req' \in [Requests -> Operations]
<1>1. req[r] \in Operations
  OBVIOUS
<1>2. [req[r] EXCEPT !.at = at] \in Operations
  BY <1>1 DEF Operations
<1>3. req' = [req EXCEPT ![r] = [req[r] EXCEPT !.at = at]]
  BY DEF Moves
<1> QED  BY <1>2, <1>3

LEMMA RequestEnds ==
  ASSUME req \in [Requests -> Operations], NEW r \in Requests, Ends(r)
  PROVE  req' \in [Requests -> Operations]
BY Placeholders DEF Ends

LEMMA TypesKept == MarketInv /\ [Next]_vars => TypeOK'
<1> SUFFICES ASSUME MarketInv, [Next]_vars PROVE TypeOK'
  OBVIOUS
<1> USE DEF MarketInv, TypeOK
<1> USE DEF catalogVars, tokenVars, runVars, profileVars, sourceVars
<1>1. ASSUME ChangeSources PROVE TypeOK'
  BY <1>1 DEF ChangeSources, Adds, Selects, Removes, Saves
<1>2. ASSUME Revoke PROVE TypeOK'
  BY <1>2, Placeholders DEF Revoke
<1>3. ASSUME NEW f \in Fetchers, FetchStarts(f) PROVE TypeOK'
  BY <1>3 DEF FetchStarts, Pages
<1>4. ASSUME NEW f \in Fetchers, FetchEnds(f) PROVE TypeOK'
  BY <1>4 DEF FetchEnds
<1>5. ASSUME NEW i \in Items, Lapses(i) PROVE TypeOK'
  BY <1>5 DEF Lapses
<1>6. ASSUME NEW r \in Requests, NEW i \in Items, PreviewInstall(r, i) PROVE TypeOK'
  BY <1>6 DEF PreviewInstall, Operations, Idle, Stages, Kinds, Previewing, Saved, Unread
<1>7. ASSUME NEW r \in Requests, NEW p \in Packages, PreviewUninstall(r, p) PROVE TypeOK'
  BY <1>7 DEF PreviewUninstall, Operations, Idle, Stages, Kinds, Previewing, Saved, Unread
<1>8. ASSUME NEW r \in Requests, Prechecked(r) PROVE TypeOK'
  BY <1>8, RequestMoves DEF Prechecked, Stages, Previewing
<1>9. ASSUME NEW r \in Requests, Rechecked(r) PROVE TypeOK'
  <2>1. req' \in [Requests -> Operations]
    BY <1>9, RequestEnds DEF Rechecked
  <2>2. intents' \in [Tokens -> Confirmations]
    <3>1. CASE req[r].token \in Tokens
      <4> DEFINE i == intents[req[r].token]
      <4>1. i \in Confirmations
        BY <3>1
      <4>2. [i EXCEPT !.shown = i.shown \/ i.kind # "none"] \in Confirmations
        BY <4>1 DEF Confirmations
      <4> HIDE DEF i
      <4> QED  BY <1>9, <4>2 DEF Rechecked, i
    <3>2. CASE req[r].token \notin Tokens
      BY <1>9, <3>2 DEF Rechecked
    <3> QED  BY <3>1, <3>2
  <2> QED  BY <1>9, <2>1, <2>2 DEF Rechecked
<1>10. ASSUME NEW r \in Requests, NEW t \in Tokens, Directed(r, t) PROVE TypeOK'
  BY <1>10, Placeholders DEF Directed, Ends, Confirmations, NoIntent, Kinds, Operations
<1>11. ASSUME NEW r \in Requests, NEW t \in Tokens, NEW v \in Versions, Verified(r, t, v) PROVE TypeOK'
  <2>1. req[r] \in Operations
    OBVIOUS
  <2>2. [req[r] EXCEPT !.at = "recheck", !.token = t] \in Operations
    BY <2>1 DEF Operations, Stages, Previewing
  <2>3. req' = [req EXCEPT ![r] = [req[r] EXCEPT !.at = "recheck", !.token = t]]
    BY <1>11 DEF Verified
  <2>4. intents' \in [Tokens -> Confirmations]
    BY <1>11, <2>1 DEF Verified, Operations, Confirmations, Kinds
  <2> QED  BY <1>11, <2>2, <2>3, <2>4 DEF Verified
<1>12. ASSUME NEW r \in Requests, PreviewFails(r) PROVE TypeOK'
  BY <1>12, Placeholders DEF PreviewFails, Ends
<1>13. ASSUME NEW r \in Requests, NEW t \in Tokens, Execute(r, t) PROVE TypeOK'
  <2> DEFINE x == [Idle EXCEPT !.at = "check", !.token = t,
                     !.kind = intents[t].kind, !.item = intents[t].item,
                     !.stamp = intents[t].stamp, !.pkg = intents[t].pkg,
                     !.ver = intents[t].ver]
  <2>1. intents[t] \in Confirmations
    OBVIOUS
  <2>2. x \in Operations
    BY <2>1 DEF Confirmations, Operations, Idle, Stages, Saved, Unread
  <2>3. req' \in [Requests -> Operations]
    <3> HIDE DEF x
    <3>1. req' = [req EXCEPT ![r] = x] \/ req' = req
      BY <1>13 DEF Execute, x
    <3> QED  BY <3>1, <2>2
  <2>4. intents' \in [Tokens -> Confirmations]
    BY <1>13, Placeholders DEF Execute, Withdrawn
  <2> QED  BY <1>13, <2>3, <2>4 DEF Execute
<1>14. ASSUME NEW r \in Requests, Checked(r) PROVE TypeOK'
  <2>1. req' \in [Requests -> Operations]
    BY <1>14, RequestMoves, RequestEnds DEF Checked, Fails, Stages
  <2> QED  BY <1>14, <2>1 DEF Checked, Fails
<1>15. ASSUME NEW r \in Requests, PnpmEnds(r) PROVE TypeOK'
  <2>1. req' \in [Requests -> Operations]
    BY <1>15, RequestMoves, RequestEnds DEF PnpmEnds, Fails, Stages
  <2>2. req[r] \in Operations
    OBVIOUS
  <2>3. deps' \in [Packages -> Saved]
    BY <1>15, <2>2 DEF PnpmEnds, Changed, SavedAs, Saved, Operations
  <2> QED  BY <1>15, <2>1, <2>3 DEF PnpmEnds, Fails
<1>16. ASSUME NEW r \in Requests, ReadsManifest(r) PROVE TypeOK'
  <2> DEFINE x == [req[r] EXCEPT !.at = "write", !.deps = deps,
                                 !.bundles = bundles]
  <2>0. req[r] \in Operations
    OBVIOUS
  <2>1. x \in Operations
    BY <2>0 DEF Operations, Stages
  <2>2. req' = [req EXCEPT ![r] = x]
    BY <1>16 DEF ReadsManifest
  <2> HIDE DEF x
  <2>3. req' \in [Requests -> Operations]
    BY <2>1, <2>2
  <2> QED  BY <1>16, <2>3 DEF ReadsManifest
<1>17. ASSUME NEW r \in Requests, WritesManifest(r) PROVE TypeOK'
  <2> DEFINE x == [req[r] EXCEPT !.at = "validate", !.deps = Unread,
                                 !.bundles = {}]
  <2>1. req[r] \in Operations
    OBVIOUS
  <2>2. x \in Operations
    BY <2>1 DEF Operations, Stages, Unread, Saved
  <2>3. req' = [req EXCEPT ![r] = x]
    BY <1>17 DEF WritesManifest
  <2>4. req' \in [Requests -> Operations]
    <3> HIDE DEF x
    <3> QED  BY <2>2, <2>3
  <2>5. deps' \in [Packages -> Saved]
    BY <1>17, <2>1 DEF WritesManifest, Operations
  <2>6. req[r].pkg \in Packages
    BY <1>17 DEF WritesManifest, WellFormed, RequestFormed
  <2>7. bundles' \subseteq Packages
    BY <1>17, <2>1, <2>6 DEF WritesManifest, Operations
  <2> QED  BY <1>17, <2>4, <2>5, <2>7 DEF WritesManifest
<1>18. ASSUME NEW r \in Requests, ManifestFails(r) PROVE TypeOK'
  BY <1>18, Placeholders DEF ManifestFails, Fails, Ends
<1>19. ASSUME NEW r \in Requests, Validated(r) PROVE TypeOK'
  BY <1>19, Placeholders DEF Validated, Fails, Ends, Operations, WellFormed, RequestFormed, Changing
<1>20. ASSUME NEW t \in Tokens, TakesRestart(t) PROVE TypeOK'
  BY <1>20 DEF TakesRestart
<1>21. ASSUME NEW t \in Tokens, Expires(t) PROVE TypeOK'
  BY <1>21, Placeholders DEF Expires, Withdrawn
<1>22. ASSUME OtherStarts PROVE TypeOK'
  BY <1>22 DEF OtherStarts
<1>23. ASSUME OtherEnds PROVE TypeOK'
  BY <1>23 DEF OtherEnds, Elsewhere, Saved
<1>24. ASSUME Dispose PROVE TypeOK'
  BY <1>24, Placeholders DEF Dispose, Forgets
<1>25. ASSUME Relaunch PROVE TypeOK'
  BY <1>25, Placeholders DEF Relaunch, Forgets, Elsewhere, Changed, SavedAs, Operations, Saved
<1>26. CASE UNCHANGED vars
  BY <1>26 DEF vars
<1> QED
  BY <1>1, <1>2, <1>3, <1>4, <1>5, <1>6, <1>7, <1>8, <1>9, <1>10, <1>11, <1>12, <1>13, <1>14, <1>15, <1>16, <1>17, <1>18, <1>19, <1>20, <1>21, <1>22, <1>23, <1>24, <1>25, <1>26
  DEF Next, RequestSteps, ChildEnds

(* What was in use stays in use until it is revoked. *)
LEMMA UseLasts ==
  ASSUME TypeOK, ChangeSources \/ UNCHANGED sourceVars,
         NEW s \in Sources, InUse(s)
  PROVE  InUse(s)'
BY DEF TypeOK, ChangeSources, Adds, Selects, Removes, Saves, InUse, sourceVars

(* The steps that touch sources or the catalogue. *)
LEMMA CatalogSteps ==
  ASSUME [Next]_vars
  PROVE  \/ ChangeSources \/ Revoke \/ Dispose \/ Relaunch
         \/ \E f \in Fetchers : FetchStarts(f) \/ FetchEnds(f)
         \/ \E i \in Items : Lapses(i)
         \/ UNCHANGED <<sourceVars, catalogVars>>
<1>1. ASSUME NEW r \in Requests,
             \/ RequestSteps(r) \/ PnpmEnds(r)
             \/ \E i \in Items : PreviewInstall(r, i)
             \/ \E p \in Packages : PreviewUninstall(r, p)
             \/ \E t \in Tokens : Execute(r, t)
      PROVE  UNCHANGED <<sourceVars, catalogVars>>
  BY <1>1 DEF RequestSteps, PreviewInstall, PreviewUninstall, Prechecked,
     Rechecked, Directed, Verified, PreviewFails, Execute, Checked, PnpmEnds,
     ReadsManifest, WritesManifest, ManifestFails, Validated
<1>2. ASSUME NEW t \in Tokens, TakesRestart(t) \/ Expires(t)
      PROVE  UNCHANGED <<sourceVars, catalogVars>>
  BY <1>2 DEF TakesRestart, Expires
<1>3. ASSUME OtherEnds \/ OtherStarts \/ UNCHANGED vars
      PROVE  UNCHANGED <<sourceVars, catalogVars>>
  BY <1>3 DEF OtherEnds, OtherStarts, vars
<1> QED  BY <1>1, <1>2, <1>3 DEF Next, ChildEnds

LEMMA PagesKept == MarketInv /\ [Next]_vars => PagesInUse'
<1> SUFFICES ASSUME MarketInv, [Next]_vars,
                    NEW f \in Fetchers, fetch'[f] # NoFetch
             PROVE  /\ fetch'[f].gen <= gen'[fetch'[f].src]
                    /\ gen'[fetch'[f].src] = fetch'[f].gen
                         => \/ stored'.on = fetch'[f].src
                            \/ fetch'[f].src \in leaving'
  BY DEF PagesInUse, Current, InUse
<1> USE DEF MarketInv
<1>1. fetch[f] \in Pages \cup {NoFetch} /\ gen \in [Sources -> Nat]
  BY DEF TypeOK
<1>2. CASE fetch'[f] = fetch[f] /\ (ChangeSources \/ UNCHANGED sourceVars)
  <2>1. PICK s \in Sources : s = fetch[f].src
    BY <1>1, <1>2 DEF Pages
  <2>2. /\ fetch[f].gen <= gen[s]
        /\ gen[s] = fetch[f].gen => InUse(s)
    BY <1>2, <2>1 DEF PagesInUse, Current
  <2>3. InUse(s) => stored'.on = s \/ s \in leaving'
    BY <1>2, UseLasts DEF InUse
  <2>4. gen' = gen
    BY <1>2 DEF ChangeSources, sourceVars
  <2> QED  BY <1>2, <2>1, <2>2, <2>3, <2>4
<1>3. CASE Revoke
  <2>1. fetch'[f] = fetch[f]
    BY <1>3 DEF Revoke
  <2>2. PICK s \in Sources : s = fetch[f].src
    BY <1>1, <2>1 DEF Pages
  <2>3. fetch[f].gen \in Nat /\ gen[s] \in Nat
    BY <1>1, <2>1, <2>2 DEF Pages
  <2>4. /\ fetch[f].gen <= gen[s]
        /\ gen[s] = fetch[f].gen => stored.on = s \/ s \in leaving
    BY <2>1, <2>2 DEF PagesInUse, Current, InUse
  <2>5. /\ gen'[s] = IF s \in leaving THEN gen[s] + 1 ELSE gen[s]
        /\ stored' = stored
    BY <1>3 DEF Revoke
  <2> QED  BY <2>1, <2>2, <2>3, <2>4, <2>5
<1>4. CASE FetchStarts(f)
  <2>1. /\ stored.on \in Sources
        /\ fetch'[f] = [src |-> stored.on, gen |-> gen[stored.on]]
        /\ stored' = stored /\ gen' = gen
    BY <1>4 DEF FetchStarts, TypeOK, sourceVars
  <2> QED  BY <1>1, <2>1
<1>5. CASE FetchEnds(f) \/ Relaunch
  BY <1>5 DEF FetchEnds, Relaunch, TypeOK
<1>6. ASSUME NEW g \in Fetchers, g # f, FetchStarts(g) \/ FetchEnds(g)
      PROVE  fetch'[f] = fetch[f] /\ UNCHANGED sourceVars
  BY <1>6 DEF FetchStarts, FetchEnds, TypeOK
<1>7. ASSUME NEW i \in Items, Lapses(i)
      PROVE  fetch'[f] = fetch[f] /\ UNCHANGED sourceVars
  BY <1>7 DEF Lapses
<1>8. ASSUME Dispose \/ ChangeSources \/ UNCHANGED <<sourceVars, catalogVars>>
      PROVE  /\ fetch'[f] = fetch[f]
             /\ ChangeSources \/ UNCHANGED sourceVars
  BY <1>8 DEF Dispose, ChangeSources, catalogVars
<1> QED
  BY <1>2, <1>3, <1>4, <1>5, <1>6, <1>7, <1>8, CatalogSteps

LEMMA RequestsFormed ==
  MarketInv /\ [Next]_vars =>
    \A q \in Requests : RequestFormed(req'[q]) /\ (child' = q => req'[q].at = "pnpm")
<1> SUFFICES ASSUME MarketInv, [Next]_vars, NEW q \in Requests
             PROVE  RequestFormed(req'[q]) /\ (child' = q => req'[q].at = "pnpm")
  OBVIOUS
<1> DEFINE Done == RequestFormed(req'[q]) /\ (child' = q => req'[q].at = "pnpm")
<1> USE DEF MarketInv
<1>1. req \in [Requests -> Operations] /\ child \in Requests \cup {Nobody, Other}
  BY DEF TypeOK
<1>2. /\ RequestFormed(req[q])
      /\ \A r \in Requests : child = r => req[r].at = "pnpm"
  BY DEF WellFormed
<1>3. ASSUME UNCHANGED <<req, child>> PROVE Done
  BY <1>2, <1>3
<1>4. ASSUME NEW r \in Requests, r # q,
             RequestSteps(r) \/ PnpmEnds(r)
             \/ (\E i \in Items : PreviewInstall(r, i))
             \/ (\E p \in Packages : PreviewUninstall(r, p))
             \/ (\E t \in Tokens : Execute(r, t))
      PROVE  Done
  <2>1. req'[q] = req[q]
    BY <1>1, <1>4 DEF RequestSteps, PreviewInstall, PreviewUninstall,
       Prechecked, Rechecked, Directed, Verified, PreviewFails, Execute,
       Checked, PnpmEnds, ReadsManifest, WritesManifest, ManifestFails,
       Validated, Moves, Ends, Fails
  <2>2. child' = q => child = q
    BY <1>1, <1>4 DEF RequestSteps, PreviewInstall, PreviewUninstall,
       Prechecked, Rechecked, Directed, Verified, PreviewFails, Execute,
       Checked, PnpmEnds, ReadsManifest, WritesManifest, ManifestFails,
       Validated
  <2> QED  BY <1>2, <2>1, <2>2
<1>5. ASSUME NEW i \in Items, PreviewInstall(q, i) PROVE Done
  BY <1>1, <1>2, <1>5 DEF PreviewInstall, Idle, RequestFormed, Changing
<1>6. ASSUME NEW p \in Packages, PreviewUninstall(q, p) PROVE Done
  BY <1>1, <1>2, <1>6 DEF PreviewUninstall, Idle, RequestFormed, Changing
<1>7. CASE Prechecked(q)
  BY <1>1, <1>2, <1>7 DEF Prechecked, Moves, RequestFormed, Changing, Operations
<1>8. ASSUME \/ PreviewFails(q) \/ Rechecked(q)
             \/ \E t \in Tokens : Directed(q, t)
      PROVE  Done
  BY <1>1, <1>2, <1>8, Placeholders
  DEF PreviewFails, Rechecked, Directed, Ends, Previewing
<1>9. ASSUME NEW t \in Tokens, NEW v \in Versions, Verified(q, t, v) PROVE Done
  BY <1>1, <1>2, <1>9 DEF Verified, RequestFormed, Changing, Operations
<1>10. ASSUME NEW t \in Tokens, Execute(q, t) PROVE Done
  <2>1. IntentFormed(intents[t]) /\ intents[t].shown
    BY <1>10 DEF Execute, WellFormed
  <2>2. CASE Offered(intents[t])
    <3>1. req'[q] = [Idle EXCEPT !.at = "check", !.token = t,
                       !.kind = intents[t].kind, !.item = intents[t].item,
                       !.stamp = intents[t].stamp, !.pkg = intents[t].pkg,
                       !.ver = intents[t].ver]
      BY <1>1, <1>10, <2>2 DEF Execute
    <3>2. child' = child /\ req[q].at = "idle"
      BY <1>10 DEF Execute
    <3> QED  BY <1>2, <2>1, <3>1, <3>2
             DEF RequestFormed, IntentFormed, Idle, Changing
  <2>3. CASE ~Offered(intents[t])
    BY <1>3, <1>10, <2>3 DEF Execute
  <2> QED  BY <2>2, <2>3
<1>11. ASSUME Checked(q) \/ PnpmEnds(q) \/ ReadsManifest(q) \/ WritesManifest(q)
       PROVE  Done
  <2>1. req[q] \in Operations
    BY <1>1
  <2>2. req[q].at \in {"check", "pnpm", "bundle", "write"}
    BY <1>2, <1>11 DEF Checked, PnpmEnds, ReadsManifest, WritesManifest
  <2>3. CASE req'[q] = Idle /\ child' # q
    BY <2>3, Placeholders
  <2>4. CASE /\ req'[q].at \in Changing
             /\ req'[q].pkg = req[q].pkg /\ req'[q].token = req[q].token
             /\ req'[q].kind = req[q].kind /\ req'[q].item = req[q].item
             /\ req'[q].stamp = req[q].stamp
             /\ child' = q => req'[q].at = "pnpm"
    BY <1>2, <2>2, <2>4 DEF RequestFormed, Changing
  <2>5. CASE Checked(q)
    BY <1>1, <1>2, <2>1, <2>3, <2>4, <2>5
    DEF Checked, Moves, Fails, Ends, Operations, Changing
  <2>6. CASE PnpmEnds(q)
    BY <1>1, <1>2, <2>1, <2>3, <2>4, <2>6
    DEF PnpmEnds, Moves, Fails, Ends, Operations, Changing
  <2>7. CASE ReadsManifest(q)
    BY <1>1, <1>2, <2>1, <2>4, <2>7 DEF ReadsManifest, Operations, Changing
  <2>8. CASE WritesManifest(q)
    BY <1>1, <1>2, <2>1, <2>4, <2>8 DEF WritesManifest, Operations, Changing
  <2> QED  BY <1>11, <2>5, <2>6, <2>7, <2>8
<1>12. CASE ManifestFails(q) \/ Validated(q)
  BY <1>1, <1>2, <1>12, Placeholders
  DEF ManifestFails, Validated, Fails, Ends
<1>13. CASE OtherStarts \/ OtherEnds
  BY <1>2, <1>13 DEF OtherStarts, OtherEnds
<1>14. CASE Relaunch
  BY <1>14, Placeholders DEF Relaunch
<1>15. ASSUME \/ ChangeSources \/ Revoke \/ Dispose \/ UNCHANGED vars
              \/ \E f \in Fetchers : FetchStarts(f) \/ FetchEnds(f)
              \/ \E i \in Items : Lapses(i)
              \/ \E t \in Tokens : TakesRestart(t) \/ Expires(t)
       PROVE  UNCHANGED <<req, child>>
  BY <1>15 DEF ChangeSources, Revoke, Dispose, vars, FetchStarts, FetchEnds,
     Lapses, TakesRestart, Expires, runVars
<1> HIDE DEF Done
<1> QED
  BY <1>3, <1>4, <1>5, <1>6, <1>7, <1>8, <1>9, <1>10, <1>11, <1>12,
     <1>13, <1>14, <1>15 DEF Next, RequestSteps, ChildEnds, Done

(* The steps that touch confirmations: one appears, is shown, or goes. *)
LEMMA IntentSteps ==
  ASSUME MarketInv, [Next]_vars, NEW t \in Tokens
  PROVE  \/ intents'[t] = intents[t] \/ intents'[t] = NoIntent
         \/ /\ intents'[t] = [intents[t] EXCEPT !.shown = TRUE]
            /\ intents[t].kind # "none"
         \/ \E r \in Requests, p \in Packages :
              intents'[t] = [NoIntent EXCEPT !.kind = "uninstall", !.pkg = p,
                                             !.shown = TRUE]
         \/ \E r \in Requests, v \in Versions :
              /\ Verified(r, t, v)
              /\ intents'[t] = [kind |-> "install", item |-> req[r].item,
                               stamp |-> req[r].stamp, pkg |-> req[r].pkg,
                               ver |-> v, shown |-> FALSE]
<1> DEFINE Done ==
         \/ intents'[t] = intents[t] \/ intents'[t] = NoIntent
         \/ /\ intents'[t] = [intents[t] EXCEPT !.shown = TRUE]
            /\ intents[t].kind # "none"
         \/ \E r \in Requests, p \in Packages :
              intents'[t] = [NoIntent EXCEPT !.kind = "uninstall", !.pkg = p,
                                             !.shown = TRUE]
         \/ \E r \in Requests, v \in Versions :
              /\ Verified(r, t, v)
              /\ intents'[t] = [kind |-> "install", item |-> req[r].item,
                               stamp |-> req[r].stamp, pkg |-> req[r].pkg,
                               ver |-> v, shown |-> FALSE]
<1>1. intents \in [Tokens -> Confirmations]
  BY DEF MarketInv, TypeOK
<1>2. ASSUME NEW r \in Requests, Rechecked(r) PROVE Done
  <2>1. CASE req[r].token # t
    BY <1>1, <1>2, <2>1 DEF Rechecked
  <2>2. CASE req[r].token = t
    <3>1. intents'[t] = [intents[t] EXCEPT !.shown = intents[t].shown \/ intents[t].kind # "none"]
      BY <1>1, <1>2, <2>2 DEF Rechecked
    <3>2. CASE intents[t].kind # "none"
      <4>1. (intents[t].shown \/ intents[t].kind # "none") = TRUE
        BY <3>2
      <4> QED  BY <3>1, <3>2, <4>1
    <3>3. CASE intents[t].kind = "none"
      <4>1. intents[t] \in Confirmations
        BY <1>1
      <4>2. (intents[t].shown \/ intents[t].kind # "none") = intents[t].shown
        BY <3>3, <4>1 DEF Confirmations
      <4>3. [intents[t] EXCEPT !.shown = intents[t].shown] = intents[t]
        BY <4>1 DEF Confirmations
      <4>4. intents'[t] = intents[t]
        BY <3>1, <4>2, <4>3
      <4> QED  BY <4>4
    <3> QED  BY <3>2, <3>3
  <2> QED  BY <2>1, <2>2
<1>3. ASSUME NEW r \in Requests, NEW u \in Tokens, Directed(r, u) PROVE Done
  <2>1. req[r].pkg \in Packages
    BY <1>3 DEF Directed, MarketInv, WellFormed, RequestFormed
  <2> QED  BY <1>1, <1>3, <2>1 DEF Directed
<1>4. ASSUME NEW r \in Requests, NEW u \in Tokens, NEW v \in Versions, Verified(r, u, v)
      PROVE  Done
  <2>1. CASE u # t
    BY <1>1, <1>4, <2>1 DEF Verified
  <2>2. CASE u = t
    BY <1>1, <1>4, <2>2 DEF Verified
  <2> QED  BY <2>1, <2>2
<1>5. ASSUME NEW u \in Tokens,
             TakesRestart(u) \/ Expires(u) \/ \E r \in Requests : Execute(r, u)
      PROVE  Done
  BY <1>1, <1>5 DEF TakesRestart, Expires, Execute, Withdrawn
<1>6. ASSUME Revoke \/ Dispose \/ Relaunch PROVE Done
  BY <1>6 DEF Revoke, Dispose, Relaunch, Forgets
<1>7. ASSUME NEW r \in Requests,
             \/ PnpmEnds(r) \/ Prechecked(r) \/ PreviewFails(r) \/ Checked(r)
             \/ ReadsManifest(r) \/ WritesManifest(r) \/ ManifestFails(r)
             \/ Validated(r)
             \/ (\E i \in Items : PreviewInstall(r, i))
             \/ (\E p \in Packages : PreviewUninstall(r, p))
      PROVE  UNCHANGED intents
  BY <1>7 DEF PreviewInstall, PreviewUninstall, Prechecked, PreviewFails,
     Checked, PnpmEnds, ReadsManifest, WritesManifest, ManifestFails,
     Validated, tokenVars
<1>8. ASSUME \/ ChangeSources \/ UNCHANGED vars \/ OtherStarts \/ OtherEnds
             \/ \E f \in Fetchers : FetchStarts(f) \/ FetchEnds(f)
             \/ \E i \in Items : Lapses(i)
      PROVE  UNCHANGED intents
  BY <1>8 DEF ChangeSources, vars, OtherStarts, OtherEnds, FetchStarts,
     FetchEnds, Lapses, tokenVars
<1>9. ASSUME UNCHANGED intents PROVE Done
  BY <1>9
<1> HIDE DEF Done
<1>10. ASSUME NEW r \in Requests,
             \/ RequestSteps(r) \/ PnpmEnds(r)
             \/ (\E i \in Items : PreviewInstall(r, i))
             \/ (\E p \in Packages : PreviewUninstall(r, p))
             \/ (\E u \in Tokens : Execute(r, u))
      PROVE  Done
  BY <1>2, <1>3, <1>4, <1>5, <1>7, <1>9, <1>10 DEF RequestSteps
<1>11. ASSUME Next PROVE Done
  <2>1. CASE \/ ChangeSources \/ OtherStarts \/ OtherEnds
             \/ \E f \in Fetchers : FetchStarts(f) \/ FetchEnds(f)
             \/ \E i \in Items : Lapses(i)
    BY <1>8, <1>9, <2>1
  <2>2. CASE \E u \in Tokens : TakesRestart(u) \/ Expires(u)
    BY <1>5, <2>2
  <2>3. CASE \E r \in Requests :
               \/ RequestSteps(r) \/ PnpmEnds(r)
               \/ (\E i \in Items : PreviewInstall(r, i))
               \/ (\E p \in Packages : PreviewUninstall(r, p))
               \/ (\E u \in Tokens : Execute(r, u))
    BY <1>10, <2>3
  <2> QED  BY <1>6, <1>11, <2>1, <2>2, <2>3 DEF Next, ChildEnds
<1>12. ASSUME UNCHANGED vars PROVE Done
  BY <1>8, <1>9, <1>12
<1> QED  BY <1>11, <1>12 DEF Done

LEMMA IntentsFormed ==
  MarketInv /\ [Next]_vars => \A t \in Tokens : IntentFormed(intents'[t])
<1> SUFFICES ASSUME MarketInv, [Next]_vars, NEW t \in Tokens
             PROVE  IntentFormed(intents'[t])
  OBVIOUS
<1>1. IntentFormed(intents[t]) /\ intents[t] \in Confirmations
  BY DEF MarketInv, WellFormed, TypeOK
<1>2. CASE intents'[t] = [intents[t] EXCEPT !.shown = TRUE]
           /\ intents[t].kind # "none"
  BY <1>1, <1>2 DEF IntentFormed, Confirmations
<1>3. ASSUME NEW p \in Packages,
             intents'[t] = [NoIntent EXCEPT !.kind = "uninstall", !.pkg = p,
                                            !.shown = TRUE]
      PROVE  IntentFormed(intents'[t])
  BY <1>3 DEF IntentFormed, NoIntent
<1>4. ASSUME NEW r \in Requests, NEW v \in Versions, Verified(r, t, v),
             intents'[t] = [kind |-> "install", item |-> req[r].item,
                            stamp |-> req[r].stamp, pkg |-> req[r].pkg,
                            ver |-> v, shown |-> FALSE]
      PROVE  IntentFormed(intents'[t])
  <2>1. RequestFormed(req[r]) /\ req[r].at = "verify"
    BY <1>4 DEF Verified, MarketInv, WellFormed
  <2> QED  BY <1>4, <2>1 DEF IntentFormed, RequestFormed
<1> QED  BY <1>1, <1>2, <1>3, <1>4, Placeholders, IntentSteps

LEMMA CandidatesKept == MarketInv /\ [Next]_vars => CandidatesInUse'
<1> SUFFICES ASSUME MarketInv, [Next]_vars PROVE CandidatesInUse'
  OBVIOUS
<1> DEFINE UsedNext(s) == stored'.on = s \/ s \in leaving'
<1> USE DEF MarketInv
<1>1. /\ \A i \in Items : SourceOf[i] \in Sources
      /\ \A i \in Items : cand[i] # 0 => InUse(SourceOf[i])
      /\ \A t \in Tokens : intents[t].kind = "install" =>
           intents[t].item \in Items /\ InUse(SourceOf[intents[t].item])
  BY DEF CandidatesInUse, WellFormed, IntentFormed
<1>2. ASSUME ChangeSources \/ UNCHANGED sourceVars, NEW s \in Sources, InUse(s)
      PROVE  UsedNext(s)
  BY <1>2, UseLasts DEF InUse
<1>3. ASSUME NEW i \in Items, cand'[i] # 0 PROVE UsedNext(SourceOf[i])
  <2>1. CASE Revoke
    BY <1>1, <1>3, <2>1 DEF Revoke, InUse
  <2>2. CASE Dispose \/ Relaunch
    BY <1>3, <2>2 DEF Dispose, Relaunch, Forgets
  <2>3. ASSUME NEW f \in Fetchers, FetchEnds(f) PROVE UsedNext(SourceOf[i])
    <3>1. UNCHANGED sourceVars
      BY <2>3 DEF FetchEnds
    <3>2. CASE cand[i] # 0
      BY <1>1, <1>2, <3>1, <3>2
    <3>3. CASE cand[i] = 0
      <4>1. /\ Current(f) /\ fetch[f] # NoFetch
            /\ SourceOf[i] = fetch[f].src
        BY <1>3, <2>3, <3>3 DEF FetchEnds
      <4>2. InUse(SourceOf[i])
        BY <4>1 DEF PagesInUse
      <4> QED  BY <1>1, <1>2, <3>1, <4>2
    <3> QED  BY <3>2, <3>3 DEF TypeOK
  <2>4. ASSUME \/ ChangeSources \/ UNCHANGED <<sourceVars, catalogVars>>
               \/ \E f \in Fetchers : FetchStarts(f)
               \/ \E j \in Items : Lapses(j)
        PROVE  UsedNext(SourceOf[i])
    <3>1. cand[i] # 0
      BY <1>3, <2>4 DEF ChangeSources, catalogVars, FetchStarts, Lapses, TypeOK
    <3>2. ChangeSources \/ UNCHANGED sourceVars
      BY <2>4 DEF FetchStarts, Lapses
    <3> QED  BY <1>1, <1>2, <3>1, <3>2
  <2> QED  BY <2>1, <2>2, <2>3, <2>4, CatalogSteps
<1>4. ASSUME NEW t \in Tokens, intents'[t].kind = "install"
      PROVE  UsedNext(SourceOf[intents'[t].item])
  <2>1. intents[t] \in Confirmations
    BY DEF TypeOK
  <2>2. CASE /\ intents[t].kind = "install"
             /\ intents'[t].item = intents[t].item
    <3>1. CASE Revoke
      BY <1>1, <1>4, <2>2, <3>1 DEF Revoke, InUse, NoIntent
    <3>2. CASE Dispose \/ Relaunch
      BY <1>4, <3>2 DEF Dispose, Relaunch, Forgets, NoIntent
    <3>3. CASE ChangeSources \/ UNCHANGED sourceVars
      BY <1>1, <1>2, <2>2, <3>3
    <3> QED
      BY <3>1, <3>2, <3>3, CatalogSteps DEF FetchStarts, FetchEnds, Lapses
  <2>3. ASSUME NEW r \in Requests, NEW v \in Versions, Verified(r, t, v),
               intents'[t].item = req[r].item
        PROVE  UsedNext(SourceOf[intents'[t].item])
    <3>1. RequestFormed(req[r]) /\ Offered(req[r]) /\ req[r].at = "verify"
      BY <2>3 DEF Verified, WellFormed
    <3>2. req[r].item \in Items /\ cand[req[r].item] # 0
      BY <3>1 DEF RequestFormed, Offered
    <3>3. UNCHANGED sourceVars
      BY <2>3 DEF Verified
    <3> QED  BY <1>1, <1>2, <2>3, <3>2, <3>3
  <2>4. \/ /\ intents[t].kind = "install"
           /\ intents'[t].item = intents[t].item
        \/ \E r \in Requests, v \in Versions :
             Verified(r, t, v) /\ intents'[t].item = req[r].item
    <3>1. intents'[t] # NoIntent
      BY <1>4 DEF NoIntent
    <3>2. ASSUME NEW p \in Packages,
                 intents'[t] = [NoIntent EXCEPT !.kind = "uninstall",
                                                !.pkg = p, !.shown = TRUE]
          PROVE  FALSE
      BY <1>4, <3>2 DEF NoIntent
    <3>3. ASSUME intents'[t] = [intents[t] EXCEPT !.shown = TRUE]
          PROVE  /\ intents[t].kind = "install"
                 /\ intents'[t].item = intents[t].item
      BY <1>4, <2>1, <3>3 DEF Confirmations
    <3>4. ASSUME NEW r \in Requests, NEW v \in Versions,
                 intents'[t] = [kind |-> "install", item |-> req[r].item,
                               stamp |-> req[r].stamp, pkg |-> req[r].pkg,
                               ver |-> v, shown |-> FALSE]
          PROVE  intents'[t].item = req[r].item
      BY <3>4
    <3> QED  BY <1>4, <3>1, <3>2, <3>3, <3>4, IntentSteps
  <2> QED  BY <2>2, <2>3, <2>4
<1> QED  BY <1>3, <1>4 DEF CandidatesInUse, InUse

THEOREM MarketInvariant == Spec => []MarketInv
<1>1. MarketInv /\ [Next]_vars => MarketInv'
  BY TypesKept, PagesKept, RequestsFormed, IntentsFormed, CandidatesKept
  DEF MarketInv, WellFormed
<1> QED  BY MarketInit, <1>1, PTL DEF Spec

(* What is offered, and what was confirmed of it, is of the source in use. *)
THEOREM MarketIsSafe == Spec => []MarketSafety
<1>1. MarketInv => MarketSafety
  BY DEF MarketInv, MarketSafety
<1> QED  BY <1>1, MarketInvariant, PTL

(* pnpm starts for an installation only while the confirmed observation    *)
(* stands in the source in use and the Profile lacks the package           *)
(* (executeInstall).                                                       *)
THEOREM InstallationsAreOffered == Spec => InstallsAreOffered
<1> DEFINE Offers ==
      \A r \in Requests :
        child' = r /\ child # r /\ req[r].kind = "install"
          => /\ InUse(SourceOf[req[r].item])
             /\ cand[req[r].item] = req[r].stamp
             /\ ~Referenced(req[r].pkg)
<1>1. ASSUME MarketInv, [Next]_vars PROVE Offers
  <2> SUFFICES ASSUME NEW r \in Requests, child' = r, child # r,
                      req[r].kind = "install"
               PROVE  /\ InUse(SourceOf[req[r].item])
                      /\ cand[req[r].item] = req[r].stamp
                      /\ ~Referenced(req[r].pkg)
    OBVIOUS
  <2>1. Checked(r)
    <3>1. ASSUME NEW q \in Requests, Checked(q) PROVE q = r
      BY <3>1 DEF Checked
    <3>2. ASSUME NEW q \in Requests,
                 \/ PnpmEnds(q) \/ Prechecked(q) \/ PreviewFails(q)
                 \/ ReadsManifest(q) \/ WritesManifest(q) \/ ManifestFails(q)
                 \/ Validated(q) \/ Rechecked(q)
                 \/ (\E i \in Items : PreviewInstall(q, i))
                 \/ (\E p \in Packages : PreviewUninstall(q, p))
                 \/ (\E t \in Tokens : \/ Directed(q, t) \/ Execute(q, t)
                                      \/ \E v \in Versions : Verified(q, t, v))
          PROVE  child' = child \/ child' = Nobody
      BY <3>2 DEF PreviewInstall, PreviewUninstall, Prechecked, Rechecked,
         Directed, Verified, PreviewFails, Execute, PnpmEnds, ReadsManifest,
         WritesManifest, ManifestFails, Validated
    <3>3. ASSUME \/ ChangeSources \/ Revoke \/ Dispose \/ Relaunch
                 \/ UNCHANGED vars \/ OtherStarts \/ OtherEnds
                 \/ (\E f \in Fetchers : FetchStarts(f) \/ FetchEnds(f))
                 \/ (\E i \in Items : Lapses(i))
                 \/ (\E t \in Tokens : TakesRestart(t) \/ Expires(t))
          PROVE  child' = child \/ child' = Nobody \/ child' = Other
      BY <3>3 DEF ChangeSources, Revoke, Dispose, Relaunch, vars, OtherStarts,
         OtherEnds, FetchStarts, FetchEnds, Lapses, TakesRestart, Expires,
         runVars
    <3>4. r # Nobody /\ r # Other
      OBVIOUS
    <3> QED  BY <1>1, <3>1, <3>2, <3>3, <3>4 DEF Next, RequestSteps, ChildEnds
  <2>2. Fits(req[r])
    BY <2>1 DEF Checked
  <2>3. /\ req[r].item \in Items /\ req[r].stamp # 0
    BY <1>1 DEF MarketInv, WellFormed, RequestFormed
  <2> QED
    BY <1>1, <2>2, <2>3 DEF Fits, Offered, MarketInv, CandidatesInUse
<1>2. Spec => [][Offers]_vars
  BY <1>1, MarketInvariant, PTL DEF Spec
<1> QED  BY <1>2 DEF InstallsAreOffered
-----------------------------------------------------------------------------
(* The market implements ConfirmedChanges.  A phase is a function of these *)
(* three, of restarts and of minted.                                       *)

Live == {t \in Tokens : intents[t] # NoIntent}
Running == IF operation = NoRequest THEN NoToken ELSE req[operation].token
Working == IF child \in Requests THEN req[child].token ELSE NoToken

(* The request that is in a change is the one runExclusive let in. *)
OneRuns == \A r \in Requests : req[r].at \in Changing <=> operation = r

(* A confirmation is in one place at a time: to be confirmed, running, or  *)
(* rewarded with an offer to restart; and it was made before it got there. *)
TokensApart ==
  /\ Live \subseteq minted /\ restarts \subseteq minted
  /\ Live \cap restarts = {}
  /\ Running # NoToken => Running \in minted \ (Live \cup restarts)

ChangeInv == MarketInv /\ OneRuns /\ TokensApart

LEMMA ChangeInvInit == Init => ChangeInv
<1> SUFFICES ASSUME Init PROVE ChangeInv
  OBVIOUS
<1>1. OneRuns
  BY DEF Init, OneRuns, Idle, Changing
<1>2. TokensApart
  BY DEF Init, TokensApart, Live, Running
<1> QED  BY <1>1, <1>2, MarketInit DEF ChangeInv

(* The steps of one request, apart from the ends of its pnpm process. *)
Acts(r) ==
  \/ RequestSteps(r) \/ PnpmEnds(r)
  \/ (\E i \in Items : PreviewInstall(r, i))
  \/ (\E p \in Packages : PreviewUninstall(r, p))
  \/ (\E t \in Tokens : Execute(r, t))

LEMMA ActsOnItself ==
  ASSUME MarketInv, NEW r \in Requests, Acts(r), NEW q \in Requests, q # r
  PROVE  req'[q] = req[q]
BY DEF MarketInv, TypeOK, Acts, RequestSteps, PreviewInstall,
   PreviewUninstall, Prechecked, Rechecked, Directed, Verified, PreviewFails,
   Execute, Checked, PnpmEnds, ReadsManifest, WritesManifest, ManifestFails,
   Validated, Moves, Ends, Fails

(* The change that begins, and the two steps that go on with one. *)
LEMMA ExecuteEnters ==
  ASSUME req \in [Requests -> Operations], NEW r \in Requests,
         NEW t \in Tokens, Execute(r, t), Offered(intents[t])
  PROVE  req'[r].at = "check" /\ req'[r].token = t
<1> DEFINE x == [Idle EXCEPT !.at = "check", !.token = t,
                   !.kind = intents[t].kind, !.item = intents[t].item,
                   !.stamp = intents[t].stamp, !.pkg = intents[t].pkg,
                   !.ver = intents[t].ver]
<1>1. x.at = "check" /\ x.token = t
  BY DEF Idle
<1>2. req' = [req EXCEPT ![r] = x]
  BY DEF Execute
<1> HIDE DEF x
<1> QED  BY <1>1, <1>2

LEMMA ManifestGoesOn ==
  ASSUME req \in [Requests -> Operations], NEW r \in Requests,
         ReadsManifest(r) \/ WritesManifest(r)
  PROVE  req'[r].at \in {"write", "validate"} /\ req'[r].token = req[r].token
<1>1. req[r] \in Operations
  OBVIOUS
<1>2. CASE ReadsManifest(r)
  <2> DEFINE x == [req[r] EXCEPT !.at = "write", !.deps = deps, !.bundles = bundles]
  <2>1. x.at = "write" /\ x.token = req[r].token
    BY <1>1 DEF Operations
  <2>2. req' = [req EXCEPT ![r] = x]
    BY <1>2 DEF ReadsManifest
  <2> HIDE DEF x
  <2> QED  BY <2>1, <2>2
<1>3. CASE WritesManifest(r)
  <2> DEFINE x == [req[r] EXCEPT !.at = "validate", !.deps = Unread, !.bundles = {}]
  <2>1. x.at = "validate" /\ x.token = req[r].token
    BY <1>1 DEF Operations
  <2>2. req' = [req EXCEPT ![r] = x]
    BY <1>3 DEF WritesManifest
  <2> HIDE DEF x
  <2> QED  BY <2>1, <2>2
<1> QED  BY <1>2, <1>3

(* What changes when a request enters, keeps or leaves a change. *)
LEMMA ActsInOrder ==
  ASSUME MarketInv, OneRuns, NEW r \in Requests, Acts(r)
  PROVE  \/ /\ operation' = operation
            /\ req'[r].at \in Changing <=> req[r].at \in Changing
            /\ req[r].at \in Changing => req'[r].token = req[r].token
         \/ /\ operation = NoRequest /\ operation' = r
            /\ req'[r].at = "check"
         \/ /\ operation = r /\ operation' = NoRequest
            /\ req'[r] = Idle
<1> DEFINE Done ==
         \/ /\ operation' = operation
            /\ req'[r].at \in Changing <=> req[r].at \in Changing
            /\ req[r].at \in Changing => req'[r].token = req[r].token
         \/ /\ operation = NoRequest /\ operation' = r
            /\ req'[r].at = "check"
         \/ /\ operation = r /\ operation' = NoRequest
            /\ req'[r] = Idle
<1>1. /\ req \in [Requests -> Operations] /\ req[r] \in Operations
      /\ child = r => req[r].at = "pnpm"
      /\ req[r].at \in Changing <=> operation = r
      /\ Idle.at \notin Changing
  BY DEF MarketInv, TypeOK, WellFormed, OneRuns, Idle, Changing
<1>2. ASSUME \/ (\E i \in Items : PreviewInstall(r, i))
             \/ (\E p \in Packages : PreviewUninstall(r, p))
      PROVE  Done
  <2>1. req[r].at = "idle" /\ operation' = operation
    BY <1>2 DEF PreviewInstall, PreviewUninstall
  <2>2. ASSUME NEW i \in Items, PreviewInstall(r, i)
        PROVE  req'[r].at \in {"precheck", "verify"}
    BY <1>1, <2>2 DEF PreviewInstall, Idle
  <2>3. ASSUME NEW p \in Packages, PreviewUninstall(r, p)
        PROVE  req'[r].at = "direct"
    BY <1>1, <2>3 DEF PreviewUninstall, Idle
  <2> QED  BY <1>2, <2>1, <2>2, <2>3 DEF Changing
<1>3. ASSUME Prechecked(r) PROVE Done
  BY <1>1, <1>3 DEF Prechecked, Moves, Changing, Operations
<1>4. ASSUME NEW t \in Tokens, NEW v \in Versions, Verified(r, t, v) PROVE Done
  BY <1>1, <1>4 DEF Verified, Changing, Operations
<1>5. ASSUME Rechecked(r) \/ PreviewFails(r) \/ (\E t \in Tokens : Directed(r, t))
      PROVE  Done
  BY <1>1, <1>5 DEF Rechecked, PreviewFails, Directed, Ends, Changing, Previewing
<1>6. ASSUME NEW t \in Tokens, Execute(r, t) PROVE Done
  <2>1. CASE Offered(intents[t])
    <3>1. operation = NoRequest /\ operation' = r
      BY <1>6, <2>1 DEF Execute, Exclusive
    <3>2. req'[r].at = "check"
      BY <1>1, <1>6, <2>1, ExecuteEnters
    <3> QED  BY <3>1, <3>2
  <2>2. CASE ~Offered(intents[t])
    BY <1>6, <2>2 DEF Execute
  <2> QED  BY <2>1, <2>2
<1>7. ASSUME Checked(r) PROVE Done
  BY <1>1, <1>7 DEF Checked, Moves, Ends, Fails, Changing, Operations
<1>8. ASSUME PnpmEnds(r) PROVE Done
  BY <1>1, <1>8 DEF PnpmEnds, Moves, Ends, Fails, Changing, Operations
<1>9. ASSUME ReadsManifest(r) \/ WritesManifest(r) PROVE Done
  <2>1. operation' = operation /\ req[r].at \in {"bundle", "write"}
    BY <1>9 DEF ReadsManifest, WritesManifest
  <2>2. req'[r].at \in {"write", "validate"} /\ req'[r].token = req[r].token
    BY <1>1, <1>9, ManifestGoesOn
  <2> QED  BY <2>1, <2>2 DEF Changing
<1>10. ASSUME ManifestFails(r) \/ Validated(r) PROVE Done
  BY <1>1, <1>10 DEF ManifestFails, Validated, Ends, Fails, Changing
<1> HIDE DEF Done
<1>11. Done
  BY <1>2, <1>3, <1>4, <1>5, <1>6, <1>7, <1>8, <1>9, <1>10 DEF Acts, RequestSteps
<1> QED  BY <1>11 DEF Done

(* The steps of nobody in particular. *)
LEMMA OthersLeaveRequests ==
  ASSUME [Next]_vars, \A r \in Requests : ~Acts(r)
  PROVE  UNCHANGED <<req, operation>> \/ Relaunch
BY DEF Next, vars, Acts, ChildEnds, ChangeSources, Revoke, FetchStarts,
   FetchEnds, Lapses, TakesRestart, Expires, OtherEnds, OtherStarts, Dispose,
   runVars

LEMMA OneRunsKept == MarketInv /\ OneRuns /\ [Next]_vars => OneRuns'
<1> SUFFICES ASSUME MarketInv, OneRuns, [Next]_vars PROVE OneRuns'
  OBVIOUS
<1>1. ASSUME NEW r \in Requests, Acts(r) PROVE OneRuns'
  <2> SUFFICES ASSUME NEW q \in Requests
               PROVE  req'[q].at \in Changing <=> operation' = q
    BY DEF OneRuns
  <2>1. CASE q # r
    <3>1. req'[q] = req[q]
      BY <1>1, <2>1, ActsOnItself
    <3>2. (operation' = q) <=> (operation = q)
      BY <1>1, <2>1, ActsInOrder DEF MarketInv, TypeOK
    <3> QED  BY <3>1, <3>2 DEF OneRuns
  <2>2. CASE q = r
    <3>1. Idle.at \notin Changing /\ "check" \in Changing
      BY DEF Idle, Changing
    <3> QED  BY <1>1, <2>2, <3>1, ActsInOrder DEF OneRuns
  <2> QED  BY <2>1, <2>2
<1>2. CASE Relaunch
  BY <1>2 DEF Relaunch, OneRuns, Idle, Changing
<1>3. CASE UNCHANGED <<req, operation>>
  BY <1>3 DEF OneRuns
<1> QED  BY <1>1, <1>2, <1>3, OthersLeaveRequests
(* What a step can do to confirmations and to pnpm, as the five kinds of   *)
(* step of ConfirmedChanges see it.                                        *)
SpendsSome ==
  /\ Live' \subseteq Live /\ restarts' \subseteq restarts
  /\ minted' = minted
  /\ Running' \in {Running, NoToken} /\ Working' \in {Working, NoToken}
  /\ Running' = NoToken => Working' = NoToken

Offers(t) ==
  /\ t \notin minted /\ minted' = minted \cup {t} /\ Live' = Live \cup {t}
  /\ UNCHANGED <<restarts, Running, Working>>

Begins(t) ==
  /\ Running = NoToken /\ Running' = t
  /\ t \in Live /\ Live' = Live \ {t}
  /\ UNCHANGED <<minted, restarts, Working>>

Works ==
  /\ Running # NoToken /\ Working' = Running
  /\ UNCHANGED <<Live, minted, restarts, Running>>

Completes ==
  /\ Running # NoToken /\ Running' = NoToken
  /\ restarts' = restarts \cup {Running}
  /\ Working = NoToken /\ Working' = NoToken
  /\ UNCHANGED <<Live, minted>>

Effect ==
  \/ SpendsSome \/ Works \/ Completes
  \/ \E t \in Tokens : Offers(t) \/ Begins(t)

(* pnpm works for the change that runs. *)
LEMMA WorksForRunning ==
  ASSUME MarketInv, OneRuns
  PROVE  /\ Working \in {NoToken, Running}
         /\ Running \in Tokens \cup {NoToken}
         /\ operation # NoRequest => Running = req[operation].token /\ Running \in Tokens
         /\ child \in Requests => operation = child /\ Working = Running
         /\ child \notin Requests => Working = NoToken
<1>1. \A r \in Requests : child = r => req[r].at \in Changing
  BY DEF MarketInv, WellFormed, Changing
<1>2. child \in Requests => operation = child
  BY <1>1 DEF OneRuns
<1>3. operation # NoRequest => operation \in Requests /\ req[operation].at \in Changing
  BY DEF MarketInv, TypeOK, OneRuns
<1>4. operation # NoRequest => req[operation].token \in Tokens
  BY <1>3 DEF MarketInv, WellFormed, RequestFormed
<1> QED  BY <1>2, <1>4 DEF Working, Running

(* A step that leaves all this alone, or only withdraws and forgets. *)
LEMMA KeepsChanges ==
  ASSUME MarketInv, OneRuns, UNCHANGED <<req, operation, child, minted>>,
         Live' \subseteq Live, restarts' \subseteq restarts
  PROVE  SpendsSome
BY WorksForRunning DEF SpendsSome, Running, Working

LEMMA PreviewEffects ==
  ASSUME MarketInv, OneRuns, NEW r \in Requests,
         \/ Prechecked(r) \/ Rechecked(r) \/ PreviewFails(r)
         \/ (\E t \in Tokens : Directed(r, t) \/ \E v \in Versions : Verified(r, t, v))
         \/ (\E i \in Items : PreviewInstall(r, i))
         \/ (\E p \in Packages : PreviewUninstall(r, p))
  PROVE  Effect
<1>1. operation # r /\ child # r
  <2>1. req[r].at \in Previewing \cup {"idle"}
    BY DEF PreviewInstall, PreviewUninstall, Prechecked, Rechecked, Directed,
       Verified, PreviewFails, Previewing
  <2>2. req[r].at \notin Changing
    BY <2>1 DEF Previewing, Changing
  <2> QED  BY <2>2 DEF OneRuns, MarketInv, WellFormed, Changing
<1>2. /\ UNCHANGED <<operation, child, restarts>>
      /\ \A q \in Requests : q # r => req'[q] = req[q]
  <2>1. UNCHANGED <<operation, child, restarts>>
    BY DEF PreviewInstall, PreviewUninstall, Prechecked, Rechecked, Directed,
       Verified, PreviewFails, tokenVars
  <2>2. Acts(r)
    BY DEF Acts, RequestSteps
  <2> QED  BY <2>1, <2>2, ActsOnItself
<1>3. UNCHANGED <<Running, Working>>
  BY <1>1, <1>2 DEF Running, Working, MarketInv, TypeOK
<1>4. ASSUME NEW t \in Tokens, Directed(r, t) \/ \E v \in Versions : Verified(r, t, v)
      PROVE  Effect
  <2>1. t \notin minted /\ minted' = minted \cup {t}
    BY <1>4 DEF Directed, Verified
  <2>2. \A u \in Tokens : u # t => intents'[u] = intents[u]
    BY <1>4 DEF Directed, Verified, MarketInv, TypeOK
  <2>3. intents'[t].kind \in {"install", "uninstall"}
    <3>1. intents \in [Tokens -> Confirmations]
      BY DEF MarketInv, TypeOK
    <3>2. CASE Directed(r, t)
      BY <3>1, <3>2 DEF Directed, NoIntent
    <3>3. ASSUME NEW v \in Versions, Verified(r, t, v)
          PROVE  intents'[t].kind = "install"
      BY <3>1, <3>3 DEF Verified
    <3> QED  BY <1>4, <3>2, <3>3
  <2>4. intents'[t] # NoIntent
    BY <2>3 DEF NoIntent
  <2>5. Live' = Live \cup {t}
    BY <2>2, <2>4 DEF Live
  <2> QED  BY <1>2, <1>3, <2>1, <2>5 DEF Effect, Offers
<1>5. ASSUME Rechecked(r) PROVE Effect
  <2> DEFINE t == req[r].token
  <2>1. minted' = minted
    BY <1>5 DEF Rechecked
  <2>2. ASSUME NEW u \in Tokens, intents[u] = NoIntent PROVE intents'[u] = NoIntent
    <3>1. CASE u # t
      BY <1>5, <2>2, <3>1 DEF Rechecked, MarketInv, TypeOK
    <3>2. CASE u = t
      <4>1. (NoIntent.shown \/ NoIntent.kind # "none") = FALSE
        BY DEF NoIntent
      <4>2. [NoIntent EXCEPT !.shown = FALSE] = NoIntent
        <5>1. NoIntent \in Confirmations /\ NoIntent.shown = FALSE
          BY Placeholders DEF NoIntent
        <5> QED  BY <5>1 DEF Confirmations
      <4>3. intents'[u] = [NoIntent EXCEPT !.shown = NoIntent.shown \/ NoIntent.kind # "none"]
        BY <1>5, <2>2, <3>2 DEF Rechecked, MarketInv, TypeOK
      <4> QED  BY <4>1, <4>2, <4>3
    <3> QED  BY <3>1, <3>2
  <2>3. Live' \subseteq Live
    BY <2>2 DEF Live
  <2> QED  BY <1>2, <1>3, <2>1, <2>3, WorksForRunning DEF Effect, SpendsSome
<1>6. ASSUME \/ Prechecked(r) \/ PreviewFails(r)
             \/ (\E i \in Items : PreviewInstall(r, i))
             \/ (\E p \in Packages : PreviewUninstall(r, p))
      PROVE  Effect
  <2>1. UNCHANGED <<intents, minted>>
    BY <1>6 DEF PreviewInstall, PreviewUninstall, Prechecked, PreviewFails, tokenVars
  <2> QED  BY <1>2, <1>3, <2>1, WorksForRunning DEF Effect, SpendsSome, Live
<1> QED  BY <1>4, <1>5, <1>6

LEMMA ExecuteEffects ==
  ASSUME MarketInv, OneRuns, NEW r \in Requests, NEW t \in Tokens, Execute(r, t)
  PROVE  Effect
<1>1. /\ operation = NoRequest /\ Running = NoToken
      /\ child \notin Requests
      /\ UNCHANGED <<child, minted, restarts>>
  BY WorksForRunning DEF Execute, Exclusive, Running
<1>2. Working = NoToken /\ Working' = NoToken
  BY <1>1 DEF Working
<1>3. t \in Live /\ Live' = Live \ {t}
  <2>1. intents \in [Tokens -> Confirmations] /\ intents[t].shown
    BY DEF MarketInv, TypeOK, Execute
  <2>2. ~NoIntent.shown
    BY DEF NoIntent
  <2> QED  BY <2>1, <2>2 DEF Execute, Withdrawn, Live
<1>4. CASE Offered(intents[t])
  <2>1. operation' = r /\ req'[r].token = t /\ r # NoRequest
    BY <1>4, ExecuteEnters DEF Execute, MarketInv, TypeOK
  <2>2. Running' = t
    BY <2>1 DEF Running
  <2> QED  BY <1>1, <1>2, <1>3, <2>2 DEF Effect, Begins
<1>5. CASE ~Offered(intents[t])
  <2>1. Running' = NoToken
    BY <1>1, <1>5 DEF Execute, Running
  <2> QED  BY <1>1, <1>2, <1>3, <2>1 DEF Effect, SpendsSome
<1> QED  BY <1>4, <1>5
(* The stages of the change that runs. *)
LEMMA ChangeEffects ==
  ASSUME MarketInv, OneRuns, NEW r \in Requests,
         \/ Checked(r) \/ PnpmEnds(r) \/ ReadsManifest(r) \/ WritesManifest(r)
         \/ ManifestFails(r) \/ Validated(r)
  PROVE  Effect
<1>1. /\ operation = r /\ operation # NoRequest
      /\ Running = req[r].token /\ Running \in Tokens /\ Running # NoToken
      /\ child = r => req[r].at = "pnpm"
  <2>1. child = r => req[r].at = "pnpm"
    BY DEF MarketInv, WellFormed
  <2>2. req[r].at \in Changing
    BY <2>1 DEF Checked, PnpmEnds, ReadsManifest, WritesManifest, ManifestFails,
       Validated, Changing
  <2>3. operation = r /\ r # NoRequest
    BY <2>2 DEF OneRuns
  <2> QED  BY <2>1, <2>3, WorksForRunning
<1>2. UNCHANGED <<intents, minted>> /\ Live' = Live
  BY DEF Checked, PnpmEnds, ReadsManifest, WritesManifest, ManifestFails,
     Validated, tokenVars, Live
<1>3. /\ req \in [Requests -> Operations] /\ req[r] \in Operations
      /\ child # r => child \notin Requests /\ Working = NoToken
  BY <1>1, WorksForRunning DEF MarketInv, TypeOK
<1>4. ASSUME Fails(r), restarts' \subseteq restarts, child' = child \/ child' = Nobody,
             child \notin Requests \/ child' = Nobody
      PROVE  Effect
  <2>1. Running' = NoToken
    BY <1>4 DEF Fails, Running
  <2>2. Working' = NoToken
    BY <1>4 DEF Working
  <2> QED  BY <1>2, <1>4, <2>1, <2>2 DEF Effect, SpendsSome
<1>5. ASSUME operation' = operation, req'[r].token = req[r].token
      PROVE  Running' = Running
  BY <1>1, <1>5 DEF Running
<1>6. CASE Checked(r)
  <2>1. restarts' = restarts /\ child # r
    BY <1>1, <1>6 DEF Checked, tokenVars
  <2>2. CASE Fits(req[r]) /\ open /\ child = Nobody
    <3>1. /\ operation' = operation /\ child' = r
          /\ req' = [req EXCEPT ![r].at = "pnpm"]
      BY <1>6, <2>2 DEF Checked, Moves
    <3>2. req'[r].token = req[r].token
      BY <1>3, <3>1 DEF Operations
    <3>3. Running' = Running /\ Working' = Running
      BY <1>1, <1>5, <3>1, <3>2 DEF Working
    <3> QED  BY <1>1, <1>2, <2>1, <3>3 DEF Effect, Works
  <2>3. CASE ~(Fits(req[r]) /\ open /\ child = Nobody)
    <3>1. Fails(r) /\ child' = child
      BY <1>6, <2>3 DEF Checked
    <3> QED  BY <1>3, <1>4, <2>1, <3>1
  <2> QED  BY <2>2, <2>3
<1>7. CASE PnpmEnds(r)
  <2>1. restarts' = restarts /\ child' = Nobody
    BY <1>7 DEF PnpmEnds, tokenVars
  <2>2. CASE Fails(r)
    BY <1>4, <2>1, <2>2
  <2>3. CASE Moves(r, "bundle") /\ operation' = operation
    <3>1. req'[r].token = req[r].token
      BY <1>3, <2>3 DEF Moves, Operations
    <3>2. Running' = Running /\ Working' = NoToken
      BY <1>5, <2>1, <2>3, <3>1 DEF Working
    <3> QED  BY <1>1, <1>2, <2>1, <3>2 DEF Effect, SpendsSome
  <2> QED  BY <1>7, <2>2, <2>3 DEF PnpmEnds
<1>8. CASE ReadsManifest(r) \/ WritesManifest(r)
  <2>1. restarts' = restarts /\ child' = child /\ child # r /\ operation' = operation
    BY <1>1, <1>8 DEF ReadsManifest, WritesManifest, tokenVars
  <2>2. req'[r].token = req[r].token
    BY <1>3, <1>8, ManifestGoesOn
  <2>3. Running' = Running /\ Working' = NoToken
    BY <1>3, <1>5, <2>1, <2>2 DEF Working
  <2> QED  BY <1>1, <1>2, <2>1, <2>3 DEF Effect, SpendsSome
<1>9. CASE ManifestFails(r)
  BY <1>1, <1>3, <1>4, <1>9 DEF ManifestFails, tokenVars
<1>10. CASE Validated(r)
  <2>1. Fails(r) /\ child' = child /\ child # r
    BY <1>1, <1>10 DEF Validated
  <2>2. restarts' = restarts \/ restarts' = restarts \cup {Running}
    BY <1>1, <1>10 DEF Validated
  <2>3. CASE restarts' = restarts
    BY <1>3, <1>4, <2>1, <2>3
  <2>4. CASE restarts' = restarts \cup {Running}
    <3>1. Running' = NoToken /\ Working = NoToken /\ Working' = NoToken
      BY <1>3, <2>1 DEF Fails, Running, Working
    <3> QED  BY <1>1, <1>2, <2>4, <3>1 DEF Effect, Completes
  <2> QED  BY <2>2, <2>3, <2>4
<1> QED  BY <1>6, <1>7, <1>8, <1>9, <1>10

LEMMA OtherEffects ==
  ASSUME MarketInv, OneRuns, [Next]_vars, \A r \in Requests : ~Acts(r)
  PROVE  Effect
<1>1. CASE \/ ChangeSources \/ UNCHANGED vars
           \/ (\E f \in Fetchers : FetchStarts(f) \/ FetchEnds(f))
           \/ (\E i \in Items : Lapses(i))
  BY <1>1, KeepsChanges DEF ChangeSources, FetchStarts, FetchEnds, Lapses,
     vars, tokenVars, runVars, Live, Effect
<1>2. CASE OtherStarts \/ OtherEnds
  <2>1. /\ UNCHANGED <<req, operation, tokenVars>>
        /\ child \notin Requests /\ child' \notin Requests
    BY <1>2 DEF OtherStarts, OtherEnds
  <2> QED  BY <2>1 DEF Effect, SpendsSome, Live, Running, Working, tokenVars
<1>3. CASE Revoke \/ Dispose
  <2>1. Live' \subseteq Live /\ restarts' \subseteq restarts
    BY <1>3 DEF Revoke, Dispose, Forgets, Live
  <2> QED  BY <1>3, <2>1, KeepsChanges DEF Revoke, Dispose, runVars, Effect
<1>4. ASSUME NEW t \in Tokens, TakesRestart(t) \/ Expires(t) PROVE Effect
  <2>1. Live' \subseteq Live /\ restarts' \subseteq restarts
    BY <1>4 DEF TakesRestart, Expires, Withdrawn, Live, MarketInv, TypeOK
  <2> QED  BY <1>4, <2>1, KeepsChanges DEF TakesRestart, Expires, runVars, Effect
<1>5. CASE Relaunch
  <2>1. Live' = {} /\ restarts' = {} /\ Running' = NoToken /\ Working' = NoToken
        /\ minted' = minted
    BY <1>5 DEF Relaunch, Forgets, Live, Running, Working
  <2> QED  BY <2>1 DEF Effect, SpendsSome
<1> QED  BY <1>1, <1>2, <1>3, <1>4, <1>5 DEF Next, Acts, ChildEnds

LEMMA Effects == MarketInv /\ OneRuns /\ [Next]_vars => Effect
<1> SUFFICES ASSUME MarketInv, OneRuns, [Next]_vars PROVE Effect
  OBVIOUS
<1>1. ASSUME NEW r \in Requests, Acts(r) PROVE Effect
  BY <1>1, PreviewEffects, ExecuteEffects, ChangeEffects DEF Acts, RequestSteps
<1> QED  BY <1>1, OtherEffects

LEMMA TokensApartKept == ChangeInv /\ Effect => TokensApart'
<1> SUFFICES ASSUME ChangeInv, Effect PROVE TokensApart'
  OBVIOUS
<1> USE DEF ChangeInv, TokensApart
<1>1. CASE SpendsSome \/ Works \/ Completes
  BY <1>1 DEF SpendsSome, Works, Completes
<1>2. ASSUME NEW t \in Tokens, Offers(t) \/ Begins(t) PROVE TokensApart'
  BY <1>2 DEF Offers, Begins
<1> QED  BY <1>1, <1>2 DEF Effect

THEOREM ChangeInvariant == Spec => []ChangeInv
<1>1. MarketInv /\ [Next]_vars => MarketInv'
  BY TypesKept, PagesKept, RequestsFormed, IntentsFormed, CandidatesKept
  DEF MarketInv, WellFormed
<1>2. ChangeInv /\ [Next]_vars => ChangeInv'
  BY <1>1, OneRunsKept, Effects, TokensApartKept DEF ChangeInv
<1> QED  BY ChangeInvInit, <1>2, PTL DEF Spec

-----------------------------------------------------------------------------
(* The refinement itself. *)

LEMMA PhaseFrom ==
  ASSUME NEW t \in Tokens
  PROVE  /\ PhaseOf(t) =
              IF t \in Live THEN "offered"
              ELSE IF t \in restarts THEN "completed"
              ELSE IF t = Running THEN "running"
              ELSE IF t \in minted THEN "spent" ELSE "new"
         /\ PhaseOf(t)' =
              IF t \in Live' THEN "offered"
              ELSE IF t \in restarts' THEN "completed"
              ELSE IF t = Running' THEN "running"
              ELSE IF t \in minted' THEN "spent" ELSE "new"
BY DEF PhaseOf, Live, Running

LEMMA RefinesInit == Init => Changes!ChangeInit
BY PhaseFrom DEF Init, Changes!ChangeInit, PhaseOf

LEMMA RefinesSpend ==
  ASSUME ChangeInv, SpendsSome
  PROVE  Changes!ChangeNext
<1> DEFINE T == (Live \ Live') \cup (restarts \ restarts') \cup ({Running} \ {Running', NoToken})
<1>1. T \in SUBSET Tokens
  BY WorksForRunning DEF ChangeInv, MarketInv, TypeOK, Live
<1>2. \A t \in T : PhaseOf(t) # "new"
  BY <1>1, PhaseFrom
<1>3. \A t \in Tokens : PhaseOf(t)' = IF t \in T THEN "spent" ELSE PhaseOf(t)
  BY PhaseFrom DEF ChangeInv, TokensApart, SpendsSome
<1>4. Working' \in {Working, NoToken} \ T
  <2>1. NoToken \notin T
    BY <1>1
  <2>2. Working' # NoToken => Working' = Running /\ Running' = Running
    BY WorksForRunning DEF ChangeInv, SpendsSome
  <2>3. Running # NoToken => Running \notin Live /\ Running \notin restarts
    BY DEF ChangeInv, TokensApart
  <2> QED  BY <2>1, <2>2, <2>3 DEF SpendsSome
<1> HIDE DEF T
<1>5. Changes!Spend(T)
  BY <1>2, <1>3, <1>4, <1>1 DEF Changes!Spend, Working
<1> QED  BY <1>1, <1>5 DEF Changes!ChangeNext

LEMMA RefinesOffer ==
  ASSUME ChangeInv, NEW t \in Tokens, Offers(t)
  PROVE  Changes!Offer(t)
<1>1. PhaseOf(t) = "new" /\ PhaseOf(t)' = "offered"
  BY PhaseFrom DEF ChangeInv, TokensApart, Offers
<1>2. \A u \in Tokens : u # t => PhaseOf(u)' = PhaseOf(u)
  BY PhaseFrom DEF Offers
<1>3. Working' = Working
  BY DEF Offers
<1> QED  BY <1>1, <1>2, <1>3 DEF Changes!Offer, Changes!Becomes, Working

LEMMA RefinesBegin ==
  ASSUME ChangeInv, NEW t \in Tokens, Begins(t)
  PROVE  Changes!Begin(t)
<1>1. \A u \in Tokens : PhaseOf(u) # "running"
  BY PhaseFrom DEF Begins
<1>2. PhaseOf(t) = "offered" /\ PhaseOf(t)' = "running"
  BY PhaseFrom DEF ChangeInv, TokensApart, Begins
<1>3. \A u \in Tokens : u # t => PhaseOf(u)' = PhaseOf(u)
  BY PhaseFrom DEF Begins
<1>4. Working' = Working
  BY DEF Begins
<1> QED  BY <1>1, <1>2, <1>3, <1>4 DEF Changes!Begin, Changes!Becomes, Working

LEMMA RefinesWork ==
  ASSUME ChangeInv, Works
  PROVE  \E t \in Tokens : Changes!Work(t)
<1>1. Running \in Tokens
  BY WorksForRunning DEF ChangeInv, Works
<1>2. PhaseOf(Running) = "running"
  BY <1>1, PhaseFrom DEF ChangeInv, TokensApart, Works
<1>3. \A u \in Tokens : PhaseOf(u)' = PhaseOf(u)
  BY PhaseFrom DEF Works
<1>4. Working' = Running
  BY DEF Works
<1>5. Changes!Work(Running)
  BY <1>1, <1>2, <1>3, <1>4 DEF Changes!Work, Working
<1> QED  BY <1>1, <1>5

LEMMA RefinesComplete ==
  ASSUME ChangeInv, Completes
  PROVE  \E t \in Tokens : Changes!Complete(t)
<1>1. PICK t \in Tokens : t = Running
  BY WorksForRunning DEF ChangeInv, Completes
<1>2. PhaseOf(t) = "running" /\ PhaseOf(t)' = "completed"
  BY <1>1, PhaseFrom DEF ChangeInv, TokensApart, Completes
<1>3. \A u \in Tokens : u # t => PhaseOf(u)' = PhaseOf(u)
  BY <1>1, PhaseFrom DEF Completes
<1>4. Working # t /\ Working' = Working
  BY <1>1 DEF Completes
<1>5. Changes!Complete(t)
  BY <1>2, <1>3, <1>4 DEF Changes!Complete, Changes!Becomes, Working
<1> QED  BY <1>5

LEMMA RefinesNext == ChangeInv /\ [Next]_vars => Changes!ChangeNext
<1> SUFFICES ASSUME ChangeInv, [Next]_vars PROVE Changes!ChangeNext
  OBVIOUS
<1>1. Effect
  BY Effects DEF ChangeInv
<1>2. CASE SpendsSome
  BY <1>2, RefinesSpend
<1>3. CASE Works
  BY <1>3, RefinesWork DEF Changes!ChangeNext
<1>4. CASE Completes
  BY <1>4, RefinesComplete DEF Changes!ChangeNext
<1>5. ASSUME NEW t \in Tokens, Offers(t) \/ Begins(t) PROVE Changes!ChangeNext
  BY <1>5, RefinesOffer, RefinesBegin DEF Changes!ChangeNext
<1> QED  BY <1>1, <1>2, <1>3, <1>4, <1>5 DEF Effect

(* A confirmation is good for one change, changes exclude each other, and  *)
(* pnpm works only for the one that runs, however previews, expiries, the  *)
(* end of the Host and of the process cross it (consumeIntent,             *)
(* runExclusive, runPnpm).                                                 *)
THEOREM ConfirmationsAreSpentOnce == Spec => ConfirmedOnce
BY RefinesInit, RefinesNext, ChangeInvariant, PTL
DEF Spec, ConfirmedOnce, Changes!ChangeSpec
================================================================================
