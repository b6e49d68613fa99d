---------------------------- MODULE MarketInstall ----------------------------
(***************************************************************************)
(* The community market of the desktop: the catalogue sources the user     *)
(* keeps (host/routes.ts, catalog/service.ts), what was observed in them,  *)
(* and the installation and removal of plugins after a confirmation        *)
(* (install/service.ts) through the package manager of the desktop         *)
(* (dsh-plugin-desktop/src/pnpm.ts), which other markets use too.          *)
(*                                                                         *)
(* An action is the code between two awaits.  An item of a catalogue and a *)
(* package are model values; an item is observed anew by every page that   *)
(* lists it, and `cand` numbers these observations.                        *)
(***************************************************************************)
EXTENDS Naturals, FiniteSets

CONSTANTS Sources, NoSource,    \* catalogue records the user may add
          Items, NoItem,        \* catalogue items with an install target
          SourceOf,             \* the source that lists an item
          NpmItems,             \* items named by npm, others by a GitHub commit
          Packages, NoPackage,
          PackageOf,            \* the package an item turns out to be
          Versions, NoVersion,
          Specifier,            \* what pnpm saves for a GitHub target
          Tokens, NoToken,      \* confirmations, opaque and random
          Requests, NoRequest,  \* requests of the user interface
          Fetchers,             \* requests of catalogue pages
          OtherMarket,          \* another market uses desktopPnpm
          Other, Nobody,
          MaxChanges,           \* bound: changes of the sources
          MaxObserved,          \* bound: pages observed
          MaxStarts             \* bound: ends of the process

ASSUME MarketAssumption ==
  /\ NoSource \notin Sources /\ NoItem \notin Items /\ NoToken \notin Tokens
  /\ NoPackage \notin Packages /\ NoRequest \notin Requests
  /\ {NoVersion, Specifier} \cap Versions = {} /\ NoVersion # Specifier
  /\ SourceOf \in [Items -> Sources] /\ PackageOf \in [Items -> Packages]
  /\ NpmItems \subseteq Items
  /\ Other \notin Requests /\ Nobody \notin Requests \cup {Other}

VARIABLES
  stored,     \* settings: the source records and the enabled one
  ever,       \* records ever made; an id is random and used once
  leaving,    \* sources just taken out of use, not yet revoked
  changes,
  gen,        \* sourceGenerations
  fetch,      \* each request of a page: source and generation it began with
  cand,       \* candidates: the observation of each item, 0 for none
  observed,
  open,       \* the Host generation with its services is not disposed
  intents,    \* intents by token
  minted,
  restarts,   \* restartIntents, each named by the change it rewards
  req,        \* each request: where it stands
  operation,  \* operationActive, and whose
  child,      \* whose pnpm process runs
  deps,       \* package.json of the Profile: dependencies
  bundles,    \* package.json of the Profile: dsh.profile.bundles
  starts

sourceVars == <<stored, ever, leaving, changes, gen>>
catalogVars == <<fetch, cand, observed>>
tokenVars == <<intents, minted, restarts>>
runVars == <<req, operation, child>>
profileVars == <<deps, bundles>>
vars == <<sourceVars, catalogVars, open, tokenVars, runVars, profileVars,
          starts>>

NoFetch == [src |-> NoSource, gen |-> 0]
NoIntent == [kind |-> "none", item |-> NoItem, stamp |-> 0,
             pkg |-> NoPackage, ver |-> NoVersion, shown |-> FALSE]
Unread == [p \in Packages |-> NoVersion]
Idle == [at |-> "idle", kind |-> "none", item |-> NoItem, stamp |-> 0,
         pkg |-> NoPackage, ver |-> NoVersion, token |-> NoToken,
         deps |-> Unread, bundles |-> {}]

(* The Profile may come with plugins the desktop or the CLI installed.     *)
Init ==
  /\ \E records \in SUBSET Sources, on \in {NoSource} \cup Sources :
       /\ on \in records \cup {NoSource}
       /\ stored = [records |-> records, on |-> on]
  /\ ever = stored.records
  /\ leaving = {} /\ changes = 0
  /\ gen = [s \in Sources |-> 0]
  /\ fetch = [f \in Fetchers |-> NoFetch]
  /\ cand = [i \in Items |-> 0] /\ observed = 0
  /\ open = TRUE
  /\ intents = [t \in Tokens |-> NoIntent] /\ minted = {} /\ restarts = {}
  /\ req = [r \in Requests |-> Idle]
  /\ operation = NoRequest /\ child = Nobody
  /\ bundles \in {{}} \cup {{p} : p \in Packages}
  /\ deps = [p \in Packages |-> IF p \in bundles THEN Specifier
                                ELSE NoVersion]
  /\ starts = 0

-----------------------------------------------------------------------------
(* Sources.  Changes queue behind one another (createMarketSourceMutator), *)
(* so that nothing changes the records between the read of a change, the   *)
(* fetch of a manifest it may need, and its save.  A change that gives up  *)
(* before has done nothing.                                                *)

Saves(on, records, gone) ==
  /\ stored' = [records |-> records, on |-> on]
  /\ leaving' = gone

Adds(s) ==
  /\ s \notin ever /\ ever' = ever \cup {s}
  /\ Saves(stored.on, stored.records \cup {s}, {})

Selects(s) ==
  /\ s \in stored.records /\ UNCHANGED ever
  /\ Saves(s, stored.records, {stored.on} \ {NoSource, s})

Removes(s) ==
  /\ s \in stored.records /\ UNCHANGED ever
  /\ Saves(IF stored.on = s THEN NoSource ELSE stored.on,
           stored.records \ {s}, {s})

ChangeSources ==
  /\ leaving = {} /\ open /\ changes < MaxChanges
  /\ changes' = changes + 1
  /\ \E s \in Sources : Adds(s) \/ Selects(s) \/ Removes(s)
  /\ UNCHANGED <<gen, catalogVars, open, tokenVars, runVars, profileVars,
                 starts>>

(* invalidateSource of the catalogue and of the install service, once the  *)
(* save has been confirmed: pages on their way are out of date, candidates *)
(* and confirmations are withdrawn.                                        *)
Revoke ==
  /\ leaving # {} /\ leaving' = {}
  /\ gen' = [s \in Sources |-> IF s \in leaving THEN gen[s] + 1 ELSE gen[s]]
  /\ cand' = [i \in Items |-> IF SourceOf[i] \in leaving THEN 0 ELSE cand[i]]
  /\ intents' = [t \in Tokens |->
       IF /\ intents[t].kind = "install"
          /\ SourceOf[intents[t].item] \in leaving
       THEN NoIntent ELSE intents[t]]
  /\ UNCHANGED <<stored, ever, changes, fetch, observed, open, minted,
                 restarts, runVars, profileVars, starts>>

-----------------------------------------------------------------------------
(* Catalogue pages.  A page answered from the index of an earlier scan is  *)
(* one that takes no time; a page of installable items is observed a       *)
(* second time in the same turn of the event loop.                         *)

FetchStarts(f) ==
  /\ fetch[f] = NoFetch /\ open /\ stored.on # NoSource
  /\ fetch' = [fetch EXCEPT ![f] = [src |-> stored.on,
                                    gen |-> gen[stored.on]]]
  /\ UNCHANGED <<sourceVars, cand, observed, open, tokenVars, runVars,
                 profileVars, starts>>

(* Variant: the generation is not compared after the answer. *)
CurrentAnyway(f) == fetch[f] # NoFetch

(* The page of a source that is still the same is observed: items it lists *)
(* with an install target are candidates, those without are no longer.     *)
Current(f) == gen[fetch[f].src] = fetch[f].gen

FetchEnds(f) ==
  /\ fetch[f] # NoFetch
  /\ fetch' = [fetch EXCEPT ![f] = NoFetch]
  /\ \/ /\ Current(f) /\ open /\ observed < MaxObserved
        /\ observed' = observed + 1
        /\ \E listed \in SUBSET {i \in Items : SourceOf[i] = fetch[f].src} :
           \E good \in SUBSET listed :
             cand' = [i \in Items |-> IF i \in good THEN observed + 1
                                      ELSE IF i \in listed THEN 0
                                      ELSE cand[i]]
     \/ UNCHANGED <<cand, observed>>
  /\ UNCHANGED <<sourceVars, open, tokenVars, runVars, profileVars, starts>>

(* A candidate is too old, or one too many (purge, trim). *)
Lapses(i) ==
  /\ cand[i] # 0
  /\ cand' = [cand EXCEPT ![i] = 0]
  /\ UNCHANGED <<sourceVars, fetch, observed, open, tokenVars, runVars,
                 profileVars, starts>>

-----------------------------------------------------------------------------
(* Previews. *)

Moves(r, at) == req' = [req EXCEPT ![r].at = at]
Ends(r) == req' = [req EXCEPT ![r] = Idle]

Referenced(p) == deps[p] # NoVersion \/ p \in bundles
Direct(p) == deps[p] # NoVersion /\ p \in bundles

PreviewInstall(r, i) ==
  /\ req[r].at = "idle" /\ open /\ cand[i] # 0
  /\ req' = [req EXCEPT ![r] =
       [Idle EXCEPT !.at = IF i \in NpmItems THEN "precheck" ELSE "verify",
          !.kind = "install", !.item = i, !.stamp = cand[i],
          !.pkg = PackageOf[i]]]
  /\ UNCHANGED <<sourceVars, catalogVars, open, tokenVars, operation, child,
                 profileVars, starts>>

(* assertNotInstalled before npm is asked. *)
Prechecked(r) ==
  /\ req[r].at = "precheck" /\ ~Referenced(req[r].pkg)
  /\ Moves(r, "verify")
  /\ UNCHANGED <<sourceVars, catalogVars, open, tokenVars, operation, child,
                 profileVars, starts>>

(* An observation still stands: the same object is in the map. *)
Offered(x) == x.kind = "install" => cand[x.item] = x.stamp

(* npm, or the manifest at the pinned commit, says what will be installed. *)
Verified(r, t, v) ==
  /\ req[r].at = "verify" /\ open /\ Offered(req[r]) /\ t \notin minted
  /\ intents' = [intents EXCEPT ![t] =
       [kind |-> "install", item |-> req[r].item, stamp |-> req[r].stamp,
        pkg |-> req[r].pkg, ver |-> v, shown |-> FALSE]]
  /\ minted' = minted \cup {t}
  /\ req' = [req EXCEPT ![r] = [@ EXCEPT !.at = "recheck", !.token = t]]
  /\ UNCHANGED <<sourceVars, catalogVars, open, restarts, operation, child,
                 profileVars, starts>>

(* assertNotInstalled again; then the confirmation is shown. *)
Rechecked(r) ==
  /\ req[r].at = "recheck" /\ ~Referenced(req[r].pkg)
  /\ Ends(r)
  /\ intents' = [intents EXCEPT ![req[r].token].shown = @ \/
                   intents[req[r].token].kind # "none"]
  /\ UNCHANGED <<sourceVars, catalogVars, open, minted, restarts, operation,
                 child, profileVars, starts>>

(* The inventory of the desktop lists the bundle as one to uninstall. *)
PreviewUninstall(r, p) ==
  /\ req[r].at = "idle" /\ open /\ Direct(p)
  /\ req' = [req EXCEPT ![r] = [Idle EXCEPT !.at = "direct",
                                  !.kind = "uninstall", !.pkg = p]]
  /\ UNCHANGED <<sourceVars, catalogVars, open, tokenVars, operation, child,
                 profileVars, starts>>

(* directProfilePluginVersion; then the confirmation is shown. *)
Directed(r, t) ==
  /\ req[r].at = "direct" /\ open /\ Direct(req[r].pkg) /\ t \notin minted
  /\ intents' = [intents EXCEPT ![t] =
       [NoIntent EXCEPT !.kind = "uninstall", !.pkg = req[r].pkg,
                        !.shown = TRUE]]
  /\ minted' = minted \cup {t}
  /\ Ends(r)
  /\ UNCHANGED <<sourceVars, catalogVars, open, restarts, operation, child,
                 profileVars, starts>>

Previewing == {"precheck", "verify", "recheck", "direct"}

(* A check refuses, a read fails, the client goes, the Host is disposed.   *)
PreviewFails(r) ==
  /\ req[r].at \in Previewing
  /\ Ends(r)
  /\ UNCHANGED <<sourceVars, catalogVars, open, tokenVars, operation, child,
                 profileVars, starts>>

-----------------------------------------------------------------------------
(* Confirmed changes. *)

Withdrawn(t) == intents' = [intents EXCEPT ![t] = NoIntent]

(* Variant: the service is taken when pnpm runs, not when it is asked. *)
ExclusiveToPnpm == child \notin Requests

(* runExclusive: one change at a time. *)
Exclusive == operation = NoRequest

(* executePreview, runExclusive and consumeIntent run at once; a           *)
(* confirmation is gone even if its item is no longer offered.             *)
Execute(r, t) ==
  /\ req[r].at = "idle" /\ open /\ Exclusive /\ intents[t].shown
  /\ Withdrawn(t)
  /\ IF Offered(intents[t])
     THEN /\ operation' = r
          /\ req' = [req EXCEPT ![r] =
               [Idle EXCEPT !.at = "check", !.token = t,
                  !.kind = intents[t].kind, !.item = intents[t].item,
                  !.stamp = intents[t].stamp, !.pkg = intents[t].pkg,
                  !.ver = intents[t].ver]]
     ELSE UNCHANGED <<req, operation>>
  /\ UNCHANGED <<sourceVars, catalogVars, open, minted, restarts, child,
                 profileVars, starts>>

(* runExclusive releases the service however the change ended. *)
Fails(r) == Ends(r) /\ operation' = NoRequest

(* Variant: the offer is not looked at again after the read. *)
FitsAtFirst(x) ==
  IF x.kind = "install" THEN ~Referenced(x.pkg) ELSE Direct(x.pkg)

(* The Profile as the change found it, after the read of its manifest.     *)
Fits(x) ==
  IF x.kind = "install" THEN ~Referenced(x.pkg) /\ Offered(x)
  ELSE Direct(x.pkg)

(* pnpm starts, unless the generation is disposed or its gate is taken.    *)
Checked(r) ==
  /\ req[r].at = "check"
  /\ IF Fits(req[r]) /\ open /\ child = Nobody
     THEN child' = r /\ Moves(r, "pnpm") /\ UNCHANGED operation
     ELSE Fails(r) /\ UNCHANGED child
  /\ UNCHANGED <<sourceVars, catalogVars, open, tokenVars, profileVars,
                 starts>>

(* What pnpm saves: npm targets exactly, a GitHub target as its specifier. *)
SavedAs(x) ==
  CASE x.kind = "uninstall" -> NoVersion
    [] x.item \in NpmItems -> x.ver
    [] OTHER -> Specifier

Changed(x) == deps' = [deps EXCEPT ![x.pkg] = SavedAs(x)]

(* The process ends; its gate opens before the market goes on (settle).    *)
(* It fails with or without having changed the manifest.                   *)
PnpmEnds(r) ==
  /\ child = r
  /\ child' = Nobody
  /\ \/ Changed(req[r]) /\ open /\ Moves(r, "bundle") /\ UNCHANGED operation
     \/ (Changed(req[r]) \/ UNCHANGED deps) /\ Fails(r)
  /\ UNCHANGED <<sourceVars, catalogVars, open, tokenVars, bundles, starts>>

(* setProfileBundle reads the whole manifest ... *)
ReadsManifest(r) ==
  /\ req[r].at = "bundle"
  /\ req' = [req EXCEPT ![r] = [@ EXCEPT !.at = "write", !.deps = deps,
                                         !.bundles = bundles]]
  /\ UNCHANGED <<sourceVars, catalogVars, open, tokenVars, operation, child,
                 profileVars, starts>>

(* ... and renames a new one into its place. *)
WritesManifest(r) ==
  /\ req[r].at = "write"
  /\ deps' = req[r].deps
  /\ bundles' = IF req[r].kind = "install"
                THEN req[r].bundles \cup {req[r].pkg}
                ELSE req[r].bundles \ {req[r].pkg}
  /\ req' = [req EXCEPT ![r] = [@ EXCEPT !.at = "validate", !.deps = Unread,
                                         !.bundles = {}]]
  /\ UNCHANGED <<sourceVars, catalogVars, open, tokenVars, operation, child,
                 starts>>

(* The manifest cannot be read or written, or pnpm cannot start. *)
ManifestFails(r) ==
  /\ req[r].at \in {"check", "bundle", "write", "validate"}
  /\ Fails(r)
  /\ UNCHANGED <<sourceVars, catalogVars, open, tokenVars, child,
                 profileVars, starts>>

(* The manifest is read once more and the change reported, with an offer   *)
(* to restart, which a disposed service does not give.                     *)
Valid(x) == IF x.kind = "install" THEN Direct(x.pkg) /\ deps[x.pkg] = x.ver
            ELSE ~Referenced(x.pkg)

Validated(r) ==
  /\ req[r].at = "validate"
  /\ restarts' = IF Valid(req[r]) /\ open
                 THEN restarts \cup {req[r].token} ELSE restarts
  /\ Fails(r)
  /\ UNCHANGED <<sourceVars, catalogVars, open, intents, minted, child,
                 profileVars, starts>>

(* consumeRestartToken; the restart itself is the desktop's. *)
TakesRestart(t) ==
  /\ open /\ t \in restarts
  /\ restarts' = restarts \ {t}
  /\ UNCHANGED <<sourceVars, catalogVars, open, intents, minted, runVars,
                 profileVars, starts>>

(* A confirmation or an offer to restart expires, or is one too many.      *)
Expires(t) ==
  /\ \/ intents[t] # NoIntent /\ Withdrawn(t) /\ UNCHANGED restarts
     \/ t \in restarts /\ restarts' = restarts \ {t} /\ UNCHANGED intents
  /\ UNCHANGED <<sourceVars, catalogVars, open, minted, runVars,
                 profileVars, starts>>

-----------------------------------------------------------------------------
(* Around the market. *)

OtherStarts ==
  /\ OtherMarket /\ open /\ child = Nobody
  /\ child' = Other
  /\ UNCHANGED <<sourceVars, catalogVars, open, tokenVars, req, operation,
                 profileVars, starts>>

(* The plugin command of the desktop changes both lists of the manifest.   *)
Elsewhere ==
  \E p \in Packages :
    \/ /\ deps' = [deps EXCEPT ![p] = Specifier]
       /\ bundles' = bundles \cup {p}
    \/ /\ deps' = [deps EXCEPT ![p] = NoVersion]
       /\ bundles' = bundles \ {p}

OtherEnds ==
  /\ child = Other
  /\ child' = Nobody
  /\ Elsewhere \/ UNCHANGED profileVars
  /\ UNCHANGED <<sourceVars, catalogVars, open, tokenVars, req, operation,
                 starts>>

Forgets ==
  /\ cand' = [i \in Items |-> 0]
  /\ intents' = [t \in Tokens |-> NoIntent] /\ restarts' = {}

(* The Host generation is disposed: signals are aborted, maps cleared, and *)
(* the process of pnpm is told to end.                                     *)
Dispose ==
  /\ open /\ open' = FALSE
  /\ Forgets
  /\ UNCHANGED <<sourceVars, fetch, observed, minted, runVars, profileVars,
                 starts>>

(* The process ends at any step and another one starts; pnpm ends with it, *)
(* before or after it changed the manifest.                                *)
Relaunch ==
  /\ starts < MaxStarts /\ starts' = starts + 1
  /\ open' = TRUE
  /\ Forgets
  /\ leaving' = {}
  /\ gen' = [s \in Sources |-> 0]
  /\ fetch' = [f \in Fetchers |-> NoFetch]
  /\ req' = [r \in Requests |-> Idle]
  /\ operation' = NoRequest /\ child' = Nobody
  /\ \/ UNCHANGED profileVars
     \/ child = Other /\ Elsewhere
     \/ child \in Requests /\ Changed(req[child]) /\ UNCHANGED bundles
  /\ UNCHANGED <<stored, ever, changes, observed, minted>>

-----------------------------------------------------------------------------
RequestSteps(r) ==
  \/ Prechecked(r) \/ Rechecked(r) \/ PreviewFails(r) \/ Checked(r)
  \/ ReadsManifest(r) \/ WritesManifest(r) \/ ManifestFails(r)
  \/ Validated(r)
  \/ \E t \in Tokens : Directed(r, t) \/ \E v \in Versions : Verified(r, t, v)

ChildEnds == OtherEnds \/ \E r \in Requests : PnpmEnds(r)

Next ==
  \/ ChangeSources \/ Revoke
  \/ \E f \in Fetchers : FetchStarts(f) \/ FetchEnds(f)
  \/ \E i \in Items : Lapses(i)
  \/ \E r \in Requests :
       \/ RequestSteps(r)
       \/ \E i \in Items : PreviewInstall(r, i)
       \/ \E p \in Packages : PreviewUninstall(r, p)
       \/ \E t \in Tokens : Execute(r, t)
  \/ \E t \in Tokens : TakesRestart(t) \/ Expires(t)
  \/ ChildEnds \/ OtherStarts \/ Dispose \/ Relaunch

Spec == Init /\ [][Next]_vars

-----------------------------------------------------------------------------
Stages == {"idle", "check", "pnpm", "bundle", "write", "validate"}
            \cup Previewing
Saved == Versions \cup {NoVersion, Specifier}
Kinds == {"none", "install", "uninstall"}

Pages == [src : Sources, gen : Nat]

Confirmations ==
  [kind : Kinds, item : Items \cup {NoItem}, stamp : Nat,
   pkg : Packages \cup {NoPackage}, ver : Versions \cup {NoVersion},
   shown : BOOLEAN]

Operations ==
  [at : Stages, kind : Kinds, item : Items \cup {NoItem}, stamp : Nat,
   pkg : Packages \cup {NoPackage}, ver : Versions \cup {NoVersion},
   token : Tokens \cup {NoToken}, deps : [Packages -> Saved],
   bundles : SUBSET Packages]

TypeOK ==
  /\ stored \in [records : SUBSET Sources, on : Sources \cup {NoSource}]
  /\ ever \subseteq Sources /\ leaving \subseteq Sources /\ changes \in Nat
  /\ gen \in [Sources -> Nat]
  /\ fetch \in [Fetchers -> Pages \cup {NoFetch}]
  /\ cand \in [Items -> Nat] /\ observed \in Nat
  /\ open \in BOOLEAN
  /\ intents \in [Tokens -> Confirmations]
  /\ minted \subseteq Tokens /\ restarts \subseteq Tokens
  /\ req \in [Requests -> Operations]
  /\ operation \in Requests \cup {NoRequest}
  /\ child \in Requests \cup {Nobody, Other}
  /\ deps \in [Packages -> Saved] /\ bundles \subseteq Packages
  /\ starts \in Nat

(* A source is in use, or the change that took it out of use is about to   *)
(* say so.                                                                 *)
InUse(s) == stored.on = s \/ s \in leaving

(* A candidate, and a confirmation of one, are of the source in use,       *)
(* however pages, changes of the sources and previews cross.               *)
CandidatesInUse ==
  /\ \A i \in Items : cand[i] # 0 => InUse(SourceOf[i])
  /\ \A t \in Tokens : intents[t].kind = "install" =>
                         InUse(SourceOf[intents[t].item])

(* What the market offers comes from the source the user has selected      *)
(* (observeCatalog, invalidateSource, fetchProvider).                      *)
MarketSafety == TypeOK /\ CandidatesInUse

(* "Execution revalidates": pnpm installs only what a source in use still  *)
(* offers when it starts, in the version that was confirmed, and no        *)
(* package the Profile already has (executeInstall).  In use is also a     *)
(* source whose withdrawal is saved and not told yet (InUse).              *)
InstallsAreOffered ==
  [][\A r \in Requests :
       child' = r /\ child # r /\ req[r].kind = "install"
         => /\ InUse(SourceOf[req[r].item])
            /\ cand[req[r].item] = req[r].stamp
            /\ ~Referenced(req[r].pkg)]_vars

PhaseOf(t) ==
  IF intents[t] # NoIntent THEN "offered"
  ELSE IF t \in restarts THEN "completed"
  ELSE IF operation # NoRequest /\ req[operation].token = t THEN "running"
  ELSE IF t \in minted THEN "spent" ELSE "new"

Changes == INSTANCE ConfirmedChanges WITH
  phase <- [t \in Tokens |-> PhaseOf(t)],
  working <- IF child \in Requests THEN req[child].token ELSE NoToken

(* Confirmations are one-shot, changes exclude each other, and pnpm works  *)
(* for a change that runs (consumeIntent, runExclusive, runPnpm).          *)
ConfirmedOnce == Changes!ChangeSpec

(* The market changes nothing in the Profile but the plugin it was asked   *)
(* to (setProfileBundle).                                                  *)
WritesItsOwn ==
  [][\A r \in Requests : WritesManifest(r) =>
       \A p \in Packages \ {req[r].pkg} :
         deps'[p] = deps[p] /\ (p \in bundles' <=> p \in bundles)]_vars

(* What a change left half done can be taken up by another one.            *)
NothingIsStuck ==
  \A p \in Packages :
    operation = NoRequest /\ child = Nobody => (Referenced(p) => Direct(p))
=============================================================================
