# A verification project for futurestaff-dsh

TLA+ modules, TLC runs and TLAPS proofs for the parts of this repository whose
correctness depends on the order in which things happen: the Local Runner relay
(`src/runner`), the lead service with its private message engine
(`src/mcp/douyin-dm`, `src/plugins/fs-douyin-ui`), the platform login with its
member workspaces (`src/plugins/fs-platform-access`), the local GEO databases
(`src/plugins/fs-geo`), the recovery and the updater of the desktop
(`src/desktop-shell/dsh-plugin-desktop`), and the plugin market
(`src/desktop-shell/dsh-community-market`).  Every definition is translated from
the source; `PROJECT.json` maps it to its lines.

- [Inventory](#inventory): the parts of the system and what is hard in them
- [Modules](#modules): which module models what, and how to read it
- [Runs](#runs): what each run asks, its bounds and its fairness
- [Proofs](#proofs): what holds for every value of the constants, and why
- [What the checks found](#what-the-checks-found)
- [Not modelled](#not-modelled) and the [plan](#plan)

## Inventory

| Part | State it keeps | Operations | What makes it correct |
|---|---|---|---|
| Runner router (`runner/router`) | bindings, one session per runner, table of pending jobs with a timer each | `addBinding`, `attach`, `heartbeat`, `complete`, `disconnect`, `status`, `dispatch`, the job timer | a job ends exactly once, by an answer over the connection that carried it, its timer, or the loss of that connection |
| Replay guard (`runner/protocol`) | map of accepted job ids with their expiry | `accept` | no job executes twice; memory is bounded; capacity is only refused when it is really used |
| Runner client (`runner/client/index.ts`) | one `socket` variable, `stopped`, timers, jobs being executed | connect, open, message, close, unexpected response, `close()` | comes back after every loss; answers every job it took |
| Gateway connections (`runner/gateway/index.ts`) | per socket: `registered`, handle, alive flag | upgrade, message, close, liveness timer, dispatch and enroll endpoints | presence is that of the sockets; a dead socket does not keep a runner out |
| Enrollment (`gateway/enrollment.ts`, `client/enrollment.ts`) | state file and its copy, queue of redemptions; `bootstrap.json`, `runner.json` | redeem, persist, start; enrol, save, clean up | one code gives one device; what was handed out survives a restart |
| Private message engine (`mcp/douyin-dm` `engine.ts`, `store.ts`, `stdio.ts`) | plan, phase, ledger, queue of operations, state file | `preview`, `start`, `pause`, `tick`, `init`, stop of the process | no message twice, none after a pause, none beyond the plan, everything stops after an unknown end |
| Lead workspace (`mcp/douyin-dm/src/lead-*.ts`) | profile, model, comments, decisions, candidates, revision | profile and model changes, analysis, review, contact, message plan | an invitation rests on evidence of the profile that holds; an opt-out is final |
| Lead service (`plugins/fs-douyin-ui`) | entry of the login, acquisition and monitor, approval, plan, daily budget, queue of commands | commands of the page, turns of the scheduler, rebind to a new login | nobody is written to twice, after an opt-out, beyond the budget, or for another login |
| Platform access (`plugins/fs-platform-access`) | session, snapshot, generation, vaults, workspaces, selected Profile | login, tenant choice, restore, refresh, logout, dispose | members are kept apart; no session outlives logout or dispose; workspaces are upgraded whole |
| GEO databases (`plugins/fs-geo`) | open and retiring databases per member, requests | dispatch, open, retire, close | one process-wide database per directory; a login that ended gets no answer and holds no database |
| Checkpoints and recovery (`profile-checkpoint.ts`, `startup-*.ts`, `shutdown.ts`) | three slots, skip marker, Profile files, Host of a generation | capture, rotate, restore, repair, install dependencies, quit | one mishap (a crash, a clean-up that fails) never loses a complete checkpoint; a failure is shown; a quit ends |
| Updater (`futurestaff-update*.ts`, `electron-runtime.ts`) | cached installer, its state file, the check in progress | check, prepare, verify, confirm, launch, clean up | what is started is what the feed serves and was verified; the cache keeps something usable |
| Community market (`dsh-community-market`, `pnpm.ts` of the desktop) | source records and the enabled one, generations, candidates, confirmations, restart offers, the Profile's `package.json`, the gate of pnpm | change sources, fetch a page, preview, execute, restart, another market's command | what is offered and installed is of the source in use; a confirmation acts once; one change at a time |
| The rest | | MCP bridges, user interfaces, packaging | see `components` in `PROJECT.json` |

How they interact.  A tool call of the desktop reaches `mcp/local-runner`, which
posts to the gateway's dispatch endpoint; the gateway asks its router, which
writes a job on the runner's socket; the client's replay guard admits the job,
the tool runs, the result goes back over the socket the job came on, or is dropped
if that has closed in the meantime.
Enrollment gives the client the token the upgrade checks and the router the
binding.  On the desktop the platform login admits one tenant member to one
Profile and hands an `AbortSignal` to whoever asks on behalf of this member: the
GEO plugin and the lead service stop what they do when it aborts.  The lead
service drives the lead workspace and the message engine.  The launcher boots
the selected Profile, restores it from a checkpoint when it does not start, and
runs the updater; the market changes the Profile's dependencies and bundles
through the launcher's pnpm, which takes one process at a time.

What is hard here: callbacks of two event loops in any order, a variable read
after an await, sockets that die silently, half of a file protocol done at a
crash, replies that are lost after their effect, timers that race answers, and
logins that end while work they started still waits.  `PROJECT.json` lists these
places as `hazards`, each with the properties that watch it.

## Modules

| Module | Models | Composition |
|---|---|---|
| `JobDelivery` | the promise of the relay to its callers, with connections and jobs only | abstract specification |
| `RunnerRouter` | `LocalRunnerRouter` | implements `JobDelivery` (`Delivery`, `DeliversJobs`) |
| `RunnerReplayGuard` | `authorizeRunnerJob`, `RunnerReplayGuard.accept` | |
| `RunnerLink` | client, sockets, gateway | EXTENDS `RunnerRouter`, the gateway's router |
| `RunnerProofs` | proofs about the router, the guard and the link | EXTENDS `RunnerLink`, `RunnerReplayGuard`, `TLAPS` |
| `RunnerEnrollment` | redemption at the gateway, enrolment at the client | |
| `RunnerEnrollmentProofs` | proofs about it | EXTENDS `RunnerEnrollment`, `TLAPS` |
| `MessageFates` | what the sending of messages promises: each at most once, one at a time, none after one whose end is not known | abstract specification |
| `DmEngine` | `DmEngine`, `FileStore`, timer and stop of `stdio.ts` | implements `MessageFates` for its messages (`Fates`, `SendsAsPromised`) |
| `DmEngineProofs` | proofs about it | EXTENDS `DmEngine`, `TLAPS` |
| `LeadWorkspace` | `LeadWorkspace` | |
| `DouyinService` | `DouyinService`, `Acquisition`, `WatchMonitor`, the guarded engine | EXTENDS `LeadWorkspace`; implements `MessageFates` for its people (`Fates`, `SendsAsPromised`) |
| `DouyinServiceProofs` | proofs about both | EXTENDS `DouyinService`, `TLAPS` |
| `LoginEpochs` | what a login promises: whom an `AbortSignal` speaks for | abstract specification |
| `PlatformAccess` | `PlatformDevAccessController`, `DesktopLoginWorkspace`, vaults, `DesktopProfileService` | implements `LoginEpochs` (`Epochs`, `KeepsEpochs`) |
| `PlatformAccessProofs` | proofs about it | EXTENDS `PlatformAccess`, `TLAPS` |
| `GeoDesktop` | `GeoDesktopService`, `authorizeGeo` | EXTENDS `LoginEpochs`, its login |
| `GeoDesktopProofs` | proofs about it | EXTENDS `GeoDesktop`, `TLAPS` |
| `DesktopRecovery` | startup, checkpoints, recovery window, shutdown | |
| `DesktopUpdate` | the confirmed-install updater | |
| `DesktopProofs` | proofs about both | EXTENDS `DesktopRecovery`, `DesktopUpdate`, `TLAPS` |
| `ConfirmedChanges` | what a confirmation promises: at most one change, one at a time | abstract specification |
| `MarketInstall` | `DefaultCatalogService`, `mutateSources`, `MarketInstallService`, `DesktopPnpmService` | implements `ConfirmedChanges` (`Changes`, `ConfirmedOnce`) |
| `MarketInstallProofs` | proofs about it | EXTENDS `MarketInstall`, `TLAPS` |
| `MC...` | small values for the constants | |

**RunnerRouter.**  One action per operation.  `sessions` and `owner` are the two
sides of `#sessions` and of a handle's `connected`; `pending`, `armed` and
`left` are `#pending`, the timer and its remaining time; `outcome` is how the
caller's promise settled.  `AttachError`, `DispatchError` and `CompleteError`
list the throws in the order of the code.  Clocks count down (`seenAge`,
`left`), which keeps the model finite without a bound on time.  `sentOn` is
history: the connection a job went over, which the code does not keep.

**RunnerReplayGuard.**  `accept` with its clean-up pass, in the code's order;
`started` is history.  Job ids are model values, the clock ends at `MaxTime`.

**RunnerLink.**  Each socket has an end on both sides and a queue each way.  A
step is one callback.  The behaviour of the `ws` package and of node's event
loop is external and described in the module's head.  In
`socket?.send(JSON.stringify(await ...))` the receiver is evaluated before the
await: a result goes out on the socket its job came over, and is dropped when
that one is closed by then.  Only the `catch`, which tells of a failure, reads
the variable anew and may find another socket (`FinishJob`).  `stranded` are the
executing jobs whose own socket has gone.  `proc` is the process: `LoopEmpties` is node ending a process with
nothing but unref-ed timers.  Faults are a cut path, a reboot, and a pong that
misses the next round of the gateway's timer.

**RunnerEnrollment.**  The gateway's redemption in steps (`CheckConsumed`,
`MakeBinding`, `Rename`, `Commit`), the crash between any two, and the client's
file protocol likewise.

**DmEngine.**  `at` is the await the running operation stands at, `queue` the
promise chain of `exclusive()`, `stale` what the generation counter tells the
running operation.  `pause()` and the stop of the process act at once
(`AskPause`, `Stop`) and also queue what saves the state when its turn comes
(`Pause`).  `Saved` keeps of
the state file what a restart can use.  Whether `nextAt` has come is left open,
so pacing is not checked; so is whether an incoming message matches a rule.

**LeadWorkspace.**  A comment is a model value with an author; a classification
keeps its class, its profile version and its model; `revision` is what
`analyzeOne` compares inside the queue after the model has answered.  Each
caller's analysis in flight is a record of what it was asked with.  Keyword
groups and watches' contents are left out.

**DouyinService.**  `session` is the login of the platform, `entrySignal` the
login the entry was last bound to, `listens` the logins whose abort listener is
registered.  A command stands at one of the awaits of `act`: the stops before
the queue, the queue (`tail`), the body.  `tk` is the turn of the interval
timer, which runs the acquisition, the monitor and the engine one after the
other; any of its awaits may end in the failure of a timeout.  The engine keeps
its phase, what is left of its plan and who planned it; `DmEngine` has the rest.
SQLite writes are synchronous and so part of the step that makes them.  A
start that waits in the queue when a later command stops everything runs after
those stops, before the body of that command (service.ts:147).  A message of the
acquisition takes the engine twice, for its preview and for its start; the
signal is compared before each (service.ts:307 and 312), and what has joined the
engine's queue by then is executed though the signal be aborted meanwhile
(`AcquisitionPreviews`, `AcquisitionAsksStart`).  `CommandsEnd` (every command
ends, under `FairSpec`) was seen to hold with one command, one login and one
day; the instance of the run is too large for a liveness check, so no run has it.
The comments of `LeadWorkspace` stand for what watches discovered; accounts,
the library and the page are left out.

**LoginEpochs.**  One `AbortController` after the other; under each at most one
owner is admitted, an aborted one never speaks for anybody again.

**PlatformAccess.**  `op` is the operation at the head of the queue and the
await it stands at; what interleaves with it is `dispose`, the user picking
another Profile, and the end of the process at any step (`Boot`).  The files of a
workspace are its directory (renamed into place), the market part of its patch,
GEO's code, manifest entry and patch entry.  Initial states include what former
releases left behind.  `ready` and `no_apps` are one phase.  A restore or a
refresh may fail, be told that the session expired, or be aborted.

**GeoDesktop.**  A database is named by the request that opened it; `runtimes`
and `retiring` are the two maps, `leaving` and `awaited` the locals of
`close()`.  An abort runs the listeners of its signal at once.  Closing a
database is assumed to succeed.

**DesktopRecovery.**  A slot's directory, the directories moved aside by its
replacement, the marker, the two kinds of Profile files and what `node_modules`
was installed for.  Every file system call that can be cut off by a crash is a
step.  The clean-up at the end of a replacement may also fail while the process
goes on, because `commitHealthy` only logs it: the removal of the former
directory, which may be left half done (`RemoveOldFails`), and the rename that
puts it back (`PutBackFails`).  These and the crashes are counted together, as
`mishaps`.  `capturedAt` is a growing number.  A pnpm that is killed leaves
`Partial`.

**DesktopUpdate.**  A release is its place in the order of versions, a folder of
the cache a number that is never used again.  `run` is the check in progress,
`clean` the cleanup at the start, which takes its own awaits; the feed changes,
the user thinks, and the process ends between any two of them.  `installer` is
the contents of the file that was started, as they are on the disk at the launch.

**MarketInstall.**  An action is the code between two awaits; `req[r].at` is the
await a request stands at.  Changes of the sources queue behind one another
(`createMarketSourceMutator`), so that the read, the manifest and the save of one
are a step, and `leaving` is the window between the save and the
invalidation, in which a page or a preview may still be answered.  `cand` numbers
the observations of an item: the code compares the object in its map, the model
the number.  `gen` and the generation a page began with are the code's.  The
load of the settings takes only microtasks and is one step with the read of the
generation.  pnpm's gate covers its process and not the manifest that is read
and written after it (`ReadsManifest`, `WritesManifest`), which is what lets
another market in between.  The Profile of a process does not change, so
`sameProfile` always agrees; the order of the sources, cursors and queries are
left out.

Operators marked "Faulty" or "Variant" are plausible bugs of the definition that
follows them.  No behaviour uses them; `PROJECT.json` (`mutants`) puts each in
the place of the right one to show which property notices it.

## Runs

| Run | Asks | Instance |
|---|---|---|
| `router` | `PresenceKept` (types, handles and sessions, promises and timers), `PendingOnCarrier`, `AnsweredByCarrier`, refinement of `JobDelivery` (`DeliversJobs`), `EveryJobSettles` | 2 runners with different devices and rights, 3 connections, 2 jobs |
| `replay_guard` | `ExecutedOnce`, `WindowSafety` (forgets only the expired, bounded, full of live jobs) | 3 jobs, capacity 2, skew 1, 5 instants |
| `link_safety` | `LinkSafety` (sessions have sockets, no socket is held open in vain), `JobsKept` (no job goes missing, no result goes where it was not asked for) for the process of `cli.ts`, which lives by its loop only | 1 runner, 2 sockets, 2 jobs, 2 faults |
| `link_liveness` | `DeadSessionGoes`, `ComesOnline` for a host that keeps the loop | 1 job, 1 fault |
| `enrollment` | `EnrollmentSafety` (one device per code, installed is bound, memory is disk, a left code is spent), `QueueDrains` | 2 installers with one code, 2 requests each, 1 crash of the gateway |
| `dm_engine` | `LedgerSafety` (recorded before sent), `WithinTheRun` (not paused, not beyond the plan), refinement of `MessageFates` (`SendsAsPromised`) | 4 keys, 3 plans, 2 previews, 3 queued operations, ledger of 3, any number of crashes |
| `douyin_service` | `MessagesKept`, `InviteHasEvidence`, `OptOutRespected`, `RunsUnderItsLogin`, `DenialIsFinal`, refinement of `MessageFates` (`SendsAsPromised`) | 1 person, 2 commands of any kind, 2 logins, 2 days, budget 1 |
| `platform_access` | `SessionSafety` (members are apart, who logged out stays out), `UpgradeKept`, refinement of `LoginEpochs` (`KeepsEpochs`), `OperationsEnd` | 2 members, 3 calls, 2 restarts |
| `geo_desktop` | `GeoSafety` (one open database per directory), `NoLateAnswer`, `RevokedIsReleased`, `RequestsEnd` | 3 requests, 2 members, 2 logins |
| `desktop_recovery` | `RecoverySafety` (what is owed is on record, no Host under the recovery window, no mishap costs a complete checkpoint, and more than one cost no more than one), `RestoredIsKept`, `HangHoldsUpNobody` (a quit ends and a failure is shown though the Host hangs) | 2 slots, 3 checkpoints, 2 mishaps (crashes or clean-ups that fail), 4 processes |
| `desktop_update` | `CacheSafety` (the cleanup spares what is newer), `LaunchIsCurrent` (what is started is whole, newer, and served since the confirmation), `KeepsAPackage` (what is ready stays so, or a newer one is on its way), `ManualIsAnswered` | 2 releases, 3 downloads, 3 processes, 2 changes of the feed, 1 damage |
| `market_install` | `MarketSafety` (what is offered or confirmed is of the source in use), `InstallsAreOffered` (and so is what pnpm is started for), refinement of `ConfirmedChanges` (`ConfirmedOnce`) | 2 sources, one npm and one GitHub item of one package, 2 confirmations, 2 requests, 1 page at a time, another market, 1 change of the sources, 1 page observed, 1 restart |

*Bounds.*  Two connections of one runner are what takes a stale handle, a
disconnect that comes twice or a late result; the third lets the other runner interfere.  Two
jobs are what takes a job settled while another stays.  Time limits of 0 and 1
tick let a timer fire before, together with and after everything else, because
a tick may come at any point.  A guard of capacity 2 with 3 jobs is full, is
emptied and refuses.  A fault may come at every point of the link; `link_safety`
takes two, so that the second meets the recovery from the first.  Two installers
with two requests each cover a retry that overlaps its own first request and
another's.  In the engine, a list of two, an overlapping list and replies allow
the same message to be met again in another plan, which takes two previews, one
plan after the other (more are in the proofs); three queued operations are
what a repeated start and a pause need; three of four ledger entries reach its
limit.  In the lead service one command may overtake another and both the turn of
the timer, and the second login meets what the first one left; what several
comments do to each other, more people, commands and logins are in the proofs,
which have no bound.  In the login, three calls are a login, a choice and a refresh or a
logout; two restarts are the one the choice asks for and one more.  Three
requests are one that opens, one that joins and one of the other member.  Two
slots are the one replaced and the one kept, two mishaps meet the repair of the
first.  Three processes of the updater are one that prepares, one that meets the
cache and one after the installer.  In the market two requests and two
confirmations are what two changes at once, or one confirmation sent twice, need;
the change of the sources and the page come at any point of them, also while the
other is on its way; two items of one package conflict.  Tokens and requests are
interchangeable, which the run uses (`SYMMETRY`): none of its properties is a
liveness property.  More changes and pages are in the proofs.

*Fairness.*  `router`: the event loop runs and timers fire (`WF` of
`Tick` and of each job's timer).  `link_liveness`: both loops run, frames on a
whole socket arrive, the operating system reports a dead path in the end
(`ClientGivesUp`), a running job returns (codex-usage limits each request to 10
seconds), the service wrapper restarts a process that failed.  Nothing is
assumed of faults, which are bounded, of callers, of heartbeats or of `close()`.
`enrollment`: the gateway's steps, including its restart.  `platform_access`:
each await of an operation settles; files and vault are local and the HTTP client
gives up after five minutes.  `geo_desktop`: each request and each database goes
on; the abort of a login reaches every wait.  `desktop_recovery`: file steps go
on, the recovery window opens, and a quit is released or forced (`SF`, as the
shutdown may be held up by a step of the Host again and again while its ten
seconds run).  `desktop_update`: what has a timeout (15 seconds for the feed, ten
minutes for the transfer) or is local goes on; nothing is assumed of the user.

*Deadlock* is checked for the router, the guard, the link and the engine.
Elsewhere a behaviour ends when a bound of calls, processes, logins, requests or
confirmations is used up.  `market_install` asks for no liveness and assumes no
fairness: the time pnpm and a registry take has no bound.

## Proofs

TLAPS checks, for every set of runners, connections, jobs, tools, services,
codes, tokens, message keys, plans, people, comments, models, members, requests,
sources, items, packages, confirmations, releases, processes and slots and every limit:

| Theorem | States |
|---|---|
| `RouterTyped`, `RouterHandles`, `RouterWaiting` | type correctness; a handle that counts itself connected is the session of its runner; a promise is unsettled exactly while its job is pending with its timer armed |
| `RouterPresence` | the three together: `PresenceKept` |
| `RouterCarrier` | a pending job waits for the connection it was sent on |
| `RouterAnswers` | only that connection settles a job with a result |
| `RouterDelivers` | the router implements `JobDelivery` |
| `LinkIsRouter` | every behaviour of client, sockets and gateway is one of the router |
| `LinkPresence`, `LinkDelivers` | so all of the above holds behind real sockets |
| `LinkIsSafe` | sessions have sockets; an open socket has a session or its registration on the way |
| `LinkKeepsJobs` | on an open socket a job that is waited for is somewhere on its way; a result is only on the socket its job was sent on |
| `GuardForgetsExpired`, `GuardBounded`, `GuardFullOfLive` | a forgotten job has expired; memory within capacity; "full" means full of live jobs |
| `GuardWindow` | the three together: `WindowSafety` |
| `GuardExecutesOnce` | no job executes twice |
| `EnrollmentIsSafe` | one device per code; what a client installed is bound, on disk and in memory; a code that was left is spent |
| `EngineInvariant` | the inductive invariant of the message engine |
| `LedgerIsSafe` | whatever was handed to the browser is in the ledger, in memory and on disk |
| `SentOnlyOnce` | no message goes out twice, in whatever plan, after whatever crash |
| `UnknownIsTheLast` | nothing goes out after a send whose end is not known |
| `SendsStayInTheRun` | nothing goes out after a pause or beyond what the plan allows |
| `EngineSendsAsPromised` | the engine implements `MessageFates` |
| `WorkspaceTyped` | type correctness of the lead workspace |
| `InvitationsHaveEvidence` | whoever may be written to has evidence of the profile and the model that hold |
| `DenialsAreFinal` | an opt-out stays; who was contacted can only opt out |
| `ServiceInvariant` | the inductive invariant of the lead service |
| `ServiceIsWorkspace` | every behaviour of the lead service is one of the workspace |
| `ServiceInvitesByEvidence`, `ServiceKeepsDenials` | so the two above hold in it |
| `MessagesAreKept` | nobody is written to twice; the acquisition stays within what it reserved and its budget |
| `OptOutsAreRespected` | no message is on its way to somebody who opted out |
| `RunsAreOfTheirLogin` | what runs was started under the login that lasts |
| `ServiceSendsAsPromised` | the lead service implements `MessageFates` |
| `AccessInvariant` | the inductive invariant of the platform login |
| `SessionsAreSafe` | members are kept apart; who was logged out stays out |
| `UpgradesAreKept` | an upgrade is whole wherever it was cut off; nobody is let in beside it |
| `EpochsAreKept` | the login implements `LoginEpochs` |
| `GeoInvariant` | the inductive invariant of the GEO databases |
| `GeoIsSafe` | one open database per member |
| `AnswersAreInTime` | an answer goes to the member who is logged in, out of that member's database |
| `MarketIsSafe` | candidates and confirmations are of the source in use, or of one whose withdrawal is being told |
| `InstallationsAreOffered` | pnpm is only started for what is still offered as it was confirmed and is not in the Profile |
| `ChangeInvariant` | the inductive invariant behind the refinement |
| `ConfirmationsAreSpentOnce` | the market implements `ConfirmedChanges` |
| `RecoveryInvAlways` | the inductive invariant of the recovery |
| `RecoveryIsSafe` | one mishap loses no checkpoint, more lose at most one; dependencies that are owed are on record; no Host beside the recovery window |
| `RestoredSlotsAreKept` | a restored slot is left alone until the next healthy start |
| `UpdateInvAlways` | the inductive invariant of the updater |
| `CacheIsSafe` | the cleanup of the start forgets only the state file it has read |
| `LaunchesAreCurrent` | what is launched is whole, newer than what is installed, and served since the confirmation |
| `PackagesAreKept` | an installer that is ready stays so, or a check holds a newer verified one to take its place |

*The router.*  The pending table is keyed by job and names a runner, so nothing
in it says that the session a disconnect removes is the one a job was sent on.
The inductive invariant `RouterInv` is the conjunction of the four router invariants
because they only hold together: a disconnect keeps `PendingOnCarrier` because
its handle is the session of its runner (`HandleIsSession`), an attach because
the runner of a pending job is online and a second attach is refused.
`SettleLemma` treats the three ways a job ends at once.  The refinement maps
`up` to the connections with a live handle, `carrier` to `sentOn` and `status`
to `outcome`; its steps use `RouterInv` before the step.

*The link.*  Each step of client, sockets and gateway is one of the router or
leaves it alone (`LinkRoutes`), so `RouterInv` and all that follows from it carry
over.  `LinkInv` adds what holds of the two ends of a socket and of the frames
between them.  `JobsKept` is not inductive by itself: `NoJobIsLost` says nothing while
the client is connecting, and a job of a former socket could appear to be missing
when the next one opens.  `UpgradedFirst` (the answer to the upgrade comes once
and first) and `OpensFirst` (a connecting client has sent nothing, so its socket
has no session) exclude it, because a pending job's carrier has one (`RouterInv`).
`DownIsHeard` and `UpIsHeard` say that no frame waits for an end that is gone,
so that a socket that is used again starts with empty queues, and `SocketFits`
ties the variable `socket` to its `readyState`.  The proof treats the steps of the
client as one kind (`ClientMoves`, `ClientSends`) and those of the gateway as
another (`HearingDoes`, `GatewaySends`): the one only adds to `up`, the other only
to `down`.  `ResultsStay` needs `JobsStay`: a job id is sent once, and its frame,
and its executor while that is not stranded, belong to the socket it was sent on.

*The guard.*  The invariant says that whatever has run and is not remembered has
expired, which `authorizeRunnerJob` refuses before the window is asked: the two
comparisons with the clock (lines 236 and 249 of `protocol/src/index.ts`) must
meet without a gap.  Cardinality facts come from `FiniteSetTheorems`.

*Enrollment.*  `EnrollmentSafety` speaks of the file, the memory and what is
installed, and says nothing of the redemption between two awaits.  `HeadFormed`
adds what it has established so far: its code was not consumed when it was
checked and nobody else runs meanwhile, so it still is not; its token was made
for its code; after the rename the file is exactly one step ahead of the memory.
`TokensFit` traces each token back to the code it was made for, which is what
makes two devices of one code contradict each other, and `ForItsClient` says
that a reply, whichever of the requests of a client it answers, carries a token
of that client's code.  A client only leaves its code (`LeftCodeIsSpent`) with a
token that is bound, so the code is consumed.

*The engine.*  Each of its properties is about the moment of a send, and each
rests on what was decided one or two awaits earlier.  `AttemptFits`: the key of
a running tick was not sent, and the copy that goes to the disk has it as
attempting.  `CallsKnown`: every key handed over is in all copies of the ledger,
the one being written included, and in a running process it is resolved or the
one that is on its way, so that neither a crash during a save nor a failed save
forgets it.  `UnknownRests`: no plan is a draft or running, in memory or on
disk, while an end is unknown; `preview` checks this when a plan is made, and the
restart turns what was attempting into unknown.  `HaltHolds` is the generation
counter: a start that is not `stale` was not overtaken by a pause.  `BudgetFits`
relates the messages of the run to `state.sent`, which is counted only after the
browser answered.  `LedgersFit` needs that a ledger stays finite
(`FiniteSetTheorems`), `PreviewsFit` that the previews that wait in the queue are
within the bound of the model.  The proof turned up a step the model lacked: the
part of a pause that waits in the queue was never executed (`Pause`).

`MessageFates` sees of the engine what became of each key (`fates`) and whether
a run may send.  Its steps are those that hand a message over, hear how it
ended, crash, and open or close a run; `FatesRest` shows that no other step
changes a fate.  A crash may forget an answer that was not saved and never a
message, for which `SentStays` adds to `IInv` that no copy of the ledger knows of
an answer the memory does not.  That all other messages have settled when one
leaves or a run opens is `CallsKnown` and `UnknownRests` (`EngineSettled`).  The
promise contains `SentOnlyOnce` and `UnknownIsTheLast`.

*The login.*  Four parts of `IInv` follow the operation at the head of the queue
through its awaits.  `OpIdentity`: whatever is about to be stored or admitted in
this process is of its Profile.  `OpSession`: nothing that may let somebody in
runs beside a session, for somebody whose logout was reported done, or in a
process that has to restart.  `UpgradeStage`: how many of the four files of the
upgrade are in place, by where the operation stands, which is why a crash between
any two of them leaves `PatchedIsWhole`.  `GeoNoticed`: a patch that was written
under a running process has set its `geoRestart`.  Refinement: each step of the
login admits one owner, withdraws or renews an epoch, or leaves it
(`EpochsNext`); that `owner` was empty before an admission is `OpSession`.

*The GEO databases.*  `OneDatabase` says what may not be; `WhileLoaded` says why it
is not.  A database that lives is the one its member shares or the one that
leaves, never both, and a request of the current login that waits knows the one
that leaves (`awaits`), because it read `retiring` in the step in which it was
authorised.  When the wait ends, that database is dead and the request may open
another.  A request of a former login is refused by the comparison of signals
after the wait, which is why the invariant asks nothing of it.  `NoLateAnswer`
needs `RequestsFit`: what a request carries is of the epoch it was authorised in,
and the database it awaits is of its member.

*The lead workspace.*  `InviteHasEvidence` is not inductive by itself.  `Fresh` adds
that an analysis in flight that still has the current revision was asked for
under the current profile and model: that is all the code compares when the
answer comes (lead-workspace.ts:140).  `OwnKeys` adds that the evidence of a
candidate is by its own comments, so that a decision on one person's comment
leaves everybody else's evidence alone.

*The lead service.*  Each of its steps is one of the workspace or leaves that
alone (`ServiceWorks`), and a change or a review is made only while the engine
does nothing, so both theorems about the workspace carry over
(`ServiceIsWorkspace`).  The rest of `IInv` says who waits for whom.
`QueueFits`: a command is queued once, and the one whose body has begun is the
head.  `OpWaits`: the engine's operation belongs to the turn or the command that
waits for it, so two never share the engine.  `OpSends`: the person a message is
on its way to was a candidate, has not opted out, and stays so until the send
ends (`CandidatesStay`).  `OneMessageEach` says nothing of how a former message
is remembered; `AttemptsFit` does: it is on its way, or the person is marked, or
its end is unknown and (`UnknownRests`) no plan is a draft or running.  A crash
moves the first case to the third, which is why the restart must block the
engine.  `BudgetKept` is strengthened by `Outstanding`: between its reservation
and its send, a message of the acquisition is counted in the budget and not yet
in `used`; a plan of the acquisition has one person, so that no second message
comes of one reservation, and a failed turn leaves the engine with that plan.
`RunsFit` asks of whatever runs that its login lasts and that its end is heard
(`listens`); a start that waits for its check is included unless it is cancelled
or, having waited in the queue past the end of its login, is going to fail that check.
It rests on `LoginFits`, by which a command that has got past the rebinding is
of a login whose listener is registered, and on `TurnFits`: the acquisition, whose
login its monitor and its message inherit, still runs unless its turn was cut.
`BusyFits` says that a rebinding waits for the turn of the acquisition, so that the
start a turn asks for is never older than the login the entry works for.

The service makes the promise of `MessageFates` for people instead of messages,
and does not get it from the engine, whose ledger keeps one entry for each person
and text (engine.ts:111): another text is another message to the same person.  It
follows from the ledger, the marks of the workspace and the stops together
(`AttemptsFit`, `UnknownRests`), with `SentFits`: a message that is on its way, one
that was answered and one that is lost are three different ones, and the ledger
knows of the loss.  `MessagesRestOr` leaves four kinds of steps at which a message
leaves, is answered or is lost.

*The market.*  `CandidatesInUse` says nothing of pages on their way, which make
candidates when they arrive.  The inductive invariant `MarketInv` adds
`PagesInUse`: such a page began with at most the present generation of its source,
and if with the present one, the source is in use.  This is what the comparison
at catalog/service.ts:570 relies on, and why `invalidateSource` must count up
before the source can be selected again.  `WellFormed` carries the observation
from a preview to its confirmation and to the running change.  The action
property follows from the invariant and the check after the last await
(install/service.ts:641).

The refinement of `ConfirmedChanges` reads the phase of a confirmation off four
things: whether its intent is kept, whether the running operation is its own,
whether pnpm works for that one, and whether an offer to restart is open.
`TokensApart` says that it is in one of these places at a time, `OneRuns` that the
request in a change is the one `runExclusive` let in.  With them every step of
the market is one of five: it spends confirmations, works, completes a change,
makes a confirmation, or begins a change (`Effect`).

*The recovery.*  `CheckpointsKept` looks at a process that is gone, and counts
what the next one will find; everything that matters happens before, between two
renames.  `Kept` is the value of a slot as the next process or a refused rename
will leave it: the directory in its place or the one moved aside, and during a
replacement that has moved the former one away, that one.  The three steps of a
replacement, its failures and a mishap leave `Kept` alone, except for the rename
that installs the new checkpoint.  This is only a value while no more than one
directory of a slot is aside: `LittleIsAside` (without a mishap, only that
of the slot being replaced) and `SlotsAreKnown` (after one mishap there is at
most one candidate) carry that from the state without a mishap to the state with
one.  So the newest checkpoint is there until the one rename that puts a newer
one in its place (`NewestIsKept`).  After more mishaps a slot may hold several
directories, one of them half removed, and nothing says which one the next process
takes; but a replacement begins with the recovery of all slots, which puts one of
them in its place, and does not happen at all when that one cannot be read.  So no
replacement begins in doubt, at most one slot is in doubt at a time
(`OneInDoubt`), and at most one checkpoint is missing.  `CountFits` keeps the
number: an empty slot is filled before a checkpoint is replaced (`ReplacementFits`).  That the first
empty and the oldest slot `Target` speaks of exist needs the well-founded order
of the naturals.  `OwedIsPending` rests on `RestoreFits`: the marker that knows
of the dependencies is written before the first file.  `RestoredIsKept` rests on
`ChosenFits`: a slot whose restore has changed the Profile is the one the marker
protects or one that a later restore left, and no capture replaces a checkpoint
while there is a marker.

*The updater.*  The check and the cleanup of the start work on one state file
without a lock.  Neither is ever wrong about it for three reasons, which
`UpdateInv` states.  Only one of the two gets past the removal of the EXE, because
the removal of a missing one throws (`confinedPath`): `PreviousIsGone` and
`CleanupFits` say so for each side and `OneRemoves` for both.  A check works for
something newer than what is installed and the cleanup for something that is not
(`RunIsNewer`, `CleanupFits`), so a check that finds its own release in the state
file is never met by the cleanup.  And a folder is known to nobody before it is
made (`FoldersMade`, `NewFits`), so a failed download removes its own.
`LaunchIsCurrent` needs in addition that what the feed served at the second
request is remembered (`SinceFits`) and that nothing comes between the last
verification, which reads the bytes again (`Verified`), and the launch, which is
therefore of a whole file (`LaunchFits`); `Disturb` leaves that one await alone,
which is an assumption about the environment.

`KeepsAPackage` is a step property of two states.  `Ready`: the state file names a
whole installer of something newer.  `Renewing`: the check has removed that one
(`InTheGap`) and holds a newer verified one.  Whatever is ready is so after the
step, or the step is the check's removal and the new one is there (`NewFits`: the
folder was verified before anything was removed).  A check that is renewing goes
on, or its state file makes the new one the ready one, or it is cut off there, by
the end of the process or by a removal or a write that fails, and both installers
are lost.  That loss is in the model and listed below (`CacheNeverBlocks`).

*Assumptions.*  The named `ASSUME`s of the modules: placeholders are no members,
limits are numbers, a runner has one device and a set of capabilities, the
capacity is positive, a comment has one author, no request of the user interface
is named like the scheduler's own callers, a plan allows a positive number of
messages and names nobody twice.  The slots of the desktop are finitely many
and at least one (profile-checkpoint.ts:45 names three); no other set is assumed to
be finite.  TLC evaluates
them.

*Only model-checked.*  Liveness, which is out of the prover's reach:
`EveryJobSettles`, `DeadSessionGoes`, `ComesOnline`, `QueueDrains`,
`OperationsEnd`, `RequestsEnd`, `RevokedIsReleased`, `HangHoldsUpNobody`,
`ManualIsAnswered`.

## What the checks found

No run expects a violation: every property a run states holds.  What does not
hold of the code is listed here.

### Observations

These are false in the models and so, read the same way, of the code.  They have
no run of their own; each was seen violated with the definition added to the
configuration named as its only property (`AuthenticIsNotStopped`,
`PauseStopsAsked` and `WritesItsOwn` as PROPERTY, the others as INVARIANT), with the constants the
second column changes.

| Definition | Configuration | What happens |
|---|---|---|
| `RunnerLink.AuthenticIsNotStopped` | `MCRunnerLink.cfg` | A configured runner that reconnects before the gateway has noticed the end of its old socket is refused with close code 4403 (gateway/src/index.ts:302), which the client takes for invalid credentials (client/src/index.ts:133): it never reconnects. |
| `RunnerLink.ProcessDoesNotCrash` | `MCRunnerLink.cfg` | A job that fails while the next socket is CONNECTING makes the `send` of the `catch` throw (client/src/index.ts:124); the rejection is not handled and node ends the process. |
| `RunnerLink.ProcessDoesNotExit` | `MCRunnerLink.cfg` | The reconnect timer is unref-ed (client/src/index.ts:135) and `cli.ts` holds nothing else, so the process ends with code 0, which the service wrapper does not restart. |
| `RunnerEnrollment.ServiceIsNotStranded` | `MCRunnerEnrollment.cfg` with `Codes = {k1, k2}`, `CodeOf <- OwnCode` | A code is consumed before its only token is safe; a lost reply leaves a service that can never enrol. |
| `DmEngine.PauseStopsAsked` | `MCDmEngine.cfg` | A start that waits in the queue when `pause` is called runs after the pause (engine.ts:74). |
| `PlatformAccess.EnabledIsUpgraded` | `MCPlatformAccess.cfg` with `Spec`, `MaxCalls = 2` | When the workspace that a process runs lacks the market patch, `enter` writes it (workspace.ts:133) and asks the launcher for the same Profile, which restarts nothing (profile-service.ts:121).  `enter` says "not yet", as workspace.ts:175 promises, but nothing remembers it: the next refresh finds no session, restores again, finds the patch in the file and admits the member to the process that was booted without it.  `src/plugins/fs-platform-access/test/tenant-login.test.js:60` says "restoration applies workspace upgrades before enabling the old Host generation".  The GEO upgrade does it right (`restartCurrent`), which `UpgradeKept` checks. |
| `MarketInstall.WritesItsOwn` | `MCMarketInstall.cfg` with `Packages = {p1, p2}` | `setProfileBundle` reads the manifest (install/service.ts:385) and renames a new one into place (:409) when pnpm's gate is open again: a plugin another market installs in between is lost from the manifest. |
| `MarketInstall.NothingIsStuck` | `MCMarketInstall.cfg` with `OtherMarket = FALSE` | pnpm has changed the dependencies and the bundle list is not written (it fails, the Host is disposed, the process ends): the package is then refused by `assertNotInstalled` and by `directProfilePluginVersion`, so the market can neither install nor uninstall it. |
| `DesktopRecovery.SlotsAreListable` | `MCDesktopRecovery.cfg` with `RecoverySpec`, `MaxSnapshots = 5`, `MaxStarts = 6`, `Versions = {0}` | Two mishaps in two rotations of one slot (two crashes, or a removal that fails and a crash) can leave a half removed directory in the place of the checkpoint (`recoverOrphanedSlot`, profile-checkpoint.ts:760, takes the last by random name); `listSlots` then throws for all slots. |
| `DouyinService.RunEndsInTime` | `MCDouyinService.cfg` | The acquisition completes at its time and leaves the monitor it started running. |
| `GeoDesktop.ClosedIsReleased` | `MCGeoDesktop.cfg` | A request that was authorised before `close()` opens a database after it, which nobody closes (fs-geo service.ts:42); so `GeoSafety` and `RevokedIsReleased` speak of a service that is not disposed. |
| `DesktopUpdate.CacheNeverBlocks` | `MCDesktopUpdate.cfg` | A crash or a failure between the removal of the former file or folder (futurestaff-update-cache.ts:77) and the state file (:78), which costs the new installer too, or a cached installer the system deletes, leaves a state file that names a missing file; every later check then fails at the same place, and so does the cleanup.  Folders whose download was cut off stay for good. |

Narrower ones: the engine compares the expiry before it saves an attempt
(engine.ts:129) and not after, so a run that expires during the save still calls
`send`, with a limit of 1 ms, which ends as unknown and blocks the account
(`Expire` before `SaveEnds`).  When that save itself fails, the entry stays
attempting in memory and the recipient is passed over until a restart turns it
into an unknown end.  The failure of a job of a former
socket is sent on the present one (client/src/index.ts:124), where nobody asked
for it: the gateway closes this healthy connection (gateway/src/index.ts:302) and
with it rejects the other jobs on it.  In the
updater the ten minutes of the transfer go on while the dialog is open, so a
late confirmation fails.  A logout waits in the queue behind a request that may
take the five minutes of the HTTP client.  The market compares the dependency that pnpm saved with the
version that was verified (install/service.ts:655); for a GitHub target pnpm
saves the specifier, so such an installation is always reported as failed,
although it is in place (`SavedAs`, `Valid`).

## Not modelled

*Relay.*  HTTP parsing and limits, bearer comparison, TLS, the arguments and
values of tools; the local tools themselves; restarts of the client's replay
guard, which lives in memory, and clocks that step back.

*Messages.*  Pacing; the lock file (a restart in `DmEngine` includes its removal
by an operator); the page automation of the browser adapter; keyword groups,
watches, discovery of works, accounts and the library of the lead service; what
a message says (its identity is who is written to and who planned it).

*Login.*  PKCE login and `switchTenant`, which the build with member workspaces
does not offer; remembered passwords; rotation of tokens; application tokens.

*GEO.*  The application behind the HTTP interface and its ledger; a close that
fails; a transaction that commits while its request is aborted.

*Desktop.*  Previews of the recovery window and their expiry, uninstalling in
steps, safe mode, other Profiles (profile selection is in `PlatformAccess`); the
upstream `update-lifecycle.ts`, which this product disables in
`cordis.patch.yml`, and the deliveries `manual-download` and `signed-install`;
labels and notifications of the updater.

*Market.*  Adapters, the restricted HTTP client, media, queries with their
cursors and the cache of the last response; the order of the sources; that a
disposed generation ends its pnpm (its grace period is the subprocess service's).

*The rest.*  User interfaces, stateless bridges, the beta channel (a near copy of
the desktop plugin), packaging: see `components`.

## Plan

1. GEO's ledger of paid inferences; profile deletion and the terminal of the
   desktop.
