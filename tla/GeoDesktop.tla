----------------------------- MODULE GeoDesktop -----------------------------
(***************************************************************************)
(* The GEO system of the desktop (plugins/fs-geo/src/service.ts): one      *)
(* embedded database for each member, opened by the first request, shared  *)
(* by the later ones, retired when the login it was opened under ends, and *)
(* closed with the plugin.  Every request is authorised by the platform    *)
(* login (authorization.ts), of which LoginEpochs says what counts.        *)
(*                                                                         *)
(* A database is named by the request that opened it.  JavaScript runs     *)
(* from one await to the next, so an action is the code between two        *)
(* awaits; an abort runs the listeners of the signal at once.              *)
(***************************************************************************)
EXTENDS LoginEpochs, FiniteSets

CONSTANTS Requests,       \* requests of the user interface, each sent once
          NoRequest,
          MaxEpoch        \* bound: AbortControllers the login makes

ASSUME RequestsAssumption == NoRequest \notin Requests

VARIABLES
  disposed,   \* close() was called
  closed,     \* close() returned
  req,        \* each request: where it stands and for whom
  db,         \* each database: its life and where it belongs
  runtimes,   \* of each member's directory: the database it shares
  retiring,   \* of each member's directory: the database that leaves it
  leaving,    \* what close() took out of runtimes and has to close
  awaited     \* what close() found in retiring and waits for

serviceVars == <<disposed, closed, req, db, runtimes, retiring, leaving,
                 awaited>>
vars == <<epochVars, serviceVars>>

Unsent == [at |-> "idle", owner |-> NoId, epoch |-> 0,
           awaits |-> NoRequest]
Unopened == [life |-> "none", owner |-> NoId, epoch |-> 0]
Empty == [i \in Identities |-> NoRequest]

Init ==
  /\ EpochInit
  /\ disposed = FALSE /\ closed = FALSE
  /\ req = [r \in Requests |-> Unsent]
  /\ db = [r \in Requests |-> Unopened]
  /\ runtimes = Empty /\ retiring = Empty
  /\ leaving = {} /\ awaited = {}

-----------------------------------------------------------------------------
Moves(r, at) == req' = [req EXCEPT ![r].at = at]
Turns(d, life) == db' = [db EXCEPT ![d].life = life]

(* Of what is over only the outcome is remembered. *)
Ends(r, at) == req' = [req EXCEPT ![r] = [Unsent EXCEPT !.at = at]]
Over(d, life) == db' = [db EXCEPT ![d] = [Unopened EXCEPT !.life = life]]

Held(m, d) == m[db[d].owner] = d
Without(m, d) == IF Held(m, d)
                 THEN [m EXCEPT ![db[d].owner] = NoRequest] ELSE m

(* Variant: the promise of retire() is not settled by a failed open. *)
SettledByClose(d) == db[d].life = "closed"

(* The promise of retire() for d is settled; a failed open closed its own. *)
Settled(d) == db[d].life \in {"closed", "failed"}

-----------------------------------------------------------------------------
(* A request. *)

Dispatch(r) ==
  /\ req[r].at = "idle" /\ ~disposed
  /\ Moves(r, "authorize")
  /\ UNCHANGED <<epochVars, disposed, closed, db, runtimes, retiring,
                 leaving, awaited>>

(* authorizeGeo gives the member and the signal of this epoch, after the   *)
(* platform granted the application to the same member before and after.   *)
Authorized(r) ==
  /\ req[r].at = "authorize" /\ owner # NoId
  /\ req' = [req EXCEPT ![r] = [@ EXCEPT
       !.at = "wait", !.owner = owner, !.epoch = epoch,
       !.awaits = retiring[owner]]]
  /\ UNCHANGED <<epochVars, disposed, closed, db, runtimes, retiring,
                 leaving, awaited>>

Refused(r) ==
  /\ req[r].at \in {"authorize", "inject"}
  /\ Ends(r, "failed")
  /\ UNCHANGED <<epochVars, disposed, closed, db, runtimes, retiring,
                 leaving, awaited>>

(* Variant: a request does not wait for the database that leaves. *)
RetiredAlready(r) == TRUE

Retired(r) == req[r].awaits # NoRequest => Settled(req[r].awaits)

Opens(r) ==
  LET i == req[r].owner IN
  /\ req[r].at = "wait" /\ Retired(r) /\ Valid(req[r].epoch)
  /\ runtimes[i] = NoRequest
  /\ runtimes' = [runtimes EXCEPT ![i] = r]
  /\ db' = [db EXCEPT ![r] = [life |-> "opening", owner |-> i,
                              epoch |-> req[r].epoch]]
  /\ req' = [req EXCEPT ![r].at = "open", ![r].awaits = r]
  /\ UNCHANGED <<epochVars, disposed, closed, retiring, leaving,
                 awaited>>

Joins(r) ==
  LET d == runtimes[req[r].owner] IN
  /\ req[r].at = "wait" /\ Retired(r) /\ Valid(req[r].epoch)
  /\ d # NoRequest
  /\ req' = [req EXCEPT ![r].at = "open", ![r].awaits = d]
  /\ UNCHANGED <<epochVars, disposed, closed, db, runtimes, retiring,
                 leaving, awaited>>

WaitedInVain(r) ==
  /\ req[r].at = "wait" /\ Retired(r) /\ ~Valid(req[r].epoch)
  /\ Ends(r, "failed")
  /\ UNCHANGED <<epochVars, disposed, closed, db, runtimes, retiring,
                 leaving, awaited>>

(* The open settled: the signal and the service are looked at again. *)
Injects(r) ==
  LET life == db[req[r].awaits].life IN
  /\ req[r].at = "open" /\ life # "opening"
  /\ IF life # "failed" /\ Valid(req[r].epoch) /\ ~disposed
     THEN Moves(r, "inject") ELSE Ends(r, "failed")
  /\ UNCHANGED <<epochVars, disposed, closed, db, runtimes, retiring,
                 leaving, awaited>>

(* Variant: the signal is not looked at after the application answered. *)
AnswersAnyway(r) ==
  /\ req[r].at = "inject" /\ db[req[r].awaits].life \in {"open", "appClosed"}
  /\ Ends(r, "answered")
  /\ UNCHANGED <<epochVars, disposed, closed, db, runtimes, retiring,
                 leaving, awaited>>

(* The application answered; an answer is given only while the signal of   *)
(* the request is good.                                                    *)
Answers(r) ==
  /\ req[r].at = "inject" /\ db[req[r].awaits].life \in {"open", "appClosed"}
  /\ Ends(r, IF Valid(req[r].epoch) THEN "answered" ELSE "failed")
  /\ UNCHANGED <<epochVars, disposed, closed, db, runtimes, retiring,
                 leaving, awaited>>

-----------------------------------------------------------------------------
(* A database. *)

Opened(d) ==
  /\ db[d].life = "opening"
  /\ Turns(d, "open")
  /\ UNCHANGED <<epochVars, disposed, closed, req, runtimes, retiring,
                 leaving, awaited>>

OpenFails(d) ==
  /\ db[d].life = "opening"
  /\ Over(d, "failed")
  /\ runtimes' = Without(runtimes, d) /\ retiring' = Without(retiring, d)
  /\ leaving' = leaving \ {d}
  /\ UNCHANGED <<epochVars, disposed, closed, req, awaited>>

(* close() goes on to what it took out when the retiring ones are through. *)
Closer == \A d \in awaited : Settled(d)

AppCloses(d) ==
  /\ db[d].life = "open"
  /\ Held(retiring, d) \/ (d \in leaving /\ Closer)
  /\ Turns(d, "appClosed")
  /\ UNCHANGED <<epochVars, disposed, closed, req, runtimes, retiring,
                 leaving, awaited>>

DbCloses(d) ==
  /\ db[d].life = "appClosed"
  /\ Over(d, "closed")
  /\ retiring' = Without(retiring, d)
  /\ leaving' = leaving \ {d}
  /\ UNCHANGED <<epochVars, disposed, closed, req, runtimes, awaited>>

-----------------------------------------------------------------------------
(* The login.  When the signal of an epoch is aborted, the listener of     *)
(* every database opened under it retires that database, the oldest first: *)
(* it leaves runtimes and closes, unless its directory is being retired    *)
(* already.  Two databases of one directory listen only when one of them   *)
(* was opened after close() took the other out.                            *)

(* Variant: the listener is added only when the database has opened. *)
ListeningWhenOpen == {d \in Requests : db[d].life = "open" /\ db[d].epoch = epoch}

Listening == {d \in Requests : db[d].life \in {"opening", "open"}
                               /\ db[d].epoch = epoch}
Revoked == {d \in Listening :
  /\ retiring[db[d].owner] = NoRequest
  /\ d \notin leaving => \A e \in Listening \cap leaving :
       db[e].owner # db[d].owner}

Retires ==
  /\ runtimes' = [i \in Identities |->
       IF runtimes[i] \in Revoked THEN NoRequest ELSE runtimes[i]]
  /\ retiring' = [i \in Identities |->
       LET own == {d \in Revoked : db[d].owner = i} IN
       IF own = {} THEN retiring[i] ELSE CHOOSE d \in own : TRUE]

LoginEnds ==
  /\ epoch < MaxEpoch
  /\ Renew \/ Close
  /\ Retires
  /\ UNCHANGED <<disposed, closed, req, db, leaving, awaited>>

LoginAdmits ==
  /\ \E i \in Identities : Admit(i)
  /\ UNCHANGED serviceVars

-----------------------------------------------------------------------------
(* The plugin is unloaded. *)

CloseBegins ==
  /\ ~disposed /\ disposed' = TRUE
  /\ leaving' = {runtimes[i] : i \in Identities} \ {NoRequest}
  /\ awaited' = {retiring[i] : i \in Identities} \ {NoRequest}
  /\ runtimes' = Empty
  /\ UNCHANGED <<epochVars, closed, req, db, retiring>>

CloseReturns ==
  /\ disposed /\ ~closed /\ closed' = TRUE
  /\ leaving = {} /\ Closer
  /\ UNCHANGED <<epochVars, disposed, req, db, runtimes, retiring,
                 leaving, awaited>>

RequestStep(r) == \/ Authorized(r) \/ Refused(r) \/ Opens(r) \/ Joins(r)
                  \/ WaitedInVain(r) \/ Injects(r) \/ Answers(r)
DatabaseStep(d) == \/ Opened(d) \/ OpenFails(d) \/ AppCloses(d) \/ DbCloses(d)

Next ==
  \/ \E r \in Requests : Dispatch(r) \/ RequestStep(r) \/ DatabaseStep(r)
  \/ LoginEnds \/ LoginAdmits
  \/ CloseBegins \/ CloseReturns

Spec == Init /\ [][Next]_vars

(* Requests and databases go on: each await is of local work or of the     *)
(* platform, which the HTTP client gives up in the end.                    *)
FairSpec == Spec /\ \A r \in Requests : /\ WF_vars(RequestStep(r))
                                        /\ WF_vars(DatabaseStep(r))

-----------------------------------------------------------------------------
(* Properties. *)

Stages == {"idle", "authorize", "wait", "open", "inject", "answered", "failed"}
Maps == [Identities -> Requests \cup {NoRequest}]

(* Every variable keeps to its values, and a request that was authorised   *)
(* is some member's.                                                       *)
TypeOK ==
  /\ epoch \in Nat /\ live \in BOOLEAN /\ owner \in Identities \cup {NoId}
  /\ disposed \in BOOLEAN /\ closed \in BOOLEAN /\ (closed => disposed)
  /\ req \in [Requests -> [at : Stages, epoch : Nat,
                           owner : Identities \cup {NoId},
                           awaits : Requests \cup {NoRequest}]]
  /\ \A r \in Requests :
       req[r].at \in {"wait", "open", "inject"} => req[r].owner \in Identities
  /\ db \in [Requests ->
       [life : {"none", "opening", "open", "appClosed", "closed", "failed"},
        owner : Identities \cup {NoId}, epoch : Nat]]
  /\ runtimes \in Maps /\ retiring \in Maps
  /\ leaving \subseteq Requests /\ awaited \subseteq Requests

Alive(d) == db[d].life \in {"opening", "open", "appClosed"}

(* The service never has two databases on one          *)
(* directory, however logins end while one opens, serves or closes.        *)
OneDatabase ==
  \A d, e \in Requests :
    Alive(d) /\ Alive(e) /\ ~disposed /\ db[d].owner = db[e].owner => d = e

(* The requests and databases of the service are typed, and no directory   *)
(* is opened twice (dispatch, retire).                                     *)
GeoSafety == TypeOK /\ OneDatabase

(* "Every local business request obtains the server-validated permission": *)
(* an answer is given only to the member who is logged in at that moment,  *)
(* and out of that member's own database.                                  *)
NoLateAnswer ==
  [][\A r \in Requests :
       req'[r].at = "answered" /\ req[r].at # "answered"
         => /\ owner = req[r].owner
            /\ db[req[r].awaits].owner = req[r].owner]_vars

(* When a login ends, every database a loaded instance opened under it is  *)
(* closed, also one that was still opening or that waits for another.      *)
RevokedIsReleased ==
  \A d \in Requests :
    (Alive(d) /\ ~Valid(db[d].epoch) /\ ~disposed) ~> ~Alive(d)

Asked == {r \in Requests : req[r].at \notin {"idle", "answered", "failed"}}

(* No request waits for ever, for a database that retires, opens or fails. *)
RequestsEnd == (Asked # {}) ~> (Asked = {})

(* When close() has returned, the instance holds no database.              *)
ClosedIsReleased ==
  closed => \A d \in Requests : ~Alive(d)
=============================================================================
