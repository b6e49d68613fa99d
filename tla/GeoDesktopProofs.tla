--------------------------- MODULE GeoDesktopProofs ---------------------------
(***************************************************************************)
(* One database for each member and no late answer, for every number of    *)
(* members, requests and logins.  OneDatabase is not inductive: a second   *)
(* database is kept out by what a request waits for (WhileLoaded), and an  *)
(* answer is right because a request and the database it shares carry the  *)
(* same member (RequestsFit, RuntimesFit).                                 *)
(***************************************************************************)
EXTENDS GeoDesktop, TLAPS

Shown == [at : Stages, epoch : Nat, owner : Identities \cup {NoId},
          awaits : Requests \cup {NoRequest}]
Databases == [life : {"none", "opening", "open", "appClosed", "closed", "failed"},
              owner : Identities \cup {NoId}, epoch : Nat]

(* d was opened, and while it lives it is a database of member i. *)
SharesOwn(d, i) ==
  d # NoRequest /\ db[d].life # "none" /\ (Alive(d) => db[d].owner = i)

(* What a request carries is of the epoch it was authorised in; its own    *)
(* database is opened at most once.                                        *)
RequestsFit ==
  \A r \in Requests :
    /\ req[r].at \in {"wait", "open", "inject"} =>
         /\ req[r].epoch <= epoch
         /\ req[r].epoch = epoch => owner = req[r].owner
    /\ req[r].at \in {"idle", "authorize", "wait"} => db[r].life = "none"
    /\ req[r].at \in {"open", "inject"} => SharesOwn(req[r].awaits, req[r].owner)

RuntimesFit ==
  /\ \A d \in Requests : Alive(d) => db[d].owner \in Identities
  /\ \A i \in Identities : runtimes[i] # NoRequest => SharesOwn(runtimes[i], i)

(* Until the plugin is unloaded, a living database is the one its member   *)
(* shares or the one that leaves, never both; and a request of this epoch  *)
(* that waits knows of the one that leaves.                                *)
WhileLoaded ==
  ~disposed =>
    /\ leaving = {}
    /\ \A d \in Requests : Alive(d) => Held(runtimes, d) \/ Held(retiring, d)
    /\ \A i \in Identities : retiring[i] # NoRequest =>
         /\ runtimes[i] = NoRequest
         /\ Alive(retiring[i]) /\ db[retiring[i]].owner = i
    /\ \A r \in Requests : req[r].at = "wait" /\ req[r].epoch = epoch =>
         retiring[req[r].owner] \in {NoRequest, req[r].awaits}

IInv == TypeOK /\ RequestsFit /\ RuntimesFit /\ WhileLoaded

(* The parts of TypeOK that take a proof each. *)
RequestsTyped ==
  /\ req \in [Requests -> Shown]
  /\ \A r \in Requests :
       req[r].at \in {"wait", "open", "inject"} => req[r].owner \in Identities
MapsTyped ==
  /\ runtimes \in Maps /\ retiring \in Maps
  /\ leaving \subseteq Requests /\ awaited \subseteq Requests
RestTyped ==
  /\ epoch \in Nat /\ live \in BOOLEAN /\ owner \in Identities \cup {NoId}
  /\ disposed \in BOOLEAN /\ closed \in BOOLEAN /\ (closed => disposed)

USE NoIdAssumption, RequestsAssumption

LEMMA RequestMoves ==
  ASSUME RequestsTyped, NEW r \in Requests, NEW at \in Stages, Moves(r, at)
  PROVE  /\ req' \in [Requests -> Shown]
         /\ req'[r].at = at /\ req'[r].owner = req[r].owner
         /\ req'[r].epoch = req[r].epoch /\ req'[r].awaits = req[r].awaits
         /\ \A q \in Requests : q # r => req'[q] = req[q]
BY DEF RequestsTyped, Moves, Shown

LEMMA RequestEnds ==
  ASSUME RequestsTyped, NEW r \in Requests, NEW at \in Stages, Ends(r, at)
  PROVE  /\ req' \in [Requests -> Shown] /\ req'[r].at = at
         /\ \A q \in Requests : q # r => req'[q] = req[q]
<1>1. /\ [Unsent EXCEPT !.at = at] \in Shown
      /\ [Unsent EXCEPT !.at = at].at = at
  BY DEF Unsent, Shown
<1> QED  BY <1>1 DEF RequestsTyped, Ends

(* A request that goes on: authorised, or with a database to share. *)
LEMMA RequestGoesOn ==
  ASSUME RequestsTyped, NEW r \in Requests, NEW x \in Shown,
         req' = [req EXCEPT ![r] = x],
         x.owner \in Identities
  PROVE  RequestsTyped'
BY DEF RequestsTyped, Shown

LEMMA KeepsRequestsTyped == IInv /\ [Next]_vars => RequestsTyped'
<1> SUFFICES ASSUME IInv, [Next]_vars PROVE RequestsTyped'
  OBVIOUS
<1> USE DEF IInv, TypeOK, epochVars, serviceVars
<1>1. ASSUME NEW r \in Requests, Dispatch(r) PROVE RequestsTyped'
  BY <1>1 DEF Dispatch, Moves, RequestsTyped, Shown, Stages
<1>2. ASSUME NEW r \in Requests, Authorized(r) PROVE RequestsTyped'
  <2> DEFINE x == [req[r] EXCEPT !.at = "wait", !.owner = owner,
                     !.epoch = epoch, !.awaits = retiring[owner]]
  <2>1. owner \in Identities /\ epoch \in Nat /\ req[r] \in Shown
    BY <1>2 DEF Authorized, Shown
  <2>2. retiring[owner] \in Requests \cup {NoRequest}
    BY <2>1 DEF Maps
  <2>3. x.owner = owner
    BY <2>1 DEF Shown
  <2>4. x \in Shown
    BY <2>1, <2>2 DEF Shown, Stages
  <2>5. req' = [req EXCEPT ![r] = x]
    BY <1>2 DEF Authorized
  <2> HIDE DEF x
  <2> QED  BY <2>1, <2>3, <2>4, <2>5, RequestGoesOn DEF RequestsTyped, Shown
<1>3. ASSUME NEW r \in Requests, Refused(r) PROVE RequestsTyped'
  BY <1>3 DEF Refused, Ends, Unsent, RequestsTyped, Shown, Stages
<1>4. ASSUME NEW r \in Requests, WaitedInVain(r) PROVE RequestsTyped'
  BY <1>4 DEF WaitedInVain, Ends, Unsent, RequestsTyped, Shown, Stages
<1>5. ASSUME NEW r \in Requests, Opens(r) PROVE RequestsTyped'
  <2> DEFINE x == [req[r] EXCEPT !.at = "open", !.awaits = r]
  <2>1. req[r] \in Shown /\ req[r].owner \in Identities
    BY <1>5 DEF Opens, Shown
  <2>3. x \in Shown /\ x.owner \in Identities
    BY <2>1 DEF Shown, Stages
  <2>4. req' = [req EXCEPT ![r] = x]
    BY <1>5, <2>1 DEF Opens, Shown
  <2> HIDE DEF x
  <2> QED  BY <2>3, <2>4, RequestGoesOn DEF RequestsTyped, Shown
<1>6. ASSUME NEW r \in Requests, Joins(r) PROVE RequestsTyped'
  <2> DEFINE x == [req[r] EXCEPT !.at = "open", !.awaits = runtimes[req[r].owner]]
  <2>1. req[r] \in Shown /\ req[r].owner \in Identities
    BY <1>6 DEF Joins, Shown
  <2>2. runtimes[req[r].owner] \in Requests \cup {NoRequest}
    BY <2>1 DEF Maps
  <2>3. x \in Shown /\ x.owner \in Identities
    BY <2>1, <2>2 DEF Shown, Stages
  <2>4. req' = [req EXCEPT ![r] = x]
    BY <1>6, <2>1 DEF Joins, Shown
  <2> HIDE DEF x
  <2> QED  BY <2>3, <2>4, RequestGoesOn DEF RequestsTyped, Shown
<1>7. ASSUME NEW r \in Requests, Injects(r) PROVE RequestsTyped'
  <2>1. Moves(r, "inject") \/ Ends(r, "failed")
    BY <1>7 DEF Injects
  <2>2. req[r].at = "open"
    BY <1>7 DEF Injects
  <2> QED
    BY <2>1, <2>2, RequestMoves, RequestEnds DEF RequestsTyped, Shown, Stages
<1>8. ASSUME NEW r \in Requests, Answers(r) PROVE RequestsTyped'
  BY <1>8 DEF Answers, Ends, Unsent, RequestsTyped, Shown, Stages
<1>9. ASSUME NEW d \in Requests, Opened(d) PROVE RequestsTyped'
  BY <1>9 DEF Opened, RequestsTyped, Shown
<1>10. ASSUME NEW d \in Requests, OpenFails(d) PROVE RequestsTyped'
  BY <1>10 DEF OpenFails, RequestsTyped, Shown
<1>11. ASSUME NEW d \in Requests, AppCloses(d) PROVE RequestsTyped'
  BY <1>11 DEF AppCloses, RequestsTyped, Shown
<1>12. ASSUME NEW d \in Requests, DbCloses(d) PROVE RequestsTyped'
  BY <1>12 DEF DbCloses, RequestsTyped, Shown
<1>13. CASE LoginEnds
  BY <1>13 DEF LoginEnds, RequestsTyped, Shown
<1>14. CASE LoginAdmits
  BY <1>14 DEF LoginAdmits, RequestsTyped, Shown
<1>15. CASE CloseBegins
  BY <1>15 DEF CloseBegins, RequestsTyped, Shown
<1>16. CASE \/ CloseReturns \/ UNCHANGED vars
  BY <1>16 DEF CloseReturns, vars, RequestsTyped, Shown
<1> QED
  BY <1>1, <1>2, <1>3, <1>4, <1>5, <1>6, <1>7, <1>8, <1>9, <1>10, <1>11, <1>12,
     <1>13, <1>14, <1>15, <1>16
  DEF Next, RequestStep, DatabaseStep

LEMMA KeepsDbTyped == IInv /\ [Next]_vars => db' \in [Requests -> Databases]
<1> SUFFICES ASSUME IInv, [Next]_vars PROVE db' \in [Requests -> Databases]
  OBVIOUS
<1> USE DEF IInv, TypeOK, epochVars, serviceVars
<1>1. ASSUME NEW r \in Requests, Dispatch(r) PROVE db' \in [Requests -> Databases]
  BY <1>1 DEF Dispatch, Databases
<1>2. ASSUME NEW r \in Requests, Authorized(r) PROVE db' \in [Requests -> Databases]
  BY <1>2 DEF Authorized, Databases
<1>3. ASSUME NEW r \in Requests, Refused(r) PROVE db' \in [Requests -> Databases]
  BY <1>3 DEF Refused, Databases
<1>4. ASSUME NEW r \in Requests, WaitedInVain(r) PROVE db' \in [Requests -> Databases]
  BY <1>4 DEF WaitedInVain, Databases
<1>5. ASSUME NEW r \in Requests, Opens(r) PROVE db' \in [Requests -> Databases]
  BY <1>5 DEF Opens, Databases
<1>6. ASSUME NEW r \in Requests, Joins(r) PROVE db' \in [Requests -> Databases]
  BY <1>6 DEF Joins, Databases
<1>7. ASSUME NEW r \in Requests, Injects(r) PROVE db' \in [Requests -> Databases]
  BY <1>7 DEF Injects, Databases
<1>8. ASSUME NEW r \in Requests, Answers(r) PROVE db' \in [Requests -> Databases]
  BY <1>8 DEF Answers, Databases
<1>9. ASSUME NEW d \in Requests, Opened(d) PROVE db' \in [Requests -> Databases]
  BY <1>9 DEF Opened, Turns, Shown, Databases
<1>10. ASSUME NEW d \in Requests, OpenFails(d) PROVE db' \in [Requests -> Databases]
  BY <1>10 DEF OpenFails, Over, Unopened, Databases
<1>11. ASSUME NEW d \in Requests, AppCloses(d) PROVE db' \in [Requests -> Databases]
  BY <1>11 DEF AppCloses, Turns, Databases
<1>12. ASSUME NEW d \in Requests, DbCloses(d) PROVE db' \in [Requests -> Databases]
  BY <1>12 DEF DbCloses, Over, Unopened, Databases
<1>13. CASE LoginEnds
  BY <1>13 DEF LoginEnds, Databases
<1>14. CASE LoginAdmits
  BY <1>14 DEF LoginAdmits, Databases
<1>15. CASE CloseBegins
  BY <1>15 DEF CloseBegins, Databases
<1>16. CASE \/ CloseReturns \/ UNCHANGED vars
  BY <1>16 DEF CloseReturns, vars, Databases
<1> QED
  BY <1>1, <1>2, <1>3, <1>4, <1>5, <1>6, <1>7, <1>8, <1>9, <1>10, <1>11, <1>12,
     <1>13, <1>14, <1>15, <1>16
  DEF Next, RequestStep, DatabaseStep

LEMMA KeepsMapsTyped == IInv /\ [Next]_vars => MapsTyped'
<1> SUFFICES ASSUME IInv, [Next]_vars PROVE MapsTyped'
  OBVIOUS
<1> USE DEF IInv, TypeOK, epochVars, serviceVars
<1>1. ASSUME NEW r \in Requests, Dispatch(r) PROVE MapsTyped'
  BY <1>1 DEF Dispatch, MapsTyped
<1>2. ASSUME NEW r \in Requests, Authorized(r) PROVE MapsTyped'
  BY <1>2 DEF Authorized, MapsTyped
<1>3. ASSUME NEW r \in Requests, Refused(r) PROVE MapsTyped'
  BY <1>3 DEF Refused, MapsTyped
<1>4. ASSUME NEW r \in Requests, WaitedInVain(r) PROVE MapsTyped'
  BY <1>4 DEF WaitedInVain, MapsTyped
<1>5. ASSUME NEW r \in Requests, Opens(r) PROVE MapsTyped'
  BY <1>5 DEF Opens, MapsTyped, Maps
<1>6. ASSUME NEW r \in Requests, Joins(r) PROVE MapsTyped'
  BY <1>6 DEF Joins, MapsTyped
<1>7. ASSUME NEW r \in Requests, Injects(r) PROVE MapsTyped'
  BY <1>7 DEF Injects, MapsTyped
<1>8. ASSUME NEW r \in Requests, Answers(r) PROVE MapsTyped'
  BY <1>8 DEF Answers, MapsTyped
<1>9. ASSUME NEW d \in Requests, Opened(d) PROVE MapsTyped'
  BY <1>9 DEF Opened, MapsTyped
<1>10. ASSUME NEW d \in Requests, OpenFails(d) PROVE MapsTyped'
  BY <1>10
  DEF OpenFails, Over, Unopened, Without, Held, MapsTyped, Shown, Databases,
      Stages, Maps
<1>11. ASSUME NEW d \in Requests, AppCloses(d) PROVE MapsTyped'
  BY <1>11 DEF AppCloses, MapsTyped
<1>12. ASSUME NEW d \in Requests, DbCloses(d) PROVE MapsTyped'
  BY <1>12
  DEF DbCloses, Over, Unopened, Without, Held, MapsTyped, Shown, Databases,
      Stages, Maps
<1>13. CASE LoginEnds
  BY <1>13 DEF LoginEnds, Retires, Revoked, Listening, MapsTyped, Maps
<1>14. CASE LoginAdmits
  BY <1>14 DEF LoginAdmits, MapsTyped
<1>15. CASE CloseBegins
  BY <1>15 DEF CloseBegins, Empty, MapsTyped, Maps
<1>16. CASE \/ CloseReturns \/ UNCHANGED vars
  BY <1>16 DEF CloseReturns, vars, MapsTyped
<1> QED
  BY <1>1, <1>2, <1>3, <1>4, <1>5, <1>6, <1>7, <1>8, <1>9, <1>10, <1>11, <1>12,
     <1>13, <1>14, <1>15, <1>16
  DEF Next, RequestStep, DatabaseStep

LEMMA KeepsRestTyped == IInv /\ [Next]_vars => RestTyped'
<1> SUFFICES ASSUME IInv, [Next]_vars PROVE RestTyped'
  OBVIOUS
<1> USE DEF IInv, TypeOK, epochVars, serviceVars
<1>1. ASSUME NEW r \in Requests, Dispatch(r) PROVE RestTyped'
  BY <1>1 DEF Dispatch, RestTyped
<1>2. ASSUME NEW r \in Requests, Authorized(r) PROVE RestTyped'
  BY <1>2 DEF Authorized, RestTyped
<1>3. ASSUME NEW r \in Requests, Refused(r) PROVE RestTyped'
  BY <1>3 DEF Refused, RestTyped
<1>4. ASSUME NEW r \in Requests, WaitedInVain(r) PROVE RestTyped'
  BY <1>4 DEF WaitedInVain, RestTyped
<1>5. ASSUME NEW r \in Requests, Opens(r) PROVE RestTyped'
  BY <1>5 DEF Opens, RestTyped
<1>6. ASSUME NEW r \in Requests, Joins(r) PROVE RestTyped'
  BY <1>6 DEF Joins, RestTyped
<1>7. ASSUME NEW r \in Requests, Injects(r) PROVE RestTyped'
  BY <1>7 DEF Injects, RestTyped
<1>8. ASSUME NEW r \in Requests, Answers(r) PROVE RestTyped'
  BY <1>8 DEF Answers, RestTyped
<1>9. ASSUME NEW d \in Requests, Opened(d) PROVE RestTyped'
  BY <1>9 DEF Opened, RestTyped
<1>10. ASSUME NEW d \in Requests, OpenFails(d) PROVE RestTyped'
  BY <1>10 DEF OpenFails, RestTyped
<1>11. ASSUME NEW d \in Requests, AppCloses(d) PROVE RestTyped'
  BY <1>11 DEF AppCloses, RestTyped
<1>12. ASSUME NEW d \in Requests, DbCloses(d) PROVE RestTyped'
  BY <1>12 DEF DbCloses, RestTyped
<1>13. CASE LoginEnds
  <2>1. epoch' = epoch + 1 /\ owner' = NoId
    BY <1>13 DEF LoginEnds, Renew, Close
  <2>2. disposed' = disposed /\ closed' = closed
    BY <1>13 DEF LoginEnds
  <2>3. epoch' \in Nat /\ owner' \in Identities \cup {NoId}
    BY <2>1
  <2>4. live' \in BOOLEAN
    BY <1>13 DEF LoginEnds, Renew, Close
  <2>5. /\ disposed' \in BOOLEAN
        /\ closed' \in BOOLEAN
        /\ closed' => disposed'
    BY <2>2
  <2> QED  BY <2>3, <2>4, <2>5 DEF RestTyped
<1>14. CASE LoginAdmits
  BY <1>14 DEF LoginAdmits, Admit, RestTyped
<1>15. CASE CloseBegins
  BY <1>15 DEF CloseBegins, RestTyped
<1>16. CASE CloseReturns
  BY <1>16 DEF CloseReturns, RestTyped
<1>17. CASE UNCHANGED vars
  BY <1>17 DEF vars, RestTyped
<1> QED
  BY <1>1, <1>2, <1>3, <1>4, <1>5, <1>6, <1>7, <1>8, <1>9, <1>10, <1>11, <1>12,
     <1>13, <1>14, <1>15, <1>16, <1>17
  DEF Next, RequestStep, DatabaseStep

LEMMA KeepsRequestsFit == IInv /\ [Next]_vars => RequestsFit'
<1> SUFFICES ASSUME IInv, [Next]_vars PROVE RequestsFit'
  OBVIOUS
<1> USE DEF IInv, TypeOK, epochVars, serviceVars
<1>1. ASSUME NEW r \in Requests, Dispatch(r) PROVE RequestsFit'
  BY <1>1 DEF Dispatch, Moves, RequestsFit, SharesOwn, Alive
<1>2. ASSUME NEW r \in Requests, Authorized(r) PROVE RequestsFit'
  BY <1>2 DEF Authorized, RequestsFit, SharesOwn, Alive
<1>3. ASSUME NEW r \in Requests, Refused(r) PROVE RequestsFit'
  BY <1>3 DEF Refused, Ends, RequestsFit, SharesOwn, Alive
<1>4. ASSUME NEW r \in Requests, WaitedInVain(r) PROVE RequestsFit'
  BY <1>4 DEF WaitedInVain, Ends, RequestsFit, SharesOwn, Alive
<1>5. ASSUME NEW r \in Requests, Opens(r) PROVE RequestsFit'
  BY <1>5 DEF Opens, RequestsFit, SharesOwn, Alive
<1>6. ASSUME NEW r \in Requests, Joins(r) PROVE RequestsFit'
  BY <1>6 DEF Joins, RequestsFit, SharesOwn, Alive, RuntimesFit
<1>7. ASSUME NEW r \in Requests, Injects(r) PROVE RequestsFit'
  BY <1>7 DEF Injects, Moves, Ends, Unsent, RequestsFit, SharesOwn, Alive
<1>8. ASSUME NEW r \in Requests, Answers(r) PROVE RequestsFit'
  BY <1>8 DEF Answers, Ends, RequestsFit, SharesOwn, Alive
<1>9. ASSUME NEW d \in Requests, Opened(d) PROVE RequestsFit'
  BY <1>9 DEF Opened, Turns, RequestsFit, SharesOwn, Alive
<1>10. ASSUME NEW d \in Requests, OpenFails(d) PROVE RequestsFit'
  BY <1>10 DEF OpenFails, Over, RequestsFit, SharesOwn, Alive
<1>11. ASSUME NEW d \in Requests, AppCloses(d) PROVE RequestsFit'
  BY <1>11 DEF AppCloses, Turns, RequestsFit, SharesOwn, Alive
<1>12. ASSUME NEW d \in Requests, DbCloses(d) PROVE RequestsFit'
  BY <1>12 DEF DbCloses, Over, RequestsFit, SharesOwn, Alive
<1>13. CASE LoginEnds
  BY <1>13 DEF LoginEnds, Renew, Close, RequestsFit, SharesOwn, Alive
<1>14. CASE LoginAdmits
  BY <1>14 DEF LoginAdmits, Admit, RequestsFit, SharesOwn, Alive
<1>15. CASE CloseBegins
  BY <1>15 DEF CloseBegins, RequestsFit, SharesOwn, Alive
<1>16. CASE \/ CloseReturns \/ UNCHANGED vars
  BY <1>16 DEF CloseReturns, vars, RequestsFit, SharesOwn, Alive
<1> QED
  BY <1>1, <1>2, <1>3, <1>4, <1>5, <1>6, <1>7, <1>8, <1>9, <1>10, <1>11, <1>12,
     <1>13, <1>14, <1>15, <1>16
  DEF Next, RequestStep, DatabaseStep

LEMMA KeepsRuntimesFit == IInv /\ [Next]_vars => RuntimesFit'
<1> SUFFICES ASSUME IInv, [Next]_vars PROVE RuntimesFit'
  OBVIOUS
<1> USE DEF IInv, TypeOK, epochVars, serviceVars
<1>1. ASSUME NEW r \in Requests, Dispatch(r) PROVE RuntimesFit'
  BY <1>1 DEF Dispatch, RuntimesFit, SharesOwn, Alive
<1>2. ASSUME NEW r \in Requests, Authorized(r) PROVE RuntimesFit'
  BY <1>2 DEF Authorized, RuntimesFit, SharesOwn, Alive
<1>3. ASSUME NEW r \in Requests, Refused(r) PROVE RuntimesFit'
  BY <1>3 DEF Refused, RuntimesFit, SharesOwn, Alive
<1>4. ASSUME NEW r \in Requests, WaitedInVain(r) PROVE RuntimesFit'
  BY <1>4 DEF WaitedInVain, RuntimesFit, SharesOwn, Alive
<1>5. ASSUME NEW r \in Requests, Opens(r) PROVE RuntimesFit'
  BY <1>5 DEF Opens, RuntimesFit, SharesOwn, Alive, RequestsFit
<1>6. ASSUME NEW r \in Requests, Joins(r) PROVE RuntimesFit'
  BY <1>6 DEF Joins, RuntimesFit, SharesOwn, Alive
<1>7. ASSUME NEW r \in Requests, Injects(r) PROVE RuntimesFit'
  BY <1>7 DEF Injects, RuntimesFit, SharesOwn, Alive
<1>8. ASSUME NEW r \in Requests, Answers(r) PROVE RuntimesFit'
  BY <1>8 DEF Answers, RuntimesFit, SharesOwn, Alive
<1>9. ASSUME NEW d \in Requests, Opened(d) PROVE RuntimesFit'
  BY <1>9 DEF Opened, Turns, RuntimesFit, SharesOwn, Alive
<1>10. ASSUME NEW d \in Requests, OpenFails(d) PROVE RuntimesFit'
  BY <1>10 DEF OpenFails, Over, Without, RuntimesFit, SharesOwn, Alive
<1>11. ASSUME NEW d \in Requests, AppCloses(d) PROVE RuntimesFit'
  BY <1>11 DEF AppCloses, Turns, RuntimesFit, SharesOwn, Alive
<1>12. ASSUME NEW d \in Requests, DbCloses(d) PROVE RuntimesFit'
  BY <1>12 DEF DbCloses, Over, RuntimesFit, SharesOwn, Alive
<1>13. CASE LoginEnds
  BY <1>13 DEF LoginEnds, Retires, RuntimesFit, SharesOwn, Alive
<1>14. CASE LoginAdmits
  BY <1>14 DEF LoginAdmits, RuntimesFit, SharesOwn, Alive
<1>15. CASE CloseBegins
  BY <1>15 DEF CloseBegins, Empty, RuntimesFit, Alive
<1>16. CASE \/ CloseReturns \/ UNCHANGED vars
  BY <1>16 DEF CloseReturns, vars, RuntimesFit, SharesOwn, Alive
<1> QED
  BY <1>1, <1>2, <1>3, <1>4, <1>5, <1>6, <1>7, <1>8, <1>9, <1>10, <1>11, <1>12,
     <1>13, <1>14, <1>15, <1>16
  DEF Next, RequestStep, DatabaseStep

LEMMA KeepsWhileLoaded == IInv /\ [Next]_vars => WhileLoaded'
<1> SUFFICES ASSUME IInv, [Next]_vars PROVE WhileLoaded'
  OBVIOUS
<1> USE DEF IInv, TypeOK, epochVars, serviceVars
<1>1. ASSUME NEW r \in Requests, Dispatch(r) PROVE WhileLoaded'
  BY <1>1 DEF Dispatch, Moves, WhileLoaded, Alive, Held
<1>2. ASSUME NEW r \in Requests, Authorized(r) PROVE WhileLoaded'
  BY <1>2 DEF Authorized, WhileLoaded, Alive, Held
<1>3. ASSUME NEW r \in Requests, Refused(r) PROVE WhileLoaded'
  BY <1>3 DEF Refused, Ends, WhileLoaded, Alive, Held
<1>4. ASSUME NEW r \in Requests, WaitedInVain(r) PROVE WhileLoaded'
  BY <1>4 DEF WaitedInVain, Ends, WhileLoaded, Alive, Held
<1>5. ASSUME NEW r \in Requests, Opens(r) PROVE WhileLoaded'
  BY <1>5 DEF Opens, Valid, WhileLoaded, Alive, RequestsFit, Held, Maps
<1>6. ASSUME NEW r \in Requests, Joins(r) PROVE WhileLoaded'
  BY <1>6 DEF Joins, WhileLoaded, Alive, Held
<1>7. ASSUME NEW r \in Requests, Injects(r) PROVE WhileLoaded'
  <2>1. Moves(r, "inject") \/ Ends(r, "failed")
    BY <1>7 DEF Injects
  <2>2. /\ req'[r].at # "wait"
        /\ \A q \in Requests : q # r => req'[q] = req[q]
    BY <2>1, RequestMoves, RequestEnds DEF RequestsTyped, Shown, Stages
  <2>3. UNCHANGED <<epochVars, disposed, db, runtimes, retiring, leaving>>
    BY <1>7 DEF Injects
  <2> QED  BY <2>2, <2>3 DEF WhileLoaded, Alive, Held
<1>8. ASSUME NEW r \in Requests, Answers(r) PROVE WhileLoaded'
  BY <1>8 DEF Answers, Ends, WhileLoaded, Alive, Held
<1>9. ASSUME NEW d \in Requests, Opened(d) PROVE WhileLoaded'
  BY <1>9 DEF Opened, Turns, WhileLoaded, Alive, Held
<1>10. ASSUME NEW d \in Requests, OpenFails(d) PROVE WhileLoaded'
  BY <1>10 DEF OpenFails, Over, Without, Held, WhileLoaded, Alive, Maps
<1>11. ASSUME NEW d \in Requests, AppCloses(d) PROVE WhileLoaded'
  BY <1>11 DEF AppCloses, Turns, Held, WhileLoaded, Alive
<1>12. ASSUME NEW d \in Requests, DbCloses(d) PROVE WhileLoaded'
  BY <1>12 DEF DbCloses, Over, Without, Held, WhileLoaded, Alive, Maps
<1>13. CASE LoginEnds
  <2> SUFFICES ASSUME ~disposed PROVE WhileLoaded'
    BY <1>13 DEF LoginEnds, WhileLoaded
  <2>1. /\ epoch' = epoch + 1
        /\ UNCHANGED <<disposed, req, db, leaving, awaited>>
    BY <1>13 DEF LoginEnds, Renew, Close
  <2>2. leaving = {}
    BY DEF WhileLoaded
  <2>3. ASSUME NEW d \in Revoked
        PROVE  /\ d \in Requests /\ Alive(d) /\ db[d].owner \in Identities
               /\ retiring[db[d].owner] = NoRequest
               /\ runtimes[db[d].owner] = d
    BY <2>3 DEF Revoked, Listening, Alive, RuntimesFit, WhileLoaded, Held
  (* What is retired in a directory is the one database shared there. *)
  <2>4. ASSUME NEW i \in Identities
        PROVE  \/ /\ runtimes'[i] = NoRequest /\ runtimes[i] \in Revoked
                  /\ retiring'[i] = runtimes[i] /\ retiring[i] = NoRequest
                  /\ db[runtimes[i]].owner = i
               \/ /\ runtimes[i] \notin Revoked
                  /\ runtimes'[i] = runtimes[i] /\ retiring'[i] = retiring[i]
    <3> DEFINE own == {d \in Revoked : db[d].owner = i}
    <3>1. /\ runtimes'[i] = IF runtimes[i] \in Revoked THEN NoRequest ELSE runtimes[i]
          /\ retiring'[i] = IF own = {} THEN retiring[i] ELSE CHOOSE d \in own : TRUE
      BY <1>13 DEF LoginEnds, Retires
    <3>2. own \subseteq {runtimes[i]}
      BY <2>3
    <3>3. CASE runtimes[i] \in Revoked
      <4>1. runtimes[i] # NoRequest /\ Alive(runtimes[i])
        BY <2>3, <3>3
      <4>2. db[runtimes[i]].owner = i
        BY <4>1 DEF RuntimesFit, SharesOwn
      <4>3. own = {runtimes[i]}
        BY <3>2, <3>3, <4>2
      <4> QED  BY <2>3, <3>1, <3>3, <4>2, <4>3
    <3>4. CASE runtimes[i] \notin Revoked
      BY <3>1, <3>2, <3>4
    <3> QED  BY <3>3, <3>4
  <2>5. ASSUME NEW d \in Requests, Alive(d)
        PROVE  runtimes'[db[d].owner] = d \/ retiring'[db[d].owner] = d
    BY <2>4, <2>5 DEF WhileLoaded, Held, RuntimesFit
  <2>6. ASSUME NEW i \in Identities, retiring'[i] # NoRequest
        PROVE  /\ runtimes'[i] = NoRequest
               /\ Alive(retiring'[i]) /\ db[retiring'[i]].owner = i
    BY <2>3, <2>4, <2>6 DEF WhileLoaded
  <2>7. \A r \in Requests : req[r].at = "wait" => req[r].epoch # epoch'
    BY <2>1 DEF RequestsFit, Shown
  <2> QED
    BY <2>1, <2>2, <2>5, <2>6, <2>7 DEF WhileLoaded, Alive, Held
<1>14. CASE LoginAdmits
  BY <1>14 DEF LoginAdmits, Admit, WhileLoaded, Alive, Held
<1>15. CASE CloseBegins
  BY <1>15 DEF CloseBegins, WhileLoaded
<1>16. CASE \/ CloseReturns \/ UNCHANGED vars
  BY <1>16 DEF CloseReturns, vars, WhileLoaded, Alive, Held
<1> QED
  BY <1>1, <1>2, <1>3, <1>4, <1>5, <1>6, <1>7, <1>8, <1>9, <1>10, <1>11, <1>12,
     <1>13, <1>14, <1>15, <1>16
  DEF Next, RequestStep, DatabaseStep

LEMMA InitIInv == Init => IInv
<1> SUFFICES ASSUME Init PROVE IInv
  OBVIOUS
<1> USE DEF Init, EpochInit, Unsent, Unopened, Empty
<1>1. TypeOK
  BY DEF TypeOK, Stages, Maps
<1>2. RequestsFit /\ RuntimesFit /\ WhileLoaded
  BY DEF RequestsFit, RuntimesFit, WhileLoaded, Alive
<1> QED  BY <1>1, <1>2 DEF IInv

THEOREM GeoInvariant == Spec => []IInv
<1>1. IInv /\ [Next]_vars => TypeOK'
  BY KeepsRequestsTyped, KeepsDbTyped, KeepsMapsTyped, KeepsRestTyped
  DEF TypeOK, RequestsTyped, Shown, Databases, MapsTyped, RestTyped
<1>2. IInv /\ [Next]_vars => IInv'
  BY <1>1, KeepsRequestsFit, KeepsRuntimesFit, KeepsWhileLoaded DEF IInv
<1> QED  BY InitIInv, <1>2, PTL DEF Spec

(* No directory is opened twice, however logins end while a database       *)
(* opens, serves or closes (dispatch, retire).                             *)
THEOREM GeoIsSafe == Spec => []GeoSafety
<1>1. ASSUME IInv PROVE OneDatabase
  <2> SUFFICES ASSUME NEW d \in Requests, NEW e \in Requests, Alive(d), Alive(e),
                      ~disposed, db[d].owner = db[e].owner
               PROVE  d = e
    BY DEF OneDatabase
  <2>1. db[d].owner \in Identities
    BY <1>1 DEF IInv, RuntimesFit
  <2>2. Held(runtimes, d) \/ Held(retiring, d)
    BY <1>1 DEF IInv, WhileLoaded
  <2>3. Held(runtimes, e) \/ Held(retiring, e)
    BY <1>1 DEF IInv, WhileLoaded
  <2>4. retiring[db[d].owner] # NoRequest => runtimes[db[d].owner] = NoRequest
    BY <1>1, <2>1 DEF IInv, WhileLoaded
  <2> QED  BY <2>2, <2>3, <2>4 DEF Held
<1>2. IInv => GeoSafety
  BY <1>1 DEF IInv, GeoSafety
<1> QED  BY <1>2, GeoInvariant, PTL

(* An answer is given only to the member who is logged in at that moment,  *)
(* out of that member's own database (dispatch, authorizeGeo).             *)
THEOREM AnswersAreInTime == Spec => NoLateAnswer
<1> DEFINE InTime ==
      \A r \in Requests :
        req'[r].at = "answered" /\ req[r].at # "answered"
          => /\ owner = req[r].owner
             /\ db[req[r].awaits].owner = req[r].owner
<1>1. ASSUME IInv, [Next]_vars PROVE InTime
  <2> SUFFICES ASSUME NEW r \in Requests, req'[r].at = "answered", req[r].at # "answered"
               PROVE  /\ owner = req[r].owner
                      /\ db[req[r].awaits].owner = req[r].owner
    OBVIOUS
  <2>0. RequestsTyped /\ RequestsFit /\ req \in [Requests -> Shown]
    BY <1>1 DEF IInv, TypeOK, RequestsTyped, Shown
  <2>1. Answers(r)
    <3>1. ASSUME NEW q \in Requests,
                 Dispatch(q) \/ Refused(q) \/ WaitedInVain(q) \/ Injects(q)
          PROVE  FALSE
      <4>1. \E at \in {"authorize", "failed", "inject"} : Moves(q, at) \/ Ends(q, at)
        BY <3>1 DEF Dispatch, Refused, WaitedInVain, Injects
      <4>2. req'[q].at # "answered" /\ \A p \in Requests : p # q => req'[p] = req[p]
        BY <2>0, <4>1, RequestMoves, RequestEnds DEF Stages
      <4> QED  BY <4>2
    <3>2. ASSUME NEW q \in Requests, Authorized(q) \/ Opens(q) \/ Joins(q) PROVE FALSE
      BY <2>0, <3>2 DEF Authorized, Opens, Joins, Shown
    <3>3. ASSUME NEW q \in Requests, Answers(q) PROVE q = r
      BY <2>0, <3>3, RequestEnds DEF Answers, Stages
    <3>4. ASSUME \/ LoginEnds \/ LoginAdmits \/ CloseBegins \/ CloseReturns
                 \/ UNCHANGED vars \/ \E d \in Requests : DatabaseStep(d)
          PROVE  FALSE
      <4>1. UNCHANGED req
        BY <3>4 DEF LoginEnds, LoginAdmits, CloseBegins, CloseReturns, vars,
           serviceVars, DatabaseStep, Opened, OpenFails, AppCloses, DbCloses
      <4> QED  BY <4>1
    <3> QED  BY <1>1, <3>1, <3>2, <3>3, <3>4 DEF Next, RequestStep
  <2>2. /\ req[r].at = "inject"
        /\ db[req[r].awaits].life \in {"open", "appClosed"}
        /\ Ends(r, IF Valid(req[r].epoch) THEN "answered" ELSE "failed")
    BY <2>1 DEF Answers
  <2>3. Valid(req[r].epoch)
    BY <2>0, <2>2, RequestEnds DEF Stages
  <2> QED
    BY <2>0, <2>2, <2>3 DEF RequestsFit, SharesOwn, Alive, Valid
<1>2. Spec => [][InTime]_vars
  BY <1>1, GeoInvariant, PTL DEF Spec
<1> QED  BY <1>2 DEF NoLateAnswer
===============================================================================
