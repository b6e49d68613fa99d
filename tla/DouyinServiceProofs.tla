-------------------------- MODULE DouyinServiceProofs --------------------------
(***************************************************************************)
(* Who may be written to, and that it happens once, for every set of       *)
(* people, comments, models and commands.  First the workspace alone       *)
(* (LeadWorkspace): InviteHasEvidence is not inductive by itself, it also  *)
(* takes that a classification with the current revision was asked for in  *)
(* the current context (Fresh), and that evidence belongs to the person    *)
(* whose candidate lists it, so that a new decision disturbs nobody else   *)
(* (OwnKeys).  Then the service around it: each of its steps is one of the *)
(* workspace or leaves it alone, and the rest of IInv follows a message    *)
(* from the turn or the command that plans it to its end.                  *)
(***************************************************************************)
EXTENDS DouyinService, TLAPS

Fresh ==
    \A w \in Callers : analyses[w] # NoAnalysis =>
        /\ analyses[w].revision <= revision
        /\ analyses[w].revision = revision =>
              analyses[w].version = version /\ analyses[w].mode = mode /\ analyses[w].model = modelId

OwnKeys == \A r \in Recipients : \A k \in candidates[r].keys : Author[k] = r

WorkspaceInv == WorkspaceTypes /\ Fresh /\ OwnKeys /\ InviteHasEvidence

USE AuthorAssumption, ModelsAssumption, MaxRevisionAssumption

LEMMA UnreviewedCandidates ==
    ASSUME WorkspaceTypes
    PROVE  /\ Unreviewed \in [Recipients ->
                {NoCandidate} \cup [keys : SUBSET Comments, version : Nat, review : Reviews]]
           /\ \A r \in Recipients :
                 /\ Unreviewed[r].keys = candidates[r].keys
                 /\ Unreviewed[r].review \notin {"approved", "eligible"}
                 /\ candidates[r].review \in {"contacted", "opted-out"} => Unreviewed[r] = candidates[r]
<1>1. ASSUME NEW r \in Recipients
      PROVE  /\ Unreviewed[r] \in {NoCandidate} \cup [keys : SUBSET Comments, version : Nat, review : Reviews]
             /\ Unreviewed[r].keys = candidates[r].keys
             /\ Unreviewed[r].review \notin {"approved", "eligible"}
             /\ candidates[r].review \in {"contacted", "opted-out"} => Unreviewed[r] = candidates[r]
  <2>1. candidates[r] \in {NoCandidate} \cup [keys : SUBSET Comments, version : Nat, review : Reviews]
    BY DEF WorkspaceTypes
  <2>2. CASE candidates[r] = NoCandidate \/ Protected(candidates[r])
    BY <2>1, <2>2 DEF Unreviewed, Protected, NoCandidate
  <2>3. CASE ~(candidates[r] = NoCandidate \/ Protected(candidates[r]))
    <3>1. Unreviewed[r] = [candidates[r] EXCEPT !.review = "pending"]
      BY <2>3 DEF Unreviewed
    <3>2. candidates[r] \in [keys : SUBSET Comments, version : Nat, review : Reviews]
      BY <2>1, <2>3
    <3> QED  BY <3>1, <3>2, <2>3 DEF Reviews, Protected
  <2> QED  BY <2>2, <2>3
<1>2. Unreviewed = [r \in Recipients |-> Unreviewed[r]]
  BY DEF Unreviewed
<1> QED  BY <1>1, <1>2

LEMMA CandidateOfAnalysis ==
    ASSUME NEW c \in {NoCandidate} \cup [keys : SUBSET Comments, version : Nat, review : Reviews],
           NEW a \in [key : Comments, version : Nat, mode : Modes, model : Models, revision : Nat],
           NEW class \in Classes
    PROVE  LET d == CandidateAfter(c, a, class) IN
           /\ d \in {NoCandidate} \cup [keys : SUBSET Comments, version : Nat, review : Reviews]
           /\ d.keys \subseteq c.keys \cup {a.key}
           /\ c.review \in {"contacted", "opted-out"} => d.review = c.review
           /\ d.review \in {"approved", "eligible"} =>
                 class = "target" /\ a.key \in d.keys /\ d.version = a.version
<1> DEFINE d == CandidateAfter(c, a, class)
<1>1. CASE class = "excluded"
  <2>1. CASE c = NoCandidate \/ Protected(c)
    BY <1>1, <2>1 DEF CandidateAfter, Protected, NoCandidate
  <2>2. CASE ~(c = NoCandidate \/ Protected(c))
    <3>1. d = [c EXCEPT !.review = "pending"] /\ c \in [keys : SUBSET Comments, version : Nat, review : Reviews]
      BY <1>1, <2>2 DEF CandidateAfter
    <3> QED  BY <3>1, <2>2 DEF Reviews, Protected
  <2> QED  BY <2>1, <2>2
<1>2. CASE class # "excluded"
  <2>1. d = [keys |-> c.keys \cup {a.key}, version |-> a.version,
             review |-> IF Protected(c) THEN c.review
                        ELSE IF class = "target" /\ a.mode = "high-intent-only"
                        THEN "eligible" ELSE "pending"]
    BY <1>2 DEF CandidateAfter
  <2>2. c.keys \subseteq Comments /\ (Protected(c) => c.review \in Reviews)
    BY DEF NoCandidate, Protected, Reviews
  <2> QED  BY <2>1, <2>2 DEF Protected, Reviews
<1> QED  BY <1>1, <1>2

\* The fields of the workspace keep their types (lead-workspace.ts).
LEMMA TypesInit == WorkspaceInit \/ Analysed => WorkspaceTypes
<1>1. WorkspaceInit => WorkspaceTypes
  BY DEF WorkspaceInit, WorkspaceTypes
<1>2. ASSUME Analysed PROVE WorkspaceTypes
  <2>1. decisions \in [Comments -> {NoDecision} \cup [class : Classes, version : Nat, model : Models]]
    BY <1>2 DEF Analysed, Classes
  <2>2. candidates \in [Recipients ->
           {NoCandidate} \cup [keys : SUBSET Comments, version : Nat, review : Reviews]]
    BY <1>2 DEF Analysed, Reviews
  <2> QED  BY <1>2, <2>1, <2>2 DEF Analysed, WorkspaceTypes
<1> QED  BY <1>1, <1>2

LEMMA InvInit == WorkspaceInit \/ Analysed => WorkspaceInv
<1>1. WorkspaceInit => Fresh /\ OwnKeys /\ InviteHasEvidence
  BY DEF WorkspaceInit, Fresh, OwnKeys, InviteHasEvidence, NoCandidate
<1>2. ASSUME Analysed PROVE Fresh /\ OwnKeys /\ InviteHasEvidence
  <2>1. Fresh
    BY <1>2 DEF Analysed, Fresh
  <2>2. ASSUME NEW r \in Recipients
        PROVE  /\ \A k \in candidates[r].keys : Author[k] = r
               /\ candidates[r].review \in {"approved", "eligible"} =>
                     candidates[r].version = version /\ \E k \in candidates[r].keys : Supports(k)
    <3> DEFINE keys == {k \in Comments : Author[k] = r}
    <3>1. CASE keys = {}
      BY <1>2, <3>1 DEF Analysed, NoCandidate
    <3>2. CASE keys # {}
      <4>1. candidates[r] = [keys |-> keys, version |-> 1,
                             review |-> IF mode = "high-intent-only" THEN "eligible" ELSE "pending"]
        BY <1>2, <3>2 DEF Analysed
      <4>2. \A k \in keys : Supports(k)
        BY <1>2 DEF Analysed, Supports
      <4> QED  BY <1>2, <3>2, <4>1, <4>2 DEF Analysed
    <3> QED  BY <3>1, <3>2
  <2> QED  BY <2>1, <2>2 DEF OwnKeys, InviteHasEvidence
<1> QED  BY <1>1, <1>2, TypesInit DEF WorkspaceInv

\* A change of profile or model lets nobody in.
LEMMA ContextSteps ==
    ASSUME WorkspaceInv,
           \/ \E m \in Models : SelectModel(m)
           \/ \E n \in Modes : ConfigureProfile(n)
    PROVE  WorkspaceInv'
<1> USE DEF WorkspaceInv
<1>1. /\ candidates' = Unreviewed /\ decisions' = decisions /\ analyses' = analyses
      /\ revision' = revision + 1 /\ revision < MaxRevision
      /\ version' \in Nat \ {0} /\ mode' \in Modes /\ modelId' \in Models
  BY DEF SelectModel, ConfigureProfile, WorkspaceTypes
<1>2. WorkspaceTypes'
  <2>1. revision' \in 0..MaxRevision
    BY <1>1 DEF WorkspaceTypes
  <2>2. candidates' \in [Recipients ->
            {NoCandidate} \cup [keys : SUBSET Comments, version : Nat, review : Reviews]]
    BY <1>1, UnreviewedCandidates
  <2> QED  BY <1>1, <2>1, <2>2 DEF WorkspaceTypes
<1>3. Fresh'
  <2>1. \A w \in Callers : analyses[w] # NoAnalysis => analyses[w].revision \in Nat
    BY DEF WorkspaceTypes
  <2> QED  BY <1>1, <2>1 DEF Fresh, WorkspaceTypes
<1>4. OwnKeys'
  BY <1>1, UnreviewedCandidates DEF OwnKeys
<1>5. InviteHasEvidence'
  BY <1>1, UnreviewedCandidates DEF InviteHasEvidence
<1> QED  BY <1>2, <1>3, <1>4, <1>5

LEMMA AnalyzeStep ==
    ASSUME WorkspaceInv, NEW w \in Callers, NEW k \in Comments, Analyze(w, k)
    PROVE  WorkspaceInv'
<1> USE DEF WorkspaceInv
<1> DEFINE a == [key |-> k, version |-> version, mode |-> mode, model |-> modelId, revision |-> revision]
<1>1. /\ analyses' = [analyses EXCEPT ![w] = a]
      /\ decisions' = decisions /\ candidates' = candidates
      /\ version' = version /\ mode' = mode /\ modelId' = modelId /\ revision' = revision
  BY DEF Analyze, context
<1>2. WorkspaceTypes'
  BY <1>1 DEF WorkspaceTypes
<1>3. Fresh'
  <2>1. ASSUME NEW v \in Callers
        PROVE  analyses'[v] = IF v = w THEN a ELSE analyses[v]
    BY <1>1 DEF WorkspaceTypes
  <2> QED  BY <1>1, <2>1 DEF Fresh, WorkspaceTypes
<1> QED  BY <1>1, <1>2, <1>3 DEF OwnKeys, InviteHasEvidence, Supports

LEMMA AnalysisEndsStep ==
    ASSUME WorkspaceInv, NEW w \in Callers, NEW class \in Classes, AnalysisEnds(w, class)
    PROVE  WorkspaceInv' /\ \A r \in Recipients :
               candidates[r].review \in {"contacted", "opted-out"} =>
                   candidates'[r].review = candidates[r].review
<1> USE DEF WorkspaceInv
<1> DEFINE a == analyses[w]
           b == Author[a.key]
<1>1. /\ a \in [key : Comments, version : Nat, mode : Modes, model : Models, revision : Nat]
      /\ a.version = version /\ a.mode = mode /\ a.model = modelId
  BY DEF AnalysisEnds, IsCurrent, WorkspaceTypes, Fresh
<1>2. /\ decisions' = [decisions EXCEPT ![a.key] = [class |-> class, version |-> version, model |-> modelId]]
      /\ candidates' = [candidates EXCEPT ![b] = CandidateAfter(candidates[b], a, class)]
      /\ analyses' = [analyses EXCEPT ![w] = NoAnalysis]
      /\ version' = version /\ mode' = mode /\ modelId' = modelId /\ revision' = revision
  BY <1>1 DEF AnalysisEnds, context
<1>3. b \in Recipients /\ a.key \in Comments
  BY <1>1
<1>4. candidates[b] \in {NoCandidate} \cup [keys : SUBSET Comments, version : Nat, review : Reviews]
  BY <1>3 DEF WorkspaceTypes
<1> DEFINE d == CandidateAfter(candidates[b], a, class)
<1>5. /\ d \in {NoCandidate} \cup [keys : SUBSET Comments, version : Nat, review : Reviews]
      /\ d.keys \subseteq candidates[b].keys \cup {a.key}
      /\ candidates[b].review \in {"contacted", "opted-out"} => d.review = candidates[b].review
      /\ d.review \in {"approved", "eligible"} => class = "target" /\ a.key \in d.keys /\ d.version = version
  BY <1>1, <1>4, CandidateOfAnalysis
<1> HIDE DEF d
<1>6. \A r \in Recipients : candidates'[r] = IF r = b THEN d ELSE candidates[r]
  BY <1>2, <1>3 DEF WorkspaceTypes, d
<1>7. WorkspaceTypes'
  <2>1. decisions' \in [Comments -> {NoDecision} \cup [class : Classes, version : Nat, model : Models]]
    BY <1>1, <1>2, <1>3 DEF WorkspaceTypes
  <2>2. candidates' \in [Recipients ->
            {NoCandidate} \cup [keys : SUBSET Comments, version : Nat, review : Reviews]]
    BY <1>2, <1>3, <1>5 DEF WorkspaceTypes, d
  <2>3. analyses' \in [Callers ->
            {NoAnalysis} \cup [key : Comments, version : Nat, mode : Modes, model : Models, revision : Nat]]
    BY <1>2 DEF WorkspaceTypes
  <2> QED  BY <1>2, <2>1, <2>2, <2>3 DEF WorkspaceTypes
<1>8. Fresh'
  BY <1>2 DEF Fresh, WorkspaceTypes
<1>9. OwnKeys'
  BY <1>5, <1>6 DEF OwnKeys
<1>10. ASSUME NEW r \in Recipients, candidates'[r].review \in {"approved", "eligible"}
       PROVE  candidates'[r].version = version' /\ \E k \in candidates'[r].keys : Supports(k)'
  <2>1. CASE r = b
    <3>1. candidates'[r] = d
      BY <1>6, <2>1
    <3>2. decisions'[a.key] = [class |-> "target", version |-> version, model |-> modelId]
      BY <1>2, <1>3, <1>5, <1>10, <3>1 DEF WorkspaceTypes
    <3> QED  BY <1>2, <1>5, <1>10, <3>1, <3>2 DEF Supports
  <2>2. CASE r # b
    <3>1. candidates'[r] = candidates[r]
      BY <1>6, <2>2
    <3>2. PICK k \in candidates[r].keys : Supports(k)
      BY <1>10, <3>1 DEF InviteHasEvidence
    <3>3. k # a.key
      BY <2>2, <3>2 DEF OwnKeys
    <3>4. decisions'[k] = decisions[k]
      BY <1>2, <3>3 DEF WorkspaceTypes
    <3> QED  BY <1>2, <1>10, <3>1, <3>2, <3>4 DEF Supports, InviteHasEvidence
  <2> QED  BY <2>1, <2>2
<1>11. InviteHasEvidence'
  BY <1>10 DEF InviteHasEvidence
<1> QED  BY <1>5, <1>6, <1>7, <1>8, <1>9, <1>11

LEMMA ReviewStep ==
    ASSUME WorkspaceInv, NEW r \in Recipients,
           NEW action \in {"approved", "excluded", "opted-out"}, Review(r, action)
    PROVE  /\ WorkspaceInv'
           /\ \A q \in Recipients : q # r => candidates'[q] = candidates[q]
           /\ candidates'[r].review = action
<1> USE DEF WorkspaceInv
<1> DEFINE c == candidates[r]
<1>1. c \in [keys : SUBSET Comments, version : Nat, review : Reviews]
  BY DEF Review, WorkspaceTypes
<1> DEFINE d == [keys |-> c.keys, version |-> c.version, review |-> action]
<1>2. [c EXCEPT !.review = action] = d
  BY <1>1
<1>3. candidates' = [candidates EXCEPT ![r] = d]
  BY <1>2 DEF Review
<1>4. \A q \in Recipients : candidates'[q] = IF q = r THEN d ELSE candidates[q]
  BY <1>3 DEF WorkspaceTypes
<1>5. /\ version' = version /\ mode' = mode /\ modelId' = modelId /\ revision' = revision
      /\ decisions' = decisions /\ analyses' = analyses
  BY DEF Review, context
<1>6. WorkspaceTypes'
  <2>1. d \in [keys : SUBSET Comments, version : Nat, review : Reviews]
    BY <1>1 DEF Reviews
  <2> QED  BY <1>3, <1>5, <2>1 DEF WorkspaceTypes
<1>7. Fresh'
  BY <1>5 DEF Fresh
<1>8. OwnKeys'
  BY <1>4 DEF OwnKeys
<1>9. InviteHasEvidence'
  <2>1. action = "approved" => c.version = version /\ \E k \in c.keys : Supports(k)
    BY DEF Review, Approvable
  <2> QED  BY <1>4, <1>5, <2>1 DEF InviteHasEvidence, Supports
<1> QED  BY <1>4, <1>6, <1>7, <1>8, <1>9

LEMMA MarkContactedStep ==
    ASSUME WorkspaceInv, NEW r \in Recipients, MarkContacted(r)
    PROVE  /\ WorkspaceInv'
           /\ \A q \in Recipients :
                 /\ candidates[q].review = "opted-out" => candidates'[q].review = "opted-out"
                 /\ candidates[q].review = "contacted" => candidates'[q].review = "contacted"
<1> USE DEF WorkspaceInv
<1>1. /\ version' = version /\ mode' = mode /\ modelId' = modelId /\ revision' = revision
      /\ decisions' = decisions /\ analyses' = analyses
  BY DEF MarkContacted, context
<1>2. CASE candidates[r] = NoCandidate \/ candidates[r].review = "opted-out"
  <2>1. candidates' = candidates
    BY <1>2 DEF MarkContacted, ContactedAfter
  <2> QED  BY <1>1, <2>1 DEF WorkspaceTypes, Fresh, OwnKeys, InviteHasEvidence, Supports
<1>3. CASE ~(candidates[r] = NoCandidate \/ candidates[r].review = "opted-out")
  <2> DEFINE c == candidates[r]
             d == [keys |-> c.keys, version |-> c.version, review |-> "contacted"]
  <2>1. c \in [keys : SUBSET Comments, version : Nat, review : Reviews]
    BY <1>3 DEF WorkspaceTypes
  <2>2. [c EXCEPT !.review = "contacted"] = d
    BY <2>1
  <2>3. candidates' = [candidates EXCEPT ![r] = d]
    BY <1>3, <2>2 DEF MarkContacted, ContactedAfter
  <2>4. \A q \in Recipients : candidates'[q] = IF q = r THEN d ELSE candidates[q]
    BY <2>3 DEF WorkspaceTypes
  <2>5. d \in [keys : SUBSET Comments, version : Nat, review : Reviews]
    BY <2>1 DEF Reviews
  <2>6. WorkspaceTypes'
    BY <1>1, <2>3, <2>5 DEF WorkspaceTypes
  <2>7. Fresh'
    BY <1>1 DEF Fresh
  <2>8. OwnKeys'
    BY <2>4 DEF OwnKeys
  <2>9. InviteHasEvidence'
    BY <1>1, <2>4 DEF InviteHasEvidence, Supports
  <2> QED  BY <1>3, <2>4, <2>6, <2>7, <2>8, <2>9
<1> QED  BY <1>2, <1>3

\* Changes of the watches and ends of classifications leave the people alone.
LEMMA OtherSteps ==
    ASSUME WorkspaceInv,
           \/ ChangeWatches
           \/ WorkspaceRestart
           \/ \E w \in Callers : AnalysisFails(w)
           \/ UNCHANGED workspace
    PROVE  WorkspaceInv' /\ candidates' = candidates
<1> USE DEF WorkspaceInv
<1>1. /\ candidates' = candidates /\ decisions' = decisions
      /\ version' = version /\ mode' = mode /\ modelId' = modelId
      /\ \/ revision' = revision
         \/ revision < MaxRevision /\ revision' = revision + 1
  BY DEF ChangeWatches, WorkspaceRestart, AnalysisFails, workspace, context
<1>2. /\ analyses' \in [Callers ->
           {NoAnalysis} \cup [key : Comments, version : Nat, mode : Modes, model : Models, revision : Nat]]
      /\ \A w \in Callers : analyses'[w] = analyses[w] \/ analyses'[w] = NoAnalysis
  BY DEF ChangeWatches, WorkspaceRestart, AnalysisFails, workspace, WorkspaceTypes
<1>3. WorkspaceTypes'
  <2>1. revision' \in 0..MaxRevision
    BY <1>1 DEF WorkspaceTypes
  <2> QED  BY <1>1, <1>2, <2>1 DEF WorkspaceTypes
<1>4. Fresh'
  <2>1. \A w \in Callers : analyses[w] # NoAnalysis => analyses[w].revision \in Nat
    BY DEF WorkspaceTypes
  <2> QED  BY <1>1, <1>2, <2>1 DEF Fresh, WorkspaceTypes
<1> QED  BY <1>1, <1>3, <1>4 DEF OwnKeys, InviteHasEvidence, Supports

\* What every step keeps, and what it never does to who opted out or was
\* contacted.
LEMMA WorkspaceStep ==
    ASSUME WorkspaceInv, [WorkspaceNext]_workspace
    PROVE  WorkspaceInv' /\ \A r \in Recipients :
               /\ candidates[r].review = "opted-out" => candidates'[r].review = "opted-out"
               /\ candidates[r].review = "contacted" => candidates'[r].review \in {"contacted", "opted-out"}
<1>1. CASE (\E m \in Models : SelectModel(m)) \/ (\E n \in Modes : ConfigureProfile(n))
  <2>1. candidates' = Unreviewed
    BY <1>1 DEF SelectModel, ConfigureProfile
  <2> QED  BY <1>1, <2>1, ContextSteps, UnreviewedCandidates DEF WorkspaceInv
<1>2. CASE \/ ChangeWatches \/ WorkspaceRestart \/ UNCHANGED workspace
           \/ \E w \in Callers : AnalysisFails(w)
  BY <1>2, OtherSteps
<1>3. ASSUME NEW w \in Callers, NEW k \in Comments, Analyze(w, k)
      PROVE  WorkspaceInv' /\ candidates' = candidates
  BY <1>3, AnalyzeStep DEF Analyze
<1>4. ASSUME NEW w \in Callers, NEW class \in Classes, AnalysisEnds(w, class)
      PROVE  WorkspaceInv' /\ \A r \in Recipients :
                 candidates[r].review \in {"contacted", "opted-out"} => candidates'[r].review = candidates[r].review
  BY <1>4, AnalysisEndsStep
<1>5. ASSUME NEW r \in Recipients, NEW action \in {"approved", "excluded", "opted-out"}, Review(r, action)
      PROVE  WorkspaceInv' /\ \A q \in Recipients :
                 /\ candidates[q].review = "opted-out" => candidates'[q].review = "opted-out"
                 /\ candidates[q].review = "contacted" => candidates'[q].review \in {"contacted", "opted-out"}
  <2>1. candidates[r].review \in {"contacted", "opted-out"} => action = "opted-out"
    BY <1>5 DEF Review, Protected
  <2> QED  BY <1>5, <2>1, ReviewStep
<1>6. ASSUME NEW r \in Recipients, MarkContacted(r)
      PROVE  WorkspaceInv' /\ \A q \in Recipients :
                 /\ candidates[q].review = "opted-out" => candidates'[q].review = "opted-out"
                 /\ candidates[q].review = "contacted" => candidates'[q].review = "contacted"
  BY <1>6, MarkContactedStep
<1> QED  BY <1>1, <1>2, <1>3, <1>4, <1>5, <1>6 DEF WorkspaceNext

THEOREM WorkspaceInvariant == WorkspaceSpec => []WorkspaceInv
<1>1. WorkspaceInv /\ [WorkspaceNext]_workspace => WorkspaceInv'
  BY WorkspaceStep
<1> QED  BY <1>1, InvInit, PTL DEF WorkspaceSpec

\* The fields of the workspace keep their types (lead-workspace.ts).
THEOREM WorkspaceTyped == WorkspaceSpec => []WorkspaceTypes
<1>1. WorkspaceInv => WorkspaceTypes
  BY DEF WorkspaceInv
<1> QED  BY <1>1, WorkspaceInvariant, PTL

\* Whoever may be written to has target evidence under the profile and model
\* of the moment (analyzeOne, review, messagePlan).
THEOREM InvitationsHaveEvidence == WorkspaceSpec => []InviteHasEvidence
<1>1. WorkspaceInv => InviteHasEvidence
  BY DEF WorkspaceInv
<1> QED  BY <1>1, WorkspaceInvariant, PTL

\* Opting out is final, and being contacted gives way to opting out only
\* (review, markContacted, configureProfile).
THEOREM DenialsAreFinal == WorkspaceSpec => DenialIsFinal
<1>1. WorkspaceInv /\ [WorkspaceNext]_workspace =>
          [\A r \in Recipients :
              /\ candidates[r].review = "opted-out" => candidates'[r].review = "opted-out"
              /\ candidates[r].review = "contacted" => candidates'[r].review \in {"contacted", "opted-out"}
          ]_candidates
  BY WorkspaceStep
<1> QED  BY <1>1, WorkspaceInvariant, PTL DEF WorkspaceSpec, DenialIsFinal
-----------------------------------------------------------------------------
(* The service *)

USE CallersAssumption, BoundsAssumption

Runners  == [phase : Phases, signal : Signals, login : Signals, expired : BOOLEAN]
Monitors == [phase : Phases \ {"completed"}, signal : Signals, login : Signals, by : Planners]
Engines  == [phase : Phases \cup {"draft"}, plan : Plans, login : Signals]
Operations == {NoOp} \cup Ops
Passes   == {IdleTurn} \cup Turns

\* The parts of TypeOK that take a proof each.
LoginTyped ==
    /\ session \in [number : Signals, on : BOOLEAN]
    /\ entrySignal \in Signals /\ listens \subseteq Signals
AcqTyped     == acq \in Runners
MonTyped     == mon \in Monitors
PlansTyped   == preview \in Plans /\ approved \in {NoApproval} \cup [version : Nat, model : Models]
EngTyped     == eng \in Engines
OpTyped      == op \in Operations /\ (op # NoOp /\ op.at = "send" => op.to \in Recipients)
LedgerTyped  == ledger \in [sent : SUBSET (Recipients \X {"user", "acquisition", "nobody"}), unknown : BOOLEAN]
MoneyTyped   == /\ budget \in [day : 1..MaxDays, attempts : 0..MaxPerDay] /\ day \in 1..MaxDays
                /\ attempts \in [Recipients -> Nat] /\ used \in Nat
CmdsTyped    == cmds \in [Slots -> {NoCommand} \cup Commands] /\ tail \in Seq(Slots) /\ asked \in 0..MaxCommands
TurnTyped    == tk \in Passes /\ (tk.at = "preview" => tk.to \in Recipients)

Inside == {"pausing", "starting", "analyzing"}

\* A command is queued once, from where it waits to the end of its body, and
\* the one whose body has begun is the head.
QueueFits ==
    /\ \A i, j \in DOMAIN tail : tail[i] = tail[j] => i = j
    /\ \A i \in DOMAIN tail : cmds[tail[i]].at \in Inside \cup {"queue"}
    /\ \A c \in Slots : cmds[c].at \in Inside => tail # <<>> /\ Head(tail) = c

\* Whose turn it is, is told by where it stands; and the acquisition still runs
\* unless its turn was cut.
TurnFits ==
    /\ tk.at \in {"pausing", "withdrawn", "discover", "monitor", "outreach",
                 "preview", "previewed", "starting", "sending"} => tk.by = "acquisition"
    /\ /\ tk.at \notin {"idle", "auth", "models", "pausing", "withdrawn"}
       /\ tk.by = "acquisition" /\ ~tk.acqCut
       => acq.phase = "running"

\* The operation of the engine is that of the turn or command that waits for it.
OpWaits ==
    /\ op # NoOp /\ op.kind = "tick" => tk.at \in {"ticking", "sending"}
    /\ op # NoOp /\ op.kind = "start" =>
         \/ op.who \in Slots /\ cmds[op.who].at = "starting"
         \/ op.who = "acquisition" /\ tk.at = "starting"
    /\ tk.at = "starting" => op # NoOp /\ op.kind = "start" /\ op.who = "acquisition"

\* A message on its way is to somebody of the plan, who was a candidate and has
\* not opted out.
OpSends ==
    op # NoOp /\ op.at = "send" =>
        /\ op.kind = "tick" /\ op.to \in eng.plan.recipients
        /\ candidates[op.to].review \notin {"none", "opted-out"}

\* An unknown end leaves no plan that could be started or goes on.
UnknownRests == ledger.unknown => op = NoOp /\ eng.phase \notin {"draft", "running"}

\* Who was written to is known: the message is on its way, the person is marked,
\* or the end is unknown and the engine rests.
AttemptsFit ==
    \A r \in Recipients :
        /\ attempts[r] <= 1
        /\ attempts[r] = 1 => \/ ledger.unknown
                              \/ op # NoOp /\ op.at = "send" /\ op.to = r
                              \/ candidates[r].review \in {"contacted", "opted-out"}

\* A message of the acquisition has been reserved and may still go out.
Outstanding ==
    \/ tk.at = "preview"
    \/ /\ eng.plan.by = "acquisition" /\ eng.plan.recipients # {} /\ ~ledger.unknown
       /\ op # NoOp => op.at # "send"

BudgetFits ==
    /\ eng.plan.by = "acquisition" => \E r \in Recipients : eng.plan.recipients \subseteq {r}
    /\ IF Outstanding THEN used + 1 <= budget.attempts ELSE used <= budget.attempts

\* A command that has got past the rebinding is of a login whose end is heard.
LoginFits ==
    /\ entrySignal <= session.number /\ (Live(entrySignal) => entrySignal \in listens)
    /\ \A c \in Slots : cmds[c] # NoCommand =>
         /\ cmds[c].login <= session.number
         /\ Live(cmds[c].login) => \/ cmds[c].login \in listens
                                   \/ cmds[c].at \in {"rebind", "rebindMonitor", "rebindEngine"}

Lasts(s) == Live(s) /\ s \in listens

\* What runs, and the start that would make the engine run, is of a login that
\* lasts and whose end stops it; a start that waited in the queue past the end of
\* its login fails its check.
RunsFit ==
    /\ acq.phase = "running" => Lasts(acq.login)
    /\ mon.phase = "running" => Lasts(mon.login)
    /\ eng.phase = "running" => Lasts(eng.login)
    /\ op # NoOp /\ op.kind = "start" /\ ~op.cancelled => Lasts(op.login) \/ ~Checked

\* The acquisition that runs, or whose turn is not over yet, is of the login the
\* entry works for or of the one it is bound to: a rebinding waits for the turn.
BusyFits ==
    /\ acq.login <= session.number
    /\ acq.phase = "running" \/ AcqBusy =>
         /\ entrySignal <= acq.login
         /\ \A c \in Slots : cmds[c].at \in {"rebindMonitor", "rebindEngine"} => cmds[c].login <= acq.login

IInv ==
    /\ WorkspaceInv
    /\ LoginTyped /\ AcqTyped /\ MonTyped /\ PlansTyped /\ EngTyped /\ OpTyped
    /\ LedgerTyped /\ MoneyTyped /\ CmdsTyped /\ TurnTyped
    /\ QueueFits /\ TurnFits /\ OpWaits /\ OpSends /\ UnknownRests
    /\ AttemptsFit /\ BudgetFits /\ LoginFits /\ RunsFit /\ BusyFits

-----------------------------------------------------------------------------
(* What the helpers of the service return *)

LEMMA CutIs ==
    ASSUME TurnTyped, NEW fields
    PROVE  /\ tk.at = "idle" => Cut(fields) = tk
           /\ tk.at # "idle" =>
                Cut(fields) = [at |-> tk.at, by |-> tk.by, to |-> tk.to,
                               acqCut |-> tk.acqCut \/ "acqCut" \in fields,
                               monCut |-> tk.monCut \/ "monCut" \in fields]
<1>1. tk.at # "idle" => tk \in Turns
  BY DEF TurnTyped, Passes, IdleTurn
<1> QED  BY <1>1 DEF Cut, Turns

LEMMA PausedEngineIs ==
    ASSUME EngTyped
    PROVE  /\ PausedEngine \in Engines
           /\ PausedEngine.plan = eng.plan /\ PausedEngine.login = eng.login
           /\ PausedEngine.phase = IF eng.phase = "running" THEN "paused" ELSE eng.phase
BY DEF EngTyped, PausedEngine, Engines, Phases

LEMMA CancelledOpIs ==
    ASSUME OpTyped
    PROVE  /\ CancelledOp \in Operations /\ (CancelledOp = NoOp <=> op = NoOp)
           /\ op # NoOp => /\ CancelledOp.kind = op.kind /\ CancelledOp.at = op.at
                           /\ CancelledOp.who = op.who /\ CancelledOp.login = op.login
                           /\ CancelledOp.to = op.to /\ CancelledOp.cancelled = TRUE
<1>1. CASE op = NoOp
  BY <1>1 DEF CancelledOp, Operations
<1>2. CASE op # NoOp
  <2>1. op \in Ops /\ CancelledOp = [op EXCEPT !.cancelled = TRUE]
    BY <1>2 DEF OpTyped, Operations, CancelledOp
  <2>2. [op EXCEPT !.cancelled = TRUE] \in Ops
    BY <2>1 DEF Ops
  <2>3. CancelledOp.kind \in {"start", "tick"}
    BY <2>1, <2>2 DEF Ops
  <2> QED  BY <1>2, <2>1, <2>2, <2>3 DEF Operations, NoOp, Ops
<1> QED  BY <1>1, <1>2

LEMMA PassedIs ==
    ASSUME EngTyped, NEW r
    PROVE  /\ Passed(r) \in Engines
           /\ Passed(r).phase = eng.phase /\ Passed(r).login = eng.login
           /\ Passed(r).plan.by = eng.plan.by
           /\ Passed(r).plan.recipients = eng.plan.recipients \ {r}
<1>1. eng \in [phase : Phases \cup {"draft"}, plan : Plans, login : Signals] /\ eng.plan \in Plans
  BY DEF EngTyped, Engines
<1>2. Passed(r) = [phase |-> eng.phase, login |-> eng.login,
                   plan |-> [by |-> eng.plan.by, recipients |-> eng.plan.recipients \ {r}]]
  <2> DEFINE left == eng.plan.recipients \ {r}
  <2>1. eng.plan = [by |-> eng.plan.by, recipients |-> eng.plan.recipients]
    BY <1>1 DEF Plans
  <2>2. [eng.plan EXCEPT !.recipients = left] = [by |-> eng.plan.by, recipients |-> left]
    BY <2>1
  <2>3. Passed(r) = [eng EXCEPT !.plan = [eng.plan EXCEPT !.recipients = left]]
    BY DEF Passed
  <2> HIDE DEF left
  <2>4. Passed(r) = [phase |-> eng.phase, login |-> eng.login,
                     plan |-> [by |-> eng.plan.by, recipients |-> left]]
    BY <1>1, <2>2, <2>3
  <2> QED  BY <2>4 DEF left
<1>3. Passed(r).plan = [by |-> eng.plan.by, recipients |-> eng.plan.recipients \ {r}]
  BY <1>2
<1>4. eng.plan.by \in Planners /\ eng.plan.recipients \ {r} \in SUBSET Recipients
  BY <1>1 DEF Plans
<1>5. Passed(r).plan \in Plans
  BY <1>3, <1>4 DEF Plans
<1> QED  BY <1>1, <1>2, <1>3, <1>5 DEF Engines

LEMMA StartedIs ==
    ASSUME EngTyped, NEW o, o.login \in Signals
    PROVE  /\ Started(o) \in Engines /\ Started(o).phase = "running"
           /\ Started(o).login = o.login /\ Started(o).plan = eng.plan
BY DEF EngTyped, Started, Engines, Phases

\* What the stops do, seen from what they stop.
LEMMA AcquisitionStops ==
    ASSUME AcqTyped, StopAcquisition
    PROVE  /\ acq' \in Runners /\ acq'.phase = "paused" /\ acq'.signal = acq.signal
           /\ acq'.login = acq.login /\ acq'.expired = acq.expired
BY DEF AcqTyped, Runners, StopAcquisition, Phases

LEMMA MonitorStops ==
    ASSUME MonTyped, StopMonitor
    PROVE  /\ mon' \in Monitors /\ mon'.phase = "paused" /\ mon'.signal = mon.signal
           /\ mon'.login = mon.login /\ mon'.by = mon.by
BY DEF MonTyped, Monitors, StopMonitor, Phases

LEMMA EnginePauses ==
    ASSUME EngTyped, OpTyped, Pause
    PROVE  /\ eng' \in Engines /\ eng'.plan = eng.plan /\ eng'.login = eng.login
           /\ eng'.phase = (IF eng.phase = "running" THEN "paused" ELSE eng.phase)
           /\ op' \in Operations /\ (op' = NoOp <=> op = NoOp) /\ ledger' = ledger
           /\ op # NoOp => /\ op'.kind = op.kind /\ op'.at = op.at /\ op'.who = op.who
                           /\ op'.login = op.login /\ op'.to = op.to /\ op'.cancelled = TRUE
BY PausedEngineIs, CancelledOpIs DEF Pause

LEMMA TurnIsCut ==
    ASSUME TurnTyped, NEW fields, tk' = Cut(fields)
    PROVE  /\ tk' \in Passes /\ tk'.at = tk.at /\ tk'.by = tk.by
           /\ tk.at # "idle" =>
                /\ tk'.to = tk.to
                /\ tk'.acqCut = (tk.acqCut \/ "acqCut" \in fields)
                /\ tk'.monCut = (tk.monCut \/ "monCut" \in fields)
<1>1. CASE tk.at = "idle"
  BY <1>1, CutIs DEF TurnTyped
<1>2. CASE tk.at # "idle"
  <2> DEFINE a == tk.acqCut \/ "acqCut" \in fields
             m == tk.monCut \/ "monCut" \in fields
  <2>1. tk \in Turns
    BY <1>2 DEF TurnTyped, Passes, IdleTurn
  <2>2. tk' = [at |-> tk.at, by |-> tk.by, to |-> tk.to, acqCut |-> a, monCut |-> m]
    BY <1>2, CutIs
  <2>3. a \in BOOLEAN /\ m \in BOOLEAN
    OBVIOUS
  <2> HIDE DEF a, m
  <2>4. tk'.acqCut = a /\ tk'.monCut = m
    BY <2>2
  <2>5. tk' \in Turns /\ tk'.at = tk.at /\ tk'.by = tk.by /\ tk'.to = tk.to
    BY <2>1, <2>2, <2>3 DEF Turns
  <2>6. tk' \in Passes
    BY <2>5 DEF Passes
  <2> QED  BY <1>2, <2>4, <2>5, <2>6 DEF a, m
<1> QED  BY <1>1, <1>2

LEMMA TurnGoes ==
    ASSUME TurnTyped, tk.at # "idle", NEW at, Goes(at),
           at \in {"auth", "models", "pausing", "withdrawn", "discover", "monitor", "scan",
                   "classify", "outreach", "preview", "previewed", "starting", "sending", "engine",
                   "ticking"}
    PROVE  /\ tk \in Turns /\ tk' \in Passes /\ tk'.at = at /\ tk'.by = tk.by /\ tk'.to = tk.to
           /\ tk'.acqCut = tk.acqCut /\ tk'.monCut = tk.monCut
<1>1. tk \in Turns
  BY DEF TurnTyped, Passes, IdleTurn
<1> QED  BY <1>1 DEF Goes, Turns, Passes

\* A turn that fails is over, and the acquisition rests unless it was cut.
LEMMA TurnFails ==
    ASSUME AcqTyped, NEW phase \in {"completed", "blocked"}, acq' = FailedTo(phase)
    PROVE  /\ acq' \in Runners /\ acq'.signal = acq.signal
           /\ acq'.login = acq.login /\ acq'.expired = acq.expired
           /\ acq'.phase \in {acq.phase, phase}
BY DEF AcqTyped, Runners, Phases, FailedTo

\* Where a command goes.
LEMMA CommandGoes ==
    ASSUME CmdsTyped, NEW c \in Slots, NEW at, At(c, at), cmds[c] # NoCommand,
           at \in {"rebind", "rebindMonitor", "rebindEngine", "settle", "settleMonitor",
                   "settleEngine", "settleAgain", "queue", "pausing", "starting", "analyzing"}
    PROVE  /\ cmds' \in [Slots -> {NoCommand} \cup Commands] /\ cmds'[c] # NoCommand
           /\ cmds'[c].at = at /\ cmds'[c].kind = cmds[c].kind /\ cmds'[c].login = cmds[c].login
           /\ \A d \in Slots \ {c} : cmds'[d] = cmds[d]
<1>1. cmds[c] \in Commands
  BY DEF CmdsTyped
<1>2. cmds'[c] = [cmds[c] EXCEPT !.at = at] /\ \A d \in Slots \ {c} : cmds'[d] = cmds[d]
  BY DEF CmdsTyped, At
<1>3. cmds'[c] = [kind |-> cmds[c].kind, login |-> cmds[c].login, at |-> at]
  BY <1>1, <1>2 DEF Commands
<1>4. cmds'[c] \in Commands
  BY <1>1, <1>3 DEF Commands
<1> QED  BY <1>1, <1>2, <1>3, <1>4 DEF CmdsTyped, At, Commands, NoCommand

LEMMA CommandEnds ==
    ASSUME CmdsTyped, NEW c \in Slots, Ends(c)
    PROVE  /\ cmds' \in [Slots -> {NoCommand} \cup Commands] /\ cmds'[c] = NoCommand
           /\ \A d \in Slots \ {c} : cmds'[d] = cmds[d]
BY DEF CmdsTyped, Ends

\* Where a command goes, seen from the queue.
LEMMA QueueMoves ==
    ASSUME CmdsTyped, QueueFits, NEW c \in Slots, NEW x, tail' = tail,
           cmds' = [cmds EXCEPT ![c] = x],
           cmds[c].at \in Inside \cup {"queue"} => x.at \in Inside \cup {"queue"},
           x.at \in Inside => tail # <<>> /\ Head(tail) = c
    PROVE  QueueFits'
<1>1. \A d \in Slots : cmds'[d] = IF d = c THEN x ELSE cmds[d]
  BY DEF CmdsTyped
<1>2. \A i \in DOMAIN tail : tail[i] \in Slots
  BY DEF CmdsTyped
<1> QED  BY <1>1, <1>2 DEF QueueFits

LEMMA QueueGrows ==
    ASSUME CmdsTyped, QueueFits, NEW c \in Slots, At(c, "queue"), tail' = Append(tail, c),
           cmds[c] # NoCommand, cmds[c].at \notin Inside \cup {"queue"}
    PROVE  QueueFits' /\ tail' \in Seq(Slots)
<1>1. cmds[c] \in Commands
  BY DEF CmdsTyped
<1>2. \A d \in Slots : cmds'[d].at = IF d = c THEN "queue" ELSE cmds[d].at
  BY <1>1 DEF CmdsTyped, At, Commands
<1>3. tail \in Seq(Slots) /\ \A i \in DOMAIN tail : tail[i] \in Slots /\ tail[i] # c
  BY DEF CmdsTyped, QueueFits
<1>4. /\ tail' \in Seq(Slots) /\ tail' # <<>>
      /\ DOMAIN tail' = 1..(Len(tail) + 1) /\ DOMAIN tail = 1..Len(tail)
      /\ \A i \in DOMAIN tail' : tail'[i] = IF i \in DOMAIN tail THEN tail[i] ELSE c
      /\ tail # <<>> => Head(tail') = Head(tail)
  BY <1>3
<1>5. \A i \in DOMAIN tail' : i \notin DOMAIN tail => i = Len(tail) + 1
  BY <1>3, <1>4
<1>6. \A i, j \in DOMAIN tail' : tail'[i] = tail'[j] => i = j
  BY <1>3, <1>4, <1>5 DEF QueueFits
<1>7. \A i \in DOMAIN tail' : cmds'[tail'[i]].at \in Inside \cup {"queue"}
  BY <1>2, <1>3, <1>4 DEF QueueFits
<1>8. \A d \in Slots : cmds'[d].at \in Inside => tail' # <<>> /\ Head(tail') = d
  BY <1>2, <1>4 DEF QueueFits, Inside
<1> QED  BY <1>4, <1>6, <1>7, <1>8 DEF QueueFits

LEMMA QueueShrinks ==
    ASSUME CmdsTyped, QueueFits, NEW c \in Slots, Done(c), tail # <<>>, Head(tail) = c
    PROVE  QueueFits' /\ tail' \in Seq(Slots)
<1>1. \A d \in Slots : cmds'[d] = IF d = c THEN NoCommand ELSE cmds[d]
  BY DEF CmdsTyped, Done, Ends
<1>2. tail \in Seq(Slots) /\ \A i \in DOMAIN tail : tail[i] \in Slots
  BY DEF CmdsTyped
<1>3. /\ tail' \in Seq(Slots) /\ tail[1] = c /\ 1 \in DOMAIN tail
      /\ \A i \in DOMAIN tail' : i + 1 \in DOMAIN tail /\ tail'[i] = tail[i + 1] /\ i \in Nat /\ i # 0
  BY <1>2 DEF Done
<1>4. \A i \in DOMAIN tail' : tail'[i] # c
  BY <1>3 DEF QueueFits
<1>5. \A i, j \in DOMAIN tail' : tail'[i] = tail'[j] => i = j
  BY <1>3 DEF QueueFits
<1>6. \A i \in DOMAIN tail' : cmds'[tail'[i]].at \in Inside \cup {"queue"}
  BY <1>1, <1>2, <1>3, <1>4 DEF QueueFits
<1>7. \A d \in Slots : cmds'[d].at \notin Inside
  BY <1>1 DEF QueueFits, NoCommand, Inside
<1> QED  BY <1>3, <1>5, <1>6, <1>7 DEF QueueFits

-----------------------------------------------------------------------------
(* What the longer steps do, without what leads to it *)

LEMMA CommandIs ==
    ASSUME IInv, NEW c \in Slots, cmds[c].at # "none"
    PROVE  /\ cmds[c] \in Commands /\ cmds[c] # NoCommand
           /\ cmds[c].login \in Signals /\ cmds[c].kind \in Kinds
<1>1. cmds[c] \in Commands
  BY DEF IInv, CmdsTyped, NoCommand
<1> QED  BY <1>1 DEF Commands, NoCommand

LEMMA IdleTurnIs == IdleTurn \in Passes /\ IdleTurn.at = "idle" /\ IdleTurn.by = "nobody"
BY DEF IdleTurn, Passes

LEMMA PassIs ==
    ASSUME NEW at \in {"auth", "discover", "monitor", "scan", "engine", "ticking"},
           NEW by \in {"acquisition", "monitor", "engine"}, tk' = Pass(at, by)
    PROVE  /\ tk' \in Passes /\ tk'.at = at /\ tk'.by = by
           /\ tk'.acqCut = FALSE /\ tk'.monCut = FALSE
BY DEF Pass, Passes, Turns

LEMMA TickBeginsIs ==
    ASSUME EngTyped, NEW who \in {"acquisition", "engine"}, TickBegins(who)
    PROVE  /\ op' \in Operations /\ op' # NoOp
           /\ op'.kind = "tick" /\ op'.at = "check" /\ op'.who = who
<1>1. eng.login \in Signals
  BY DEF EngTyped, Engines
<1>2. op' = [kind |-> "tick", at |-> "check", who |-> who, login |-> eng.login,
             cancelled |-> FALSE, to |-> "nobody"]
  BY DEF TickBegins
<1>3. op' \in Ops /\ op'.kind = "tick" /\ op'.at = "check" /\ op'.who = who
  BY <1>1, <1>2 DEF Ops
<1> QED  BY <1>3 DEF Operations, NoOp

\* The engine goes on with what is left of its plan, or stops.
EngineGoesOn ==
    /\ eng' \in Engines /\ eng'.plan.by = eng.plan.by /\ eng'.login = eng.login
    /\ eng'.plan.recipients \subseteq eng.plan.recipients
    /\ eng'.phase \in {eng.phase, "blocked", "completed"}

TickSends(r) ==
    /\ r \in eng.plan.recipients /\ r \in Recipients /\ Plannable(r)
    /\ eng.phase = "running" /\ UNCHANGED <<eng, ledger>>
    /\ op' \in Ops /\ op' # NoOp /\ op'.kind = "tick" /\ op'.at = "send" /\ op'.to = r
    /\ attempts' = [attempts EXCEPT ![r] = @ + 1]
    /\ used' = used + (IF eng.plan.by = "acquisition" THEN 1 ELSE 0)

LEMMA EngineIs ==
    ASSUME EngTyped
    PROVE  /\ eng \in Engines /\ eng.plan \in Plans /\ eng.login \in Signals
           /\ eng.plan.recipients \subseteq Recipients /\ eng.plan.by \in Planners
           /\ \A p \in {"blocked", "completed"} :
                /\ [eng EXCEPT !.phase = p] \in Engines
                /\ [eng EXCEPT !.phase = p].phase = p
                /\ [eng EXCEPT !.phase = p].plan = eng.plan
                /\ [eng EXCEPT !.phase = p].login = eng.login
BY DEF EngTyped, Engines, Plans, Phases

LEMMA TickDoes ==
    ASSUME IInv, TickChecked
    PROVE  /\ op # NoOp /\ op \in Ops /\ op.kind = "tick" /\ op.at = "check"
           /\ ledger.unknown = FALSE /\ EngineGoesOn
           /\ \/ op' = NoOp /\ UNCHANGED <<ledger, attempts, used>>
              \/ /\ op' = NoOp /\ UNCHANGED <<attempts, used>> /\ eng'.phase = "blocked"
                 /\ ledger' = [ledger EXCEPT !.unknown = TRUE]
              \/ \E r \in Recipients : TickSends(r)
<1>1. op # NoOp /\ op \in Ops /\ op.kind = "tick" /\ op.at = "check"
  BY DEF TickChecked, IInv, OpTyped, Operations
<1>2. ledger.unknown = FALSE
  BY <1>1 DEF IInv, UnknownRests, LedgerTyped
<1>3. EngTyped
  BY DEF IInv
<1>4. CASE /\ op' = NoOp /\ \E p \in {"blocked", "completed"} : eng' = [eng EXCEPT !.phase = p]
           /\ UNCHANGED <<ledger, attempts, used>>
  BY <1>1, <1>2, <1>3, <1>4, EngineIs DEF EngineGoesOn
<1>5. ASSUME NEW r \in eng.plan.recipients, TickPasses(r)
      PROVE  /\ EngineGoesOn
             /\ \/ op' = NoOp /\ UNCHANGED <<ledger, attempts, used>>
                \/ /\ op' = NoOp /\ UNCHANGED <<attempts, used>> /\ eng'.phase = "blocked"
                   /\ ledger' = [ledger EXCEPT !.unknown = TRUE]
                \/ \E q \in Recipients : TickSends(q)
  <2>1. r \in Recipients
    BY <1>3, EngineIs
  <2>2. CASE op' = NoOp /\ eng' = Passed(r) /\ UNCHANGED <<ledger, attempts, used>>
    BY <1>3, <2>2, PassedIs DEF EngineGoesOn
  <2>3. CASE op' = NoOp /\ UNCHANGED <<eng, ledger, attempts, used>>
    BY <1>3, <2>3, EngineIs DEF EngineGoesOn
  <2>4. CASE /\ eng.phase = "running" /\ Guarded(r)
             /\ op' = [op EXCEPT !.at = "send", !.to = r]
             /\ attempts' = [attempts EXCEPT ![r] = @ + 1]
             /\ used' = used + (IF eng.plan.by = "acquisition" THEN 1 ELSE 0)
             /\ UNCHANGED <<eng, ledger>>
    <3>1. op' \in Ops /\ op'.kind = "tick" /\ op'.at = "send" /\ op'.to = r
      BY <1>1, <2>1, <2>4 DEF Ops
    <3>2. op' # NoOp
      BY <3>1 DEF NoOp
    <3>3. TickSends(r)
      BY <2>1, <2>4, <3>1, <3>2 DEF TickSends, Guarded
    <3> QED  BY <1>3, <2>1, <2>4, <3>3, EngineIs DEF EngineGoesOn
  <2>5. CASE /\ op' = NoOp /\ ledger' = [ledger EXCEPT !.unknown = TRUE]
             /\ eng' = [eng EXCEPT !.phase = "blocked"] /\ UNCHANGED <<attempts, used>>
    BY <1>3, <2>5, EngineIs DEF EngineGoesOn
  <2> QED  BY <1>5, <2>2, <2>3, <2>4, <2>5 DEF TickPasses
<1> QED  BY <1>1, <1>2, <1>4, <1>5 DEF TickChecked

\* A turn that may go on belongs to an acquisition that runs.
LEMMA TurnIs ==
    ASSUME IInv, tk.at # "idle"
    PROVE  /\ tk \in Turns /\ tk.acqCut \in BOOLEAN
           /\ tk.at \in {"discover", "monitor", "outreach", "preview", "previewed", "starting", "sending"} =>
                tk.by = "acquisition" /\ (~tk.acqCut => acq.phase = "running")
<1>1. tk \in Turns /\ tk.acqCut \in BOOLEAN
  BY DEF IInv, TurnTyped, Passes, IdleTurn, Turns
<1> QED  BY <1>1 DEF IInv, TurnFits

AcquisitionRests ==
    /\ acq' \in Runners /\ acq'.signal = acq.signal /\ acq'.login = acq.login
    /\ acq'.expired = acq.expired /\ acq'.phase \in {acq.phase, "completed", "blocked"}

LEMMA FailsDoes ==
    ASSUME AcqTyped
    PROVE  Fails \/ FailsUnknown => AcquisitionRests /\ tk' = IdleTurn
BY TurnFails DEF Fails, FailsUnknown, AcquisitionRests

LEMMA MonitorHookDoes ==
    ASSUME IInv, MonitorHook
    PROVE  /\ tk \in Turns /\ tk.at = "monitor" /\ tk.by = "acquisition"
           /\ \/ /\ tk.acqCut = FALSE /\ acq' = acq /\ acq.phase = "running"
                 /\ tk' \in Turns /\ tk'.at \in {"scan", "outreach"} /\ tk'.by = "acquisition"
                 /\ tk'.acqCut = FALSE /\ tk'.to = tk.to
                 /\ mon' \in Monitors
                 /\ mon' = mon \/ (mon'.phase = "running" /\ mon'.login = acq.login)
              \/ AcquisitionRests /\ tk' = IdleTurn /\ mon' = mon
<1>1. tk.at = "monitor"
  BY DEF MonitorHook
<1>2. tk \in Turns /\ tk.by = "acquisition" /\ tk.acqCut \in BOOLEAN /\ (~tk.acqCut => acq.phase = "running")
  BY <1>1, TurnIs
<1>3. mon \in Monitors /\ acq \in Runners
  BY DEF IInv, MonTyped, AcqTyped
<1>4. CASE /\ SignalLive /\ tk' = [tk EXCEPT !.at = "scan", !.monCut = FALSE] /\ acq' = acq
           /\ mon' = (IF mon.phase = "running" THEN mon
                      ELSE [mon EXCEPT !.phase = "running", !.login = acq.login, !.by = "acquisition"])
  <2>1. tk.acqCut = FALSE
    BY <1>2, <1>4 DEF SignalLive
  <2>2. tk' \in Turns /\ tk'.at = "scan" /\ tk'.by = tk.by /\ tk'.acqCut = tk.acqCut /\ tk'.to = tk.to
    BY <1>2, <1>4 DEF Turns
  <2>3. mon' \in Monitors /\ (mon' = mon \/ (mon'.phase = "running" /\ mon'.login = acq.login))
    BY <1>3, <1>4 DEF Monitors, Runners, Phases, Planners
  <2> QED  BY <1>1, <1>2, <1>4, <2>1, <2>2, <2>3
<1>5. CASE SignalLive /\ Goes("outreach") /\ UNCHANGED <<acq, mon>>
  <2>1. tk.acqCut = FALSE
    BY <1>2, <1>5 DEF SignalLive
  <2>2. tk' \in Turns /\ tk'.at = "outreach" /\ tk'.by = tk.by /\ tk'.acqCut = tk.acqCut /\ tk'.to = tk.to
    BY <1>2, <1>5 DEF Turns, Goes
  <2> QED  BY <1>1, <1>2, <1>3, <1>5, <2>1, <2>2
<1>6. CASE Fails /\ UNCHANGED mon
  BY <1>1, <1>2, <1>6, FailsDoes DEF IInv
<1> QED  BY <1>4, <1>5, <1>6 DEF MonitorHook

LEMMA OutreachDoes ==
    ASSUME IInv, Outreach
    PROVE  /\ tk \in Turns /\ tk.at = "outreach" /\ tk.by = "acquisition"
           /\ \/ AcquisitionRests /\ tk' = IdleTurn /\ UNCHANGED money
              \/ /\ tk.acqCut = FALSE /\ acq' = acq /\ acq.phase = "running"
                 /\ tk' \in Turns /\ tk'.at = "preview" /\ tk'.by = "acquisition"
                 /\ tk'.acqCut = FALSE /\ tk'.to \in Recipients
                 /\ UsedToday < MaxPerDay /\ Reserve /\ UNCHANGED <<day, attempts>>
<1>1. tk.at = "outreach"
  BY DEF Outreach
<1>2. tk \in Turns /\ tk.by = "acquisition" /\ tk.acqCut \in BOOLEAN /\ (~tk.acqCut => acq.phase = "running")
  BY <1>1, TurnIs
<1>3. acq \in Runners /\ AcqTyped
  BY DEF IInv, AcqTyped
<1>4. CASE tk' = IdleTurn /\ UNCHANGED <<acq, money>>
  BY <1>1, <1>2, <1>3, <1>4 DEF AcquisitionRests
<1>5. CASE (Fails \/ FailsUnknown) /\ UNCHANGED money
  BY <1>1, <1>2, <1>3, <1>5, FailsDoes
<1>6. ASSUME NEW r \in Recipients, tk' = [tk EXCEPT !.at = "preview", !.to = r], SignalLive,
             UsedToday < MaxPerDay, Reserve, UNCHANGED <<acq, day, attempts>>
      PROVE  /\ tk.acqCut = FALSE /\ acq' = acq /\ acq.phase = "running"
             /\ tk' \in Turns /\ tk'.at = "preview" /\ tk'.by = "acquisition"
             /\ tk'.acqCut = FALSE /\ tk'.to \in Recipients
  <2>1. tk.acqCut = FALSE
    BY <1>2, <1>6 DEF SignalLive
  <2>2. tk' \in Turns /\ tk'.at = "preview" /\ tk'.by = tk.by /\ tk'.acqCut = tk.acqCut /\ tk'.to = r
    BY <1>2, <1>6 DEF Turns
  <2> QED  BY <1>2, <1>6, <2>1, <2>2
<1> QED  BY <1>1, <1>2, <1>4, <1>5, <1>6 DEF Outreach

\* The preview of the acquisition is made; whether its turn goes on is another
\* matter.
LEMMA AcquisitionPreviewsDoes ==
    ASSUME IInv, AcquisitionPreviews
    PROVE  /\ tk \in Turns /\ tk.at = "preview" /\ tk.by = "acquisition"
           /\ \/ AcquisitionRests /\ tk' = IdleTurn
              \/ /\ acq' = acq /\ tk' \in Turns /\ tk'.at = "previewed" /\ tk'.by = "acquisition"
                 /\ tk'.acqCut = tk.acqCut
           /\ \/ UNCHANGED <<preview, eng>>
              \/ /\ op = NoOp /\ ~ledger.unknown
                 /\ eng' \in Engines /\ eng'.phase = "draft" /\ eng'.plan.by = "acquisition"
                 /\ eng'.plan.recipients = {tk.to}
<1>1. tk.at = "preview"
  BY DEF AcquisitionPreviews
<1>2. tk \in Turns /\ tk.by = "acquisition"
  BY <1>1, TurnIs
<1>3. AcqTyped /\ TurnTyped /\ eng \in Engines /\ tk.to \in Recipients
  BY <1>1 DEF IInv, EngTyped, TurnTyped
<1>4. CASE Fails /\ UNCHANGED <<preview, eng>>
  BY <1>1, <1>2, <1>3, <1>4, FailsDoes
<1>5. CASE /\ EngineFree /\ Previewable
           /\ preview' = [by |-> "acquisition", recipients |-> {tk.to}]
           /\ eng' = [eng EXCEPT !.phase = "draft", !.plan = preview']
           /\ IF SignalLive THEN Goes("previewed") /\ UNCHANGED acq ELSE Fails
  <2>1. op = NoOp /\ ~ledger.unknown
    BY <1>5 DEF EngineFree, Previewable
  <2>2. preview' \in Plans /\ preview'.by = "acquisition" /\ preview'.recipients = {tk.to}
    BY <1>3, <1>5 DEF Plans, Planners
  <2>3. eng' \in Engines /\ eng'.phase = "draft" /\ eng'.plan = preview'
    BY <1>3, <1>5, <2>2 DEF Engines
  <2>4. CASE Goes("previewed") /\ UNCHANGED acq
    BY <1>1, <1>2, <1>3, <2>1, <2>2, <2>3, <2>4 DEF Turns, Goes
  <2>5. CASE Fails
    BY <1>1, <1>2, <1>3, <2>1, <2>2, <2>3, <2>5, FailsDoes
  <2> QED  BY <1>5, <2>4, <2>5
<1> QED  BY <1>4, <1>5 DEF AcquisitionPreviews

\* The acquisition asks the engine to start, or its turn is over.
LEMMA AcquisitionAsksStartDoes ==
    ASSUME IInv, AcquisitionAsksStart
    PROVE  /\ tk \in Turns /\ tk.at = "previewed" /\ tk.by = "acquisition" /\ eng' = eng
           /\ \/ AcquisitionRests /\ tk' = IdleTurn /\ op' = op
              \/ /\ op = NoOp /\ ~ledger.unknown /\ acq' = acq
                 /\ tk' \in Turns /\ tk'.at = "starting" /\ tk'.by = "acquisition"
                 /\ tk'.acqCut = tk.acqCut
                 /\ op' \in Ops /\ op' # NoOp /\ op'.kind = "start" /\ op'.at = "check"
                 /\ op'.who = "acquisition" /\ op'.login = acq.login
<1>1. tk.at = "previewed" /\ eng' = eng
  BY DEF AcquisitionAsksStart
<1>2. tk \in Turns /\ tk.by = "acquisition"
  BY <1>1, TurnIs
<1>3. acq \in Runners /\ AcqTyped /\ TurnTyped
  BY DEF IInv, AcqTyped
<1>4. CASE Fails /\ UNCHANGED op
  BY <1>1, <1>2, <1>3, <1>4, FailsDoes
<1>5. CASE /\ EngineFree /\ eng.phase = "draft"
           /\ op' = [kind |-> "start", at |-> "check", who |-> "acquisition", login |-> acq.login,
                     cancelled |-> FALSE, to |-> "nobody"]
           /\ Goes("starting") /\ UNCHANGED acq
  <2>1. op = NoOp /\ ~ledger.unknown
    BY <1>5 DEF EngineFree, IInv, UnknownRests
  <2>2. tk' \in Turns /\ tk'.at = "starting" /\ tk'.by = tk.by /\ tk'.acqCut = tk.acqCut
    BY <1>2, <1>5 DEF Turns, Goes
  <2>3. acq.login \in Signals
    BY <1>3 DEF Runners
  <2>4. op' \in Ops /\ op'.kind = "start" /\ op'.at = "check" /\ op'.who = "acquisition" /\ op'.login = acq.login
    BY <1>5, <2>3 DEF Ops
  <2> QED  BY <1>1, <1>2, <1>5, <2>1, <2>2, <2>4 DEF NoOp
<1> QED  BY <1>4, <1>5 DEF AcquisitionAsksStart

\* The engine is started and goes on with its first tick, or the turn is over.
LEMMA AcquisitionStartsDoes ==
    ASSUME IInv, AcquisitionStarts
    PROVE  /\ tk \in Turns /\ tk.at = "starting" /\ tk.by = "acquisition"
           /\ op # NoOp /\ op \in Ops /\ op.kind = "start" /\ op.at # "send" /\ ~ledger.unknown
           /\ eng' \in Engines /\ eng'.plan = eng.plan
           /\ \/ eng' = eng
              \/ ~op.cancelled /\ Checked /\ eng'.phase = "running" /\ eng'.login = op.login
           /\ \/ AcquisitionRests /\ tk' = IdleTurn /\ op' = NoOp
              \/ /\ tk.acqCut = FALSE /\ acq' = acq /\ acq.phase = "running"
                 /\ tk' \in Turns /\ tk'.at = "sending" /\ tk'.by = "acquisition" /\ tk'.acqCut = FALSE
                 /\ op' \in Operations /\ op' # NoOp /\ op'.kind = "tick" /\ op'.at = "check"
<1>1. tk.at = "starting" /\ op # NoOp
  BY DEF AcquisitionStarts
<1>2. tk \in Turns /\ tk.by = "acquisition" /\ tk.acqCut \in BOOLEAN /\ (~tk.acqCut => acq.phase = "running")
  BY <1>1, TurnIs
<1>3. op \in Ops /\ op.kind = "start" /\ op.at # "send" /\ op.login \in Signals /\ ~ledger.unknown
  BY <1>1 DEF IInv, OpTyped, Operations, Ops, OpWaits, OpSends, UnknownRests
<1>4. AcqTyped /\ EngTyped /\ eng \in Engines
  BY DEF IInv, EngTyped
<1>5. Started(op) \in Engines /\ Started(op).phase = "running" /\ Started(op).login = op.login
      /\ Started(op).plan = eng.plan
  BY <1>3, <1>4, StartedIs
<1>6. CASE op' = NoOp /\ Fails
  BY <1>1, <1>2, <1>3, <1>4, <1>5, <1>6, FailsDoes DEF AcquisitionStarts
<1>7. CASE /\ Checked /\ ~op.cancelled /\ eng' = Started(op) /\ SignalLive
           /\ TickBegins("acquisition") /\ Goes("sending") /\ UNCHANGED acq
  <2>1. tk.acqCut = FALSE
    BY <1>2, <1>7 DEF SignalLive
  <2>2. tk' \in Turns /\ tk'.at = "sending" /\ tk'.by = tk.by /\ tk'.acqCut = tk.acqCut
    BY <1>2, <1>7 DEF Turns, Goes
  <2>3. op' \in Operations /\ op' # NoOp /\ op'.kind = "tick" /\ op'.at = "check"
    BY <1>4, <1>7, TickBeginsIs
  <2> QED  BY <1>1, <1>2, <1>3, <1>5, <1>7, <2>1, <2>2, <2>3
<1> QED  BY <1>6, <1>7 DEF AcquisitionStarts

\* The engine is paused, or left alone: what it does next it did before.
EngineRests ==
    /\ eng' \in Engines /\ eng'.plan = eng.plan /\ eng'.login = eng.login
    /\ eng'.phase \in {eng.phase, "paused"}
    /\ op' \in Operations /\ (op' = NoOp <=> op = NoOp) /\ ledger' = ledger
    /\ op # NoOp => /\ op'.kind = op.kind /\ op'.at = op.at /\ op'.who = op.who
                    /\ op'.login = op.login /\ op'.to = op.to
                    /\ ~op'.cancelled => ~op.cancelled

LEMMA EngineRestsIf ==
    ASSUME EngTyped, OpTyped
    PROVE  Pause \/ UNCHANGED engine => EngineRests
<1>1. CASE Pause
  BY <1>1, EnginePauses DEF EngineRests
<1>2. CASE UNCHANGED engine
  BY <1>2 DEF engine, EngTyped, OpTyped, EngineRests
<1> QED  BY <1>1, <1>2

\* The turn is told to end, or left alone.
TurnRests ==
    /\ tk' \in Passes /\ tk'.at = tk.at /\ tk'.by = tk.by
    /\ tk.at # "idle" => tk'.to = tk.to /\ (tk.acqCut => tk'.acqCut)

LEMMA TurnRestsIf ==
    ASSUME TurnTyped, NEW fields
    PROVE  tk' = Cut(fields) \/ UNCHANGED tk => TurnRests
<1>1. CASE tk' = Cut(fields)
  BY <1>1, TurnIsCut DEF TurnRests
<1>2. CASE UNCHANGED tk
  BY <1>2 DEF TurnTyped, TurnRests
<1> QED  BY <1>1, <1>2

\* A command is asked for: what ran is stopped.
LEMMA AskDoes ==
    ASSUME IInv, NEW c \in Slots, NEW kind \in Kinds, Ask(c, kind)
    PROVE  /\ session.on /\ cmds[c] = NoCommand /\ UNCHANGED <<login, preview, money, tail>>
           /\ cmds' \in [Slots -> {NoCommand} \cup Commands]
           /\ cmds'[c].login = session.number /\ \A d \in Slots \ {c} : cmds'[d] = cmds[d]
           /\ cmds'[c].at \in {"rebind", "settle"}
           /\ cmds'[c].at = "settle" => entrySignal = session.number
           /\ acq'.phase = "paused" /\ (mon'.phase = "paused" \/ mon' = mon)
           /\ EngineRests /\ TurnRests
<1>1. /\ LoginTyped /\ AcqTyped /\ MonTyped /\ EngTyped /\ OpTyped /\ CmdsTyped /\ TurnTyped
      /\ session.number \in Signals
  BY DEF IInv, LoginTyped
<1>2. PICK at \in {"rebind", "settle"} :
          /\ cmds' = [cmds EXCEPT ![c] = [kind |-> kind, login |-> session.number, at |-> at]]
          /\ at = "settle" => entrySignal = session.number
  BY DEF Ask
<1>3. [kind |-> kind, login |-> session.number, at |-> at] \in Commands
  BY <1>1 DEF Commands
<1>4. /\ cmds' \in [Slots -> {NoCommand} \cup Commands]
      /\ cmds'[c] = [kind |-> kind, login |-> session.number, at |-> at]
      /\ \A d \in Slots \ {c} : cmds'[d] = cmds[d]
  BY <1>1, <1>2, <1>3 DEF CmdsTyped
<1>5. EngineRests /\ TurnRests
  BY <1>1, EngineRestsIf, TurnRestsIf DEF Ask, StopAll
<1>6. acq'.phase = "paused" /\ (mon'.phase = "paused" \/ mon' = mon)
  BY <1>1, AcquisitionStops, MonitorStops DEF Ask, StopAll
<1> QED  BY <1>2, <1>4, <1>5, <1>6 DEF Ask

\* The entry works for the login of the command, whose end it now hears.
LEMMA RebindEntryDoes ==
    ASSUME IInv, NEW c \in Slots, RebindEntry(c)
    PROVE  /\ cmds[c] \in Commands /\ cmds[c].at = "rebindEngine" /\ op = NoOp
           /\ entrySignal' = cmds[c].login /\ cmds[c].login \in Signals
           /\ cmds' \in [Slots -> {NoCommand} \cup Commands]
           /\ \A d \in Slots \ {c} : cmds'[d] = cmds[d]
           /\ \/ /\ Live(cmds[c].login) /\ listens' = listens \cup {cmds[c].login}
                 /\ cmds'[c].at = "settle" /\ cmds'[c].login = cmds[c].login
                 /\ acq'.phase = "paused" /\ mon'.phase = "paused"
              \/ /\ ~Live(cmds[c].login) /\ UNCHANGED <<listens, timers>> /\ cmds'[c] = NoCommand
           /\ EngineRests /\ TurnRests
<1>1. /\ AcqTyped /\ MonTyped /\ EngTyped /\ OpTyped /\ CmdsTyped /\ TurnTyped
  BY DEF IInv
<1>2. cmds[c].at = "rebindEngine" /\ op = NoOp /\ entrySignal' = cmds[c].login
  BY DEF RebindEntry, EngineFree
<1>3. cmds[c] \in Commands /\ cmds[c] # NoCommand /\ cmds[c].login \in Signals
  BY <1>2, CommandIs
<1>4. CASE Live(cmds[c].login) /\ StopAll /\ At(c, "settle") /\ listens' = listens \cup {cmds[c].login}
  <2>1. EngineRests /\ TurnRests
    BY <1>1, <1>4, EngineRestsIf, TurnRestsIf DEF StopAll
  <2>2. acq'.phase = "paused" /\ mon'.phase = "paused"
    BY <1>1, <1>4, AcquisitionStops, MonitorStops DEF StopAll
  <2> QED  BY <1>1, <1>2, <1>3, <1>4, <2>1, <2>2, CommandGoes
<1>5. CASE ~Live(cmds[c].login) /\ Ends(c) /\ UNCHANGED <<timers, engine, listens>>
  BY <1>1, <1>2, <1>3, <1>5, CommandEnds, EngineRestsIf, TurnRestsIf DEF timers
<1> QED  BY <1>4, <1>5 DEF RebindEntry

\* The scheduler looks whose login it is.
LEMMA AuthorizedDoes ==
    ASSUME IInv, Authorized
    PROVE  /\ tk \in Turns /\ tk.at = "auth" /\ EngineRests
           /\ \/ tk' = IdleTurn
              \/ /\ tk' \in Turns /\ tk'.at \in {"models", "pausing"} /\ tk'.by = tk.by
                 /\ tk'.at = "pausing" => tk.by = "acquisition"
           /\ acq' \in Runners /\ (acq' = acq \/ acq'.phase = "paused")
           /\ mon' \in Monitors /\ (mon' = mon \/ mon'.phase = "paused")
<1>1. /\ AcqTyped /\ MonTyped /\ EngTyped /\ OpTyped /\ TurnTyped /\ tk.at = "auth"
  BY DEF IInv, Authorized
<1>2. tk \in Turns
  BY <1>1, TurnIs
<1>3. EngineRests
  BY <1>1, EngineRestsIf DEF Authorized, engine
<1>4. acq' \in Runners /\ (acq' = acq \/ acq'.phase = "paused")
  BY <1>1, AcquisitionStops DEF Authorized, AcqTyped
<1>5. mon' \in Monitors /\ (mon' = mon \/ mon'.phase = "paused")
  BY <1>1, MonitorStops DEF Authorized, MonTyped
<1>6. \A at \in {"models", "pausing"} : Goes(at) => tk' \in Turns /\ tk'.at = at /\ tk'.by = tk.by
  BY <1>2 DEF Goes, Turns
<1>7. \/ tk' = IdleTurn
      \/ /\ tk' \in Turns /\ tk'.at \in {"models", "pausing"} /\ tk'.by = tk.by
         /\ tk'.at = "pausing" => tk.by = "acquisition"
  BY <1>6 DEF Authorized
<1> QED  BY <1>1, <1>2, <1>3, <1>4, <1>5, <1>7

\* A step that leaves the budget alone and gives the acquisition nothing to send.
LEMMA BudgetStays ==
    ASSUME IInv, UNCHANGED <<used, budget>>, ledger'.unknown \/ ledger' = ledger,
           eng'.plan = eng.plan, tk'.at = "preview" => tk.at = "preview",
           op # NoOp /\ op.at = "send" => ledger'.unknown \/ (op' # NoOp /\ op'.at = "send")
    PROVE  BudgetFits'
<1>1. used \in Nat /\ budget.attempts \in Nat
  BY DEF IInv, MoneyTyped
<1>2. Outstanding' => Outstanding
  BY DEF Outstanding
<1> QED  BY <1>1, <1>2 DEF IInv, BudgetFits

\* The steps that may pause the engine and do nothing else to it.
Pausing ==
    \/ Logout \/ Authorized \/ Withdrawn
    \/ \E c \in Slots : \/ PauseInBody(c) \/ RebindMonitor(c) \/ RebindEntry(c)
                        \/ \E kind \in Kinds : Ask(c, kind)

LEMMA PausingDoes ==
    ASSUME IInv, Pausing
    PROVE  /\ EngineRests /\ (tk'.at = "preview" => tk.at = "preview")
           /\ UNCHANGED <<candidates, money>>
<1>1. /\ EngTyped /\ OpTyped /\ TurnTyped
  BY DEF IInv
<1>2. CASE Logout
  BY <1>1, <1>2, EngineRestsIf, TurnRestsIf DEF Logout, StopAll, TurnRests, timers, workspace
<1>3. CASE Authorized
  BY <1>3, AuthorizedDoes, IdleTurnIs DEF Authorized, workspace
<1>4. CASE Withdrawn
  BY <1>1, <1>4, EngineRestsIf, TurnGoes DEF Withdrawn, workspace
<1>5. ASSUME NEW c \in Slots, PauseInBody(c) \/ RebindMonitor(c)
      PROVE  /\ EngineRests /\ (tk'.at = "preview" => tk.at = "preview")
             /\ UNCHANGED <<candidates, money>>
  BY <1>1, <1>5, EngineRestsIf, TurnRestsIf
  DEF PauseInBody, RebindMonitor, TurnRests, timers, workspace
<1>6. ASSUME NEW c \in Slots, RebindEntry(c)
      PROVE  /\ EngineRests /\ (tk'.at = "preview" => tk.at = "preview")
             /\ UNCHANGED <<candidates, money>>
  BY <1>6, RebindEntryDoes DEF RebindEntry, TurnRests, workspace
<1>7. ASSUME NEW c \in Slots, NEW kind \in Kinds, Ask(c, kind)
      PROVE  /\ EngineRests /\ (tk'.at = "preview" => tk.at = "preview")
             /\ UNCHANGED <<candidates, money>>
  BY <1>7, AskDoes DEF Ask, TurnRests, workspace
<1> QED  BY <1>2, <1>3, <1>4, <1>5, <1>6, <1>7 DEF Pausing

-----------------------------------------------------------------------------
(* The service drives the workspace *)

QuietWork ==
    \/ ChangeWatches \/ WorkspaceRestart \/ UNCHANGED workspace
    \/ \E w \in Callers : (\E k \in Comments : Analyze(w, k)) \/ AnalysisFails(w)
                          \/ \E class \in Classes : AnalysisEnds(w, class)
    \/ \E r \in Recipients : MarkContacted(r)

\* Changes and reviews are made while the engine does nothing.
LEMMA ServiceWorks ==
    ASSUME IInv, [Next]_vars
    PROVE  QuietWork \/ (op = NoOp /\ WorkspaceNext)
<1> USE DEF workspace, context, login, timers, engine, money, requests
<1>1. ASSUME NEW c \in Slots, Change(c) PROVE op = NoOp /\ (WorkspaceNext \/ UNCHANGED workspace)
  BY <1>1 DEF Change, Paused, EngineFree, WorkspaceNext
<1>2. ASSUME NEW c \in Slots, ChangeWatch(c) \/ AskAnalysis(c) \/ EndAnalysis(c) PROVE QuietWork
  <2>1. c \in Callers
    OBVIOUS
  <2> QED  BY <1>2, <2>1 DEF ChangeWatch, AskAnalysis, EndAnalysis, QuietWork
<1>3. CASE Scanned \/ Classified \/ MonitorFails
  <2>1. "monitor" \in Callers
    OBVIOUS
  <2> QED  BY <1>3, <2>1 DEF Scanned, MonitorGoesOn, Classified, MonitorFails, QuietWork
<1>4. CASE Sent
  <2>1. op.to \in Recipients
    BY <1>4 DEF Sent, IInv, OpTyped
  <2> QED  BY <1>4, <2>1 DEF Sent, QuietWork
<1>5. CASE Restart
  BY <1>5 DEF Restart, QuietWork
<1>6. CASE Logout \/ Login \/ Expire \/ NextDay \/ TickChecked \/ SendUnknown \/ UNCHANGED vars
  BY <1>6 DEF Logout, Login, Expire, NextDay, TickChecked, SendUnknown, vars, QuietWork
<1>7. ASSUME NEW c \in Slots,
             \/ RebindAcquisition(c) \/ RebindMonitor(c) \/ RebindEntry(c) \/ Settle(c)
             \/ BodyFails(c) \/ StartAcquisition(c) \/ StartMonitor(c) \/ PauseAcquisition(c)
             \/ PauseInBody(c) \/ Preview(c) \/ StartSending(c) \/ StartChecked(c)
             \/ \E kind \in Kinds : Ask(c, kind)
      PROVE  UNCHANGED workspace
  BY <1>7 DEF RebindAcquisition, RebindMonitor, RebindEntry, Settle, Waits, BodyFails,
     StartAcquisition, StartMonitor, PauseAcquisition, PauseInBody, Preview,
     StartSending, StartChecked, Ask
<1>8. CASE \/ TurnBegins \/ Authorized \/ Withdrawn \/ PausedTurn \/ AcquisitionTick
           \/ Discovers \/ MonitorHook \/ MonitorTick \/ Outreach \/ AcquisitionPreviews \/ AcquisitionAsksStart
           \/ AcquisitionStarts \/ AcquisitionSent \/ EngineTurn \/ EngineTurnEnds
  <2>1. UNCHANGED workspace
    BY <1>8 DEF TurnBegins, Authorized, Withdrawn, PausedTurn, AcquisitionTick, Discovers,
       MonitorHook, MonitorTick, Outreach, AcquisitionPreviews, AcquisitionAsksStart, AcquisitionStarts,
       AcquisitionSent, EngineTurn, EngineTurnEnds
  <2> QED  BY <2>1 DEF QuietWork
<1> HIDE DEF workspace
<1> QED
  BY <1>1, <1>2, <1>3, <1>4, <1>5, <1>6, <1>7, <1>8
  DEF Next, Command, Scheduler, Sending, QuietWork

LEMMA KeepsWorkspaceInv ==
    ASSUME IInv, [Next]_vars
    PROVE  /\ WorkspaceInv'
           /\ \A r \in Recipients :
                 candidates[r].review \in {"contacted", "opted-out"} =>
                     candidates'[r].review \in {"contacted", "opted-out"}
<1>1. [WorkspaceNext]_workspace
  BY ServiceWorks DEF QuietWork, WorkspaceNext
<1> QED  BY <1>1, WorkspaceStep DEF IInv

\* While the engine does something nobody opts out, and no candidate goes.
LEMMA CandidatesStay ==
    ASSUME IInv, [Next]_vars, op # NoOp, NEW r \in Recipients,
           candidates[r].review \notin {"none", "opted-out"}
    PROVE  candidates'[r].review \notin {"none", "opted-out"}
<1> DEFINE c == candidates[r]
<1>1. /\ c \in {NoCandidate} \cup [keys : SUBSET Comments, version : Nat, review : Reviews]
      /\ candidates \in [Recipients ->
            {NoCandidate} \cup [keys : SUBSET Comments, version : Nat, review : Reviews]]
  BY DEF IInv, WorkspaceInv, WorkspaceTypes
<1>2. c # NoCandidate /\ c \in [keys : SUBSET Comments, version : Nat, review : Reviews]
  BY <1>1 DEF NoCandidate
<1>3. CASE candidates' = candidates
  BY <1>3
<1>4. ASSUME NEW w \in Callers, NEW class \in Classes, AnalysisEnds(w, class)
      PROVE  candidates'[r].review \notin {"none", "opted-out"}
  <2> DEFINE a == analyses[w]
             d == CandidateAfter(candidates[Author[a.key]], a, class)
  <2>1. candidates' = [candidates EXCEPT ![Author[a.key]] = d]
    BY <1>4 DEF AnalysisEnds
  <2>2. CandidateAfter(c, a, class).review \notin {"none", "opted-out"}
    <3>1. CASE class = "excluded"
      BY <1>2, <3>1 DEF CandidateAfter
    <3>2. CASE class # "excluded"
      BY <1>2, <3>2 DEF CandidateAfter
    <3> QED  BY <3>1, <3>2
  <2> QED  BY <1>1, <2>1, <2>2
<1>5. ASSUME NEW q \in Recipients, MarkContacted(q)
      PROVE  candidates'[r].review \notin {"none", "opted-out"}
  BY <1>1, <1>2, <1>5 DEF MarkContacted, ContactedAfter
<1>6. QuietWork
  BY ServiceWorks
<1> QED
  BY <1>3, <1>4, <1>5, <1>6
  DEF QuietWork, ChangeWatches, WorkspaceRestart, Analyze, AnalysisFails, workspace

-----------------------------------------------------------------------------
(* Every step keeps IInv *)

LEMMA KeepsLoginTyped == IInv /\ [Next]_vars => LoginTyped'
<1> SUFFICES ASSUME IInv, [Next]_vars PROVE LoginTyped'
  OBVIOUS
<1> USE DEF login, timers, engine, money, requests
<1>1. CASE Logout
  BY <1>1
  DEF Logout, IInv, LoginTyped
<1>2. CASE Login
  BY <1>2 DEF Login, LoginTyped, IInv, Signals
<1>3. CASE Restart
  BY <1>3 DEF Restart, Volatile, LoginTyped, IInv, Signals
<1>4. ASSUME NEW c \in Slots, RebindEntry(c) PROVE LoginTyped'
  BY <1>4, RebindEntryDoes
  DEF RebindEntry, IInv, LoginTyped
<1>5. CASE \/ (\E c \in Slots : (\E kind \in Kinds : Ask(c, kind)))
           \/ (\E c \in Slots : RebindAcquisition(c))
           \/ (\E c \in Slots : RebindMonitor(c))
           \/ (\E c \in Slots : Settle(c))
           \/ (\E c \in Slots : BodyFails(c))
           \/ (\E c \in Slots : StartAcquisition(c))
           \/ (\E c \in Slots : StartMonitor(c))
           \/ (\E c \in Slots : PauseAcquisition(c))
           \/ (\E c \in Slots : PauseInBody(c))
           \/ (\E c \in Slots : Change(c))
           \/ (\E c \in Slots : ChangeWatch(c))
           \/ (\E c \in Slots : Preview(c))
           \/ (\E c \in Slots : StartSending(c))
           \/ (\E c \in Slots : StartChecked(c))
           \/ (\E c \in Slots : AskAnalysis(c))
           \/ (\E c \in Slots : EndAnalysis(c))
  <2>1. UNCHANGED <<session, entrySignal, listens>>
    BY <1>5
    DEF Ask, RebindAcquisition, RebindMonitor, Settle, Waits, BodyFails,
       StartAcquisition, StartMonitor, PauseAcquisition, PauseInBody, Change,
       ChangeWatch, Preview, StartSending, StartChecked, AskAnalysis,
       EndAnalysis
  <2> QED  BY <2>1 DEF IInv, LoginTyped
<1>6. CASE \/ Expire \/ NextDay \/ TurnBegins \/ Authorized
           \/ Withdrawn \/ PausedTurn \/ AcquisitionTick \/ Discovers
           \/ MonitorHook \/ MonitorTick \/ Scanned \/ Classified
           \/ MonitorFails \/ Outreach \/ AcquisitionPreviews \/ AcquisitionAsksStart
           \/ AcquisitionStarts \/ AcquisitionSent \/ EngineTurn
           \/ EngineTurnEnds \/ TickChecked \/ Sent \/ SendUnknown
           \/ UNCHANGED vars
  <2>1. UNCHANGED <<session, entrySignal, listens>>
    BY <1>6
    DEF Expire, NextDay, TurnBegins, Authorized, Withdrawn, PausedTurn,
       AcquisitionTick, Discovers, MonitorHook, MonitorTick, Scanned,
       MonitorGoesOn, Classified, MonitorFails, Outreach, Reserve,
       AcquisitionPreviews, AcquisitionAsksStart, AcquisitionStarts, AcquisitionSent, EngineTurn,
       EngineTurnEnds, TickChecked, TickPasses, Sent, SendUnknown, vars
  <2> QED  BY <2>1 DEF IInv, LoginTyped
<1> QED
  BY <1>1, <1>2, <1>3, <1>4, <1>5, <1>6
  DEF Next, Command, Scheduler, Sending

LEMMA KeepsAcqTyped == IInv /\ [Next]_vars => AcqTyped'
<1> SUFFICES ASSUME IInv, [Next]_vars PROVE AcqTyped'
  OBVIOUS
<1> USE DEF login, timers, engine, money, requests
<1>1. CASE Restart
  BY <1>1
  DEF Restart, Volatile, AcqTyped, IInv, Runners, Phases, LoginTyped, Signals
<1>2. CASE Expire
  BY <1>2
  DEF Expire, IInv, AcqTyped, Runners
<1>3. ASSUME NEW c \in Slots, (\E kind \in Kinds : Ask(c, kind)) PROVE AcqTyped'
  BY <1>3
  DEF Ask, StopAll, StopAcquisition, StopMonitor, Pause, AcqTyped, IInv,
      Runners, Phases, LoginTyped, CmdsTyped, Commands, Signals
<1>4. ASSUME NEW c \in Slots, RebindAcquisition(c) PROVE AcqTyped'
  BY <1>4, CommandIs
  DEF RebindAcquisition, IInv, AcqTyped, Runners, Phases
<1>5. CASE \/ Logout \/ (\E c \in Slots : RebindEntry(c))
  BY <1>5
  DEF Logout, RebindEntry, StopAll, StopAcquisition, AcqTyped, IInv, Runners,
      Phases
<1>6. ASSUME NEW c \in Slots, StartAcquisition(c) PROVE AcqTyped'
  BY <1>6, CommandIs
  DEF StartAcquisition, Body, IInv, AcqTyped, Runners, Phases
<1>7. CASE Authorized
  BY <1>7 DEF Authorized, StopAcquisition, AcqTyped, IInv, Runners, Phases
<1>8. CASE AcquisitionTick
  BY <1>8 DEF AcquisitionTick, AcqTyped, IInv, Runners, Phases
<1>9. CASE Outreach
  BY <1>9, OutreachDoes
  DEF AcquisitionRests, IInv, AcqTyped
<1>10. CASE \/ Discovers \/ MonitorHook \/ MonitorFails
            \/ AcquisitionPreviews \/ AcquisitionAsksStart \/ AcquisitionStarts
  BY <1>10
  DEF Discovers, MonitorHook, MonitorFails, AcquisitionPreviews, AcquisitionAsksStart,
      AcquisitionStarts, Fails, FailedTo, AcqTyped, IInv, Runners, Phases
<1>11. CASE AcquisitionSent
  BY <1>11
  DEF AcquisitionSent, Fails, FailedTo, FailsUnknown, AcqTyped, IInv, Runners,
      Phases
<1>12. CASE \/ (\E c \in Slots : RebindMonitor(c))
            \/ (\E c \in Slots : Settle(c))
            \/ (\E c \in Slots : BodyFails(c))
            \/ (\E c \in Slots : StartMonitor(c))
            \/ (\E c \in Slots : PauseAcquisition(c))
            \/ (\E c \in Slots : PauseInBody(c))
            \/ (\E c \in Slots : Change(c))
            \/ (\E c \in Slots : ChangeWatch(c))
            \/ (\E c \in Slots : Preview(c))
            \/ (\E c \in Slots : StartSending(c))
            \/ (\E c \in Slots : StartChecked(c))
            \/ (\E c \in Slots : AskAnalysis(c))
            \/ (\E c \in Slots : EndAnalysis(c))
  <2>1. UNCHANGED acq
    BY <1>12
    DEF RebindMonitor, Settle, Waits, BodyFails, StartMonitor,
       PauseAcquisition, PauseInBody, Change, ChangeWatch, Preview,
       StartSending, StartChecked, AskAnalysis, EndAnalysis
  <2> QED  BY <2>1 DEF IInv, AcqTyped
<1>13. CASE \/ Login \/ NextDay \/ TurnBegins \/ Withdrawn \/ PausedTurn
            \/ MonitorTick \/ Scanned \/ Classified \/ EngineTurn
            \/ EngineTurnEnds \/ TickChecked \/ Sent \/ SendUnknown
            \/ UNCHANGED vars
  <2>1. UNCHANGED acq
    BY <1>13
    DEF Login, NextDay, TurnBegins, Withdrawn, PausedTurn, MonitorTick,
       Scanned, MonitorGoesOn, Classified, EngineTurn, EngineTurnEnds,
       TickChecked, TickPasses, Sent, SendUnknown, vars
  <2> QED  BY <2>1 DEF IInv, AcqTyped
<1> QED
  BY <1>1, <1>2, <1>3, <1>4, <1>5, <1>6, <1>7, <1>8, <1>9, <1>10, <1>11, <1>12,
     <1>13
  DEF Next, Command, Scheduler, Sending

LEMMA KeepsMonTyped == IInv /\ [Next]_vars => MonTyped'
<1> SUFFICES ASSUME IInv, [Next]_vars PROVE MonTyped'
  OBVIOUS
<1> USE DEF login, timers, engine, money, requests
<1>1. CASE Logout
  BY <1>1 DEF Logout, StopAll, StopMonitor, MonTyped, IInv, Monitors, Phases
<1>2. CASE Restart
  BY <1>2
  DEF Restart, Volatile, MonTyped, IInv, Monitors, Phases, LoginTyped,
      Planners, Signals
<1>3. ASSUME NEW c \in Slots, (\E kind \in Kinds : Ask(c, kind)) PROVE MonTyped'
  BY <1>3 DEF Ask, StopAll, StopMonitor, MonTyped, IInv, Monitors, Phases
<1>4. ASSUME NEW c \in Slots, RebindAcquisition(c) PROVE MonTyped'
  BY <1>4, MonitorStops
  DEF RebindAcquisition, IInv, MonTyped
<1>5. ASSUME NEW c \in Slots, RebindMonitor(c) PROVE MonTyped'
  BY <1>5, CommandIs
  DEF RebindMonitor, IInv, MonTyped, Monitors, Phases
<1>6. ASSUME NEW c \in Slots, RebindEntry(c) PROVE MonTyped'
  BY <1>6, MonitorStops
  DEF RebindEntry, StopAll, IInv, MonTyped
<1>7. ASSUME NEW c \in Slots, Settle(c) PROVE MonTyped'
  BY <1>7 DEF Settle, Waits, StopMonitor, MonTyped, IInv, Monitors, Phases
<1>8. ASSUME NEW c \in Slots, StartMonitor(c) PROVE MonTyped'
  BY <1>8, CommandIs
  DEF StartMonitor, Body, IInv, MonTyped, Monitors, Phases, Planners
<1>9. CASE \/ Authorized \/ Withdrawn
  BY <1>9
  DEF Authorized, Withdrawn, StopMonitor, MonTyped, IInv, Monitors, Phases
<1>10. CASE MonitorHook
  BY <1>10, MonitorHookDoes
  DEF IInv, MonTyped
<1>11. CASE MonitorFails
  BY <1>11 DEF MonitorFails, MonTyped, IInv, Monitors, Phases
<1>12. CASE \/ (\E c \in Slots : BodyFails(c))
            \/ (\E c \in Slots : StartAcquisition(c))
            \/ (\E c \in Slots : PauseAcquisition(c))
            \/ (\E c \in Slots : PauseInBody(c))
            \/ (\E c \in Slots : Change(c))
            \/ (\E c \in Slots : ChangeWatch(c))
            \/ (\E c \in Slots : Preview(c))
            \/ (\E c \in Slots : StartSending(c))
            \/ (\E c \in Slots : StartChecked(c))
            \/ (\E c \in Slots : AskAnalysis(c))
            \/ (\E c \in Slots : EndAnalysis(c))
  <2>1. UNCHANGED mon
    BY <1>12
    DEF BodyFails, StartAcquisition, PauseAcquisition, PauseInBody, Change,
       ChangeWatch, Preview, StartSending, StartChecked, AskAnalysis,
       EndAnalysis
  <2> QED  BY <2>1 DEF IInv, MonTyped
<1>13. CASE \/ Login \/ Expire \/ NextDay \/ TurnBegins \/ PausedTurn
            \/ AcquisitionTick \/ Discovers \/ MonitorTick \/ Scanned
            \/ Classified \/ Outreach \/ AcquisitionPreviews \/ AcquisitionAsksStart
            \/ AcquisitionStarts \/ AcquisitionSent \/ EngineTurn
            \/ EngineTurnEnds \/ TickChecked \/ Sent \/ SendUnknown
            \/ UNCHANGED vars
  <2>1. UNCHANGED mon
    BY <1>13
    DEF Login, Expire, NextDay, TurnBegins, PausedTurn, AcquisitionTick,
       Discovers, MonitorTick, Scanned, MonitorGoesOn, Classified, Outreach,
       Reserve, AcquisitionPreviews, AcquisitionAsksStart, AcquisitionStarts, AcquisitionSent,
       EngineTurn, EngineTurnEnds, TickChecked, TickPasses, Sent, SendUnknown,
       vars
  <2> QED  BY <2>1 DEF IInv, MonTyped
<1> QED
  BY <1>1, <1>2, <1>3, <1>4, <1>5, <1>6, <1>7, <1>8, <1>9, <1>10, <1>11, <1>12,
     <1>13
  DEF Next, Command, Scheduler, Sending

LEMMA KeepsPlansTyped == IInv /\ [Next]_vars => PlansTyped'
<1> SUFFICES ASSUME IInv, [Next]_vars PROVE PlansTyped'
  OBVIOUS
<1> USE DEF login, timers, engine, money, requests
<1>1. CASE Restart
  BY <1>1 DEF Restart, Volatile, NoPlan, PlansTyped, IInv, Plans, Planners
<1>2. ASSUME NEW c \in Slots, StartAcquisition(c) PROVE PlansTyped'
  BY <1>2 DEF StartAcquisition, PlansTyped, IInv, WorkspaceInv, WorkspaceTypes
<1>3. ASSUME NEW c \in Slots, Change(c) PROVE PlansTyped'
  BY <1>3
  DEF Change, IInv, PlansTyped, Plans, Planners, NoPlan
<1>4. ASSUME NEW c \in Slots, Preview(c) PROVE PlansTyped'
  BY <1>4 DEF Preview, PlansTyped, IInv, Plans, Planners
<1>5. CASE \/ (\E c \in Slots : RebindAcquisition(c))
           \/ (\E c \in Slots : PauseAcquisition(c)) \/ Withdrawn
  BY <1>5 DEF RebindAcquisition, PauseAcquisition, Withdrawn, PlansTyped, IInv
<1>6. CASE AcquisitionPreviews
  BY <1>6 DEF AcquisitionPreviews, PlansTyped, IInv, Plans, Planners, TurnTyped
<1>7. CASE AcquisitionSent
  BY <1>7 DEF AcquisitionSent, NoPlan, PlansTyped, IInv, Plans, Planners
<1>8. CASE \/ (\E c \in Slots : (\E kind \in Kinds : Ask(c, kind)))
           \/ (\E c \in Slots : RebindMonitor(c))
           \/ (\E c \in Slots : RebindEntry(c))
           \/ (\E c \in Slots : Settle(c))
           \/ (\E c \in Slots : BodyFails(c))
           \/ (\E c \in Slots : StartMonitor(c))
           \/ (\E c \in Slots : PauseInBody(c))
           \/ (\E c \in Slots : ChangeWatch(c))
           \/ (\E c \in Slots : StartSending(c))
           \/ (\E c \in Slots : StartChecked(c))
           \/ (\E c \in Slots : AskAnalysis(c))
           \/ (\E c \in Slots : EndAnalysis(c))
  <2>1. UNCHANGED <<preview, approved>>
    BY <1>8
    DEF Ask, RebindMonitor, RebindEntry, Settle, Waits, BodyFails,
       StartMonitor, PauseInBody, ChangeWatch, StartSending, StartChecked,
       AskAnalysis, EndAnalysis
  <2> QED  BY <2>1 DEF IInv, PlansTyped
<1>9. CASE \/ Logout \/ Login \/ Expire \/ NextDay \/ TurnBegins
           \/ Authorized \/ PausedTurn \/ AcquisitionTick \/ Discovers
           \/ MonitorHook \/ MonitorTick \/ Scanned \/ Classified
           \/ MonitorFails \/ Outreach \/ AcquisitionAsksStart \/ AcquisitionStarts
           \/ EngineTurn \/ EngineTurnEnds \/ TickChecked \/ Sent
           \/ SendUnknown \/ UNCHANGED vars
  <2>1. UNCHANGED <<preview, approved>>
    BY <1>9
    DEF Logout, Login, Expire, NextDay, TurnBegins, Authorized, PausedTurn,
       AcquisitionTick, Discovers, MonitorHook, MonitorTick, Scanned,
       MonitorGoesOn, Classified, MonitorFails, Outreach, Reserve,
       AcquisitionAsksStart, AcquisitionStarts, EngineTurn, EngineTurnEnds, TickChecked, TickPasses,
       Sent, SendUnknown, vars
  <2> QED  BY <2>1 DEF IInv, PlansTyped
<1> QED
  BY <1>1, <1>2, <1>3, <1>4, <1>5, <1>6, <1>7, <1>8, <1>9
  DEF Next, Command, Scheduler, Sending

LEMMA KeepsEngTyped == IInv /\ [Next]_vars => EngTyped'
<1> SUFFICES ASSUME IInv, [Next]_vars PROVE EngTyped'
  OBVIOUS
<1> USE DEF login, timers, engine, money, requests
<1>1. CASE Pausing
  BY <1>1, PausingDoes
  DEF EngineRests, EngTyped
<1>2. CASE Restart
  BY <1>2, PausedEngineIs, PassedIs, StartedIs
  DEF Restart, Volatile, NoApproval, NoPlan, NoCommand, EngTyped, IInv,
      Engines, Plans, Planners, Phases, OpTyped, Operations, Ops, TurnTyped,
      Signals
<1>3. ASSUME NEW c \in Slots, Preview(c) PROVE EngTyped'
  BY <1>3, KeepsPlansTyped
  DEF Preview, IInv, EngTyped, Engines, PlansTyped
<1>4. CASE AcquisitionPreviews
  BY <1>4, AcquisitionPreviewsDoes
  DEF IInv, EngTyped
<1>5. CASE \/ (\E c \in Slots : StartChecked(c)) \/ AcquisitionStarts
  BY <1>5, StartedIs
  DEF StartChecked, AcquisitionStarts, EngTyped, IInv, OpTyped, Operations, Ops
<1>6. CASE EngineTurn
  BY <1>6, PausedEngineIs
  DEF EngineTurn, Pause, EngTyped, IInv, Engines, Phases
<1>7. CASE TickChecked
  BY <1>7, TickDoes
  DEF EngTyped, EngineGoesOn
<1>8. CASE Sent
  BY <1>8, PassedIs DEF Sent, EngTyped, IInv
<1>9. CASE SendUnknown
  BY <1>9 DEF SendUnknown, EngTyped, IInv, Engines, Phases
<1>10. CASE \/ (\E c \in Slots : RebindAcquisition(c))
            \/ (\E c \in Slots : Settle(c))
            \/ (\E c \in Slots : BodyFails(c))
            \/ (\E c \in Slots : StartAcquisition(c))
            \/ (\E c \in Slots : StartMonitor(c))
            \/ (\E c \in Slots : PauseAcquisition(c))
            \/ (\E c \in Slots : Change(c))
            \/ (\E c \in Slots : ChangeWatch(c))
            \/ (\E c \in Slots : StartSending(c))
            \/ (\E c \in Slots : AskAnalysis(c))
            \/ (\E c \in Slots : EndAnalysis(c))
  <2>1. UNCHANGED eng
    BY <1>10
    DEF RebindAcquisition, Settle, Waits, BodyFails, StartAcquisition,
       StartMonitor, PauseAcquisition, Change, ChangeWatch, StartSending,
       AskAnalysis, EndAnalysis
  <2> QED  BY <2>1 DEF IInv, EngTyped
<1>11. CASE \/ Login \/ Expire \/ NextDay \/ TurnBegins \/ PausedTurn
            \/ AcquisitionTick \/ Discovers \/ MonitorHook
            \/ MonitorTick \/ Scanned \/ Classified \/ MonitorFails
            \/ Outreach \/ AcquisitionAsksStart \/ AcquisitionSent \/ EngineTurnEnds
            \/ UNCHANGED vars
  <2>1. UNCHANGED eng
    BY <1>11
    DEF Login, Expire, NextDay, TurnBegins, PausedTurn, AcquisitionTick,
       Discovers, MonitorHook, MonitorTick, Scanned, MonitorGoesOn, Classified,
       MonitorFails, Outreach, Reserve, AcquisitionAsksStart, AcquisitionSent, EngineTurnEnds, vars
  <2> QED  BY <2>1 DEF IInv, EngTyped
<1> QED
  BY <1>1, <1>2, <1>3, <1>4, <1>5, <1>6, <1>7, <1>8, <1>9, <1>10, <1>11
  DEF Next, Command, Scheduler, Sending, Pausing

LEMMA KeepsOpTyped == IInv /\ [Next]_vars => OpTyped'
<1> SUFFICES ASSUME IInv, [Next]_vars PROVE OpTyped'
  OBVIOUS
<1> USE DEF login, timers, engine, money, requests
<1>1. CASE Pausing
  BY <1>1, PausingDoes
  DEF EngineRests, IInv, OpTyped
<1>2. CASE Restart
  BY <1>2 DEF Restart, Volatile, OpTyped, IInv, Operations
<1>3. ASSUME NEW c \in Slots, StartSending(c) PROVE OpTyped'
  <2>1. cmds[c].login \in Signals
    BY <1>3, CommandIs DEF StartSending, Body
  <2>2. op' \in Ops /\ op'.at = "check"
    BY <1>3, <2>1 DEF StartSending, Ops
  <2> QED  BY <2>2 DEF OpTyped, Operations
<1>4. CASE AcquisitionPreviews \/ AcquisitionAsksStart
  BY <1>4, AcquisitionAsksStartDoes
  DEF AcquisitionPreviews, IInv, OpTyped, Operations
<1>5. CASE AcquisitionStarts
  BY <1>5, AcquisitionStartsDoes
  DEF OpTyped, Operations
<1>6. CASE EngineTurn
  BY <1>6, TickBeginsIs, EnginePauses
  DEF EngineTurn, IInv, OpTyped, EngineFree
<1>7. CASE TickChecked
  BY <1>7, TickDoes
  DEF OpTyped, Operations, TickSends
<1>8. CASE \/ (\E c \in Slots : StartChecked(c)) \/ Sent \/ SendUnknown
  BY <1>8 DEF StartChecked, Sent, SendUnknown, OpTyped, IInv, Operations
<1>9. CASE \/ (\E c \in Slots : RebindAcquisition(c))
           \/ (\E c \in Slots : Settle(c))
           \/ (\E c \in Slots : BodyFails(c))
           \/ (\E c \in Slots : StartAcquisition(c))
           \/ (\E c \in Slots : StartMonitor(c))
           \/ (\E c \in Slots : PauseAcquisition(c))
           \/ (\E c \in Slots : Change(c))
           \/ (\E c \in Slots : ChangeWatch(c))
           \/ (\E c \in Slots : Preview(c))
           \/ (\E c \in Slots : AskAnalysis(c))
           \/ (\E c \in Slots : EndAnalysis(c))
  <2>1. UNCHANGED op
    BY <1>9
    DEF RebindAcquisition, Settle, Waits, BodyFails, StartAcquisition,
       StartMonitor, PauseAcquisition, Change, ChangeWatch, Preview,
       AskAnalysis, EndAnalysis
  <2> QED  BY <2>1 DEF IInv, OpTyped
<1>10. CASE \/ Login \/ Expire \/ NextDay \/ TurnBegins \/ PausedTurn
            \/ AcquisitionTick \/ Discovers \/ MonitorHook
            \/ MonitorTick \/ Scanned \/ Classified \/ MonitorFails
            \/ Outreach \/ AcquisitionSent \/ EngineTurnEnds
            \/ UNCHANGED vars
  <2>1. UNCHANGED op
    BY <1>10
    DEF Login, Expire, NextDay, TurnBegins, PausedTurn, AcquisitionTick,
       Discovers, MonitorHook, MonitorTick, Scanned, MonitorGoesOn, Classified,
       MonitorFails, Outreach, Reserve, AcquisitionSent, EngineTurnEnds, vars
  <2> QED  BY <2>1 DEF IInv, OpTyped
<1> QED
  BY <1>1, <1>2, <1>3, <1>4, <1>5, <1>6, <1>7, <1>8, <1>9, <1>10
  DEF Next, Command, Scheduler, Sending, Pausing

LEMMA KeepsLedgerTyped == IInv /\ [Next]_vars => LedgerTyped'
<1> SUFFICES ASSUME IInv, [Next]_vars PROVE LedgerTyped'
  OBVIOUS
<1> USE DEF login, timers, engine, money, requests
<1>1. CASE Restart
  BY <1>1
  DEF Restart, Volatile, NoApproval, NoPlan, NoCommand, LedgerTyped, IInv,
      OpTyped, Operations, Ops, EngTyped, Engines, Plans, Planners
<1>2. CASE TickChecked
  BY <1>2
  DEF TickChecked, TickPasses, Guarded, LedgerTyped, IInv, OpTyped, Operations,
      Ops, EngTyped, Engines, Plans, Planners
<1>3. CASE Sent
  BY <1>3
  DEF Sent, LedgerTyped, IInv, OpTyped, EngTyped, Engines, Plans, Planners
<1>4. CASE SendUnknown
  BY <1>4
  DEF SendUnknown, LedgerTyped, IInv, OpTyped, Operations, Ops, EngTyped,
      Engines, Plans, Planners
<1>5. CASE \/ (\E c \in Slots : (\E kind \in Kinds : Ask(c, kind)))
           \/ (\E c \in Slots : RebindAcquisition(c))
           \/ (\E c \in Slots : RebindMonitor(c))
           \/ (\E c \in Slots : RebindEntry(c))
           \/ (\E c \in Slots : Settle(c))
           \/ (\E c \in Slots : BodyFails(c))
           \/ (\E c \in Slots : StartAcquisition(c))
           \/ (\E c \in Slots : StartMonitor(c))
           \/ (\E c \in Slots : PauseAcquisition(c))
           \/ (\E c \in Slots : PauseInBody(c))
           \/ (\E c \in Slots : Change(c))
           \/ (\E c \in Slots : ChangeWatch(c))
           \/ (\E c \in Slots : Preview(c))
           \/ (\E c \in Slots : StartSending(c))
           \/ (\E c \in Slots : StartChecked(c))
           \/ (\E c \in Slots : AskAnalysis(c))
           \/ (\E c \in Slots : EndAnalysis(c))
  <2>1. UNCHANGED ledger
    BY <1>5
    DEF Ask, RebindAcquisition, RebindMonitor, RebindEntry, Settle, Waits,
       BodyFails, StartAcquisition, StartMonitor, PauseAcquisition,
       PauseInBody, Change, ChangeWatch, Preview, StartSending, StartChecked,
       AskAnalysis, EndAnalysis, StopAll, Pause
  <2> QED  BY <2>1 DEF IInv, LedgerTyped
<1>6. CASE \/ Logout \/ Login \/ Expire \/ NextDay \/ TurnBegins
           \/ Authorized \/ Withdrawn \/ PausedTurn \/ AcquisitionTick
           \/ Discovers \/ MonitorHook \/ MonitorTick \/ Scanned
           \/ Classified \/ MonitorFails \/ Outreach
           \/ AcquisitionPreviews \/ AcquisitionAsksStart \/ AcquisitionStarts
           \/ AcquisitionSent \/ EngineTurn \/ EngineTurnEnds
           \/ UNCHANGED vars
  <2>1. UNCHANGED ledger
    BY <1>6
    DEF Logout, Login, Expire, NextDay, TurnBegins, Authorized, Withdrawn,
       PausedTurn, AcquisitionTick, Discovers, MonitorHook, MonitorTick,
       Scanned, MonitorGoesOn, Classified, MonitorFails, Outreach, Reserve,
       AcquisitionPreviews, AcquisitionAsksStart, AcquisitionStarts, AcquisitionSent, EngineTurn,
       EngineTurnEnds, vars, StopAll, Pause
  <2> QED  BY <2>1 DEF IInv, LedgerTyped
<1> QED
  BY <1>1, <1>2, <1>3, <1>4, <1>5, <1>6
  DEF Next, Command, Scheduler, Sending

LEMMA KeepsMoneyTyped == IInv /\ [Next]_vars => MoneyTyped'
<1> SUFFICES ASSUME IInv, [Next]_vars PROVE MoneyTyped'
  OBVIOUS
<1> USE DEF login, timers, engine, money, requests
<1>1. CASE NextDay
  BY <1>1 DEF NextDay, MoneyTyped, IInv
<1>2. CASE Outreach
  <2>1. budget.attempts \in 0..MaxPerDay /\ day \in 1..MaxDays /\ used \in Nat
    BY DEF IInv, MoneyTyped
  <2>2. CASE UNCHANGED money
    BY <2>2 DEF IInv, MoneyTyped
  <2>3. CASE UsedToday < MaxPerDay /\ Reserve /\ UNCHANGED <<day, attempts>>
    BY <2>1, <2>3 DEF UsedToday, Reserve, IInv, MoneyTyped
  <2> QED  BY <1>2, <2>2, <2>3, OutreachDoes
<1>3. CASE TickChecked
  <2>1. attempts \in [Recipients -> Nat] /\ used \in Nat
    BY DEF IInv, MoneyTyped
  <2>2. attempts' \in [Recipients -> Nat] /\ used' \in Nat
    BY <1>3, <2>1, TickDoes DEF TickSends
  <2>3. UNCHANGED <<budget, day>>
    BY <1>3 DEF TickChecked
  <2> QED  BY <2>2, <2>3 DEF IInv, MoneyTyped
<1>4. CASE \/ (\E c \in Slots : (\E kind \in Kinds : Ask(c, kind)))
           \/ (\E c \in Slots : RebindAcquisition(c))
           \/ (\E c \in Slots : RebindMonitor(c))
           \/ (\E c \in Slots : RebindEntry(c))
           \/ (\E c \in Slots : Settle(c))
           \/ (\E c \in Slots : BodyFails(c))
           \/ (\E c \in Slots : StartAcquisition(c))
           \/ (\E c \in Slots : StartMonitor(c))
           \/ (\E c \in Slots : PauseAcquisition(c))
           \/ (\E c \in Slots : PauseInBody(c))
           \/ (\E c \in Slots : Change(c))
           \/ (\E c \in Slots : ChangeWatch(c))
           \/ (\E c \in Slots : Preview(c))
           \/ (\E c \in Slots : StartSending(c))
           \/ (\E c \in Slots : StartChecked(c))
           \/ (\E c \in Slots : AskAnalysis(c))
           \/ (\E c \in Slots : EndAnalysis(c))
  <2>1. UNCHANGED <<budget, day, attempts, used>>
    BY <1>4
    DEF Ask, RebindAcquisition, RebindMonitor, RebindEntry, Settle, Waits,
       BodyFails, StartAcquisition, StartMonitor, PauseAcquisition,
       PauseInBody, Change, ChangeWatch, Preview, StartSending, StartChecked,
       AskAnalysis, EndAnalysis
  <2> QED  BY <2>1 DEF IInv, MoneyTyped
<1>5. CASE \/ Logout \/ Login \/ Restart \/ Expire \/ TurnBegins
           \/ Authorized \/ Withdrawn \/ PausedTurn \/ AcquisitionTick
           \/ Discovers \/ MonitorHook \/ MonitorTick \/ Scanned
           \/ Classified \/ MonitorFails \/ AcquisitionPreviews \/ AcquisitionAsksStart
           \/ AcquisitionStarts \/ AcquisitionSent \/ EngineTurn
           \/ EngineTurnEnds \/ Sent \/ SendUnknown \/ UNCHANGED vars
  <2>1. UNCHANGED <<budget, day, attempts, used>>
    BY <1>5
    DEF Logout, Login, Restart, Volatile, Expire, TurnBegins, Authorized,
       Withdrawn, PausedTurn, AcquisitionTick, Discovers, MonitorHook,
       MonitorTick, Scanned, MonitorGoesOn, Classified, MonitorFails,
       AcquisitionPreviews, AcquisitionAsksStart, AcquisitionStarts, AcquisitionSent, EngineTurn,
       EngineTurnEnds, Sent, SendUnknown, vars
  <2> QED  BY <2>1 DEF IInv, MoneyTyped
<1> QED
  BY <1>1, <1>2, <1>3, <1>4, <1>5
  DEF Next, Command, Scheduler, Sending

LEMMA KeepsCmdsTyped == IInv /\ [Next]_vars => CmdsTyped'
<1> SUFFICES ASSUME IInv, [Next]_vars PROVE CmdsTyped'
  OBVIOUS
<1> USE DEF login, timers, engine, money, requests
<1>1. CASE Restart
  BY <1>1 DEF Restart, Volatile, CmdsTyped, IInv
<1>2. ASSUME NEW c \in Slots, (\E kind \in Kinds : Ask(c, kind)) PROVE CmdsTyped'
  BY <1>2, AskDoes
  DEF Ask, IInv, CmdsTyped
<1>3. ASSUME NEW c \in Slots, RebindAcquisition(c) PROVE CmdsTyped'
  BY <1>3 DEF RebindAcquisition, At, CmdsTyped, IInv, Commands, NoCommand
<1>4. ASSUME NEW c \in Slots, RebindMonitor(c) PROVE CmdsTyped'
  BY <1>4 DEF RebindMonitor, At, CmdsTyped, IInv, Commands, NoCommand
<1>5. ASSUME NEW c \in Slots, RebindEntry(c) PROVE CmdsTyped'
  BY <1>5 DEF RebindEntry, At, Ends, CmdsTyped, IInv, Commands, NoCommand
<1>6. ASSUME NEW c \in Slots, Settle(c) PROVE CmdsTyped'
  BY <1>6, CommandGoes, QueueGrows
  DEF Settle, Waits, CmdsTyped, IInv, Inside, NoCommand
<1>7. ASSUME NEW c \in Slots, PauseInBody(c) PROVE CmdsTyped'
  BY <1>7, CommandGoes DEF PauseInBody, Body, CmdsTyped, IInv, NoCommand
<1>8. ASSUME NEW c \in Slots, BodyFails(c) PROVE CmdsTyped'
  BY <1>8 DEF BodyFails, Turn, Done, Ends, CmdsTyped, IInv
<1>9. ASSUME NEW c \in Slots, Change(c) PROVE CmdsTyped'
  BY <1>9 DEF Change, Turn, Done, Ends, CmdsTyped, IInv
<1>10. ASSUME NEW c \in Slots, StartAcquisition(c) PROVE CmdsTyped'
  BY <1>10 DEF StartAcquisition, Body, Turn, Done, Ends, CmdsTyped, IInv
<1>11. ASSUME NEW c \in Slots, StartMonitor(c) PROVE CmdsTyped'
  BY <1>11 DEF StartMonitor, Body, Turn, Done, Ends, CmdsTyped, IInv
<1>12. ASSUME NEW c \in Slots, PauseAcquisition(c) PROVE CmdsTyped'
  BY <1>12 DEF PauseAcquisition, Body, Turn, Done, Ends, CmdsTyped, IInv
<1>13. ASSUME NEW c \in Slots, ChangeWatch(c) PROVE CmdsTyped'
  BY <1>13 DEF ChangeWatch, Body, Turn, Done, Ends, CmdsTyped, IInv
<1>14. ASSUME NEW c \in Slots, Preview(c) PROVE CmdsTyped'
  BY <1>14 DEF Preview, Body, Turn, Done, Ends, CmdsTyped, IInv
<1>15. ASSUME NEW c \in Slots, StartChecked(c) PROVE CmdsTyped'
  BY <1>15
  DEF StartChecked, Done, Ends, CmdsTyped, IInv, QueueFits, Inside, OpWaits
<1>16. CASE \/ (\E c \in Slots : StartSending(c))
            \/ (\E c \in Slots : AskAnalysis(c))
  BY <1>16
  DEF StartSending, AskAnalysis, Body, At, CmdsTyped, IInv, Commands, NoCommand
<1>17. ASSUME NEW c \in Slots, EndAnalysis(c) PROVE CmdsTyped'
  BY <1>17 DEF EndAnalysis, Done, Ends, CmdsTyped, IInv, QueueFits, Inside
<1>18. CASE \/ Logout \/ Login \/ Expire \/ NextDay \/ TurnBegins
            \/ Authorized \/ Withdrawn \/ PausedTurn \/ AcquisitionTick
            \/ Discovers \/ MonitorHook \/ MonitorTick \/ Scanned
            \/ Classified \/ MonitorFails \/ Outreach
            \/ AcquisitionPreviews \/ AcquisitionAsksStart \/ AcquisitionStarts
            \/ AcquisitionSent \/ EngineTurn \/ EngineTurnEnds
            \/ TickChecked \/ Sent \/ SendUnknown \/ UNCHANGED vars
  <2>1. UNCHANGED <<cmds, tail, asked>>
    BY <1>18
    DEF Logout, Login, Expire, NextDay, TurnBegins, Authorized, Withdrawn,
       PausedTurn, AcquisitionTick, Discovers, MonitorHook, MonitorTick,
       Scanned, MonitorGoesOn, Classified, MonitorFails, Outreach, Reserve,
       AcquisitionPreviews, AcquisitionAsksStart, AcquisitionStarts, AcquisitionSent, EngineTurn,
       EngineTurnEnds, TickChecked, TickPasses, Sent, SendUnknown, vars
  <2> QED  BY <2>1 DEF IInv, CmdsTyped
<1> QED
  BY <1>1, <1>2, <1>3, <1>4, <1>5, <1>6, <1>7, <1>8, <1>9, <1>10, <1>11, <1>12,
     <1>13, <1>14, <1>15, <1>16, <1>17, <1>18
  DEF Next, Command, Scheduler, Sending

LEMMA KeepsTurnTyped == IInv /\ [Next]_vars => TurnTyped'
<1> SUFFICES ASSUME IInv, [Next]_vars PROVE TurnTyped'
  OBVIOUS
<1> USE DEF login, timers, engine, money, requests
<1>1. CASE Restart
  BY <1>1 DEF Restart, Volatile, TurnTyped, IInv, Passes, IdleTurn
<1>2. ASSUME NEW c \in Slots, (\E kind \in Kinds : Ask(c, kind)) PROVE TurnTyped'
  BY <1>2, TurnIsCut DEF Ask, StopAll, TurnTyped, IInv
<1>3. CASE \/ Logout \/ (\E c \in Slots : RebindEntry(c))
  BY <1>3, TurnIsCut DEF Logout, RebindEntry, StopAll, TurnTyped, IInv
<1>4. ASSUME NEW c \in Slots, Settle(c) PROVE TurnTyped'
  BY <1>4, TurnIsCut DEF Settle, Waits, TurnTyped, IInv
<1>5. CASE \/ (\E c \in Slots : RebindAcquisition(c))
           \/ (\E c \in Slots : RebindMonitor(c))
           \/ (\E c \in Slots : StartAcquisition(c))
           \/ (\E c \in Slots : StartMonitor(c))
  BY <1>5, TurnIsCut
  DEF RebindAcquisition, RebindMonitor, StartAcquisition, StartMonitor,
      TurnTyped, IInv
<1>6. CASE TurnBegins
  BY <1>6, PassIs
  DEF TurnBegins, TurnTyped
<1>7. CASE AcquisitionTick
  BY <1>7, PassIs, IdleTurnIs
  DEF AcquisitionTick, TurnTyped
<1>8. CASE Discovers
  BY <1>8 DEF Discovers, Fails, Goes, TurnTyped, IInv, Passes, Turns, IdleTurn
<1>9. CASE MonitorHook
  BY <1>9, MonitorHookDoes, IdleTurnIs
  DEF TurnTyped, Passes
<1>10. CASE MonitorTick
  BY <1>10 DEF MonitorTick, Pass, TurnTyped, IInv, Passes, Turns, IdleTurn
<1>11. CASE Scanned
  <2>1. TurnTyped /\ tk.at # "idle"
    BY <1>11 DEF Scanned, IInv
  <2>2. \A at \in {"classify", "outreach"} : Goes(at) => tk' \in Passes /\ tk'.at = at
    BY <2>1, TurnGoes
  <2>3. tk' \in Passes /\ tk'.at # "preview"
    BY <1>11, <2>2, PassIs, IdleTurnIs
    DEF Scanned, MonitorGoesOn, MonitorDone
  <2> QED  BY <2>3 DEF TurnTyped
<1>12. CASE \/ Authorized \/ Withdrawn \/ Classified
  BY <1>12
  DEF Authorized, Withdrawn, Classified, Goes, TurnTyped, IInv, Passes, Turns,
      IdleTurn
<1>13. CASE MonitorFails
  <2>1. TurnTyped /\ tk.at # "idle"
    BY <1>13 DEF MonitorFails, IInv
  <2>2. \A at \in {"classify", "outreach"} : Goes(at) => tk' \in Passes /\ tk'.at = at
    BY <2>1, TurnGoes
  <2>3. tk' \in Passes /\ tk'.at # "preview"
    BY <1>13, <2>2, PassIs, IdleTurnIs
    DEF MonitorFails, Fails, MonitorDone
  <2> QED  BY <2>3 DEF TurnTyped
<1>14. CASE Outreach
  BY <1>14, OutreachDoes, IdleTurnIs
  DEF TurnTyped, Passes
<1>15. CASE AcquisitionPreviews \/ AcquisitionAsksStart
  BY <1>15, AcquisitionPreviewsDoes, AcquisitionAsksStartDoes, IdleTurnIs
  DEF TurnTyped, Passes
<1>16. CASE AcquisitionStarts
  BY <1>16
  DEF AcquisitionStarts, Fails, Goes, TurnTyped, IInv, Passes, Turns, IdleTurn
<1>17. CASE AcquisitionSent
  BY <1>17
  DEF AcquisitionSent, Fails, FailsUnknown, TurnTyped, IInv, Passes, IdleTurn
<1>18. CASE EngineTurn
  BY <1>18, PassIs, IdleTurnIs
  DEF EngineTurn, TurnTyped
<1>19. CASE \/ PausedTurn \/ EngineTurnEnds
  BY <1>19 DEF PausedTurn, EngineTurnEnds, TurnTyped, IInv, Passes, IdleTurn
<1>20. CASE \/ (\E c \in Slots : BodyFails(c))
            \/ (\E c \in Slots : PauseAcquisition(c))
            \/ (\E c \in Slots : PauseInBody(c))
            \/ (\E c \in Slots : Change(c))
            \/ (\E c \in Slots : ChangeWatch(c))
            \/ (\E c \in Slots : Preview(c))
            \/ (\E c \in Slots : StartSending(c))
            \/ (\E c \in Slots : StartChecked(c))
            \/ (\E c \in Slots : AskAnalysis(c))
            \/ (\E c \in Slots : EndAnalysis(c))
  <2>1. UNCHANGED tk
    BY <1>20
    DEF BodyFails, PauseAcquisition, PauseInBody, Change, ChangeWatch, Preview,
       StartSending, StartChecked, AskAnalysis, EndAnalysis
  <2> QED  BY <2>1 DEF IInv, TurnTyped
<1>21. CASE \/ Login \/ Expire \/ NextDay \/ TickChecked \/ Sent
            \/ SendUnknown \/ UNCHANGED vars
  <2>1. UNCHANGED tk
    BY <1>21
    DEF Login, Expire, NextDay, TickChecked, TickPasses, Sent, SendUnknown,
       vars
  <2> QED  BY <2>1 DEF IInv, TurnTyped
<1> QED
  BY <1>1, <1>2, <1>3, <1>4, <1>5, <1>6, <1>7, <1>8, <1>9, <1>10, <1>11, <1>12,
     <1>13, <1>14, <1>15, <1>16, <1>17, <1>18, <1>19, <1>20, <1>21
  DEF Next, Command, Scheduler, Sending

LEMMA KeepsQueueFits == IInv /\ [Next]_vars => QueueFits'
<1> SUFFICES ASSUME IInv, [Next]_vars PROVE QueueFits'
  OBVIOUS
<1> USE DEF login, timers, engine, money, requests
<1>1. CASE Restart
  BY <1>1 DEF Restart, Volatile, NoCommand, QueueFits, IInv, Inside
<1>2. ASSUME NEW c \in Slots, (\E kind \in Kinds : Ask(c, kind)) PROVE QueueFits'
  BY <1>2, QueueMoves DEF Ask, QueueFits, IInv, Inside, NoCommand
<1>3. ASSUME NEW c \in Slots, RebindAcquisition(c) PROVE QueueFits'
  BY <1>3 DEF RebindAcquisition, At, QueueFits, IInv, Inside
<1>4. ASSUME NEW c \in Slots, RebindMonitor(c) PROVE QueueFits'
  BY <1>4 DEF RebindMonitor, At, QueueFits, IInv, Inside
<1>5. ASSUME NEW c \in Slots, RebindEntry(c) PROVE QueueFits'
  BY <1>5
  DEF RebindEntry, At, Ends, QueueFits, IInv, Inside, CmdsTyped, NoCommand,
      Commands
<1>6. ASSUME NEW c \in Slots, Settle(c) PROVE QueueFits'
  BY <1>6, CommandGoes, QueueGrows
  DEF Settle, Waits, QueueFits, IInv, Inside, CmdsTyped, NoCommand
<1>7. ASSUME NEW c \in Slots, BodyFails(c) PROVE QueueFits'
  BY <1>7, QueueShrinks DEF BodyFails, Turn, IInv
<1>8. ASSUME NEW c \in Slots, StartAcquisition(c) PROVE QueueFits'
  BY <1>8, QueueShrinks DEF StartAcquisition, Body, Turn, IInv
<1>9. ASSUME NEW c \in Slots, StartMonitor(c) PROVE QueueFits'
  BY <1>9, QueueShrinks DEF StartMonitor, Body, Turn, IInv
<1>10. ASSUME NEW c \in Slots, PauseAcquisition(c) PROVE QueueFits'
  BY <1>10, QueueShrinks DEF PauseAcquisition, Body, Turn, IInv
<1>11. ASSUME NEW c \in Slots, Change(c) PROVE QueueFits'
  BY <1>11, QueueShrinks DEF Change, Turn, IInv
<1>12. ASSUME NEW c \in Slots, ChangeWatch(c) PROVE QueueFits'
  BY <1>12, QueueShrinks DEF ChangeWatch, Body, Turn, IInv
<1>13. ASSUME NEW c \in Slots, Preview(c) PROVE QueueFits'
  BY <1>13, QueueShrinks DEF Preview, Body, Turn, IInv
<1>14. ASSUME NEW c \in Slots, StartChecked(c) PROVE QueueFits'
  <2>1. cmds[c].at = "starting" /\ Done(c)
    BY <1>14 DEF StartChecked, IInv, OpWaits
  <2>2. tail # <<>> /\ Head(tail) = c
    BY <2>1 DEF IInv, QueueFits, Inside
  <2> QED  BY <2>1, <2>2, QueueShrinks DEF IInv
<1>15. ASSUME NEW c \in Slots, PauseInBody(c) PROVE QueueFits'
  BY <1>15 DEF PauseInBody, Body, Turn, At, QueueFits, IInv, Inside
<1>16. ASSUME NEW c \in Slots, StartSending(c) PROVE QueueFits'
  BY <1>16 DEF StartSending, Body, Turn, At, QueueFits, IInv, Inside
<1>17. ASSUME NEW c \in Slots, AskAnalysis(c) PROVE QueueFits'
  BY <1>17 DEF AskAnalysis, Body, Turn, At, QueueFits, IInv, Inside
<1>18. ASSUME NEW c \in Slots, EndAnalysis(c) PROVE QueueFits'
  <2>1. cmds[c].at = "analyzing" /\ Done(c)
    BY <1>18 DEF EndAnalysis
  <2>2. tail # <<>> /\ Head(tail) = c
    BY <2>1 DEF IInv, QueueFits, Inside
  <2> QED  BY <2>1, <2>2, QueueShrinks DEF IInv
<1>19. CASE \/ Logout \/ Login \/ Expire \/ NextDay \/ TurnBegins
            \/ Authorized \/ Withdrawn \/ PausedTurn \/ AcquisitionTick
            \/ Discovers \/ MonitorHook \/ MonitorTick \/ Scanned
            \/ Classified \/ MonitorFails \/ Outreach
            \/ AcquisitionPreviews \/ AcquisitionAsksStart \/ AcquisitionStarts
            \/ AcquisitionSent \/ EngineTurn \/ EngineTurnEnds
            \/ TickChecked \/ Sent \/ SendUnknown \/ UNCHANGED vars
  <2>1. UNCHANGED <<cmds, tail>>
    BY <1>19
    DEF Logout, Login, Expire, NextDay, TurnBegins, Authorized, Withdrawn,
       PausedTurn, AcquisitionTick, Discovers, MonitorHook, MonitorTick,
       Scanned, MonitorGoesOn, Classified, MonitorFails, Outreach, Reserve,
       AcquisitionPreviews, AcquisitionAsksStart, AcquisitionStarts, AcquisitionSent, EngineTurn,
       EngineTurnEnds, TickChecked, TickPasses, Sent, SendUnknown, vars
  <2> QED  BY <2>1 DEF IInv, QueueFits
<1> QED
  BY <1>1, <1>2, <1>3, <1>4, <1>5, <1>6, <1>7, <1>8, <1>9, <1>10, <1>11, <1>12,
     <1>13, <1>14, <1>15, <1>16, <1>17, <1>18, <1>19
  DEF Next, Command, Scheduler, Sending

LEMMA KeepsTurnFits == IInv /\ [Next]_vars => TurnFits'
<1> SUFFICES ASSUME IInv, [Next]_vars PROVE TurnFits'
  OBVIOUS
<1> USE DEF login, timers, engine, money, requests
<1>1. CASE Logout
  BY <1>1, TurnIsCut
  DEF Logout, StopAll, TurnFits, IInv, Passes, Turns, IdleTurn
<1>2. CASE Restart
  BY <1>2 DEF Restart, Volatile, TurnFits, IInv, IdleTurn
<1>3. CASE Expire
  BY <1>3 DEF Expire, TurnFits, IInv
<1>4. ASSUME NEW c \in Slots, (\E kind \in Kinds : Ask(c, kind)) PROVE TurnFits'
  BY <1>4, TurnIsCut DEF Ask, StopAll, TurnFits, IInv, Passes, Turns, IdleTurn
<1>5. ASSUME NEW c \in Slots, RebindAcquisition(c) PROVE TurnFits'
  BY <1>5, TurnIsCut
  DEF RebindAcquisition, TurnFits, IInv, Passes, Turns, IdleTurn
<1>6. ASSUME NEW c \in Slots, RebindMonitor(c) PROVE TurnFits'
  BY <1>6, CutIs
  DEF RebindMonitor, TurnFits, IInv, TurnTyped, Passes, Turns, IdleTurn
<1>7. ASSUME NEW c \in Slots, RebindEntry(c) PROVE TurnFits'
  BY <1>7, TurnIsCut
  DEF RebindEntry, StopAll, TurnFits, IInv, Passes, Turns, IdleTurn
<1>8. ASSUME NEW c \in Slots, Settle(c) PROVE TurnFits'
  BY <1>8, CutIs
  DEF Settle, Waits, TurnFits, IInv, TurnTyped, Passes, Turns, IdleTurn
<1>9. ASSUME NEW c \in Slots, StartAcquisition(c) PROVE TurnFits'
  BY <1>9, CutIs DEF StartAcquisition, TurnFits, IInv
<1>10. ASSUME NEW c \in Slots, StartMonitor(c) PROVE TurnFits'
  BY <1>10, CutIs
  DEF StartMonitor, TurnFits, IInv, TurnTyped, Passes, Turns, IdleTurn
<1>11. CASE TurnBegins
  BY <1>11 DEF TurnBegins, Pass, TurnFits
<1>12. CASE Authorized
  BY <1>12
  DEF Authorized, Goes, TurnFits, IInv, TurnTyped, Passes, Turns, IdleTurn
<1>13. CASE Withdrawn
  BY <1>13 DEF Withdrawn, Goes, TurnFits
<1>14. CASE Discovers
  BY <1>14
  DEF Discovers, Fails, Goes, TurnFits, IInv, TurnTyped, Passes, Turns,
      IdleTurn
<1>15. CASE MonitorHook
  BY <1>15, MonitorHookDoes, IdleTurnIs
  DEF TurnFits
<1>16. CASE Scanned
  BY <1>16
  DEF Scanned, MonitorGoesOn, MonitorDone, Goes, Pass, TurnFits, IInv,
      TurnTyped, Passes, Turns, IdleTurn
<1>17. CASE Classified
  BY <1>17 DEF Classified, Goes, TurnFits, IInv
<1>18. CASE MonitorFails
  BY <1>18
  DEF MonitorFails, Fails, MonitorDone, Goes, Pass, TurnFits, IInv, TurnTyped,
      Passes, Turns, IdleTurn
<1>19. CASE Outreach
  BY <1>19, OutreachDoes, IdleTurnIs
  DEF TurnFits
<1>20. CASE AcquisitionPreviews \/ AcquisitionAsksStart
  BY <1>20, AcquisitionPreviewsDoes, AcquisitionAsksStartDoes, IdleTurnIs
  DEF TurnFits, IInv
<1>21. CASE AcquisitionStarts
  BY <1>21
  DEF AcquisitionStarts, Fails, Goes, TurnFits, IInv, TurnTyped, Passes, Turns,
      IdleTurn
<1>22. CASE AcquisitionSent
  BY <1>22 DEF AcquisitionSent, Fails, FailsUnknown, TurnFits, IInv, IdleTurn
<1>23. CASE \/ AcquisitionTick \/ MonitorTick \/ EngineTurn
  BY <1>23
  DEF AcquisitionTick, MonitorTick, EngineTurn, Pass, TurnFits, IInv, IdleTurn
<1>24. CASE \/ PausedTurn \/ EngineTurnEnds
  BY <1>24 DEF PausedTurn, EngineTurnEnds, TurnFits, IInv, IdleTurn
<1>25. CASE \/ (\E c \in Slots : BodyFails(c))
            \/ (\E c \in Slots : PauseAcquisition(c))
            \/ (\E c \in Slots : PauseInBody(c))
            \/ (\E c \in Slots : Change(c))
            \/ (\E c \in Slots : ChangeWatch(c))
            \/ (\E c \in Slots : Preview(c))
            \/ (\E c \in Slots : StartSending(c))
            \/ (\E c \in Slots : StartChecked(c))
            \/ (\E c \in Slots : AskAnalysis(c))
            \/ (\E c \in Slots : EndAnalysis(c))
  <2>1. UNCHANGED <<tk, acq>>
    BY <1>25
    DEF BodyFails, PauseAcquisition, PauseInBody, Change, ChangeWatch, Preview,
       StartSending, StartChecked, AskAnalysis, EndAnalysis
  <2> QED  BY <2>1 DEF IInv, TurnFits
<1>26. CASE \/ Login \/ NextDay \/ TickChecked \/ Sent \/ SendUnknown
            \/ UNCHANGED vars
  <2>1. UNCHANGED <<tk, acq>>
    BY <1>26
    DEF Login, NextDay, TickChecked, TickPasses, Sent, SendUnknown, vars
  <2> QED  BY <2>1 DEF IInv, TurnFits
<1> QED
  BY <1>1, <1>2, <1>3, <1>4, <1>5, <1>6, <1>7, <1>8, <1>9, <1>10, <1>11, <1>12,
     <1>13, <1>14, <1>15, <1>16, <1>17, <1>18, <1>19, <1>20, <1>21, <1>22,
     <1>23, <1>24, <1>25, <1>26
  DEF Next, Command, Scheduler, Sending

LEMMA KeepsOpWaits == IInv /\ [Next]_vars => OpWaits'
<1> SUFFICES ASSUME IInv, [Next]_vars PROVE OpWaits'
  OBVIOUS
<1> USE DEF login, timers, engine, money, requests
<1>1. CASE Logout
  <2>1. /\ EngineRests /\ UNCHANGED cmds
        /\ tk'.at = tk.at \/ (tk.at = "models" /\ tk'.at = "withdrawn")
    BY <1>1, EngineRestsIf, TurnRestsIf DEF Logout, StopAll, TurnRests, IInv
  <2> QED  BY <2>1 DEF EngineRests, IInv, OpWaits
<1>2. CASE Restart
  BY <1>2 DEF Restart, Volatile, OpWaits, IInv, IdleTurn
<1>3. ASSUME NEW c \in Slots, (\E kind \in Kinds : Ask(c, kind)) PROVE OpWaits'
  <2>1. EngineRests /\ TurnRests
    BY <1>3, AskDoes
  <2>2. \A d \in Slots : cmds'[d].at = "starting" <=> cmds[d].at = "starting"
    BY <1>3, AskDoes DEF NoCommand
  <2> QED  BY <2>1, <2>2 DEF EngineRests, TurnRests, IInv, OpWaits
<1>4. ASSUME NEW c \in Slots, RebindAcquisition(c) PROVE OpWaits'
  BY <1>4, CutIs DEF RebindAcquisition, At, OpWaits, IInv
<1>5. ASSUME NEW c \in Slots, RebindMonitor(c) PROVE OpWaits'
  <2>1. EngineRests /\ TurnRests
    BY <1>5, EngineRestsIf, TurnRestsIf DEF RebindMonitor, IInv
  <2>2. \A d \in Slots : cmds'[d].at = "starting" <=> cmds[d].at = "starting"
    BY <1>5, CommandIs, CommandGoes DEF RebindMonitor, IInv
  <2> QED  BY <2>1, <2>2 DEF EngineRests, TurnRests, IInv, OpWaits
<1>6. ASSUME NEW c \in Slots, RebindEntry(c) PROVE OpWaits'
  <2>1. op = NoOp /\ op' = NoOp /\ tk'.at = tk.at
    BY <1>6, RebindEntryDoes DEF EngineRests, TurnRests
  <2> QED  BY <2>1 DEF IInv, OpWaits
<1>7. ASSUME NEW c \in Slots, Settle(c) PROVE OpWaits'
  BY <1>7, CutIs DEF Settle, Waits, At, OpWaits, IInv, CmdsTyped, Commands
<1>8. ASSUME NEW c \in Slots, StartAcquisition(c) PROVE OpWaits'
  BY <1>8, CutIs DEF StartAcquisition, Body, Done, Ends, OpWaits, IInv
<1>9. ASSUME NEW c \in Slots, StartMonitor(c) PROVE OpWaits'
  BY <1>9, CutIs DEF StartMonitor, Body, Done, Ends, OpWaits, IInv
<1>10. ASSUME NEW c \in Slots, PauseInBody(c) PROVE OpWaits'
  <2>1. EngineRests /\ UNCHANGED tk
    BY <1>10, EngineRestsIf DEF PauseInBody, IInv
  <2>2. \A d \in Slots : cmds'[d].at = "starting" <=> cmds[d].at = "starting"
    BY <1>10, CommandIs, CommandGoes DEF PauseInBody, Body, IInv
  <2> QED  BY <2>1, <2>2 DEF EngineRests, IInv, OpWaits
<1>11. ASSUME NEW c \in Slots, PauseAcquisition(c) PROVE OpWaits'
  BY <1>11 DEF PauseAcquisition, Body, Done, Ends, OpWaits, IInv
<1>12. ASSUME NEW c \in Slots, ChangeWatch(c) PROVE OpWaits'
  BY <1>12 DEF ChangeWatch, Body, Done, Ends, OpWaits, IInv
<1>13. ASSUME NEW c \in Slots, Preview(c) PROVE OpWaits'
  BY <1>13 DEF Preview, Body, Done, Ends, OpWaits, IInv
<1>14. ASSUME NEW c \in Slots, StartSending(c) PROVE OpWaits'
  BY <1>14 DEF StartSending, At, EngineFree, OpWaits, IInv, CmdsTyped
<1>15. ASSUME NEW c \in Slots, StartChecked(c) PROVE OpWaits'
  BY <1>15 DEF StartChecked, OpWaits, IInv
<1>16. ASSUME NEW c \in Slots, AskAnalysis(c) PROVE OpWaits'
  BY <1>16 DEF AskAnalysis, Body, At, OpWaits, IInv
<1>17. ASSUME NEW c \in Slots, BodyFails(c) PROVE OpWaits'
  BY <1>17 DEF BodyFails, Done, Ends, OpWaits, IInv
<1>18. ASSUME NEW c \in Slots, Change(c) PROVE OpWaits'
  BY <1>18 DEF Change, Done, Ends, OpWaits, IInv
<1>19. ASSUME NEW c \in Slots, EndAnalysis(c) PROVE OpWaits'
  BY <1>19 DEF EndAnalysis, Done, Ends, OpWaits, IInv
<1>20. CASE TurnBegins
  BY <1>20 DEF TurnBegins, Pass, OpWaits, IInv
<1>21. CASE Authorized
  <2>1. tk.at = "auth" /\ tk'.at \in {"idle", "models", "pausing"}
    BY <1>21, AuthorizedDoes DEF IdleTurn
  <2>2. UNCHANGED cmds
    BY <1>21 DEF Authorized
  <2> QED  BY <1>21, <2>1, <2>2, AuthorizedDoes DEF EngineRests, IInv, OpWaits
<1>22. CASE Withdrawn
  <2>1. /\ EngineRests /\ UNCHANGED cmds
        /\ tk'.at = tk.at \/ (tk.at = "models" /\ tk'.at = "withdrawn")
    BY <1>22, EngineRestsIf, TurnGoes DEF Withdrawn, IInv
  <2> QED  BY <2>1 DEF EngineRests, IInv, OpWaits
<1>23. CASE PausedTurn
  BY <1>23 DEF PausedTurn, OpWaits, IInv, IdleTurn
<1>24. CASE Discovers
  BY <1>24
  DEF Discovers, Fails, Goes, OpWaits, IInv, TurnTyped, Passes, Turns, IdleTurn
<1>25. CASE MonitorHook
  <2>1. tk.at = "monitor" /\ tk'.at \in {"idle", "scan", "outreach"}
    BY <1>25, MonitorHookDoes, IdleTurnIs
  <2>2. UNCHANGED <<op, cmds>>
    BY <1>25 DEF MonitorHook
  <2> QED  BY <2>1, <2>2 DEF IInv, OpWaits
<1>26. CASE \/ AcquisitionTick \/ MonitorTick
  BY <1>26 DEF AcquisitionTick, MonitorTick, Pass, OpWaits, IInv, IdleTurn
<1>27. CASE Scanned
  BY <1>27
  DEF Scanned, MonitorGoesOn, MonitorDone, Goes, Pass, OpWaits, IInv,
      TurnTyped, Passes, Turns, IdleTurn
<1>28. CASE Classified
  BY <1>28 DEF Classified, Goes, OpWaits, IInv
<1>29. CASE MonitorFails
  BY <1>29
  DEF MonitorFails, Fails, MonitorDone, Goes, Pass, OpWaits, IInv, TurnTyped,
      Passes, Turns, IdleTurn
<1>30. CASE Outreach
  <2>1. tk.at = "outreach" /\ tk'.at \in {"idle", "preview"}
    BY <1>30, OutreachDoes, IdleTurnIs
  <2>2. UNCHANGED <<op, cmds>>
    BY <1>30 DEF Outreach
  <2> QED  BY <2>1, <2>2 DEF IInv, OpWaits
<1>31. CASE AcquisitionPreviews \/ AcquisitionAsksStart
  <2>1. /\ UNCHANGED cmds
        /\ \/ op' = op /\ tk.at \in {"preview", "previewed"} /\ tk'.at \in {"idle", "previewed"}
           \/ op'.kind = "start" /\ op'.who = "acquisition" /\ op' # NoOp /\ tk'.at = "starting"
    BY <1>31, AcquisitionPreviewsDoes, AcquisitionAsksStartDoes, IdleTurnIs
    DEF AcquisitionPreviews, AcquisitionAsksStart
  <2> QED  BY <2>1 DEF IInv, OpWaits
<1>32. CASE AcquisitionStarts
  BY <1>32
  DEF AcquisitionStarts, Fails, TickBegins, Goes, OpWaits, IInv, TurnTyped,
      Passes, Turns, IdleTurn
<1>33. CASE AcquisitionSent
  BY <1>33
  DEF AcquisitionSent, Fails, FailsUnknown, EngineFree, OpWaits, IInv, IdleTurn
<1>34. CASE EngineTurn
  BY <1>34, CancelledOpIs
  DEF EngineTurn, Pause, TickBegins, Pass, EngineFree, OpWaits, IInv, IdleTurn
<1>35. CASE EngineTurnEnds
  BY <1>35 DEF EngineTurnEnds, EngineFree, OpWaits, IInv, IdleTurn
<1>36. CASE TickChecked
  BY <1>36, TickDoes
  DEF TickChecked, TickSends, IInv, OpWaits
<1>37. CASE Sent
  BY <1>37
  DEF Sent, IInv, OpSends, OpWaits, NoOp
<1>38. CASE SendUnknown
  BY <1>38
  DEF SendUnknown, IInv, OpSends, OpWaits, NoOp
<1>39. CASE \/ Login \/ Expire \/ NextDay \/ UNCHANGED vars
  <2>1. UNCHANGED <<op, tk, cmds>>
    BY <1>39
    DEF Login, Expire, NextDay, vars
  <2> QED  BY <2>1 DEF IInv, OpWaits
<1> QED
  BY <1>1, <1>2, <1>3, <1>4, <1>5, <1>6, <1>7, <1>8, <1>9, <1>10, <1>11, <1>12,
     <1>13, <1>14, <1>15, <1>16, <1>17, <1>18, <1>19, <1>20, <1>21, <1>22,
     <1>23, <1>24, <1>25, <1>26, <1>27, <1>28, <1>29, <1>30, <1>31, <1>32,
     <1>33, <1>34, <1>35, <1>36, <1>37, <1>38, <1>39
  DEF Next, Command, Scheduler, Sending

LEMMA KeepsOpSends == IInv /\ [Next]_vars => OpSends'
<1> SUFFICES ASSUME IInv, [Next]_vars PROVE OpSends'
  OBVIOUS
<1> USE DEF login, timers, engine, money, requests
<1>1. CASE Pausing
  BY <1>1, PausingDoes
  DEF EngineRests, IInv, OpSends
<1>2. CASE Restart
  BY <1>2 DEF Restart, Volatile, OpSends
<1>3. ASSUME NEW c \in Slots, Change(c) PROVE OpSends'
  BY <1>3 DEF Change, Paused, EngineFree, OpSends
<1>4. CASE \/ (\E c \in Slots : ChangeWatch(c))
           \/ (\E c \in Slots : AskAnalysis(c))
           \/ (\E c \in Slots : EndAnalysis(c)) \/ Scanned
           \/ Classified \/ MonitorFails
  BY <1>4, CandidatesStay
  DEF ChangeWatch, AskAnalysis, EndAnalysis, Scanned, Classified, MonitorFails,
      OpSends, IInv, OpTyped
<1>5. CASE \/ (\E c \in Slots : Preview(c)) \/ AcquisitionPreviews \/ AcquisitionAsksStart
  BY <1>5 DEF Preview, AcquisitionPreviews, AcquisitionAsksStart, EngineFree, workspace, OpSends, IInv
<1>6. CASE AcquisitionStarts
  BY <1>6 DEF AcquisitionStarts, TickBegins, OpSends
<1>7. CASE EngineTurn
  BY <1>7, CancelledOpIs
  DEF EngineTurn, Pause, TickBegins, EngineFree, OpSends, IInv
<1>8. CASE TickChecked
  <2>1. UNCHANGED candidates
    BY <1>8 DEF TickChecked, workspace
  <2> QED  BY <1>8, <2>1, TickDoes DEF TickSends, Plannable, OpSends
<1>9. CASE \/ (\E c \in Slots : StartSending(c))
           \/ (\E c \in Slots : StartChecked(c)) \/ Sent \/ SendUnknown
  BY <1>9 DEF StartSending, StartChecked, Sent, SendUnknown, OpSends
<1>10. CASE \/ (\E c \in Slots : RebindAcquisition(c))
            \/ (\E c \in Slots : Settle(c))
            \/ (\E c \in Slots : BodyFails(c))
            \/ (\E c \in Slots : StartAcquisition(c))
            \/ (\E c \in Slots : StartMonitor(c))
            \/ (\E c \in Slots : PauseAcquisition(c))
  <2>1. UNCHANGED <<op, eng, candidates>>
    BY <1>10
    DEF RebindAcquisition, Settle, Waits, BodyFails, StartAcquisition,
       StartMonitor, PauseAcquisition, workspace
  <2> QED  BY <2>1 DEF IInv, OpSends
<1>11. CASE \/ Login \/ Expire \/ NextDay \/ TurnBegins \/ PausedTurn
            \/ AcquisitionTick \/ Discovers \/ MonitorHook
            \/ MonitorTick \/ Outreach \/ AcquisitionSent
            \/ EngineTurnEnds \/ UNCHANGED vars
  <2>1. UNCHANGED <<op, eng, candidates>>
    BY <1>11
    DEF Login, Expire, NextDay, TurnBegins, PausedTurn, AcquisitionTick,
       Discovers, MonitorHook, MonitorTick, Outreach, Reserve, AcquisitionSent,
       EngineTurnEnds, vars, workspace
  <2> QED  BY <2>1 DEF IInv, OpSends
<1> QED
  BY <1>1, <1>2, <1>3, <1>4, <1>5, <1>6, <1>7, <1>8, <1>9, <1>10, <1>11
  DEF Next, Command, Scheduler, Sending, Pausing

LEMMA KeepsUnknownRests == IInv /\ [Next]_vars => UnknownRests'
<1> SUFFICES ASSUME IInv, [Next]_vars PROVE UnknownRests'
  OBVIOUS
<1> USE DEF login, timers, engine, money, requests
<1>1. CASE Pausing
  BY <1>1, PausingDoes
  DEF EngineRests, IInv, UnknownRests
<1>2. CASE Restart
  BY <1>2, PausedEngineIs
  DEF Restart, Volatile, UnknownRests, IInv, LedgerTyped
<1>3. ASSUME NEW c \in Slots, Preview(c) PROVE UnknownRests'
  BY <1>3 DEF Preview, Previewable, UnknownRests
<1>4. CASE AcquisitionPreviews \/ AcquisitionAsksStart
  BY <1>4 DEF AcquisitionPreviews, AcquisitionAsksStart, Previewable, UnknownRests, IInv
<1>5. CASE EngineTurn
  BY <1>5 DEF EngineTurn, Pause, UnknownRests, IInv
<1>6. CASE TickChecked
  BY <1>6, TickDoes
  DEF EngineGoesOn, TickSends, IInv, UnknownRests
<1>7. ASSUME NEW c \in Slots, StartSending(c) PROVE UnknownRests'
  BY <1>7 DEF StartSending, UnknownRests, IInv
<1>8. ASSUME NEW c \in Slots, StartChecked(c) PROVE UnknownRests'
  BY <1>8 DEF StartChecked, UnknownRests, IInv
<1>9. CASE AcquisitionStarts
  BY <1>9 DEF AcquisitionStarts, UnknownRests, IInv
<1>10. CASE Sent
  BY <1>10 DEF Sent, UnknownRests, IInv
<1>11. CASE SendUnknown
  BY <1>11 DEF SendUnknown, UnknownRests
<1>12. CASE \/ (\E c \in Slots : RebindAcquisition(c))
            \/ (\E c \in Slots : Settle(c))
            \/ (\E c \in Slots : BodyFails(c))
            \/ (\E c \in Slots : StartAcquisition(c))
            \/ (\E c \in Slots : StartMonitor(c))
            \/ (\E c \in Slots : PauseAcquisition(c))
            \/ (\E c \in Slots : Change(c))
            \/ (\E c \in Slots : ChangeWatch(c))
            \/ (\E c \in Slots : AskAnalysis(c))
            \/ (\E c \in Slots : EndAnalysis(c))
  <2>1. UNCHANGED <<ledger, op, eng>>
    BY <1>12
    DEF RebindAcquisition, Settle, Waits, BodyFails, StartAcquisition,
       StartMonitor, PauseAcquisition, Change, ChangeWatch, AskAnalysis,
       EndAnalysis
  <2> QED  BY <2>1 DEF IInv, UnknownRests
<1>13. CASE \/ Login \/ Expire \/ NextDay \/ TurnBegins \/ PausedTurn
            \/ AcquisitionTick \/ Discovers \/ MonitorHook
            \/ MonitorTick \/ Scanned \/ Classified \/ MonitorFails
            \/ Outreach \/ AcquisitionSent \/ EngineTurnEnds
            \/ UNCHANGED vars
  <2>1. UNCHANGED <<ledger, op, eng>>
    BY <1>13
    DEF Login, Expire, NextDay, TurnBegins, PausedTurn, AcquisitionTick,
       Discovers, MonitorHook, MonitorTick, Scanned, MonitorGoesOn, Classified,
       MonitorFails, Outreach, Reserve, AcquisitionSent, EngineTurnEnds, vars
  <2> QED  BY <2>1 DEF IInv, UnknownRests
<1> QED
  BY <1>1, <1>2, <1>3, <1>4, <1>5, <1>6, <1>7, <1>8, <1>9, <1>10, <1>11, <1>12,
     <1>13
  DEF Next, Command, Scheduler, Sending, Pausing

LEMMA KeepsAttemptsFit == IInv /\ [Next]_vars => AttemptsFit'
<1> SUFFICES ASSUME IInv, [Next]_vars PROVE AttemptsFit'
  OBVIOUS
<1> USE DEF login, timers, engine, money, requests
<1>1. CASE Pausing
  BY <1>1, PausingDoes
  DEF EngineRests, IInv, AttemptsFit
<1>2. CASE Restart
  <2>1. UNCHANGED <<candidates, attempts>> /\ ledger'.unknown = (ledger.unknown \/ Lost)
    BY <1>2 DEF Restart, WorkspaceRestart, IInv, LedgerTyped
  <2>2. op # NoOp /\ op.at = "send" => ledger'.unknown
    BY <2>1 DEF Lost
  <2> QED  BY <2>1, <2>2 DEF IInv, AttemptsFit
<1>3. ASSUME NEW c \in Slots, StartChecked(c) PROVE AttemptsFit'
  <2>1. op # NoOp /\ op.at # "send" /\ UNCHANGED <<candidates, ledger, attempts>>
    BY <1>3 DEF StartChecked, IInv, OpSends, workspace
  <2> QED  BY <2>1 DEF IInv, AttemptsFit
<1>4. CASE \/ (\E c \in Slots : Change(c))
           \/ (\E c \in Slots : ChangeWatch(c))
           \/ (\E c \in Slots : AskAnalysis(c))
           \/ (\E c \in Slots : EndAnalysis(c)) \/ Scanned
           \/ Classified \/ MonitorFails
  BY <1>4, KeepsWorkspaceInv
  DEF Change, ChangeWatch, AskAnalysis, EndAnalysis, Scanned, Classified,
      MonitorFails, AttemptsFit, IInv
<1>5. CASE \/ (\E c \in Slots : StartSending(c)) \/ AcquisitionPreviews \/ AcquisitionAsksStart
  BY <1>5, KeepsWorkspaceInv
  DEF StartSending, AcquisitionPreviews, AcquisitionAsksStart, EngineFree, AttemptsFit, IInv
<1>6. CASE AcquisitionStarts
  <2>1. op.at # "send" /\ UNCHANGED <<candidates, ledger, attempts>>
    BY <1>6, AcquisitionStartsDoes DEF AcquisitionStarts, workspace
  <2> QED  BY <2>1 DEF IInv, AttemptsFit
<1>7. CASE EngineTurn
  BY <1>7, KeepsWorkspaceInv
  DEF EngineTurn, Pause, EngineFree, AttemptsFit, IInv
<1>8. CASE TickChecked
  <2>1. UNCHANGED candidates /\ attempts \in [Recipients -> Nat] /\ AttemptsFit
    BY <1>8 DEF TickChecked, workspace, IInv, MoneyTyped
  <2>2. CASE op' = NoOp /\ UNCHANGED <<ledger, attempts, used>>
    BY <1>8, <2>1, <2>2, TickDoes DEF AttemptsFit
  <2>3. CASE ledger' = [ledger EXCEPT !.unknown = TRUE] /\ UNCHANGED attempts
    <3>1. ledger'.unknown
      BY <2>3 DEF IInv, LedgerTyped
    <3> QED  BY <2>1, <2>3, <3>1 DEF AttemptsFit
  <2>4. ASSUME NEW r \in Recipients, TickSends(r) PROVE AttemptsFit'
    <3>1. ~ledger.unknown /\ op.at # "send"
      BY <1>8, TickDoes
    <3>2. attempts[r] = 0
      BY <2>1, <2>4, <3>1 DEF TickSends, Plannable, AttemptsFit
    <3>3. attempts' = [attempts EXCEPT ![r] = 1]
      BY <2>1, <2>4, <3>2 DEF TickSends
    <3> QED  BY <2>1, <2>4, <3>1, <3>3 DEF TickSends, AttemptsFit
  <2> QED  BY <1>8, <2>2, <2>3, <2>4, TickDoes
<1>9. CASE Sent
  <2>1. op # NoOp /\ op.at = "send" /\ op.to \in Recipients /\ MarkContacted(op.to)
    BY <1>9 DEF Sent, IInv, OpTyped
  <2>2. candidates[op.to].review \notin {"none", "opted-out"}
    BY <2>1 DEF IInv, OpSends
  <2>3. candidates'[op.to].review = "contacted"
    BY <2>1, <2>2 DEF MarkContacted, ContactedAfter, NoCandidate, IInv, WorkspaceInv, WorkspaceTypes
  <2>4. ledger'.unknown = ledger.unknown /\ UNCHANGED attempts
    BY <1>9 DEF Sent, IInv, LedgerTyped
  <2> QED  BY <2>3, <2>4, KeepsWorkspaceInv DEF IInv, AttemptsFit
<1>10. CASE SendUnknown
  BY <1>10 DEF SendUnknown, AttemptsFit, IInv
<1>11. CASE \/ (\E c \in Slots : RebindAcquisition(c))
            \/ (\E c \in Slots : Settle(c))
            \/ (\E c \in Slots : BodyFails(c))
            \/ (\E c \in Slots : StartAcquisition(c))
            \/ (\E c \in Slots : StartMonitor(c))
            \/ (\E c \in Slots : PauseAcquisition(c))
            \/ (\E c \in Slots : Preview(c))
  <2>1. UNCHANGED <<attempts, ledger, op, candidates>>
    BY <1>11
    DEF RebindAcquisition, Settle, Waits, BodyFails, StartAcquisition,
       StartMonitor, PauseAcquisition, Preview, workspace
  <2> QED  BY <2>1 DEF IInv, AttemptsFit
<1>12. CASE \/ Login \/ Expire \/ NextDay \/ TurnBegins \/ PausedTurn
            \/ AcquisitionTick \/ Discovers \/ MonitorHook
            \/ MonitorTick \/ Outreach \/ AcquisitionSent
            \/ EngineTurnEnds \/ UNCHANGED vars
  <2>1. UNCHANGED <<attempts, ledger, op, candidates>>
    BY <1>12
    DEF Login, Expire, NextDay, TurnBegins, PausedTurn, AcquisitionTick,
       Discovers, MonitorHook, MonitorTick, Outreach, Reserve, AcquisitionSent,
       EngineTurnEnds, vars, workspace
  <2> QED  BY <2>1 DEF IInv, AttemptsFit
<1> QED
  BY <1>1, <1>2, <1>3, <1>4, <1>5, <1>6, <1>7, <1>8, <1>9, <1>10, <1>11, <1>12
  DEF Next, Command, Scheduler, Sending, Pausing

LEMMA KeepsBudgetFits == IInv /\ [Next]_vars => BudgetFits'
<1> SUFFICES ASSUME IInv, [Next]_vars PROVE BudgetFits'
  OBVIOUS
<1> USE DEF login, timers, engine, money, requests
<1>1. CASE Pausing
  BY <1>1, PausingDoes, BudgetStays
  DEF EngineRests
<1>2. CASE Restart
  <2>1. ~Outstanding'
    BY <1>2, PausedEngineIs DEF Restart, Volatile, IdleTurn, Outstanding, IInv, EngTyped, Engines, Plans
  <2>2. eng'.plan.by = "nobody" /\ UNCHANGED <<used, budget>>
    BY <1>2, PausedEngineIs DEF Restart, IInv, Engines, Plans
  <2> QED  BY <2>1, <2>2 DEF IInv, MoneyTyped, BudgetFits
<1>3. ASSUME NEW c \in Slots, Settle(c) PROVE BudgetFits'
  BY <1>3, CutIs DEF Settle, Waits, BudgetFits, IInv, Outstanding
<1>4. ASSUME NEW c \in Slots, RebindAcquisition(c) PROVE BudgetFits'
  BY <1>4, CutIs DEF RebindAcquisition, BudgetFits, IInv, Outstanding
<1>5. ASSUME NEW c \in Slots, StartAcquisition(c) PROVE BudgetFits'
  BY <1>5, CutIs DEF StartAcquisition, BudgetFits, IInv, Outstanding
<1>6. ASSUME NEW c \in Slots, StartMonitor(c) PROVE BudgetFits'
  BY <1>6, CutIs DEF StartMonitor, BudgetFits, IInv, Outstanding
<1>7. ASSUME NEW c \in Slots, Preview(c) PROVE BudgetFits'
  BY <1>7 DEF Preview, BudgetFits, IInv, Outstanding, MoneyTyped
<1>8. ASSUME NEW c \in Slots, StartSending(c) PROVE BudgetFits'
  BY <1>8 DEF StartSending, EngineFree, BudgetFits, IInv, Outstanding
<1>9. ASSUME NEW c \in Slots, StartChecked(c) PROVE BudgetFits'
  <2>1. op # NoOp /\ op.at # "send" /\ op.login \in Signals
    BY <1>9 DEF StartChecked, IInv, OpSends, OpTyped, Operations, Ops
  <2>2. eng'.plan = eng.plan
    BY <1>9, <2>1, StartedIs DEF StartChecked, IInv
  <2> QED  BY <1>9, <2>1, <2>2, BudgetStays DEF StartChecked
<1>10. CASE TurnBegins
  BY <1>10 DEF TurnBegins, Pass, BudgetFits, IInv, Outstanding
<1>11. CASE Discovers
  BY <1>11
  DEF Discovers, Fails, Goes, BudgetFits, IInv, Outstanding, TurnTyped, Passes,
      Turns, IdleTurn
<1>12. CASE MonitorHook
  <2>1. EngineRests /\ (tk'.at = "preview" => tk.at = "preview") /\ UNCHANGED <<used, budget>>
    BY <1>12, EngineRestsIf, MonitorHookDoes, IdleTurnIs DEF MonitorHook, IInv
  <2>2. eng'.plan = eng.plan /\ ledger' = ledger /\ (op # NoOp => op' # NoOp /\ op'.at = op.at)
    BY <2>1 DEF EngineRests
  <2> QED  BY <2>1, <2>2, BudgetStays
<1>13. CASE \/ AcquisitionTick \/ MonitorTick
  BY <1>13
  DEF AcquisitionTick, MonitorTick, Pass, BudgetFits, IInv, Outstanding,
      IdleTurn
<1>14. CASE Scanned
  BY <1>14
  DEF Scanned, MonitorGoesOn, MonitorDone, Goes, Pass, BudgetFits, IInv,
      Outstanding, TurnTyped, Passes, Turns, IdleTurn
<1>15. CASE Classified
  BY <1>15 DEF Classified, Goes, BudgetFits, IInv, Outstanding
<1>16. CASE MonitorFails
  BY <1>16
  DEF MonitorFails, Fails, MonitorDone, Goes, Pass, BudgetFits, IInv,
      Outstanding, TurnTyped, Passes, Turns, IdleTurn
<1>17. CASE Outreach
  <2>1. used \in Nat /\ budget.attempts \in Nat
    BY DEF IInv, MoneyTyped
  <2> UNCHANGED <<eng, op, ledger>>
    BY <1>17 DEF Outreach
  <2>2. CASE tk' = IdleTurn /\ UNCHANGED money
    <3>1. eng'.plan = eng.plan /\ tk'.at = "idle" /\ UNCHANGED <<used, budget>>
      BY <2>1, <2>2, IdleTurnIs
    <3> QED  BY <2>1, <3>1, BudgetStays
  <2>3. CASE Reserve
    <3>1. used' + 1 <= budget'.attempts /\ used' \in Nat
      <4>1. used <= budget.attempts
        BY <2>1 DEF IInv, BudgetFits
      <4> QED  BY <2>1, <2>3, <4>1 DEF Reserve, UsedToday
    <3>2. budget'.attempts \in Nat
      BY <2>1, <2>3 DEF Reserve, UsedToday
    <3> QED  BY <2>1, <3>1, <3>2 DEF IInv, BudgetFits
  <2> QED  BY <1>17, <2>2, <2>3, OutreachDoes
<1>18. CASE AcquisitionPreviews
  <2>1. used \in Nat /\ budget.attempts \in Nat /\ UNCHANGED <<used, budget, ledger>> /\ tk.to \in Recipients
    BY <1>18 DEF AcquisitionPreviews, IInv, MoneyTyped, TurnTyped
  <2>2. tk.at = "preview" /\ Outstanding /\ used + 1 <= budget.attempts
    BY <1>18, AcquisitionPreviewsDoes DEF Outstanding, IInv, BudgetFits
  <2>3. eng' = eng \/ eng'.plan.recipients = {tk.to}
    BY <1>18, AcquisitionPreviewsDoes
  <2>4. eng'.plan.by = "acquisition" => \E r \in Recipients : eng'.plan.recipients \subseteq {r}
    BY <2>1, <2>3 DEF IInv, BudgetFits
  <2> QED  BY <2>1, <2>2, <2>4 DEF BudgetFits
<1>28. CASE AcquisitionAsksStart
  <2>1. /\ eng' = eng /\ tk'.at # "preview" /\ UNCHANGED <<used, budget, ledger>>
        /\ op # NoOp => op' = op
    BY <1>28, AcquisitionAsksStartDoes, IdleTurnIs DEF AcquisitionAsksStart
  <2> QED  BY <2>1, BudgetStays
<1>19. CASE AcquisitionStarts
  <2>1. op.at # "send" /\ eng'.plan = eng.plan /\ tk'.at # "preview"
    BY <1>19, AcquisitionStartsDoes, IdleTurnIs
  <2> QED  BY <1>19, <2>1, BudgetStays DEF AcquisitionStarts
<1>20. CASE AcquisitionSent
  BY <1>20
  DEF AcquisitionSent, Fails, FailsUnknown, BudgetFits, IInv, Outstanding,
      IdleTurn
<1>21. CASE EngineTurn
  BY <1>21, CancelledOpIs, PausedEngineIs
  DEF EngineTurn, Pause, TickBegins, Pass, EngineFree, BudgetFits, IInv,
      Outstanding, IdleTurn, EngTyped, Engines
<1>22. CASE \/ PausedTurn \/ EngineTurnEnds
  BY <1>22
  DEF PausedTurn, EngineTurnEnds, BudgetFits, IInv, Outstanding, IdleTurn
<1>23. CASE TickChecked
  <2>1. used \in Nat /\ budget.attempts \in Nat /\ UNCHANGED <<budget, tk>>
    BY <1>23 DEF TickChecked, IInv, MoneyTyped
  <2>2. /\ op # NoOp /\ op.kind = "tick" /\ op.at = "check" /\ ~ledger.unknown
        /\ eng'.plan.by = eng.plan.by /\ eng'.plan.recipients \subseteq eng.plan.recipients
    BY <1>23, TickDoes DEF EngineGoesOn
  <2>3. tk.at # "preview"
    BY <2>2 DEF IInv, OpWaits
  <2>4. eng'.plan.by = "acquisition" => \E r \in Recipients : eng'.plan.recipients \subseteq {r}
    BY <2>2 DEF IInv, BudgetFits
  <2>5. CASE UNCHANGED used
    <3>1. Outstanding' => Outstanding
      BY <2>1, <2>2, <2>3 DEF Outstanding
    <3> QED  BY <2>1, <2>4, <2>5, <3>1 DEF IInv, BudgetFits
  <2>6. ASSUME NEW r \in Recipients, TickSends(r) PROVE BudgetFits'
    <3>1. ~Outstanding'
      BY <2>1, <2>3, <2>6 DEF Outstanding, TickSends
    <3>2. eng.plan.by = "acquisition" => Outstanding
      BY <2>2, <2>6 DEF Outstanding, TickSends
    <3>3. used' <= budget.attempts
      BY <2>1, <2>6, <3>2 DEF IInv, BudgetFits, TickSends
    <3> QED  BY <2>1, <2>4, <3>1, <3>3 DEF BudgetFits
  <2> QED  BY <1>23, <2>5, <2>6, TickDoes
<1>24. CASE Sent
  <2>1. op # NoOp /\ op.at = "send" /\ op.to \in eng.plan.recipients /\ EngTyped
    BY <1>24 DEF Sent, IInv, OpSends
  <2>2. /\ eng'.plan.by = eng.plan.by /\ eng'.plan.recipients = eng.plan.recipients \ {op.to}
        /\ UNCHANGED <<used, budget, tk>>
    BY <1>24, <2>1, PassedIs DEF Sent
  <2>3. eng'.plan.by = "acquisition" => eng'.plan.recipients = {}
    BY <2>1, <2>2 DEF IInv, BudgetFits
  <2>4. Outstanding' => Outstanding
    BY <2>2, <2>3 DEF Outstanding
  <2>5. used \in Nat /\ budget.attempts \in Nat
    BY DEF IInv, MoneyTyped
  <2> QED  BY <2>2, <2>3, <2>4, <2>5 DEF IInv, BudgetFits
<1>25. CASE SendUnknown
  BY <1>25 DEF SendUnknown, BudgetFits, IInv, Outstanding
<1>26. CASE \/ (\E c \in Slots : BodyFails(c))
            \/ (\E c \in Slots : PauseAcquisition(c))
            \/ (\E c \in Slots : Change(c))
            \/ (\E c \in Slots : ChangeWatch(c))
            \/ (\E c \in Slots : AskAnalysis(c))
            \/ (\E c \in Slots : EndAnalysis(c))
  <2>1. UNCHANGED <<tk, eng, ledger, op, used, budget>>
    BY <1>26
    DEF BodyFails, PauseAcquisition, Change, ChangeWatch, AskAnalysis,
       EndAnalysis
  <2> QED  BY <2>1 DEF IInv, BudgetFits, Outstanding
<1>27. CASE \/ Login \/ Expire \/ NextDay \/ UNCHANGED vars
  <2>1. UNCHANGED <<tk, eng, ledger, op, used, budget>>
    BY <1>27
    DEF Login, Expire, NextDay, vars
  <2> QED  BY <2>1 DEF IInv, BudgetFits, Outstanding
<1> QED
  BY <1>1, <1>2, <1>3, <1>4, <1>5, <1>6, <1>7, <1>8, <1>9, <1>10, <1>11, <1>12,
     <1>13, <1>14, <1>15, <1>16, <1>17, <1>18, <1>19, <1>20, <1>21, <1>22,
     <1>23, <1>24, <1>25, <1>26, <1>27, <1>28
  DEF Next, Command, Scheduler, Sending, Pausing

LEMMA KeepsLoginFits == IInv /\ [Next]_vars => LoginFits'
<1> SUFFICES ASSUME IInv, [Next]_vars PROVE LoginFits'
  OBVIOUS
<1> USE DEF login, timers, engine, money, requests
<1>1. CASE Logout
  BY <1>1 DEF Logout, LoginFits, IInv, Live
<1>2. CASE Login
  BY <1>2
  DEF Login, LoginFits, IInv, Live, LoginTyped, CmdsTyped, Commands, Signals
<1>3. CASE Restart
  BY <1>3 DEF Restart, Volatile, LoginFits, IInv, LoginTyped, Signals
<1>4. ASSUME NEW c \in Slots, (\E kind \in Kinds : Ask(c, kind)) PROVE LoginFits'
  BY <1>4 DEF Ask, LoginFits, IInv, Live, LoginTyped, CmdsTyped, Signals
<1>5. ASSUME NEW c \in Slots, RebindAcquisition(c) PROVE LoginFits'
  BY <1>5 DEF RebindAcquisition, At, LoginFits, IInv, Live, NoCommand
<1>6. ASSUME NEW c \in Slots, RebindMonitor(c) PROVE LoginFits'
  BY <1>6 DEF RebindMonitor, At, LoginFits, IInv, Live, NoCommand
<1>7. ASSUME NEW c \in Slots, RebindEntry(c) PROVE LoginFits'
  BY <1>7, CommandGoes, CommandEnds
  DEF RebindEntry, LoginFits, IInv, Live, NoCommand
<1>8. ASSUME NEW c \in Slots, Settle(c) PROVE LoginFits'
  BY <1>8, CommandGoes DEF Settle, Waits, LoginFits, IInv, Live, NoCommand
<1>9. ASSUME NEW c \in Slots, PauseInBody(c) PROVE LoginFits'
  BY <1>9 DEF PauseInBody, Body, At, LoginFits, IInv, Live, NoCommand
<1>10. ASSUME NEW c \in Slots, StartSending(c) PROVE LoginFits'
  BY <1>10 DEF StartSending, Body, At, LoginFits, IInv, Live, NoCommand
<1>11. ASSUME NEW c \in Slots, AskAnalysis(c) PROVE LoginFits'
  BY <1>11 DEF AskAnalysis, Body, At, LoginFits, IInv, Live, NoCommand
<1>12. ASSUME NEW c \in Slots, BodyFails(c) PROVE LoginFits'
  BY <1>12 DEF BodyFails, Done, Ends, LoginFits, IInv, Live
<1>13. ASSUME NEW c \in Slots, StartAcquisition(c) PROVE LoginFits'
  BY <1>13 DEF StartAcquisition, Done, Ends, LoginFits, IInv, Live
<1>14. ASSUME NEW c \in Slots, StartMonitor(c) PROVE LoginFits'
  BY <1>14 DEF StartMonitor, Done, Ends, LoginFits, IInv, Live
<1>15. ASSUME NEW c \in Slots, PauseAcquisition(c) PROVE LoginFits'
  BY <1>15 DEF PauseAcquisition, Done, Ends, LoginFits, IInv, Live
<1>16. ASSUME NEW c \in Slots, Change(c) PROVE LoginFits'
  BY <1>16 DEF Change, Done, Ends, LoginFits, IInv, Live
<1>17. ASSUME NEW c \in Slots, ChangeWatch(c) PROVE LoginFits'
  BY <1>17 DEF ChangeWatch, Done, Ends, LoginFits, IInv, Live
<1>18. ASSUME NEW c \in Slots, Preview(c) PROVE LoginFits'
  BY <1>18 DEF Preview, Done, Ends, LoginFits, IInv, Live
<1>19. ASSUME NEW c \in Slots, StartChecked(c) PROVE LoginFits'
  BY <1>19 DEF StartChecked, Done, Ends, LoginFits, IInv, Live
<1>20. ASSUME NEW c \in Slots, EndAnalysis(c) PROVE LoginFits'
  BY <1>20 DEF EndAnalysis, Done, Ends, LoginFits, IInv, Live
<1>21. CASE \/ Expire \/ NextDay \/ TurnBegins \/ Authorized
            \/ Withdrawn \/ PausedTurn \/ AcquisitionTick \/ Discovers
            \/ MonitorHook \/ MonitorTick \/ Scanned \/ Classified
            \/ MonitorFails \/ Outreach \/ AcquisitionPreviews \/ AcquisitionAsksStart
            \/ AcquisitionStarts \/ AcquisitionSent \/ EngineTurn
            \/ EngineTurnEnds \/ TickChecked \/ Sent \/ SendUnknown
            \/ UNCHANGED vars
  <2>1. UNCHANGED <<session, entrySignal, listens, cmds>>
    BY <1>21
    DEF Expire, NextDay, TurnBegins, Authorized, Withdrawn, PausedTurn,
       AcquisitionTick, Discovers, MonitorHook, MonitorTick, Scanned,
       MonitorGoesOn, Classified, MonitorFails, Outreach, Reserve,
       AcquisitionPreviews, AcquisitionAsksStart, AcquisitionStarts, AcquisitionSent, EngineTurn,
       EngineTurnEnds, TickChecked, TickPasses, Sent, SendUnknown, vars
  <2> QED  BY <2>1 DEF IInv, LoginFits, Live
<1> QED
  BY <1>1, <1>2, <1>3, <1>4, <1>5, <1>6, <1>7, <1>8, <1>9, <1>10, <1>11, <1>12,
     <1>13, <1>14, <1>15, <1>16, <1>17, <1>18, <1>19, <1>20, <1>21
  DEF Next, Command, Scheduler, Sending

LEMMA KeepsRunsFit == IInv /\ [Next]_vars => RunsFit'
<1> SUFFICES ASSUME IInv, [Next]_vars PROVE RunsFit'
  OBVIOUS
<1> USE DEF login, timers, engine, money, requests
<1>1. CASE Pausing
  <2>1. EngineRests /\ AcqTyped /\ MonTyped /\ EngTyped /\ OpTyped
    BY <1>1, PausingDoes DEF IInv
  <2>2. CASE Logout
    <3>1. CASE session.number \in listens
      <4>1. StopAcquisition /\ StopMonitor /\ Pause
        BY <2>2, <3>1 DEF Logout, StopAll
      <4> QED
        BY <2>1, <4>1, AcquisitionStops, MonitorStops, EnginePauses DEF RunsFit
    <3>2. CASE session.number \notin listens
      BY <2>2, <3>2 DEF Logout, IInv, RunsFit, Lasts, Live, Checked
    <3> QED  BY <3>1, <3>2
  <2>3. CASE ~Logout
    <3>1. UNCHANGED session /\ listens \subseteq listens'
      BY <1>1, <2>3, RebindEntryDoes, AskDoes
      DEF Pausing, Authorized, Withdrawn, PauseInBody, RebindMonitor, RebindEntry
    <3>2. acq' = acq \/ acq'.phase = "paused"
      BY <1>1, <2>3, AuthorizedDoes, RebindEntryDoes, AskDoes
      DEF Pausing, Withdrawn, PauseInBody, RebindMonitor
    <3>3. mon' = mon \/ mon'.phase = "paused"
      BY <1>1, <2>1, <2>3, AuthorizedDoes, RebindEntryDoes, AskDoes, MonitorStops
      DEF Pausing, Withdrawn, PauseInBody, RebindMonitor, MonTyped, Monitors
    <3>4. entrySignal' = entrySignal \/ op = NoOp
      BY <1>1, <2>3, RebindEntryDoes, AskDoes
      DEF Pausing, Authorized, Withdrawn, PauseInBody, RebindMonitor
    <3> QED
      BY <2>1, <3>1, <3>2, <3>3, <3>4 DEF EngineRests, IInv, RunsFit, Lasts, Live, Checked
  <2> QED  BY <2>2, <2>3
<1>2. CASE Restart
  BY <1>2, PausedEngineIs DEF Restart, Volatile, RunsFit, IInv
<1>3. ASSUME NEW c \in Slots, RebindAcquisition(c) PROVE RunsFit'
  BY <1>3 DEF RebindAcquisition, StopMonitor, RunsFit, IInv, Lasts, Live, Checked
<1>4. ASSUME NEW c \in Slots, Settle(c) PROVE RunsFit'
  BY <1>4
  DEF Settle, Waits, StopMonitor, RunsFit, IInv, Lasts, Live, Checked, MonTyped,
      Monitors
<1>5. ASSUME NEW c \in Slots, StartAcquisition(c) PROVE RunsFit'
  <2>1. cmds[c] # NoCommand /\ cmds[c].at = "queue" /\ Live(cmds[c].login)
    BY <1>5, CommandIs DEF StartAcquisition, Body
  <2>2. Lasts(cmds[c].login)
    BY <2>1 DEF IInv, LoginFits, Lasts
  <2>3. acq'.login = cmds[c].login
    BY <1>5 DEF StartAcquisition, IInv, AcqTyped, Runners
  <2> QED  BY <1>5, <2>2, <2>3 DEF StartAcquisition, IInv, RunsFit, Lasts, Live, Checked
<1>6. ASSUME NEW c \in Slots, StartMonitor(c) PROVE RunsFit'
  <2>1. cmds[c] # NoCommand /\ cmds[c].at = "queue" /\ Live(cmds[c].login)
    BY <1>6, CommandIs DEF StartMonitor, Body
  <2>2. Lasts(cmds[c].login)
    BY <2>1 DEF IInv, LoginFits, Lasts
  <2>3. mon'.login = cmds[c].login
    BY <1>6 DEF StartMonitor, IInv, MonTyped, Monitors
  <2> QED  BY <1>6, <2>2, <2>3 DEF StartMonitor, IInv, RunsFit, Lasts, Live, Checked
<1>7. ASSUME NEW c \in Slots, StartSending(c) PROVE RunsFit'
  <2>1. cmds[c] # NoCommand /\ cmds[c].at = "queue" /\ Live(cmds[c].login)
    BY <1>7, CommandIs DEF StartSending, Body
  <2>2. Lasts(cmds[c].login)
    BY <2>1 DEF IInv, LoginFits, Lasts
  <2>3. op' = NoOp \/ op'.login = cmds[c].login
    BY <1>7 DEF StartSending
  <2> QED  BY <1>7, <2>2, <2>3 DEF StartSending, IInv, RunsFit, Lasts, Live, Checked
<1>8. ASSUME NEW c \in Slots, StartChecked(c) PROVE RunsFit'
  BY <1>8, StartedIs DEF StartChecked, RunsFit, IInv, Lasts, Live, Checked, LoginTyped
<1>9. CASE AcquisitionTick
  BY <1>9 DEF AcquisitionTick, RunsFit, IInv, Lasts, Live, Checked, AcqTyped, Runners
<1>10. CASE Discovers
  BY <1>10
  DEF Discovers, Fails, FailedTo, RunsFit, IInv, Lasts, Live, Checked, AcqTyped, Runners
<1>11. CASE MonitorHook
  <2>1. UNCHANGED <<session, entrySignal, listens, eng, op>>
    BY <1>11 DEF MonitorHook
  <2>2. /\ mon' = mon \/ (acq.phase = "running" /\ mon'.login = acq.login)
        /\ acq'.phase = "running" => acq.phase = "running" /\ acq'.login = acq.login
    BY <1>11, MonitorHookDoes DEF AcquisitionRests
  <2> QED  BY <2>1, <2>2 DEF IInv, RunsFit, Lasts, Live, Checked
<1>12. CASE MonitorFails
  BY <1>12
  DEF MonitorFails, Fails, FailedTo, RunsFit, IInv, Lasts, Live, Checked, AcqTyped,
      Runners, MonTyped, Monitors
<1>13. CASE Outreach
  <2>1. UNCHANGED <<session, entrySignal, listens, mon, eng, op>>
    BY <1>13 DEF Outreach
  <2>2. acq'.phase = "running" => acq.phase = "running" /\ acq'.login = acq.login
    BY <1>13, OutreachDoes DEF AcquisitionRests
  <2> QED  BY <2>1, <2>2 DEF IInv, RunsFit, Lasts, Live, Checked
<1>14. CASE AcquisitionPreviews
  <2>1. UNCHANGED <<session, entrySignal, listens, mon>>
    BY <1>14 DEF AcquisitionPreviews
  <2>2. /\ eng' = eng \/ eng'.phase = "draft"
        /\ op' = op /\ entrySignal' = entrySignal
        /\ acq'.phase = "running" => acq.phase = "running" /\ acq'.login = acq.login
    BY <1>14, AcquisitionPreviewsDoes DEF AcquisitionPreviews, AcquisitionRests
  <2> QED  BY <2>1, <2>2 DEF IInv, RunsFit, Lasts, Live, Checked
<1>26. CASE AcquisitionAsksStart
  <2>1. UNCHANGED <<session, entrySignal, listens, mon>>
    BY <1>26 DEF AcquisitionAsksStart
  <2>2. /\ eng' = eng /\ (op' = op \/ op'.login = acq.login)
        /\ acq'.phase = "running" => acq.phase = "running" /\ acq'.login = acq.login
    BY <1>26, AcquisitionAsksStartDoes DEF AcquisitionRests
  <2>3. Checked => Lasts(acq.login)
    <3>1. AcqBusy
      BY <1>26, AcquisitionAsksStartDoes DEF AcqBusy
    <3>2. acq.login \in Int /\ session.number \in Int /\ entrySignal \in Int
      BY DEF IInv, LoginTyped, AcqTyped, Runners, Signals
    <3> QED  BY <3>1, <3>2 DEF IInv, BusyFits, LoginFits, Checked, Lasts, Live, Checked
  <2> QED  BY <2>1, <2>2, <2>3 DEF IInv, RunsFit, Lasts, Live, Checked
<1>15. CASE AcquisitionStarts
  <2>1. UNCHANGED <<session, entrySignal, listens, mon>>
    BY <1>15 DEF AcquisitionStarts
  <2>2. /\ op # NoOp /\ op.kind = "start"
        /\ eng' = eng \/ (~op.cancelled /\ Checked /\ eng'.login = op.login)
        /\ op' # NoOp => op'.kind = "tick"
        /\ acq'.phase = "running" => acq.phase = "running" /\ acq'.login = acq.login
    BY <1>15, AcquisitionStartsDoes DEF AcquisitionRests
  <2> QED  BY <2>1, <2>2 DEF IInv, RunsFit, Lasts, Live, Checked
<1>16. CASE AcquisitionSent
  BY <1>16
  DEF AcquisitionSent, Fails, FailedTo, FailsUnknown, RunsFit, IInv, Lasts,
      Live, Checked, AcqTyped, Runners
<1>17. CASE EngineTurn
  BY <1>17, CancelledOpIs, PausedEngineIs
  DEF EngineTurn, Pause, TickBegins, EngineFree, RunsFit, IInv, Lasts, Live, Checked,
      EngTyped, Engines
<1>18. CASE TickChecked
  <2>1. UNCHANGED <<session, entrySignal, listens, acq, mon>>
    BY <1>18 DEF TickChecked
  <2>2. /\ eng'.login = eng.login /\ eng'.phase \in {eng.phase, "blocked", "completed"}
        /\ op' # NoOp => op'.kind = "tick"
    BY <1>18, TickDoes DEF EngineGoesOn, TickSends
  <2> QED  BY <2>1, <2>2 DEF IInv, RunsFit, Lasts, Live, Checked
<1>19. CASE Sent
  BY <1>19, PassedIs DEF Sent, RunsFit, IInv, Lasts, Live, Checked
<1>20. CASE Login
  <2>1. entrySignal \in Int /\ session.number \in Int
    BY DEF IInv, LoginTyped, Signals
  <2>2. ~session.on /\ ~Checked' /\ UNCHANGED <<acq, mon, eng, op>>
    BY <1>20, <2>1 DEF Login, Checked, IInv, LoginFits
  <2> QED  BY <2>2 DEF RunsFit, IInv, Lasts, Live
<1>21. CASE Expire
  BY <1>21 DEF Expire, RunsFit, IInv, Lasts, Live, Checked
<1>22. ASSUME NEW c \in Slots, Preview(c) PROVE RunsFit'
  BY <1>22 DEF Preview, RunsFit, IInv, Lasts, Live, Checked
<1>23. CASE SendUnknown
  BY <1>23 DEF SendUnknown, RunsFit, IInv, Lasts, Live, Checked
<1>24. CASE \/ (\E c \in Slots : BodyFails(c))
            \/ (\E c \in Slots : PauseAcquisition(c))
            \/ (\E c \in Slots : Change(c))
            \/ (\E c \in Slots : ChangeWatch(c))
            \/ (\E c \in Slots : AskAnalysis(c))
            \/ (\E c \in Slots : EndAnalysis(c))
  <2>1. UNCHANGED <<session, entrySignal, listens, acq, mon, eng, op>>
    BY <1>24
    DEF BodyFails, PauseAcquisition, Change, ChangeWatch, AskAnalysis,
       EndAnalysis
  <2> QED  BY <2>1 DEF IInv, RunsFit, Lasts, Live, Checked
<1>25. CASE \/ NextDay \/ TurnBegins \/ PausedTurn \/ MonitorTick
            \/ Scanned \/ Classified \/ EngineTurnEnds \/ UNCHANGED vars
  <2>1. UNCHANGED <<session, entrySignal, listens, acq, mon, eng, op>>
    BY <1>25
    DEF NextDay, TurnBegins, PausedTurn, MonitorTick, Scanned, MonitorGoesOn,
       Classified, EngineTurnEnds, vars
  <2> QED  BY <2>1 DEF IInv, RunsFit, Lasts, Live, Checked
<1> QED
  BY <1>1, <1>2, <1>3, <1>4, <1>5, <1>6, <1>7, <1>8, <1>9, <1>10, <1>11, <1>12,
     <1>13, <1>14, <1>15, <1>16, <1>17, <1>18, <1>19, <1>20, <1>21, <1>22,
     <1>23, <1>24, <1>25, <1>26
  DEF Next, Command, Scheduler, Sending, Pausing

Rebinding == {"rebindMonitor", "rebindEngine"}

\* Nothing becomes busy, and no command starts to wait for what is.
LEMMA BusyStays ==
    ASSUME IInv, session'.number = session.number, entrySignal' = entrySignal, acq'.login = acq.login,
           acq'.phase = "running" \/ AcqBusy' => acq.phase = "running" \/ AcqBusy,
           \A c \in Slots : cmds'[c].at \in Rebinding =>
               cmds[c].at \in Rebinding /\ cmds'[c].login = cmds[c].login
    PROVE  BusyFits'
BY DEF IInv, BusyFits, Rebinding

\* A turn that only rests or is told to end was as busy before.
LEMMA BusyRests ==
    ASSUME TurnRests
    PROVE  AcqBusy' => AcqBusy
BY DEF TurnRests, AcqBusy

LEMMA KeepsBusyFits == IInv /\ [Next]_vars => BusyFits'
<1> SUFFICES ASSUME IInv, [Next]_vars PROVE BusyFits'
  OBVIOUS
<1> USE DEF login, timers, engine, money, requests
<1>0. AcqTyped /\ MonTyped /\ TurnTyped /\ CmdsTyped /\ LoginTyped /\ acq.login \in Int /\ session.number \in Int
  BY DEF IInv, AcqTyped, Runners, LoginTyped, Signals
<1>1. CASE Logout
  <2>1. acq'.login = acq.login /\ (acq'.phase = "running" => acq.phase = "running") /\ TurnRests
    BY <1>0, <1>1, AcquisitionStops, TurnRestsIf DEF Logout, StopAll
  <2>2. session'.number = session.number /\ entrySignal' = entrySignal /\ cmds' = cmds
    BY <1>0, <1>1 DEF Logout
  <2> QED  BY <2>1, <2>2, BusyStays, BusyRests
<1>2. CASE Login
  <2>1. /\ session'.number = session.number + 1
        /\ entrySignal' = entrySignal /\ acq' = acq /\ tk' = tk /\ cmds' = cmds
    BY <1>2 DEF Login
  <2> QED  BY <1>0, <2>1 DEF IInv, BusyFits, AcqBusy
<1>3. CASE Restart
  BY <1>0, <1>3 DEF Restart, Volatile, BusyFits, AcqBusy, IdleTurn, NoCommand
<1>4. ASSUME NEW c \in Slots, NEW kind \in Kinds, Ask(c, kind) PROVE BusyFits'
  <2>1. acq'.login = acq.login
    BY <1>0, <1>4, AcquisitionStops DEF Ask, StopAll
  <2>2. /\ UNCHANGED <<session, entrySignal>> /\ cmds'[c].at \notin Rebinding
        /\ \A d \in Slots \ {c} : cmds'[d] = cmds[d]
        /\ acq'.phase # "running" /\ TurnRests
    BY <1>4, AskDoes DEF Rebinding
  <2> QED  BY <2>1, <2>2, BusyStays, BusyRests
<1>5. ASSUME NEW c \in Slots, RebindAcquisition(c) PROVE BusyFits'
  <2>1. ~AcqBusy /\ TurnRests
    BY <1>0, <1>5, TurnRestsIf DEF RebindAcquisition
  <2>2. acq'.phase # "running" /\ acq'.login = acq.login /\ UNCHANGED session
    BY <1>0, <1>5 DEF RebindAcquisition, AcqTyped, Runners
  <2> QED  BY <2>1, <2>2, BusyRests DEF IInv, BusyFits
<1>6. ASSUME NEW c \in Slots, RebindMonitor(c) PROVE BusyFits'
  <2>1. TurnRests /\ UNCHANGED <<session, entrySignal, acq>>
    BY <1>0, <1>6, TurnRestsIf DEF RebindMonitor
  <2>2. \A d \in Slots : cmds'[d].at \in Rebinding =>
            cmds[d].at \in Rebinding /\ cmds'[d].login = cmds[d].login
    BY <1>0, <1>6, CommandIs, CommandGoes DEF RebindMonitor, Rebinding
  <2> QED  BY <2>1, <2>2, BusyStays, BusyRests
<1>7. ASSUME NEW c \in Slots, RebindEntry(c) PROVE BusyFits'
  <2>1. /\ cmds[c].at = "rebindEngine" /\ entrySignal' = cmds[c].login /\ TurnRests
        /\ cmds'[c].at \notin Rebinding /\ \A d \in Slots \ {c} : cmds'[d] = cmds[d]
    BY <1>7, RebindEntryDoes DEF Rebinding, NoCommand
  <2>2. acq'.login = acq.login /\ (acq'.phase = "running" => acq.phase = "running") /\ UNCHANGED session
    BY <1>0, <1>7, AcquisitionStops DEF RebindEntry, StopAll
  <2> QED  BY <2>1, <2>2, BusyRests DEF IInv, BusyFits, Rebinding
<1>8. ASSUME NEW c \in Slots, Settle(c) PROVE BusyFits'
  <2>1. TurnRests /\ UNCHANGED <<session, entrySignal, acq>>
    BY <1>0, <1>8, TurnRestsIf DEF Settle, Waits
  <2>2. cmds'[c].at \notin Rebinding /\ \A d \in Slots \ {c} : cmds'[d] = cmds[d]
    BY <1>0, <1>8, CommandIs, CommandGoes DEF Settle, Waits, Rebinding
  <2> QED  BY <2>1, <2>2, BusyStays, BusyRests
<1>9. ASSUME NEW c \in Slots, StartAcquisition(c) PROVE BusyFits'
  <2>1. Live(cmds[c].login) /\ acq'.login = cmds[c].login
    BY <1>0, <1>9 DEF StartAcquisition, Body, AcqTyped, Runners
  <2>2. UNCHANGED <<session, entrySignal>>
    BY <1>9 DEF StartAcquisition
  <2>3. \A d \in Slots : cmds'[d] = NoCommand \/ cmds'[d] = cmds[d]
    BY <1>0, <1>9, CommandEnds DEF StartAcquisition, Done
  <2>4. \A d \in Slots : cmds'[d].at \in Rebinding => cmds'[d].login <= session.number
    BY <2>3 DEF IInv, LoginFits, Rebinding, NoCommand
  <2> QED  BY <1>0, <2>1, <2>2, <2>4 DEF IInv, BusyFits, LoginFits, Live, Rebinding
<1>10. ASSUME NEW c \in Slots,
              BodyFails(c) \/ StartMonitor(c) \/ PauseAcquisition(c) \/ Change(c) \/ ChangeWatch(c)
              \/ Preview(c) \/ StartChecked(c) \/ EndAnalysis(c)
       PROVE  BusyFits'
  <2>1. UNCHANGED <<session, entrySignal, acq>> /\ Done(c)
    BY <1>10
    DEF BodyFails, StartMonitor, PauseAcquisition, Change, ChangeWatch, Preview, StartChecked,
        EndAnalysis
  <2>2. \A d \in Slots : cmds'[d].at \in Rebinding => cmds'[d] = cmds[d]
    BY <1>0, <2>1, CommandEnds DEF Done, Rebinding, NoCommand
  <2>3. TurnRests
    BY <1>0, <1>10, TurnRestsIf
    DEF BodyFails, StartMonitor, PauseAcquisition, Change, ChangeWatch, Preview, StartChecked,
        EndAnalysis
  <2> QED  BY <2>1, <2>2, <2>3, BusyStays, BusyRests
<1>11. ASSUME NEW c \in Slots, PauseInBody(c) \/ StartSending(c) \/ AskAnalysis(c) PROVE BusyFits'
  <2>1. UNCHANGED <<session, entrySignal, acq, tk>> /\ cmds[c].at = "queue"
    BY <1>11 DEF PauseInBody, StartSending, AskAnalysis, Body
  <2>2. cmds'[c].at \notin Rebinding /\ \A d \in Slots \ {c} : cmds'[d] = cmds[d]
    BY <1>0, <1>11, <2>1, CommandIs, CommandGoes DEF PauseInBody, StartSending, AskAnalysis, Rebinding
  <2> QED  BY <2>1, <2>2, BusyStays DEF AcqBusy
<1>12. ASSUME UNCHANGED <<session, entrySignal, cmds>>, acq'.login = acq.login,
              acq'.phase = "running" \/ AcqBusy' => acq.phase = "running" \/ AcqBusy
       PROVE  BusyFits'
  BY <1>12, BusyStays
<1>13. CASE Expire \/ NextDay \/ TurnBegins \/ PausedTurn \/ MonitorTick \/ EngineTurn \/ EngineTurnEnds
            \/ TickChecked \/ Sent \/ SendUnknown \/ UNCHANGED vars
  <2>1. UNCHANGED <<session, entrySignal, cmds>>
    BY <1>13
    DEF Expire, NextDay, TurnBegins, PausedTurn, MonitorTick, EngineTurn, EngineTurnEnds,
        TickChecked, Sent, SendUnknown, vars
  <2>2. acq'.login = acq.login /\ acq'.phase = acq.phase
    BY <1>0, <1>13
    DEF Expire, NextDay, TurnBegins, PausedTurn, MonitorTick, EngineTurn, EngineTurnEnds,
        TickChecked, Sent, SendUnknown, vars, AcqTyped, Runners
  <2>3. AcqBusy' => AcqBusy
    BY <1>13
    DEF Expire, NextDay, TurnBegins, PausedTurn, MonitorTick, EngineTurn, EngineTurnEnds,
        TickChecked, Sent, SendUnknown, vars, AcqBusy, Pass, IdleTurn
  <2> QED  BY <1>12, <2>1, <2>2, <2>3
<1>14. CASE Authorized \/ Withdrawn
  <2>1. UNCHANGED <<session, entrySignal, cmds>>
    BY <1>14 DEF Authorized, Withdrawn
  <2>2. acq'.login = acq.login /\ (acq'.phase = "running" => acq.phase = "running")
    BY <1>0, <1>14, AcquisitionStops DEF Authorized, Withdrawn
  <2>3. ~AcqBusy'
    BY <1>0, <1>14, AuthorizedDoes, TurnGoes, IdleTurnIs DEF Withdrawn, AcqBusy
  <2> QED  BY <1>12, <2>1, <2>2, <2>3
<1>15. CASE AcquisitionTick
  <2>1. UNCHANGED <<session, entrySignal, cmds>>
    BY <1>15 DEF AcquisitionTick
  <2>2. acq'.login = acq.login /\ (acq'.phase = "running" => acq.phase = "running")
    BY <1>0, <1>15 DEF AcquisitionTick, AcqTyped, Runners
  <2>3. acq.phase = "running" \/ ~AcqBusy'
    BY <1>15 DEF AcquisitionTick, AcqBusy, IdleTurn
  <2> QED  BY <1>12, <2>1, <2>2, <2>3
<1>16. CASE Discovers \/ MonitorHook \/ Scanned \/ Classified \/ MonitorFails \/ Outreach
            \/ AcquisitionPreviews \/ AcquisitionAsksStart \/ AcquisitionStarts \/ AcquisitionSent
  <2>1. UNCHANGED <<session, entrySignal, cmds>>
    BY <1>16
    DEF Discovers, MonitorHook, Scanned, Classified, MonitorFails, Outreach, AcquisitionPreviews,
        AcquisitionAsksStart, AcquisitionStarts, AcquisitionSent
  <2>2. AcquisitionRests \/ acq' = acq
    BY <1>0, <1>16, FailsDoes
    DEF Discovers, MonitorHook, Scanned, Classified, MonitorFails, Outreach, AcquisitionPreviews,
        AcquisitionAsksStart, AcquisitionStarts, AcquisitionSent
  <2>3. tk.at \in {"discover", "monitor", "scan", "classify", "outreach", "preview", "previewed",
                   "starting", "sending"}
    BY <1>16
    DEF Discovers, MonitorHook, Scanned, Classified, MonitorFails, Outreach, AcquisitionPreviews,
        AcquisitionAsksStart, AcquisitionStarts, AcquisitionSent
  <2>4. tk'.by = "acquisition" => tk.by = "acquisition"
    <3>1. CASE Fails \/ FailsUnknown \/ tk' = IdleTurn
      BY <3>1, IdleTurnIs DEF Fails, FailsUnknown
    <3>2. ASSUME NEW at, Goes(at) PROVE tk'.by = tk.by
      BY <1>0, <2>3, <3>2 DEF Goes, TurnTyped, Passes, Turns, IdleTurn
    <3>3. CASE Discovers \/ MonitorHook \/ Outreach \/ AcquisitionPreviews \/ AcquisitionAsksStart
               \/ AcquisitionStarts \/ AcquisitionSent
      BY <2>3, <3>3, TurnIs
      DEF Discovers, MonitorHook, Outreach, AcquisitionPreviews, AcquisitionAsksStart,
          AcquisitionStarts, AcquisitionSent
    <3>4. CASE Scanned \/ Classified \/ MonitorFails
      BY <3>1, <3>2, <3>4 DEF Scanned, Classified, MonitorFails, MonitorGoesOn, MonitorDone, Pass
    <3> QED  BY <1>16, <3>3, <3>4
  <2> QED  BY <1>12, <2>1, <2>2, <2>3, <2>4 DEF AcquisitionRests, AcqBusy
<1> QED
  BY <1>1, <1>2, <1>3, <1>4, <1>5, <1>6, <1>7, <1>8, <1>9, <1>10, <1>11, <1>13, <1>14, <1>15, <1>16
  DEF Next, Command, Scheduler, Sending

-----------------------------------------------------------------------------
(* The theorems *)

LEMMA InitIInv == Init => IInv
<1> SUFFICES ASSUME Init PROVE IInv
  OBVIOUS
<1> USE DEF Init
<1>1. WorkspaceInv
  BY InvInit
<1>2. 1 \in Signals /\ 1 \in 1..MaxDays
  BY DEF Signals
<1>3. LoginTyped /\ AcqTyped /\ MonTyped /\ PlansTyped /\ EngTyped /\ OpTyped
  BY <1>2 DEF LoginTyped, AcqTyped, Runners, MonTyped, Monitors, PlansTyped, EngTyped,
     Engines, OpTyped, Operations, Phases, Plans, Planners, NoPlan
<1>4. LedgerTyped /\ MoneyTyped /\ CmdsTyped /\ TurnTyped
  <2>1. LedgerTyped /\ TurnTyped
    BY DEF LedgerTyped, TurnTyped, Passes, IdleTurn
  <2>2. MoneyTyped
    BY <1>2 DEF MoneyTyped
  <2>3. CmdsTyped
    BY DEF CmdsTyped
  <2> QED  BY <2>1, <2>2, <2>3
<1>5. QueueFits /\ TurnFits /\ OpWaits /\ OpSends /\ UnknownRests
  BY DEF QueueFits, TurnFits, OpWaits, OpSends, UnknownRests, NoCommand, Inside,
     IdleTurn, NoOp
<1>6. AttemptsFit /\ BudgetFits
  BY DEF AttemptsFit, BudgetFits, Outstanding, IdleTurn, NoPlan
<1>7. LoginFits /\ RunsFit /\ BusyFits
  BY DEF LoginFits, RunsFit, BusyFits, AcqBusy, IdleTurn, NoCommand, Live
<1> QED  BY <1>1, <1>3, <1>4, <1>5, <1>6, <1>7 DEF IInv

\* The inductive invariant of the service: the types and the relations between
\* the commands, the turns, the ledger and the budget (service.ts).
THEOREM ServiceInvariant == Spec => []IInv
<1>1. IInv /\ [Next]_vars => IInv'
  BY KeepsWorkspaceInv, KeepsLoginTyped, KeepsAcqTyped, KeepsMonTyped, KeepsPlansTyped,
     KeepsEngTyped, KeepsOpTyped, KeepsLedgerTyped, KeepsMoneyTyped, KeepsCmdsTyped,
     KeepsTurnTyped, KeepsQueueFits, KeepsTurnFits, KeepsOpWaits, KeepsOpSends,
     KeepsUnknownRests, KeepsAttemptsFit, KeepsBudgetFits, KeepsLoginFits, KeepsRunsFit,
     KeepsBusyFits
  DEF IInv
<1> QED  BY InitIInv, <1>1, PTL DEF Spec

\* The service makes no step with the people, comments and decisions that the
\* workspace does not offer, so what is proved of the workspace holds in it.
THEOREM ServiceIsWorkspace == Spec => WorkspaceSpec
<1>1. Init => WorkspaceInit \/ Analysed
  BY DEF Init
<1>2. IInv /\ [Next]_vars => [WorkspaceNext]_workspace
  BY ServiceWorks DEF QuietWork, WorkspaceNext
<1> QED  BY <1>1, <1>2, ServiceInvariant, PTL DEF Spec, WorkspaceSpec

\* Nobody is written to without evidence that holds now, in the service as well
\* (Acquisition, WatchMonitor, act).
THEOREM ServiceInvitesByEvidence == Spec => []InviteHasEvidence
BY ServiceIsWorkspace, InvitationsHaveEvidence, PTL

\* An opt-out is final in the service as well, and so is a contact.
THEOREM ServiceKeepsDenials == Spec => DenialIsFinal
BY ServiceIsWorkspace, DenialsAreFinal, PTL

\* Nobody is written to twice, by the user or by the acquisition, and the
\* acquisition keeps to its budget, through failures, restarts and days
\* (messagePlan, outreach, markContacted).
THEOREM MessagesAreKept == Spec => []MessagesKept
<1>1. ASSUME IInv PROVE MessagesKept
  <2>1. WorkspaceTypes
    BY <1>1 DEF IInv, WorkspaceInv
  <2>2. ServiceTypes
    BY <1>1
    DEF IInv, ServiceTypes, LoginTyped, AcqTyped, Runners, MonTyped, Monitors, PlansTyped,
        EngTyped, Engines, OpTyped, Operations, LedgerTyped, MoneyTyped, CmdsTyped,
        TurnTyped, Passes
  <2>3. OneMessageEach
    BY <1>1 DEF IInv, AttemptsFit, OneMessageEach
  <2>4. BudgetKept
    <3>1. used \in Nat /\ budget.attempts \in 0..MaxPerDay
      BY <1>1 DEF IInv, MoneyTyped
    <3> QED  BY <1>1, <3>1 DEF IInv, BudgetFits, BudgetKept
  <2> QED  BY <2>1, <2>2, <2>3, <2>4 DEF MessagesKept, TypeOK
<1> QED  BY <1>1, ServiceInvariant, PTL

\* No message is on its way to somebody who opted out: a review waits for it
\* (act, guarded.send).
THEOREM OptOutsAreRespected == Spec => []OptOutRespected
<1>1. IInv => OptOutRespected
  BY DEF IInv, OpSends, OptOutRespected
<1> QED  BY <1>1, ServiceInvariant, PTL

\* What runs was started under the login that lasts: whatever was started under
\* another one was stopped (entry, the abort listeners, guarded.check).
THEOREM RunsAreOfTheirLogin == Spec => []RunsUnderItsLogin
<1>1. IInv => RunsUnderItsLogin
  BY DEF IInv, RunsFit, Lasts, RunsUnderItsLogin
<1> QED  BY <1>1, ServiceInvariant, PTL

-----------------------------------------------------------------------------
(* What the service promises of its messages *)

Flies(r) == op # NoOp /\ op.at = "send" /\ op.to = r

\* A message on its way, one that was answered and one that is lost are three
\* different ones, and the ledger knows of the loss.
SentFits ==
    /\ \A r \in Recipients : Flies(r) => attempts[r] = 1
    /\ \A r \in Recipients, by \in Planners :
         <<r, by>> \in ledger.sent => attempts[r] = 1 /\ ~Flies(r)
    /\ (\E r \in Recipients : fates[r] = "unknown") => ledger.unknown

\* No message leaves and none comes back, and the engine runs only if it did or
\* if a start was under way.
MessagesRest ==
    /\ attempts' = attempts /\ ledger'.sent = ledger.sent
    /\ ledger.unknown => ledger'.unknown
    /\ \A r \in Recipients : Flies(r)' <=> Flies(r)
    /\ eng'.phase = "running" =>
         \/ eng.phase = "running"
         \/ op # NoOp /\ op.at # "send" /\ ~ledger.unknown

LEMMA MessagesRestOr ==
    IInv /\ [Next]_vars =>
        \/ MessagesRest \/ Restart \/ Sent \/ SendUnknown
        \/ TickChecked /\ \E r \in Recipients : TickSends(r)
<1> SUFFICES ASSUME IInv, [Next]_vars
             PROVE  \/ MessagesRest \/ Restart \/ Sent \/ SendUnknown
                    \/ TickChecked /\ \E r \in Recipients : TickSends(r)
  OBVIOUS
<1> USE DEF login, timers, engine, money, requests
<1>1. CASE Pausing
  <2>1. eng'.phase \in {eng.phase, "paused"} /\ UNCHANGED <<attempts, ledger>>
    BY <1>1, PausingDoes DEF EngineRests
  <2> QED  BY <1>1, <2>1, PausingDoes DEF EngineRests, MessagesRest, Flies
<1>2. ASSUME NEW c \in Slots, StartChecked(c) PROVE MessagesRest
  <2>1. op # NoOp /\ op.at # "send" /\ op' = NoOp /\ UNCHANGED <<ledger, attempts>>
    BY <1>2 DEF StartChecked, IInv, OpSends
  <2> QED  BY <2>1 DEF IInv, UnknownRests, MessagesRest, Flies
<1>3. CASE TickChecked
  <2>1. op.at # "send" /\ op # NoOp /\ ledger.unknown = FALSE
    BY <1>3, TickDoes
  <2>2. eng'.phase = "running" => eng.phase = "running"
    BY <1>3, TickDoes DEF EngineGoesOn
  <2>3. CASE op' = NoOp /\ UNCHANGED <<ledger, attempts, used>>
    BY <2>1, <2>2, <2>3 DEF MessagesRest, Flies
  <2>4. CASE op' = NoOp /\ UNCHANGED <<attempts, used>> /\ ledger' = [ledger EXCEPT !.unknown = TRUE]
    <3>1. ledger'.sent = ledger.sent
      BY <2>4 DEF IInv, LedgerTyped
    <3> QED  BY <2>1, <2>2, <2>4, <3>1 DEF MessagesRest, Flies
  <2> QED  BY <1>3, <2>3, <2>4, TickDoes
<1>4. CASE (\E c \in Slots : StartSending(c)) \/ (\E c \in Slots : Preview(c))
  <2>1. op = NoOp /\ (op' = NoOp \/ op'.at # "send") /\ UNCHANGED <<ledger, attempts>>
    BY <1>4 DEF StartSending, Preview, EngineFree
  <2>2. eng'.phase = "running" => eng.phase = "running"
    BY <1>4 DEF StartSending, Preview, IInv, EngTyped, Engines
  <2> QED  BY <2>1, <2>2 DEF MessagesRest, Flies
<1>5. CASE AcquisitionPreviews
  <2>1. op' = op /\ UNCHANGED <<ledger, attempts>>
    BY <1>5 DEF AcquisitionPreviews
  <2>2. eng'.phase = "running" => eng.phase = "running"
    BY <1>5, AcquisitionPreviewsDoes
  <2> QED  BY <2>1, <2>2 DEF MessagesRest, Flies
<1>11. CASE AcquisitionAsksStart
  <2>1. /\ op' = op \/ (op = NoOp /\ op'.at # "send")
        /\ eng' = eng /\ UNCHANGED <<ledger, attempts>>
    BY <1>11, AcquisitionAsksStartDoes DEF AcquisitionAsksStart
  <2> QED  BY <2>1 DEF MessagesRest, Flies
<1>6. CASE AcquisitionStarts
  <2>1. op # NoOp /\ op.at # "send" /\ ~ledger.unknown /\ (op' = NoOp \/ op'.at # "send")
    BY <1>6, AcquisitionStartsDoes
  <2> QED  BY <1>6, <2>1 DEF AcquisitionStarts, MessagesRest, Flies
<1>7. CASE EngineTurn
  <2>1. op = NoOp /\ eng.phase = "running" /\ (op' = NoOp \/ op'.at # "send")
    BY <1>7, CancelledOpIs DEF EngineTurn, EngineFree, Pause, TickBegins, IInv
  <2> QED  BY <1>7, <2>1 DEF EngineTurn, Pause, MessagesRest, Flies
<1>8. CASE \/ (\E c \in Slots : RebindAcquisition(c))
           \/ (\E c \in Slots : Settle(c))
           \/ (\E c \in Slots : BodyFails(c))
           \/ (\E c \in Slots : StartAcquisition(c))
           \/ (\E c \in Slots : StartMonitor(c))
           \/ (\E c \in Slots : PauseAcquisition(c))
  <2>1. UNCHANGED <<attempts, ledger, op, eng>>
    BY <1>8
    DEF RebindAcquisition, Settle, Waits, BodyFails, StartAcquisition,
       StartMonitor, PauseAcquisition
  <2> QED  BY <2>1 DEF MessagesRest, Flies
<1>9. CASE \/ (\E c \in Slots : Change(c))
           \/ (\E c \in Slots : ChangeWatch(c))
           \/ (\E c \in Slots : AskAnalysis(c))
           \/ (\E c \in Slots : EndAnalysis(c))
           \/ Scanned \/ Classified \/ MonitorFails
  <2>1. UNCHANGED <<attempts, ledger, op, eng>>
    BY <1>9 DEF Change, ChangeWatch, AskAnalysis, EndAnalysis, Scanned, Classified, MonitorFails
  <2> QED  BY <2>1 DEF MessagesRest, Flies
<1>10. CASE \/ Login \/ Expire \/ NextDay \/ TurnBegins \/ PausedTurn
            \/ AcquisitionTick \/ Discovers \/ MonitorHook
            \/ MonitorTick \/ Outreach \/ AcquisitionSent
            \/ EngineTurnEnds \/ UNCHANGED vars
  <2>1. UNCHANGED <<attempts, ledger, op, eng>>
    BY <1>10
    DEF Login, Expire, NextDay, TurnBegins, PausedTurn, AcquisitionTick,
       Discovers, MonitorHook, MonitorTick, Outreach, Reserve, AcquisitionSent,
       EngineTurnEnds, vars
  <2> QED  BY <2>1 DEF MessagesRest, Flies
<1> QED
  BY <1>1, <1>2, <1>3, <1>4, <1>5, <1>6, <1>7, <1>8, <1>9, <1>10, <1>11
  DEF Next, Command, Scheduler, Sending, Pausing

\* The ends of messages are the same as long as none leaves and none comes back.
LEMMA FatesStay == MessagesRest => fates' = fates
BY DEF MessagesRest, Flies, fates

\* How the end of each message changes where one leaves or comes back.
LEMMA FatesTurn ==
    ASSUME IInv, SentFits
    PROVE  /\ Sent => /\ op.to \in Recipients /\ Flies(op.to) /\ eng'.phase = eng.phase
                      /\ attempts' = attempts /\ ledger'.unknown = ledger.unknown
                      /\ \A r \in Recipients : ~Flies(r)' /\ (r # op.to => ~Flies(r))
                      /\ \A r \in Recipients, by \in Planners :
                           <<r, by>> \in ledger'.sent <=>
                             <<r, by>> \in ledger.sent \/ (r = op.to /\ by = eng.plan.by)
                      /\ eng.plan.by \in Planners
           /\ SendUnknown => /\ op.to \in Recipients /\ Flies(op.to) /\ eng'.phase = "blocked"
                             /\ attempts' = attempts /\ ledger'.unknown
                             /\ ledger'.sent = ledger.sent
                             /\ \A r \in Recipients : ~Flies(r)' /\ (r # op.to => ~Flies(r))
           /\ Restart => /\ attempts' = attempts /\ ledger'.sent = ledger.sent
                         /\ ledger'.unknown = (ledger.unknown \/ Lost)
                         /\ eng'.phase # "running"
                         /\ \A r \in Recipients : ~Flies(r)'
           /\ \A p \in Recipients : TickChecked /\ TickSends(p) =>
                /\ attempts[p] = 0 /\ attempts' = [attempts EXCEPT ![p] = 1]
                /\ ~ledger.unknown /\ UNCHANGED <<eng, ledger>> /\ eng.phase = "running"
                /\ \A r \in Recipients : ~Flies(r) /\ (Flies(r)' <=> r = p)
<1>0. /\ EngTyped /\ ledger.sent \subseteq Recipients \X {"user", "acquisition", "nobody"}
      /\ attempts \in [Recipients -> Nat] /\ eng.plan.by \in Planners
  BY EngineIs DEF IInv, LedgerTyped, MoneyTyped
<1>1. ASSUME Sent
      PROVE  /\ op.to \in Recipients /\ Flies(op.to) /\ eng'.phase = eng.phase
             /\ attempts' = attempts /\ ledger'.unknown = ledger.unknown
             /\ \A r \in Recipients : ~Flies(r)' /\ (r # op.to => ~Flies(r))
             /\ ledger'.sent = ledger.sent \cup {<<op.to, eng.plan.by>>}
  BY <1>0, <1>1, PassedIs DEF Sent, Flies, money, IInv, OpTyped, LedgerTyped
<1>2. ASSUME SendUnknown
      PROVE  /\ op.to \in Recipients /\ Flies(op.to) /\ eng'.phase = "blocked"
             /\ attempts' = attempts /\ ledger'.unknown /\ ledger'.sent = ledger.sent
             /\ \A r \in Recipients : ~Flies(r)' /\ (r # op.to => ~Flies(r))
  BY <1>0, <1>2, EngineIs DEF SendUnknown, Flies, money, IInv, OpTyped, LedgerTyped
<1>3. ASSUME Restart
      PROVE  /\ attempts' = attempts /\ ledger'.sent = ledger.sent
             /\ ledger'.unknown = (ledger.unknown \/ Lost) /\ eng'.phase # "running"
             /\ \A r \in Recipients : ~Flies(r)'
  <2>1. attempts' = attempts /\ op' = NoOp
    BY <1>3 DEF Restart, Volatile, money
  <2>2. ledger'.sent = ledger.sent /\ ledger'.unknown = (ledger.unknown \/ Lost)
    BY <1>3 DEF Restart, IInv, LedgerTyped
  <2>3. eng'.phase # "running"
    BY <1>0, <1>3, PausedEngineIs DEF Restart, Engines, Plans
  <2> QED  BY <2>1, <2>2, <2>3 DEF Flies
<1>4. ASSUME NEW p \in Recipients, TickChecked, TickSends(p)
      PROVE  /\ attempts[p] = 0 /\ attempts' = [attempts EXCEPT ![p] = 1]
             /\ ~ledger.unknown /\ UNCHANGED <<eng, ledger>> /\ eng.phase = "running"
             /\ \A r \in Recipients : ~Flies(r) /\ (Flies(r)' <=> r = p)
  <2>1. ~ledger.unknown /\ op.at # "send"
    BY <1>4, TickDoes
  <2>2. attempts[p] = 0
    BY <1>0, <1>4, <2>1 DEF TickSends, Plannable, IInv, AttemptsFit
  <2>3. attempts' = [attempts EXCEPT ![p] = 1]
    BY <1>0, <1>4, <2>2 DEF TickSends
  <2> QED  BY <1>4, <2>1, <2>2, <2>3 DEF TickSends, Flies
<1>5. ASSUME Sent, NEW r \in Recipients, NEW by \in Planners
      PROVE  <<r, by>> \in ledger'.sent <=>
               <<r, by>> \in ledger.sent \/ (r = op.to /\ by = eng.plan.by)
  BY <1>1, <1>5
<1> QED  BY <1>0, <1>1, <1>2, <1>3, <1>4, <1>5

LEMMA KeepsSentFits == IInv /\ SentFits /\ [Next]_vars => SentFits'
<1> SUFFICES ASSUME IInv, SentFits, [Next]_vars PROVE SentFits'
  OBVIOUS
<1>1. CASE MessagesRest
  BY <1>1, FatesStay DEF MessagesRest, SentFits
<1>2. CASE Restart
  BY <1>2, FatesTurn DEF SentFits, fates, Flies, Lost
<1>3. CASE Sent
  BY <1>3, FatesTurn DEF SentFits, fates, Flies
<1>4. CASE SendUnknown
  BY <1>4, FatesTurn DEF SentFits, fates, Flies
<1>5. ASSUME NEW p \in Recipients, TickChecked, TickSends(p) PROVE SentFits'
  BY <1>5, FatesTurn DEF SentFits, fates, Flies, IInv, MoneyTyped
<1> QED  BY <1>1, <1>2, <1>3, <1>4, <1>5, MessagesRestOr

\* Where a message can go out and where a run can open, all others have settled.
LEMMA ServiceSettled ==
    ASSUME SentFits, ~ledger.unknown, \A r \in Recipients : ~Flies(r)
    PROVE  Fates!Settled
BY DEF SentFits, Flies, fates, Fates!Settled

LEMMA ServiceKeepsPromise ==
    IInv /\ SentFits /\ [Next]_vars => [Fates!FateNext]_(Fates!fateVars)
<1> DEFINE open == eng.phase = "running"
<1> SUFFICES ASSUME IInv, SentFits, [Next]_vars
             PROVE  Fates!FateNext \/ (fates' = fates /\ open' = open)
  BY DEF Fates!fateVars
<1>0. fates \in [Recipients -> {"unsent", "flying", "sent", "unknown"}]
  BY DEF fates
<1>1. CASE MessagesRest
  <2>1. fates' = fates
    BY <1>1, FatesStay
  <2>2. CASE ~open'
    BY <2>1, <2>2 DEF Fates!FateNext, Fates!Closes
  <2>3. CASE open /\ open'
    BY <2>1, <2>3
  <2>4. CASE ~open /\ open'
    <3>1. Fates!Settled
      BY <1>1, <2>4, ServiceSettled DEF MessagesRest, Flies
    <3> QED  BY <2>1, <2>4, <3>1 DEF Fates!FateNext, Fates!Opens
  <2> QED  BY <2>2, <2>3, <2>4
<1>2. CASE Restart
  <2>1. \A r \in Recipients : fates'[r] = IF fates[r] = "flying" THEN "unknown" ELSE fates[r]
    BY <1>2, FatesTurn DEF SentFits, fates, Flies
  <2>2. fates' = [r \in Recipients |-> fates'[r]]
    BY DEF fates
  <2>3. fates' = [r \in Recipients |-> IF fates[r] = "flying" \/ r \in {} THEN "unknown" ELSE fates[r]]
    BY <2>1, <2>2
  <2>4. Fates!Crashes
    BY <1>2, <2>3, FatesTurn DEF Fates!Crashes
  <2> QED  BY <2>4 DEF Fates!FateNext
<1>3. ASSUME Sent \/ SendUnknown PROVE Fates!FateNext
  <2>1. op.to \in Recipients /\ fates[op.to] = "flying"
    BY <1>3, FatesTurn DEF SentFits, fates, Flies
  <2>2. CASE Sent
    <3>1. \A r \in Recipients : fates'[r] = IF r = op.to THEN "sent" ELSE fates[r]
      BY <2>1, <2>2, FatesTurn DEF SentFits, fates, Flies
    <3>2. fates' = [r \in Recipients |-> fates'[r]]
      BY DEF fates
    <3>3. fates' = [fates EXCEPT ![op.to] = "sent"]
      BY <1>0, <3>1, <3>2
    <3>4. Fates!Answered(op.to)
      BY <2>1, <2>2, <3>3, FatesTurn DEF Fates!Answered, Fates!Turns
    <3> QED  BY <2>1, <3>4 DEF Fates!FateNext
  <2>3. CASE SendUnknown
    <3>1. \A r \in Recipients : fates'[r] = IF r = op.to THEN "unknown" ELSE fates[r]
      BY <2>1, <2>3, FatesTurn DEF SentFits, fates, Flies
    <3>2. fates' = [r \in Recipients |-> fates'[r]]
      BY DEF fates
    <3>3. fates' = [fates EXCEPT ![op.to] = "unknown"]
      BY <1>0, <3>1, <3>2
    <3>4. Fates!Lost(op.to)
      BY <2>1, <2>3, <3>3, FatesTurn DEF Fates!Lost, Fates!Turns
    <3> QED  BY <2>1, <3>4 DEF Fates!FateNext
  <2> QED  BY <1>3, <2>2, <2>3
<1>4. ASSUME NEW p \in Recipients, TickChecked, TickSends(p) PROVE Fates!FateNext
  <2>1. \A r \in Recipients : fates'[r] = IF r = p THEN "flying" ELSE fates[r]
    BY <1>4, FatesTurn DEF fates, Flies, IInv, MoneyTyped
  <2>2. fates' = [r \in Recipients |-> fates'[r]]
    BY DEF fates
  <2>3. fates[p] = "unsent" /\ fates' = [fates EXCEPT ![p] = "flying"]
    <3>1. attempts[p] = 0
      BY <1>4, FatesTurn
    <3>2. fates[p] = "unsent"
      BY <3>1 DEF fates
    <3>3. fates' = [fates EXCEPT ![p] = "flying"]
      BY <1>0, <2>1, <2>2
    <3> QED  BY <3>2, <3>3
  <2>4. Fates!Settled /\ open /\ open' = open
    BY <1>4, FatesTurn, ServiceSettled
  <2>5. Fates!Sends(p)
    BY <2>3, <2>4 DEF Fates!Sends, Fates!Turns
  <2> QED  BY <2>5 DEF Fates!FateNext
<1> QED  BY <1>1, <1>2, <1>3, <1>4, MessagesRestOr

\* The service implements MessageFates: a person is written to at most once, in
\* a run that the engine has open and after all other messages have settled,
\* through logins, stops and restarts (act, outreach, guarded.send).
THEOREM ServiceSendsAsPromised == Spec => SendsAsPromised
<1>1. Init => SentFits /\ Fates!FateInit
  BY DEF Init, NoOp, SentFits, Flies, fates, Fates!FateInit
<1>2. Spec => [](IInv /\ SentFits)
  BY ServiceInvariant, <1>1, KeepsSentFits, PTL DEF Spec
<1> QED  BY <1>1, <1>2, ServiceKeepsPromise, PTL DEF Spec, SendsAsPromised, Fates!FateSpec
=============================================================================
