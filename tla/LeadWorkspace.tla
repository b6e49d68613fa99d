---------------------------- MODULE LeadWorkspace ----------------------------
(***************************************************************************)
(* The lead workspace of one principal (lead-workspace.ts): collected      *)
(* comments are classified by a model, which takes a while, and decide who *)
(* may be written to.  The profile, the model and the watches may change   *)
(* meanwhile, and the user reviews people at any time.  Mutations run one  *)
(* at a time and a failed save rolls back, so each is one step or none.    *)
(***************************************************************************)
EXTENDS Integers

CONSTANTS
    Recipients,   \* people who wrote comments
    Comments,     \* collected comments
    Author,       \* comment -> the person who wrote it
    Models,       \* models the platform offers
    Callers,      \* who may have a classification in flight
    MaxRevision   \* bound: changes of profile, model and watches

ASSUME AuthorAssumption == Author \in [Comments -> Recipients]
ASSUME ModelsAssumption == Models # {}
ASSUME MaxRevisionAssumption == MaxRevision \in Nat

VARIABLES
    version,      \* profile.version
    mode,         \* profile.reviewMode
    modelId,
    revision,
    decisions,    \* comment -> the evidence recorded for it
    candidates,   \* person -> candidate
    analyses      \* caller -> the classification it waits for

context   == <<version, mode, modelId, revision>>
workspace == <<context, decisions, candidates, analyses>>

Modes       == {"manual", "high-intent-only"}
Classes     == {"target", "uncertain", "excluded"}
Reviews     == {"pending", "eligible", "approved", "excluded", "contacted", "opted-out"}
NoDecision  == [class |-> "none"]
NoCandidate == [keys |-> {}, version |-> 0, review |-> "none"]
NoAnalysis  == [revision |-> -1]

WorkspaceInit ==
    /\ version = 1 /\ mode \in Modes /\ modelId \in Models /\ revision = 0
    /\ decisions = [k \in Comments |-> NoDecision]
    /\ candidates = [r \in Recipients |-> NoCandidate]
    /\ analyses = [w \in Callers |-> NoAnalysis]

\* A workspace a former process left, in which every comment is a target.
Analysed ==
    /\ version = 1 /\ mode \in Modes /\ modelId \in Models /\ revision = 0
    /\ decisions = [k \in Comments |-> [class |-> "target", version |-> 1, model |-> modelId]]
    /\ candidates = [r \in Recipients |->
           LET keys == {k \in Comments : Author[k] = r} IN
           IF keys = {} THEN NoCandidate
           ELSE [keys |-> keys, version |-> 1,
                 review |-> IF mode = "high-intent-only" THEN "eligible" ELSE "pending"]]
    /\ analyses = [w \in Callers |-> NoAnalysis]

\* What neither a new comment nor a new profile takes back.
Protected(c) == c.review \in {"contacted", "opted-out"}

UnreviewedAll ==
    [r \in Recipients |->
        IF candidates[r] = NoCandidate THEN NoCandidate ELSE [candidates[r] EXCEPT !.review = "pending"]]

\* A new profile or model: every review that is not protected starts over.
Unreviewed ==
    [r \in Recipients |->
        IF candidates[r] = NoCandidate \/ Protected(candidates[r])
        THEN candidates[r] ELSE [candidates[r] EXCEPT !.review = "pending"]]

SelectModel(m) ==
    /\ revision < MaxRevision /\ revision' = revision + 1
    /\ modelId' = m /\ candidates' = Unreviewed
    /\ UNCHANGED <<version, mode, decisions, analyses>>

ConfigureProfile(newMode) ==
    /\ revision < MaxRevision /\ revision' = revision + 1
    /\ version' = version + 1 /\ mode' = newMode /\ candidates' = Unreviewed
    /\ UNCHANGED <<modelId, decisions, analyses>>

\* setWatchEnabled, removeWatch.
ChangeWatches ==
    /\ revision < MaxRevision /\ revision' = revision + 1
    /\ UNCHANGED <<version, mode, modelId, decisions, candidates, analyses>>

\* analyzeOne up to its await: the context goes along.
Analyze(w, k) ==
    /\ analyses[w] = NoAnalysis
    /\ analyses' = [analyses EXCEPT ![w] =
           [key |-> k, version |-> version, mode |-> mode, model |-> modelId, revision |-> revision]]
    /\ UNCHANGED <<context, decisions, candidates>>

\* The classification fails, its signal is aborted, or its context has changed.
AnalysisFails(w) ==
    /\ analyses[w] # NoAnalysis /\ analyses' = [analyses EXCEPT ![w] = NoAnalysis]
    /\ UNCHANGED <<context, decisions, candidates>>

\* The candidate that evidence of the given class makes of c.
CandidateAfter(c, a, class) ==
    IF class = "excluded"
    THEN IF c = NoCandidate \/ Protected(c) THEN c ELSE [c EXCEPT !.review = "pending"]
    ELSE [keys    |-> c.keys \cup {a.key},
          version |-> a.version,
          review  |-> IF Protected(c) THEN c.review
                      ELSE IF class = "target" /\ a.mode = "high-intent-only"
                      THEN "eligible" ELSE "pending"]

IsCurrentAlways(a) == TRUE

\* The comparison inside the queue.
IsCurrent(a) == a.revision = revision

AnalysisEnds(w, class) ==
    LET a == analyses[w] IN
    /\ a # NoAnalysis /\ IsCurrent(a)
    /\ decisions' = [decisions EXCEPT ![a.key] =
           [class |-> class, version |-> a.version, model |-> a.model]]
    /\ candidates' = [candidates EXCEPT ![Author[a.key]] = CandidateAfter(@, a, class)]
    /\ analyses' = [analyses EXCEPT ![w] = NoAnalysis]
    /\ UNCHANGED context

\* Evidence that counts under the current profile and model.
Supports(k) == decisions[k] = [class |-> "target", version |-> version, model |-> modelId]

Approvable(c) ==
    ~Protected(c) /\ c.version = version /\ \E k \in c.keys : Supports(k)

Review(r, action) ==
    LET c == candidates[r] IN
    /\ c # NoCandidate
    /\ Protected(c) => action = "opted-out"
    /\ action = "approved" => Approvable(c)
    /\ candidates' = [candidates EXCEPT ![r].review = action]
    /\ UNCHANGED <<context, decisions, analyses>>

\* markContacted, after a message was sent.
ContactedAfter(r) ==
    IF candidates[r] = NoCandidate \/ candidates[r].review = "opted-out"
    THEN candidates ELSE [candidates EXCEPT ![r].review = "contacted"]

MarkContacted(r) ==
    candidates' = ContactedAfter(r) /\ UNCHANGED <<context, decisions, analyses>>

\* Who messagePlan accepts.
Plannable(r) ==
    LET c == candidates[r] IN
    /\ \/ c.review = "approved"
       \/ c.review = "eligible" /\ mode = "high-intent-only"
    /\ c.version = version

\* The process ends: what is in flight is lost, the rest is on disk.
WorkspaceRestart ==
    /\ analyses' = [w \in Callers |-> NoAnalysis]
    /\ UNCHANGED <<context, decisions, candidates>>

WorkspaceNext ==
    \/ \E m \in Models : SelectModel(m)
    \/ \E n \in Modes : ConfigureProfile(n)
    \/ ChangeWatches \/ WorkspaceRestart
    \/ \E w \in Callers : (\E k \in Comments : Analyze(w, k)) \/ AnalysisFails(w)
                          \/ \E class \in Classes : AnalysisEnds(w, class)
    \/ \E r \in Recipients :
          (\E action \in {"approved", "excluded", "opted-out"} : Review(r, action)) \/ MarkContacted(r)

WorkspaceSpec == (WorkspaceInit \/ Analysed) /\ [][WorkspaceNext]_workspace

------------------------------------------------------------------------------
WorkspaceTypes ==
    /\ version \in Nat \ {0} /\ mode \in Modes /\ modelId \in Models /\ revision \in 0..MaxRevision
    /\ decisions \in [Comments ->
           {NoDecision} \cup [class : Classes, version : Nat, model : Models]]
    /\ candidates \in [Recipients ->
           {NoCandidate} \cup [keys : SUBSET Comments, version : Nat, review : Reviews]]
    /\ analyses \in [Callers ->
           {NoAnalysis} \cup [key : Comments, version : Nat, mode : Modes, model : Models, revision : Nat]]

\* Whoever may be written to (approved by the user or eligible by the profile)
\* has evidence classified as a target by the model and under the profile that
\* hold now: changes that overtake a classification, or a review that overtakes
\* a change, do not let anyone in (analyzeOne, review, messagePlan).
InviteHasEvidence ==
    \A r \in Recipients : candidates[r].review \in {"approved", "eligible"} =>
        candidates[r].version = version /\ \E k \in candidates[r].keys : Supports(k)

\* Who opted out stays so, and who was contacted can only opt out, whatever is
\* reviewed, classified or configured later.
DenialIsFinal ==
    [][\A r \in Recipients :
          /\ candidates[r].review = "opted-out" => candidates'[r].review = "opted-out"
          /\ candidates[r].review = "contacted" => candidates'[r].review \in {"contacted", "opted-out"}
      ]_candidates
==============================================================================
