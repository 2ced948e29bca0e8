----------------------------- MODULE Artifacts -----------------------------
(***************************************************************************)
(* The life of the documents: a manifest is decided, or acquired with a    *)
(* benchmark, someone may change one thing in it and make the digests fit  *)
(* again, a profile, an export or a second profile is made from it, and    *)
(* that may be changed in the same way.  Whoever holds the document then   *)
(* replays it.                                                             *)
(***************************************************************************)
EXTENDS Acquisition

CONSTANTS
  Evidences,     \* the observation sets that are decided
  Policies,      \* profile v1 policies
  PoliciesV2,    \* the lanes of profile v2 policies
  ConsumerRequests,   \* requests of a consumer, NoRequest among them
  Touched        \* bound: the runs somebody changes by hand

(* An array of observations has finitely many elements, each of which is a *)
(* run of the control or of a candidate in a world of the campaign: any    *)
(* other is refused as it is parsed.                                       *)
ASSUME EvidencesAssumption ==
  \A obs \in Evidences :
    /\ IsFiniteSet(obs)
    /\ \A o \in obs : o.world \in Worlds /\ o.candidate \in Candidates \cup {Control}

VARIABLES
  document,      \* [kind, at]: the document at hand
  original,      \* as it was when it was made
  edited         \* has something been changed by hand?

vars == <<acquisitionVars, document, original, edited>>

Holding(kind, d) == document' = [kind |-> kind, at |-> d] /\ original' = [kind |-> kind, at |-> d]

(* Either a campaign is at hand, or a benchmark is acquired. *)
Init ==
  /\ edited = FALSE
  /\ \/ /\ AcquisitionInit
        /\ document = [kind |-> "NONE"] /\ original = document
     \/ /\ \E obs \in Evidences :
             document = [kind |-> "MANIFEST", at |-> DecideEvidence("taken", obs)]
        /\ original = document
        /\ request = CHOOSE r \in Requests : TRUE
        /\ stage = "NONE" /\ held = FALSE /\ snapshot = "taken" /\ manifest = NoManifest
        /\ caches = {} /\ runs = {} /\ surroundings = {} /\ result = NoResult

AcquireStep ==
  /\ Acquire
  /\ IF result' # result THEN Holding("ACQUISITION", result')
     ELSE UNCHANGED <<document, original>>
  /\ UNCHANGED edited

-----------------------------------------------------------------------------
(* Making one document from another.  A document that does not replay is   *)
(* refused.                                                                *)

MakeProfile ==
  /\ document.kind = "MANIFEST"
  /\ \E policy \in {p \in Policies : ProfileAccepts(document.at, p)} :
       Holding("PROFILE", CreateProfile(document.at, policy))
  /\ UNCHANGED <<acquisitionVars, edited>>

MakeExport ==
  /\ document.kind = "MANIFEST"
  /\ \E m \in {d \in {document.at} : ExportAccepts(d)}, consumer \in ConsumerRequests :
       Holding("EXPORT", CreateExport(m, consumer))
  /\ UNCHANGED <<acquisitionVars, edited>>

OtherScope(scope) == [scope EXCEPT !.fingerprint.tool.digest = "other"]

(* A second profile is asked for in the scope of the benchmark or of       *)
(* another machine's.                                                      *)
MakeProfileV2 ==
  /\ document.kind = "ACQUISITION" /\ document.at.artifact # NoArtifact
  /\ LET artifact == document.at.artifact
         policies == [scope : {artifact.body.scope, OtherScope(artifact.body.scope)},
                      lanes : PoliciesV2]
     IN \E policy \in {p \in policies : ProfileV2Accepts(artifact, p)} :
          Holding("PROFILE_V2", CreateProfileV2(artifact, policy))
  /\ UNCHANGED <<acquisitionVars, edited>>

-----------------------------------------------------------------------------
(* Changing one thing by hand, with the digests made to fit again.         *)

TouchedIn(m) == {o \in m.observations : o.runId \in Touched}

ChangesOfManifest(m) ==
  {[m EXCEPT !.observations = (@ \ {o}) \cup {[o EXCEPT !.outcome = "ASSERTION_FAILURE"]}] :
     o \in TouchedIn(m)} \cup
  {[m EXCEPT !.observations = @ \ {o}] : o \in TouchedIn(m)} \cup
  {[m EXCEPT !.observations = (@ \ {o}) \cup {[o EXCEPT !.ms = 0]}] : o \in TouchedIn(m)} \cup
  {[m EXCEPT !.candidates[c].status = "ELIGIBLE", !.candidates[c].killed = Targets,
             !.decision = [status |-> "VERIFIED", selected |-> <<c>>,
                           reason |-> "POLICY_SATISFIED"]] : c \in DOMAIN m.candidates} \cup
  {[m EXCEPT !.decision.status = "REJECTED", !.decision.selected = <<>>]}

ChangesOfProfile(b) ==
  {[b EXCEPT !.status = "QUALIFIED", !.qualified = DOMAIN b.entries]} \cup
  {[b EXCEPT !.entries[c].classification = "QUALIFIED", !.qualified = @ \cup {c}] :
     c \in DOMAIN b.entries} \cup
  {[b EXCEPT !.policy.minimumSamples = 1, !.policyDigest.minimumSamples = 1],
   [b EXCEPT !.portfolios[1].selected = <<>>]}

Saying(b, detection) == [b EXCEPT !.detection = detection]
SeenRed(b, c, w) ==
  [b EXCEPT !.candidates[c].worlds[w].signal = "RED", !.candidates[c].worlds[w].detection = "OBSERVED"]

ChangesOfExport(b) ==
  {Saying(b, d) : d \in {"OBSERVED", "NOT_OBSERVED", "NOT_ESTABLISHED"}} \cup
  {SeenRed(b, c, w) : c \in DOMAIN b.candidates, w \in Targets} \cup
  {[b EXCEPT !.requested = "COVERED"], [b EXCEPT !.git = "RECORDED"]}

ChangesOfProfileV2(b) ==
  {[b EXCEPT !.status = "QUALIFIED"], [b EXCEPT !.frontier = DOMAIN b.entries],
   [b EXCEPT !.policy.scope = b.scope, !.policyDigest.scope = b.scope],
   [b EXCEPT !.scope = OtherScope(b.scope)]}

ChangesOfContext(c) ==
  {[c EXCEPT !.snapshot = "edited"], [c EXCEPT !.candidateIds = <<>>],
   [c EXCEPT !.executableDigest = "other"], [c EXCEPT !.command = "other"],
   [c EXCEPT !.reporterPath = <<"other">>],
   [c EXCEPT !.reporterDigest = <<<<"other">>, "taken">>],
   [c EXCEPT !.dependencies = {}], [c EXCEPT !.dependencies = {}, !.graph = {}]}

(* Of an acquisition: its status, each part of its context, its source,    *)
(* and the times in its artifact.                                          *)
ChangesOfAcquisition(r) ==
  {ResultOf(s, r.source, r.artifact, r.context) : s \in {"COMPLETE", "INSUFFICIENT_SAMPLES"}} \cup
  {ResultOf(r.status, r.source, r.artifact, c) : c \in ChangesOfContext(r.context)} \cup
  {ResultOf(r.status, SealBoth([r.source EXCEPT !.observations = @ \ {o}]), r.artifact, r.context) :
     o \in TouchedIn(r.source)} \cup
  (IF r.artifact = NoArtifact THEN {}
   ELSE {ResultOf(r.status, r.source,
                  Sealed([r.artifact.body EXCEPT !.summaries[x].status = "MEASURED"]), r.context) :
           x \in DOMAIN r.artifact.body.summaries})

Changes(d) ==
  CASE d.kind = "MANIFEST" ->
         LET changed == ChangesOfManifest(d.at)
         IN changed \cup {SealArtifact(m) : m \in changed} \cup {SealBoth(m) : m \in changed}
    [] d.kind = "PROFILE" -> {Sealed(b) : b \in ChangesOfProfile(d.at.body)}
    [] d.kind = "EXPORT" -> {Sealed(b) : b \in ChangesOfExport(d.at.body)}
    [] d.kind = "PROFILE_V2" -> {Sealed(b) : b \in ChangesOfProfileV2(d.at.body)}
    [] d.kind = "ACQUISITION" -> ChangesOfAcquisition(d.at)
    [] OTHER -> {}

Edit ==
  /\ ~edited
  /\ \E d \in Changes(document) \ (IF document.kind = "NONE" THEN {} ELSE {document.at}) :
       document' = [kind |-> document.kind, at |-> d]
  /\ edited' = TRUE
  /\ UNCHANGED <<acquisitionVars, original>>

Next == AcquireStep \/ MakeProfile \/ MakeExport \/ MakeProfileV2 \/ Edit

Spec == Init /\ [][Next]_vars

-----------------------------------------------------------------------------
Replays(d) ==
  CASE d.kind = "MANIFEST" -> ParsesAsManifest(d.at) /\ ReplayManifest(d.at)
    [] d.kind = "PROFILE" -> ReplayProfile(d.at)
    [] d.kind = "EXPORT" -> ReplayExport(d.at)
    [] d.kind = "PROFILE_V2" -> ReplayProfileV2(d.at)
    [] d.kind = "ACQUISITION" -> ReplayAcquisition(d.at)
    [] OTHER -> FALSE

(* What the observations of a candidate show by themselves: each attempt   *)
(* is there once in every world, and all of them the same, attributed,     *)
(* green where they must be and asserting on the required targets, under   *)
(* controls that passed in every attempt without it.                       *)
Shows(obs, c) ==
  LET all(x, w) == {o \in obs : o.candidate = x /\ o.world = w}
      once(x, w) == /\ {o.attempt : o \in all(x, w)} = Attempts
                    /\ \A o, p \in all(x, w) : o.attempt = p.attempt => o = p
  IN /\ \A o \in obs :
          o.candidate = Control => o.outcome = "PASS" /\ o.candidateTests = 0 /\ ~o.attributed
     /\ \A w \in Worlds :
          /\ once(Control, w) /\ once(c, w)
          /\ \A o, p \in all(c, w) : o.outcome = p.outcome
          /\ \A o \in all(c, w) : o.attributed /\ o.candidateTests >= 1
          /\ \A o \in all(c, w) : o.outcome \notin {"TIMEOUT", "INFRA_ERROR"}
     /\ \A w \in Worlds \ Targets : \A o \in all(c, w) : o.outcome = "PASS"
     /\ \A w \in RequiredTargets : \A o \in all(c, w) : o.outcome = "ASSERTION_FAILURE"

(* Of times, at least 95 in 100 are at most the budget. *)
MostlyWithin(times, budget) ==
  Cardinality({r \in DOMAIN times : times[r] <= budget}) * 100 >= 95 * Cardinality(DOMAIN times)

(* A portfolio stays in its budget and leaves nothing out that would still *)
(* fit and add weight.                                                     *)
WellFilled(p, pool, killed, cost, budget) ==
  LET members == {p.selected[i] : i \in DOMAIN p.selected}
      reached == UNION {killed[c] : c \in members}
      spent == SumFunctionOnSet(cost, members)
  IN /\ members \subseteq pool /\ spent <= budget
     /\ \A c \in pool \ members :
          spent + cost[c] > budget \/ killed[c] \subseteq reached

-----------------------------------------------------------------------------
(* An export that replays says OBSERVED only if the recorded runs of a     *)
(* candidate show a regression, and NOT_OBSERVED only if no candidate      *)
(* reaches the targets and every run of every candidate ended in a pass or *)
(* an assertion, none operationally; per world, RED and GREEN are seen in  *)
(* every attempt.                                                          *)
DetectionIsObserved ==
  (document.kind = "EXPORT" /\ Replays(document)) =>
    LET b == document.at.body
        obs == b.source.observations
    IN /\ b.detection = "OBSERVED" => \E c \in DOMAIN b.candidates : Shows(obs, c)
       /\ b.detection = "NOT_OBSERVED" =>
            /\ \A c \in DOMAIN b.candidates : ~TargetPassed(obs, c)
            /\ \A o \in obs : o.outcome \in {"PASS", "ASSERTION_FAILURE"}
       /\ \A c \in DOMAIN b.candidates, w \in Worlds :
            LET ends == {o.outcome : o \in {p \in obs : p.candidate = c /\ p.world = w}}
            IN /\ b.candidates[c].worlds[w].signal = "RED" => ends = {"ASSERTION_FAILURE"}
               /\ b.candidates[c].worlds[w].signal = "GREEN" => ends = {"PASS"}
               /\ b.candidates[c].worlds[w].detection = "OBSERVED" =>
                    \A o \in obs : o.candidate = Control => o.outcome = "PASS"

(* A profile that replays qualifies only candidates whose recorded runs    *)
(* show a regression and are timed often enough, 95 in 100 of them within  *)
(* a lane; its portfolios are well filled.  A second profile places a      *)
(* candidate on the frontier or in a portfolio only if no warm run of any  *)
(* selected candidate failed, and is qualified only for such a portfolio.  *)
ProfileIsEarned ==
  Replays(document) =>
    CASE document.kind = "PROFILE" ->
           LET b == document.at.body
               obs == b.source.observations
               pool(i) == {c \in b.qualified : i \in b.entries[c].lanes}
           IN /\ \A c \in b.qualified :
                   LET times == ReferenceTimes(b.source, c)
                   IN /\ Shows(obs, c) /\ Cardinality(DOMAIN times) >= b.policy.minimumSamples
                      /\ \E i \in DOMAIN b.policy.lanes : MostlyWithin(times, b.policy.lanes[i])
              /\ \A i \in DOMAIN b.portfolios :
                   WellFilled(b.portfolios[i], pool(i),
                              [c \in pool(i) |-> b.entries[c].killed],
                              [c \in pool(i) |-> b.entries[c].p95], b.policy.lanes[i])
              /\ b.qualified # {} => b.frontier # {}
      [] document.kind = "PROFILE_V2" ->
           LET b == document.at.body
               art == b.source.body
               costs == [c \in DOMAIN b.entries |-> b.entries[c].p95]
               kills == [c \in DOMAIN b.entries |-> b.entries[c].killed]
           IN /\ b.portfolios # <<>> \/ b.frontier # {} =>
                   /\ \A r \in art.runs : r.regime = "WARM" => r.outcome = "PASS"
                   /\ b.policy.scope = art.scope
              /\ \A i \in DOMAIN b.portfolios :
                   WellFilled(b.portfolios[i], DOMAIN b.entries, kills, costs, b.policy.lanes[i])
              /\ b.status = "QUALIFIED" =>
                   \E i \in DOMAIN b.portfolios : b.portfolios[i].weight > 0
      [] OTHER -> TRUE

(* May the document replay?  As it was made, unless it has no artifact or  *)
(* no valid repository; after a change only if it decides the same on what *)
(* it records, and an export or an acquisition not at all.                 *)
MayReplay ==
  IF ~edited
  THEN CASE document.kind = "NONE" -> FALSE
         [] document.kind = "MANIFEST" -> document.at.repository # "invalid"
         [] document.kind = "ACQUISITION" -> document.at.artifact # NoArtifact
         [] OTHER -> TRUE
  ELSE CASE document.kind = "MANIFEST" ->
              document.at.decision.status = "VERIFIED" <=>
                \E c \in Candidates : /\ Shows(document.at.observations, c)
                                      /\ TargetPassed(document.at.observations, c)
         [] document.kind \in {"EXPORT", "ACQUISITION"} -> document = original
         [] OTHER -> document.at.body.source = original.at.body.source

(* Replay separates the documents that may replay from those that may not: *)
(* every document as it was made replays if it may, and one that was       *)
(* changed and whose digests were made to fit only if it may.              *)
ReplaySeparates == IF Replays(document) THEN MayReplay ELSE edited \/ ~MayReplay
=============================================================================
