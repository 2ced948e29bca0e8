----------------------------- MODULE Benchmark -----------------------------
(***************************************************************************)
(* What src/core/index.ts computes from a manifest: the Agentic Test       *)
(* Profile v1, the Agentic Benchmark v1, and the Profile v2 that is made   *)
(* from it (docs/agentic-benchmark.md, docs/agentic-test-profile-v2.md).   *)
(*                                                                         *)
(* A benchmark holds cold and warm runs of the selected candidates,        *)
(* summarised per candidate and regime, bound to the decision and the      *)
(* machine they belong to.  A run is [candidate, digest, regime, role,     *)
(* ordinal, outcome, phases, total, cpu]: complete when its outcome is     *)
(* PASS, and then phases holds the four durations in their order;          *)
(* otherwise it has no times.  A policy is [minimum, cold, warmup, warm,   *)
(* maximumExecutions].  The protocol has one admitted value and is left    *)
(* out.                                                                    *)
(***************************************************************************)
EXTENDS Manifest

CONSTANT Digest     \* [Candidates -> digests]: of the files of a candidate

-----------------------------------------------------------------------------
(* Profile v1: how strong the tests of a verified campaign are for the     *)
(* time they took, in the lanes a policy declares, and the portfolio each  *)
(* lane can afford.  A policy is [minimumSamples, lanes], a lane a budget; *)
(* times are the recorded wall times of the reference runs.                *)

(* The recorded times of c's runs on the reference worlds, by run. *)
ReferenceTimes(m, c) ==
  LET timed == {o \in m.observations :
                  o.candidate = c /\ o.world \in WorldsOf("REFERENCE") /\ o.ms # Untimed}
  IN [r \in {o.runId : o \in timed} |-> (CHOOSE o \in timed : o.runId = r).ms]

TotalTime(m, c) ==
  LET timed == {o \in m.observations : o.candidate = c /\ o.ms # Untimed}
      ms == [o \in timed |-> o.ms]
  IN SumFunctionOnSet(ms, timed)

(* The candidates a verified decision selected. *)
IsEligible(m, c) ==
  /\ m.decision.status = "VERIFIED" /\ c \in Selected(m)
  /\ m.candidates[c].status = "ELIGIBLE"

(* Mutant: the number of samples is not looked at. *)
ClassificationOfAnySamples(m, policy, c) ==
  LET times == ReferenceTimes(m, c)
  IN IF ~IsEligible(m, c) THEN "NOT_QUALIFIED"
     ELSE IF DOMAIN times = {} THEN "INSUFFICIENT_TIMING_EVIDENCE"
     ELSE IF \A i \in DOMAIN policy.lanes : NearestRank(times, 95) > policy.lanes[i]
          THEN "BUDGET_MISSED"
     ELSE "QUALIFIED"

(* Evidence first, then timing, then budget. *)
Classification(m, policy, c) ==
  LET times == ReferenceTimes(m, c)
  IN IF ~IsEligible(m, c) THEN "NOT_QUALIFIED"
     ELSE IF Cardinality(DOMAIN times) < policy.minimumSamples THEN "INSUFFICIENT_TIMING_EVIDENCE"
     ELSE IF \A i \in DOMAIN policy.lanes : NearestRank(times, 95) > policy.lanes[i]
          THEN "BUDGET_MISSED"
     ELSE "QUALIFIED"

P95(times) == IF DOMAIN times = {} THEN Untimed ELSE NearestRank(times, 95)

PlaceOf(m, c) == CHOOSE i \in DOMAIN m.decision.selected : m.decision.selected[i] = c
SelectedBefore(m, c) == {d \in Selected(m) : PlaceOf(m, d) < PlaceOf(m, c)}

KilledBy(m) == [d \in DOMAIN m.candidates |-> m.candidates[d].killed]

ProfileEntry(m, policy, c, class, times) ==
  [classification |-> class, samples |-> Cardinality(DOMAIN times), p95 |-> P95(times),
   lanes |-> {i \in DOMAIN policy.lanes : class = "QUALIFIED" /\ P95(times) <= policy.lanes[i]},
   total |-> TotalTime(m, c), killed |-> m.candidates[c].killed,
   marginal |-> IF c \in Selected(m) THEN Gain(KilledBy(m), c, SelectedBefore(m, c)) ELSE 0]

ProfileEntries(m, policy) ==
  [c \in DOMAIN m.candidates |->
     ProfileEntry(m, policy, c, Classification(m, policy, c), ReferenceTimes(m, c))]

(* How much x is better than y, on each of the five dimensions. *)
Advantage(x, y, entries) ==
  <<TargetWeight(entries[x].killed) - TargetWeight(entries[y].killed),
    Cardinality(entries[x].killed \cap RequiredTargets)
      - Cardinality(entries[y].killed \cap RequiredTargets),
    entries[y].p95 - entries[x].p95, entries[y].total - entries[x].total,
    Size[y] - Size[x]>>

(* No worse on any of them and better on one. *)
Dominates(advantage) ==
  /\ \A i \in DOMAIN advantage : advantage[i] >= 0
  /\ \E i \in DOMAIN advantage : advantage[i] > 0

Timed(entries) ==
  {d \in DOMAIN entries : /\ entries[d].classification \in {"QUALIFIED", "BUDGET_MISSED"}
                          /\ entries[d].p95 # Untimed}

Frontier(entries) ==
  {c \in Timed(entries) :
     \A d \in Timed(entries) \ {c} : ~Dominates(Advantage(d, c, entries))}

LanePortfolio(pool, killed, cost, budget) ==
  LaneOf(Portfolio(pool, killed, cost, budget), killed, cost)

ProfileStatus(classes) ==
  IF "QUALIFIED" \in classes THEN "QUALIFIED"
  ELSE IF "INSUFFICIENT_TIMING_EVIDENCE" \in classes THEN "INSUFFICIENT_TIMING_EVIDENCE"
  ELSE IF "BUDGET_MISSED" \in classes THEN "BUDGET_MISSED"
  ELSE "NOT_QUALIFIED"

(* A request is refused unless its policy is in order and its manifest     *)
(* replays.                                                                *)
ProfileAccepts(m, policy) ==
  ParsesAsManifest(m) /\ LanesAreOrdered(policy.lanes) /\ ReplayManifest(m)

ProfileOf(m, policy, entries, killed, p95) ==
  [source |-> m, sourceDigest |-> m.artifactDigest, policy |-> policy, policyDigest |-> policy,
   status |-> ProfileStatus({entries[c].classification : c \in DOMAIN entries}),
   entries |-> entries, frontier |-> Frontier(entries),
   portfolios |-> [i \in DOMAIN policy.lanes |->
                     LanePortfolio({c \in DOMAIN entries : i \in entries[c].lanes},
                                   killed, p95, policy.lanes[i])],
   qualified |-> {c \in DOMAIN entries : entries[c].classification = "QUALIFIED"}]

ProfileBody(m, policy, entries) ==
  ProfileOf(m, policy, entries, [c \in DOMAIN entries |-> entries[c].killed],
            [c \in DOMAIN entries |-> entries[c].p95])

CreateProfile(m, policy) ==
  Sealed(ProfileBody(m, policy, Tabled(ProfileEntries(m, policy))))

ReplayProfile(report) ==
  LET b == report.body
  IN /\ ProfileAccepts(b.source, b.policy)
     /\ b.qualified \subseteq DOMAIN b.entries
     /\ b.policyDigest = b.policy /\ report.digest = b
     /\ report = CreateProfile(b.source, b.policy)

-----------------------------------------------------------------------------
(* Benchmark v1.                                                           *)

Regimes == {"COLD", "WARM"}
NoTimes == <<>>

PerCandidate(policy) == policy.cold + policy.warmup + policy.warm

Passed(run) == run.outcome = "PASS"
TotalOf(p) == p[1] + p[2] + p[3] + p[4]

RunsOf(runs, c, regime, role) ==
  {r \in runs : r.candidate = c /\ r.regime = regime /\ r.role = role}

(* Exactly the planned runs of a candidate, with ordinals from one up. *)
PlanIsExecuted(policy, runs, c) ==
  /\ \A regime \in Regimes, role \in {"WARMUP", "MEASUREMENT"} :
       LET group == RunsOf(runs, c, regime, role)
       IN {r.ordinal : r \in group} = 1 .. Cardinality(group)
  /\ RunsOf(runs, c, "COLD", "WARMUP") = {}
  /\ Cardinality(RunsOf(runs, c, "COLD", "MEASUREMENT")) = policy.cold
  /\ Cardinality(RunsOf(runs, c, "WARM", "WARMUP")) = policy.warmup
  /\ Cardinality(RunsOf(runs, c, "WARM", "MEASUREMENT")) = policy.warm

TimingIsExact(run) ==
  IF Passed(run) THEN run.total = TotalOf(run.phases)
  ELSE run.phases = NoTimes /\ run.total = Untimed /\ run.cpu = Untimed

InputsAreValid(m, policy, runs) ==
  /\ ParsesAsManifest(m)
  /\ Cardinality(Selected(m)) * PerCandidate(policy) <= policy.maximumExecutions
  /\ \A c \in Selected(m) : m.candidates[c].status = "ELIGIBLE" /\ PlanIsExecuted(policy, runs, c)
  /\ \A r \in runs :
       r.candidate \in Selected(m) /\ r.digest = Digest[r.candidate] /\ TimingIsExact(r)

(* The decision is VERIFIED, measured in a required reference world. *)
SourceIsBound(m, world) ==
  /\ m.decision.status = "VERIFIED"
  /\ world \in WorldsOf("REFERENCE") \cap Required
  /\ \A c \in Selected(m) : m.candidates[c].status = "ELIGIBLE"

(* What two benchmarks must share to be compared. *)
ComparisonScope(m, world, fingerprint) ==
  [fingerprint |-> fingerprint, decision |-> m.decisionDigest, world |-> world]

Quantiles(f) ==
  IF DOMAIN f = {} THEN Untimed
  ELSE [minimum |-> CHOOSE v \in ValuesOf(f) : \A u \in ValuesOf(f) : v <= u,
        p50 |-> NearestRank(f, 50), p95 |-> NearestRank(f, 95),
        maximum |-> CHOOSE v \in ValuesOf(f) : \A u \in ValuesOf(f) : u <= v]

(* Mutant: a failed warmup is not a failure. *)
SummaryIgnoringWarmups(policy, runs, c, regime) ==
  LET measured == RunsOf(runs, c, regime, "MEASUREMENT")
      accepted == {r \in measured : Passed(r)}
      failed == {r \in measured : ~Passed(r)}
  IN [status |-> IF failed # {} THEN "OBSERVED_RUN_FAILURE"
                 ELSE IF Cardinality(accepted) < policy.minimum THEN "INSUFFICIENT_SAMPLES"
                 ELSE "MEASURED",
      accepted |-> Cardinality(accepted), failed |-> Cardinality(failed),
      total |-> Quantiles([r \in accepted |-> r.total]),
      phases |-> [p \in 1 .. 4 |-> Quantiles([r \in accepted |-> r.phases[p]])],
      cpu |-> Untimed]

(* The summary of a candidate in a regime: any failed run, a warmup        *)
(* included, taints it; CPU quantiles only when every accepted run has one.*)
Summary(policy, runs, c, regime) ==
  LET measured == RunsOf(runs, c, regime, "MEASUREMENT")
      accepted == {r \in measured : Passed(r)}
      failed == {r \in measured \cup RunsOf(runs, c, regime, "WARMUP") : ~Passed(r)}
      timed == {r \in accepted : r.cpu # Untimed}
  IN [status |-> IF failed # {} THEN "OBSERVED_RUN_FAILURE"
                 ELSE IF Cardinality(accepted) < policy.minimum THEN "INSUFFICIENT_SAMPLES"
                 ELSE "MEASURED",
      accepted |-> Cardinality(accepted), failed |-> Cardinality(failed),
      total |-> Quantiles([r \in accepted |-> r.total]),
      phases |-> [p \in 1 .. 4 |-> Quantiles([r \in accepted |-> r.phases[p]])],
      cpu |-> IF timed = accepted THEN Quantiles([r \in timed |-> r.cpu]) ELSE Untimed]

Summaries(m, policy, runs) ==
  [x \in Selected(m) \X Regimes |-> Summary(policy, runs, x[1], x[2])]

BenchmarkAccepts(m, world, policy, runs) ==
  InputsAreValid(m, policy, runs) /\ ReplayManifest(m) /\ SourceIsBound(m, world)

CreateBenchmark(m, world, policy, fingerprint, runs) ==
  Sealed([source |-> m, sourceArtifact |-> m.artifactDigest,
          sourceDecision |-> m.decisionDigest, world |-> world, policy |-> policy,
          policyDigest |-> policy, fingerprint |-> fingerprint,
          fingerprintDigest |-> fingerprint,
          scope |-> ComparisonScope(m, world, fingerprint), runs |-> runs,
          summaries |-> Summaries(m, policy, runs)])

ReplayBenchmark(artifact) ==
  LET b == artifact.body
  IN /\ BenchmarkAccepts(b.source, b.world, b.policy, b.runs)
     /\ b.sourceArtifact = b.source.artifactDigest
     /\ b.sourceDecision = b.source.decisionDigest
     /\ b.policyDigest = b.policy /\ b.fingerprintDigest = b.fingerprint
     /\ b.scope = ComparisonScope(b.source, b.world, b.fingerprint)
     /\ artifact.digest = b
     /\ b.summaries = Summaries(b.source, b.policy, b.runs)

-----------------------------------------------------------------------------
(* Profile v2: a policy is [scope, lanes], a lane a budget on the sum of   *)
(* the warm p95 wall times.                                                *)

WarmP95(summary) ==
  IF summary.status = "MEASURED" /\ summary.total # Untimed THEN summary.total.p95 ELSE Untimed

ClassificationV2(scopeMatches, summary, lanes) ==
  IF ~scopeMatches THEN "COMPARISON_SCOPE_MISMATCH"
  ELSE IF summary.status = "OBSERVED_RUN_FAILURE" THEN "OBSERVED_BENCHMARK_FAILURE"
  ELSE IF WarmP95(summary) = Untimed THEN "INSUFFICIENT_TIMING_EVIDENCE"
  ELSE IF \E i \in DOMAIN lanes : WarmP95(summary) <= lanes[i] THEN "QUALIFIED"
  ELSE "BUDGET_MISSED"

(* Dominated by d: no better in weight, in required targets or in cost,    *)
(* and worse in one of them.                                               *)
DominatesV2(d, c, weight, required, p95) ==
  /\ weight[d] >= weight[c] /\ required[d] >= required[c] /\ p95[d] <= p95[c]
  /\ weight[d] > weight[c] \/ required[d] > required[c] \/ p95[d] < p95[c]

(* Mutant: candidates of a cohort that cannot be compared as a whole are   *)
(* compared one by one.                                                    *)
EvaluableOneByOne(scopeMatches, warm) == scopeMatches

(* One failed or unmeasured candidate leaves the whole cohort unevaluated. *)
Evaluable(scopeMatches, warm) ==
  scopeMatches /\ \A c \in DOMAIN warm : warm[c].status = "MEASURED" /\ WarmP95(warm[c]) # Untimed

ProfileV2Status(scopeMatches, warm, portfolios) ==
  IF ~scopeMatches THEN "COMPARISON_SCOPE_MISMATCH"
  ELSE IF \E c \in DOMAIN warm : warm[c].status = "OBSERVED_RUN_FAILURE"
       THEN "OBSERVED_BENCHMARK_FAILURE"
  ELSE IF \E c \in DOMAIN warm : WarmP95(warm[c]) = Untimed THEN "INSUFFICIENT_TIMING_EVIDENCE"
  ELSE IF \E i \in DOMAIN portfolios : portfolios[i].selected # <<>> THEN "QUALIFIED"
  ELSE "BUDGET_MISSED"

WarmSummaries(b) == [c \in Selected(b.source) |-> b.summaries[<<c, "WARM">>]]
KillsOfSelected(b) == [c \in Selected(b.source) |-> b.source.candidates[c].killed]

FrontierV2(weight, required, p95) ==
  {c \in DOMAIN p95 :
     \A d \in DOMAIN p95 \ {c} : ~DominatesV2(d, c, weight, required, p95)}

PortfoliosV2(lanes, killed, p95) ==
  [i \in DOMAIN lanes |->
     LaneOf(Portfolio({c \in DOMAIN p95 : p95[c] # Untimed}, killed, p95, lanes[i]), killed, p95)]

ProfileV2Of(artifact, policy, matches, warm, p95, killed, portfolios) ==
  LET b == artifact.body
  IN [source |-> artifact, sourceDigest |-> artifact.digest, scope |-> b.scope,
      policy |-> policy, policyDigest |-> policy,
      status |-> ProfileV2Status(matches, warm, portfolios),
      excluded |-> {c \in DOMAIN b.source.candidates :
                      b.source.candidates[c].status = "ELIGIBLE"} \ Selected(b.source),
      entries |-> [c \in DOMAIN warm |->
                     [classification |-> ClassificationV2(matches, warm[c], policy.lanes),
                      status |-> warm[c].status, p95 |-> p95[c], killed |-> killed[c]]],
      frontier |-> IF Evaluable(matches, warm)
                   THEN FrontierV2([c \in DOMAIN warm |-> TargetWeight(killed[c])],
                                   [c \in DOMAIN warm |-> Cardinality(killed[c] \cap RequiredTargets)],
                                   p95)
                   ELSE {},
      portfolios |-> portfolios]

ProfileV2Priced(artifact, policy, matches, warm, p95, killed) ==
  ProfileV2Of(artifact, policy, matches, warm, p95, killed,
              IF Evaluable(matches, warm) THEN PortfoliosV2(policy.lanes, killed, p95) ELSE <<>>)

ProfileV2Body(artifact, policy, warm) ==
  ProfileV2Priced(artifact, policy, policy.scope = artifact.body.scope, warm,
                  [c \in DOMAIN warm |-> WarmP95(warm[c])], KillsOfSelected(artifact.body))

CreateProfileV2(artifact, policy) ==
  Sealed(ProfileV2Body(artifact, policy, WarmSummaries(artifact.body)))

ProfileV2Accepts(artifact, policy) ==
  LanesAreOrdered(policy.lanes) /\ ReplayBenchmark(artifact)

ReplayProfileV2(report) ==
  LET b == report.body
  IN /\ ProfileV2Accepts(b.source, b.policy)
     /\ DOMAIN b.entries \cap b.excluded = {}
     /\ b.sourceDigest = b.source.digest /\ b.scope = b.source.body.scope
     /\ b.policyDigest = b.policy /\ report.digest = b
     /\ report = CreateProfileV2(b.source, b.policy)
=============================================================================
