--------------------------- MODULE AssurancePolicy ---------------------------
(***************************************************************************)
(* The assurance policy of the proof planner (src/proof-planner/policy.ts  *)
(* and the vocabulary of model.ts): the data that maps facts to levels,    *)
(* raises, evidence and status, and the rule that admits a caller's policy *)
(* only when it is at least as strict as the default one.  Levels are the  *)
(* numbers 0..5; titles and descriptions are left out.                     *)
(***************************************************************************)
EXTENDS Naturals, Sequences, FiniteSets

Roles == {"product", "execution-context", "evaluation", "test",
          "proof-infrastructure", "documentation"}

Subjects == {"product", "evaluation", "proof-infrastructure", "documentation"}

SubjectOfRole(role) ==
    CASE role \in {"product", "execution-context"} -> "product"
      [] role = "evaluation" -> "evaluation"
      [] role \in {"test", "proof-infrastructure"} -> "proof-infrastructure"
      [] role = "documentation" -> "documentation"

Boundaries == {"protocol", "persistence", "replay", "analysis", "decision",
               "admission", "security", "public-api", "benchmark", "holdout"}

EvaluationBoundaries == {"benchmark", "holdout"}
CompatibilityBoundaries == {"protocol", "persistence", "public-api"}
BehaviorBoundaries == CompatibilityBoundaries \cup {"replay", "analysis"}

\* The fact that a change meets boundary b: touched, behavior or transitive.
Boundary(b, qualifier) == "boundary:" \o b \o ":" \o qualifier

\* What an infrastructure signal that is attributed shows; neither is a fact about a boundary.
AttributedFacts == {"observed:infrastructure-failure", "observed:baseline-reproduction"}

ASSUME FactsAssumption ==
    \A b \in Boundaries : \A q \in {"touched", "behavior", "transitive"} :
        Boundary(b, q) \notin AttributedFacts

AttributionBases == {"REPRODUCES_ON_BASELINE", "PASSES_ON_SAME_REVISION", "OUTSIDE_IMPACT",
                     "INFRASTRUCTURE_ERROR_REPORTED", "DECLARED_ENVIRONMENT_FACTOR"}

-----------------------------------------------------------------------------
(* The default policy. *)

Kinds(weight, binding, subjects, verification, ids) ==
    {[id |-> id, weight |-> weight, binding |-> binding, subjects |-> subjects,
      verification |-> verification, semanticsVersion |-> 1] : id \in ids}

Evidence ==
    Kinds("targeted", "exact-revision", {"product", "evaluation", "proof-infrastructure"},
          "executed", {"STATIC_CHECKS", "REVISION_IDENTITY"})
    \cup Kinds("targeted", "surface-content", {"documentation"}, "executed",
               {"DOCUMENTATION_CHECK"})
    \cup Kinds("targeted", "surface-content", {"product", "evaluation"}, "executed",
               {"AFFECTED_TESTS"})
    \cup Kinds("targeted", "surface-content", {"product"}, "executed",
               {"CHARACTERIZATION_TESTS", "CAUSAL_WITNESS", "ACCEPTANCE_TEST",
                "PRODUCTION_PATH_TEST", "TARGETED_REGRESSION", "TARGETED_INTEGRATION",
                "TARGETED_CORPUS", "BOUNDARY_COMPATIBILITY", "INVARIANT_CHECK"})
    \cup Kinds("targeted", "surface-content", {"proof-infrastructure"}, "attested",
               {"GATE_DELTA_REVIEW"})
    \cup Kinds("targeted", "surface-content", {"proof-infrastructure"}, "executed",
               {"AFFECTED_JOB_RERUN", "ORACLE_WITNESS"})
    \cup Kinds("targeted", "surface-content", {"product", "proof-infrastructure"},
               "executed", {"FAILURE_ATTRIBUTION"})
    \cup Kinds("targeted", "surface-content", {"product"}, "attested", {"ROLLBACK_PLAN"})
    \cup Kinds("broad", "runtime-tree", {"product"}, "executed",
               {"FULL_TEST_SUITE", "FULL_CORPUS", "MULTI_ENVIRONMENT", "LIVE_SHADOW"})
    \cup Kinds("broad", "surface-content", {"product", "evaluation"}, "attested",
               {"INDEPENDENT_REVIEW"})
    \cup Kinds("ceremony", "runtime-tree", {"product"}, "executed",
               {"SYSTEM_REQUALIFICATION"})
    \cup Kinds("ceremony", "runtime-tree", {"evaluation"}, "executed",
               {"BENCHMARK_PROTOCOL", "HOLDOUT_EVALUATION"})
    \cup Kinds("ceremony", "surface-content", {"evaluation"}, "attested",
               {"PREREGISTRATION", "CONTAMINATION_CHECK", "PROVENANCE_ATTESTATION"})

Baseline(level, kinds) == {[level |-> level, kind |-> k] : k \in kinds}

Baselines ==
    Baseline(1, {"STATIC_CHECKS", "AFFECTED_TESTS"})
    \cup Baseline(2, {"TARGETED_REGRESSION", "REVISION_IDENTITY"})
    \cup Baseline(3, {"TARGETED_INTEGRATION", "PRODUCTION_PATH_TEST"})
    \cup Baseline(4, {"INDEPENDENT_REVIEW"})
    \cup Baseline(5, {"PREREGISTRATION", "PROVENANCE_ATTESTATION"})

Floor(level, facts) == {[fact |-> f, level |-> level] : f \in facts}

Floors ==
    Floor(0, {"documentation:changed"})
    \cup Floor(1, {"tests:changed", "oracle:changed", "proof-infrastructure:changed",
                   "evaluation:touched", "product:refactor"})
    \cup Floor(2, {"product:behavior-change", "product:new-behavior",
                   "execution-context:changed", "claim:high:transitive",
                   "claim:high:oracle", "claim:scope:component"}
                  \cup {Boundary(b, "touched") : b \in CompatibilityBoundaries})
    \cup Floor(3, {"runtime:live:touched", "claim:high:direct", "claim:critical:transitive",
                   "claim:critical:oracle", "reversibility:costly", "impact:unbounded",
                   Boundary("security", "touched")}
                  \cup {Boundary(b, "behavior") : b \in BehaviorBoundaries})
    \cup Floor(4, {"runtime:live:behavior", "claim:critical:direct", "claim:scope:system",
                   "reversibility:irreversible", "observed:live-runtime",
                   "observed:corpus-divergence"}
                  \cup {Boundary(b, "behavior") : b \in {"decision", "admission", "security"}})
    \cup Floor(5, {"claim:empirical"}
                  \cup {Boundary(b, "behavior") : b \in EvaluationBoundaries})

Trigger(fact, required, recommended) ==
    [fact |-> fact, require |-> required, recommend |-> recommended]

Requiring(facts, kinds) == {Trigger(f, kinds, {}) : f \in facts}
Recommending(facts, kinds) == {Trigger(f, {}, kinds) : f \in facts}

Triggers ==
    Requiring({"documentation:changed", "claim:documentation"}, {"DOCUMENTATION_CHECK"})
    \cup Requiring({"tests:changed", "observed:infrastructure-failure"}, {"AFFECTED_JOB_RERUN"})
    \cup Requiring({"oracle:changed", "proof-infrastructure:changed"},
                   {"GATE_DELTA_REVIEW", "AFFECTED_JOB_RERUN"})
    \cup Requiring({"product:fix", "observed:witness-not-causal"}, {"CAUSAL_WITNESS"})
    \cup Requiring({"product:new-behavior"}, {"ACCEPTANCE_TEST"})
    \cup Requiring({"product:behavior-suspected", "coverage:missing"},
                   {"CHARACTERIZATION_TESTS"})
    \cup Requiring({Boundary(b, q) : b \in CompatibilityBoundaries, q \in {"touched", "behavior"}},
                   {"BOUNDARY_COMPATIBILITY"})
    \cup Requiring({Boundary(b, "behavior") : b \in {"replay", "analysis"}}, {"TARGETED_CORPUS"})
    \cup Recommending({Boundary(b, "transitive") : b \in Boundaries \ EvaluationBoundaries},
                      {"TARGETED_INTEGRATION"})
    \cup Recommending({Boundary("benchmark", "transitive"), "claim:empirical:transitive"},
                      {"BENCHMARK_PROTOCOL"})
    \cup Recommending({Boundary("holdout", "transitive")}, {"HOLDOUT_EVALUATION"})
    \cup Requiring({"runtime:live:behavior", "observed:live-runtime"},
                   {"LIVE_SHADOW", "ROLLBACK_PLAN", "FULL_CORPUS"})
    \cup Requiring({Boundary("decision", "behavior")}, {"FULL_CORPUS", "SYSTEM_REQUALIFICATION"})
    \cup Requiring({Boundary("admission", "behavior"), "claim:scope:system"},
                   {"SYSTEM_REQUALIFICATION"})
    \cup Requiring({Boundary("security", "touched")}, {"INDEPENDENT_REVIEW"})
    \cup Requiring({"claim:high:transitive", "claim:high:direct", "claim:critical:transitive",
                    "claim:critical:direct"}, {"INVARIANT_CHECK"})
    \cup Requiring({"claim:high:oracle"}, {"ORACLE_WITNESS"})
    \cup Requiring({"claim:critical:oracle"}, {"ORACLE_WITNESS", "INDEPENDENT_REVIEW"})
    \cup Recommending({"claim:outside-impact"}, {"INVARIANT_CHECK"})
    \cup Requiring({"claim:empirical"},
                   {"BENCHMARK_PROTOCOL", "PREREGISTRATION", "PROVENANCE_ATTESTATION",
                    "HOLDOUT_EVALUATION", "CONTAMINATION_CHECK"})
    \cup Requiring({Boundary("benchmark", "behavior")},
                   {"BENCHMARK_PROTOCOL", "PREREGISTRATION", "PROVENANCE_ATTESTATION"})
    \cup Requiring({Boundary("holdout", "behavior")},
                   {"HOLDOUT_EVALUATION", "CONTAMINATION_CHECK"})
    \cup {Trigger("impact:unbounded", {"FULL_TEST_SUITE"}, {"FULL_CORPUS", "INDEPENDENT_REVIEW"})}
    \cup Recommending({"impact:declared"}, {"FULL_TEST_SUITE"})
    \cup Recommending({"impact:localized-unknowns"}, {"TARGETED_REGRESSION"})
    \cup {Trigger("execution-context:changed", {"FULL_TEST_SUITE"}, {"MULTI_ENVIRONMENT"})}
    \cup Requiring({"environment:sensitive"}, {"MULTI_ENVIRONMENT"})
    \cup Requiring({"reversibility:costly", "reversibility:irreversible"}, {"ROLLBACK_PLAN"})
    \cup {Trigger("witness:infeasible", {"PRODUCTION_PATH_TEST", "TARGETED_CORPUS"},
                  {"INDEPENDENT_REVIEW"})}
    \cup Requiring({"observed:unexpected-behavior"},
                   {"CHARACTERIZATION_TESTS", "FAILURE_ATTRIBUTION"})
    \cup Requiring({"observed:corpus-divergence"}, {"FULL_CORPUS", "FAILURE_ATTRIBUTION"})
    \cup Requiring({"observed:regression", "observed:unplanned-impact",
                    "observed:unknown-dependency"}, {"TARGETED_REGRESSION"})
    \cup Requiring({"observed:unattributed-failure", "observed:baseline-reproduction"},
                   {"FAILURE_ATTRIBUTION"})

DefaultPolicy ==
    [evidence |-> Evidence,
     baselines |-> Baselines,
     floors |-> Floors,
     raises |-> [facts |-> {"uncertainty:high", "witness:infeasible",
                            "observed:unexpected-behavior", "observed:witness-not-causal"},
                 cap |-> 4],
     triggers |-> Triggers,
     status |-> [hold |-> {"observed:unattributed-failure", "observed:unexpected-behavior",
                           "observed:witness-not-causal", "observed:unplanned-impact",
                           "observed:unknown-dependency"},
                 block |-> {"observed:regression"}],
     attribution |-> AttributionBases]

-----------------------------------------------------------------------------
(* Which policies a caller may supply. *)

KindIds(policy) == {spec.id : spec \in policy.evidence}

ReferencesResolve(policy) ==
    /\ \A s, t \in policy.evidence : s.id = t.id => s = t
    /\ \A b \in policy.baselines : b.kind \in KindIds(policy)
    /\ \A t \in policy.triggers : t.require \cup t.recommend \subseteq KindIds(policy)

KindAtLeast(expected, policy) ==
    \E actual \in policy.evidence :
        /\ actual.id = expected.id
        /\ expected.verification = "executed" => actual.verification = "executed"
        /\ actual.binding \in {expected.binding, "exact-revision"}
        /\ expected.subjects \subseteq actual.subjects


\* Mutant: a floor counts whatever its level.
FloorOfAnyLevel(expected, policy) == \E actual \in policy.floors : actual.fact = expected.fact

FloorAtLeast(expected, policy) ==
    \E actual \in policy.floors : actual.fact = expected.fact /\ actual.level >= expected.level

\* The kinds of evidence that facts ask for, whatever triggers they are listed in.
Requires(policy) == UNION {{<<t.fact, kind>> : kind \in t.require} : t \in policy.triggers}
Recommends(policy) == UNION {{<<t.fact, kind>> : kind \in t.recommend} : t \in policy.triggers}

AtLeastDefault(policy) ==
    /\ \A expected \in Evidence : KindAtLeast(expected, policy)
    /\ \A expected \in Baselines :
          \E actual \in policy.baselines :
              actual.kind = expected.kind /\ actual.level <= expected.level
    /\ \A expected \in Floors : FloorAtLeast(expected, policy)
    /\ Requires(DefaultPolicy) \subseteq Requires(policy)
    /\ Recommends(DefaultPolicy) \subseteq Requires(policy) \cup Recommends(policy)
    /\ DefaultPolicy.raises.facts \subseteq policy.raises.facts
    /\ policy.raises.cap = DefaultPolicy.raises.cap
    /\ DefaultPolicy.status.hold \subseteq policy.status.hold \cup policy.status.block
    /\ DefaultPolicy.status.block \subseteq policy.status.block

\* parseAssurancePolicy returns the policy, or throws.
Admitted(policy) == ReferencesResolve(policy) /\ AtLeastDefault(policy)
=============================================================================
