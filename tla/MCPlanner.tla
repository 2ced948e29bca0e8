------------------------------ MODULE MCPlanner ------------------------------
(* Width: changes of one or two surfaces of every role, under five        *)
(* analyses and four claims, and one signal, lesson or policy more.       *)
(* Depth: one fix of a product surface with its test and its              *)
(* documentation; two contents of each, so that a revert gives an old     *)
(* digest back; a failure that may be corrected under the same id, and a  *)
(* regression.                                                            *)
EXTENDS ChangePlanning

Surface(id, role, boundaries, behaviorChange) ==
    [id |-> id, role |-> role, reach |-> "direct", runtime |-> "build",
     boundaries |-> boundaries, behaviorChange |-> behaviorChange, coverage |-> "tested",
     environmentSensitive |-> FALSE, contentDigest |-> 1, exercises |-> None]

Transitive(s) == [s EXCEPT !.reach = "transitive", !.coverage = "unknown"]

Products ==
    {Surface("p", "product", {}, "none"),
     [Surface("p", "product", {}, "none") EXCEPT !.coverage = "unknown"],
     Surface("p", "product", {"replay"}, "fix"),
     Transitive(Surface("p", "product", {"decision"}, "none")),
     [Transitive(Surface("p", "product", {"holdout"}, "feature")) EXCEPT !.runtime = "live"],
     [Surface("p", "product", {"security"}, "suspected") EXCEPT !.environmentSensitive = TRUE,
                                                                !.runtime = "offline-analysis"]}

Others ==
    {Surface("q", "documentation", {}, "none"),
     [Surface("q", "test", {"admission"}, "fix") EXCEPT !.exercises = {"p"}],
     Surface("q", "test", {}, "none"),
     Surface("q", "proof-infrastructure", {"security"}, "suspected"),
     Transitive(Surface("q", "evaluation", {"benchmark"}, "none")),
     Surface("q", "evaluation", {"benchmark"}, "feature"),
     Transitive(Surface("q", "execution-context", {"public-api"}, "none"))}

Confident == [method |-> "static-graph", completeness |-> "complete", uncertainty |-> "low",
              unknowns |-> {}, omitted |-> FALSE]

WideAnalyses ==
    {Confident,
     [Confident EXCEPT !.method = "declared"],
     [Confident EXCEPT !.completeness = "partial", !.unknowns = {{"q"}}],
     [Confident EXCEPT !.uncertainty = "high"],
     [Confident EXCEPT !.uncertainty = "high", !.omitted = TRUE]}

Claim(kind, criticality, scope, surfaces) ==
    [id |-> "c", kind |-> kind, criticality |-> criticality, scope |-> scope,
     surfaces |-> surfaces]

Failure == Signal("g", 1, "ENVIRONMENT_FAILURE", {"job"}, "no", {"OUTSIDE_IMPACT"})

\* Claims, reversibility, causal witness and what was reported before.
Contexts ==
    {<<Claim("documentation", "low", "local", {"p"}), "reversible", "infeasible", {Failure}>>,
     <<Claim("invariant", "critical", "system", {"p"}), "reversible", "available", {}>>,
     <<Claim("behavior", "high", "component", {"q", "elsewhere"}), "costly", "available", {}>>,
     <<Claim("empirical", "low", "local", {"elsewhere"}), "reversible", "infeasible", {}>>}

WideInputs ==
    {[impact |-> [revision |-> 1, baseline |-> 1, tree |-> None, surfaces |-> surfaces,
                  analysis |-> analysis, reversibility |-> c[2], causalWitness |-> c[3]],
      claims |-> {c[1]}, signals |-> c[4], policy |-> DefaultPolicy] :
        surfaces \in {{p} : p \in Products} \cup {{q} : q \in Others}
                     \cup {{Transitive(Surface("q", "documentation", {}, "none"))}}
                     \cup {{pq[1], pq[2]} : pq \in Products \X Others},
        analysis \in WideAnalyses, c \in Contexts}

WideReports ==
    {Signal("u", 0, "UNKNOWN_DEPENDENCY", {}, "yes", {}),
     Signal("u", 0, "UNPLANNED_IMPACT", {"p"}, "yes", {}),
     Signal("r", 0, "REGRESSION", {"p"}, "yes", {"REPRODUCES_ON_BASELINE"}),
     Signal("l", 0, "LIVE_RUNTIME_TOUCHED", {"p"}, "yes", {}),
     Signal("x", 0, "UNEXPECTED_BEHAVIOR", {"q"}, "unknown", {}),
     Signal("f", 0, "TIMEOUT", {"job"}, "no", {"OUTSIDE_IMPACT"}),
     Signal("f", 0, "TOOLING_FAILURE", {"q"}, "no", {"PASSES_ON_SAME_REVISION"}),
     Signal(Hypothetical, 0, "REGRESSION", {"p"}, "yes", {})}

LoweredFloor == [DefaultPolicy EXCEPT !.floors =
    {IF f.fact = "impact:unbounded" THEN [f EXCEPT !.level = 2] ELSE f : f \in @}]
RaisedFloor == [DefaultPolicy EXCEPT !.floors = @ \cup Floor(5, {"product:refactor"})]
LateBaseline == [DefaultPolicy EXCEPT !.baselines =
    {IF b.kind = "AFFECTED_TESTS" THEN [b EXCEPT !.level = 2] ELSE b : b \in @}]
EarlyBaseline == [DefaultPolicy EXCEPT !.baselines = @ \cup Baseline(1, {"INDEPENDENT_REVIEW"})]
Milder(fact) == [DefaultPolicy EXCEPT !.triggers =
    {IF t.fact = fact THEN Trigger(fact, {}, t.require) ELSE t : t \in @}]
Harder(fact) == [DefaultPolicy EXCEPT !.triggers =
    {IF t.fact = fact THEN Trigger(fact, t.require \cup t.recommend, {}) ELSE t : t \in @}]
Exact == [DefaultPolicy EXCEPT !.evidence =
    {IF k.binding = "surface-content" THEN [k EXCEPT !.binding = "exact-revision"] ELSE k : k \in @}]
Narrowed == [DefaultPolicy EXCEPT !.evidence = {[k EXCEPT !.subjects = @ \ {"evaluation"}] : k \in @}]
Lenient == [DefaultPolicy EXCEPT !.status.hold = @ \ {"observed:unknown-dependency"}]
Blocking == [DefaultPolicy EXCEPT !.status.block = @ \cup {"observed:unknown-dependency"},
                                  !.status.hold = @ \ {"observed:unknown-dependency"}]
NoExcuse == [DefaultPolicy EXCEPT !.attribution = {}]
LowCap == [DefaultPolicy EXCEPT !.raises.cap = 3]

WidePolicies == {LoweredFloor, RaisedFloor, LateBaseline, EarlyBaseline, Milder("claim:critical:oracle"),
               Harder("impact:declared"), Exact, Narrowed, Lenient, Blocking, NoExcuse, LowCap}

-----------------------------------------------------------------------------
DeepInputs ==
    {[impact |-> [revision |-> 1, baseline |-> 1, tree |-> None,
                  surfaces |-> {Surface("p", "product", {}, "fix"),
                                [Surface("t", "test", {}, "none") EXCEPT !.exercises = {"p"}],
                                [Surface("d", "documentation", {}, "none") EXCEPT !.contentDigest = digest]},
                  analysis |-> Confident, reversibility |-> "reversible",
                  causalWitness |-> "available"],
      claims |-> {[id |-> "c", kind |-> "documentation", criticality |-> "low",
                   scope |-> "local", surfaces |-> {"p"}]},
      signals |-> {}, policy |-> DefaultPolicy] : digest \in {1, None}}

DeepReports ==
    {[Signal("f", 0, "TIMEOUT", surfaces, "no", {"OUTSIDE_IMPACT"}) EXCEPT !.tree = tree] :
        surfaces \in {{"t"}, {"d"}, {"job"}}, tree \in {1, None}}
    \cup {[Signal("r", 0, "REGRESSION", {"p"}, "yes", {}) EXCEPT !.tree = 1]}

MCStudies ==
    [wide |->
     [inputs |-> WideInputs, contents |-> {}, elsewhere |-> {}, analyses |-> {}, lists |-> {},
      reports |-> WideReports, policies |-> WidePolicies, learning |-> TRUE, steps |-> 1],
     deep |->
     [inputs |-> DeepInputs, contents |-> {1, 2}, elsewhere |-> {1, 2},
      analyses |-> {[Confident EXCEPT !.completeness = "unknown"]}, lists |-> {None},
      reports |-> DeepReports, policies |-> {}, learning |-> FALSE, steps |-> 4]]
=============================================================================
