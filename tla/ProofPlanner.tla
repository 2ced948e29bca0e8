----------------------------- MODULE ProofPlanner -----------------------------
(***************************************************************************)
(* planAssurance (src/proof-planner/plan.ts): which evidence is            *)
(* proportionate for a change.  The planner is a pure function of a change *)
(* impact, the claims of the project, the signals that proof runs          *)
(* reported and a policy; this module is that function, ChangePlanning is  *)
(* the life of a change that calls it.                                     *)
(*                                                                         *)
(* An input is a record: impact (revision, baseline, tree, surfaces,       *)
(* analysis, reversibility, causalWitness), claims, signals, policy.       *)
(* Surfaces, claims and signals are sets of records with distinct ids.     *)
(* None stands for an absent digest, tree or list of exercised surfaces.   *)
(***************************************************************************)
EXTENDS AssurancePolicy, FiniteSetsExt

CONSTANT None

RuntimeRoles == {"product", "execution-context", "evaluation"}
SensitiveBoundaries == {"security", "admission", "decision"}
PreExistingCapable == {"UNEXPECTED_BEHAVIOR", "CORPUS_DIVERGENCE", "REGRESSION"}
InfrastructureSignals == {"TIMEOUT", "ENVIRONMENT_FAILURE", "TOOLING_FAILURE"}
ProofRoles == {"test", "proof-infrastructure"}

SignalFacts ==
    [UNEXPECTED_BEHAVIOR |-> "observed:unexpected-behavior",
     UNPLANNED_IMPACT |-> "observed:unplanned-impact",
     UNKNOWN_DEPENDENCY |-> "observed:unknown-dependency",
     LIVE_RUNTIME_TOUCHED |-> "observed:live-runtime",
     CORPUS_DIVERGENCE |-> "observed:corpus-divergence",
     WITNESS_NOT_CAUSAL |-> "observed:witness-not-causal",
     REGRESSION |-> "observed:regression"]

ProductSignals == DOMAIN SignalFacts

Ids(things) == {t.id : t \in things}

-----------------------------------------------------------------------------
(* What normalizeInput rejects: planAssurance throws. *)

Hypothetical == "hypothetical"

SurfaceOK(s) ==
    /\ s.role \in Roles /\ s.reach \in {"direct", "transitive"}
    /\ s.runtime \in {"none", "build", "offline-analysis", "live"}
    /\ s.boundaries \subseteq Boundaries
    /\ s.behaviorChange \in {"none", "fix", "feature", "suspected"}
    /\ s.coverage \in {"tested", "untested", "unknown"}
    /\ s.environmentSensitive \in BOOLEAN

ImpactOK(impact) ==
    /\ impact.surfaces # {} /\ \A s \in impact.surfaces : SurfaceOK(s)
    /\ impact.analysis.method \in {"static-graph", "declared"}
    /\ impact.analysis.completeness \in {"complete", "partial", "unknown"}
    /\ impact.analysis.uncertainty \in {"low", "medium", "high"}
    /\ impact.reversibility \in {"trivial", "reversible", "costly", "irreversible"}
    /\ impact.causalWitness \in {"available", "feasible", "infeasible", "not-applicable"}

ClaimOK(c) ==
    /\ c.surfaces # {} /\ c.scope \in {"local", "component", "system"}
    /\ c.criticality \in {"low", "standard", "high", "critical"}

SignalOK(g) ==
    /\ g.signal \in DOMAIN SignalFacts \cup InfrastructureSignals
    /\ g.exercises \in {"yes", "no", "unknown"} /\ g.attribution \subseteq AttributionBases

\* Ids are unique, and the id of the planner's own hypothetical signal is reserved.
IdsOK(things) ==
    /\ \A x, y \in things : x.id = y.id => x = y
    /\ Hypothetical \notin Ids(things)

Rejected(input) ==
    \/ ~ImpactOK(input.impact)
    \/ \E c \in input.claims : ~ClaimOK(c)
    \/ \E g \in input.signals : ~SignalOK(g)
    \/ ~(IdsOK(input.impact.surfaces) /\ IdsOK(input.claims) /\ IdsOK(input.signals))
    \/ ~Admitted(input.policy)

-----------------------------------------------------------------------------
(* Facts: one for each id and subject, with the surfaces and the signals   *)
(* and claims behind it.                                                   *)

Fact(id, subject, surfaces, refs) ==
    [id |-> id, subject |-> subject, surfaces |-> surfaces, refs |-> refs]

\* A fact about surfaces, when there are any.
About(id, subject, surfaces) ==
    IF surfaces = {} THEN {} ELSE {Fact(id, subject, Ids(surfaces), {})}

\* FactSet.add: a fact met again keeps every surface and reference.
Merged(facts) ==
    {LET same == {f \in facts : f.id = key[1] /\ f.subject = key[2]}
     IN  Fact(key[1], key[2], UNION {f.surfaces : f \in same}, UNION {f.refs : f \in same})
        : key \in {<<f.id, f.subject>> : f \in facts}}

HasFact(facts, id) == \E f \in facts : f.id = id

Of(surfaces, roles) == {s \in surfaces : s.role \in roles}
Direct(surfaces) == {s \in surfaces : s.reach = "direct"}
Behavioral(surfaces) == {s \in surfaces : s.behaviorChange # "none"}

Exercises(surface, targets) == surface.exercises # None /\ surface.exercises \cap targets # {}

ProductFacts(impact) ==
    LET product == Direct(Of(impact.surfaces, {"product"}))
        fixes == {s \in product : s.behaviorChange = "fix"}
        live == {s \in Of(impact.surfaces, {"product", "execution-context"}) : s.runtime = "live"}
    IN  (IF Behavioral(product) = {} THEN About("product:refactor", "product", product) ELSE {})
        \cup About("product:behavior-change", "product", Behavioral(product))
        \cup About("product:behavior-suspected", "product",
                   {s \in product : s.behaviorChange = "suspected"})
        \cup About(IF impact.causalWitness = "infeasible" THEN "witness:infeasible"
                   ELSE "product:fix", "product", fixes)
        \cup About("product:new-behavior", "product",
                   {s \in product : s.behaviorChange = "feature"})
        \cup About("runtime:live:touched", "product", Direct(live))
        \cup About("runtime:live:behavior", "product", Behavioral(live))
        \cup About("coverage:missing", "product",
                   {s \in product : \/ s.coverage = "untested"
                                    \/ s.coverage = "unknown" /\ s.behaviorChange # "none"})
        \cup About("environment:sensitive", "product",
                   {s \in Behavioral(product) : /\ s.environmentSensitive
                                                /\ s.runtime \in {"offline-analysis", "live"}})

\* Security, admission and decision keep their weight on a changed gate or oracle.
CarriesBoundary(s, b) ==
    /\ b \in s.boundaries
    /\ \/ s.role \in RuntimeRoles
       \/ /\ b \in SensitiveBoundaries
          /\ \/ s.role = "proof-infrastructure"
             \/ s.role = "test" /\ s.behaviorChange # "none"

BoundaryFacts(impact) ==
    UNION {
      LET evaluation == b \in EvaluationBoundaries
          carriers == {s \in impact.surfaces : CarriesBoundary(s, b)}
          bySubject(qualifier, surfaces) ==
              UNION {About(Boundary(b, qualifier), subject,
                           {s \in surfaces : subject = IF evaluation THEN "evaluation"
                                                       ELSE SubjectOfRole(s.role)})
                     : subject \in Subjects}
      IN  bySubject("touched", Direct(carriers))
          \cup bySubject("behavior",
                         IF evaluation THEN Direct(Behavioral(carriers))
                         ELSE Behavioral(carriers))
          \cup bySubject("transitive",
                         {s \in carriers \ Direct(carriers) :
                             s.behaviorChange = "none" \/ evaluation})
      : b \in Boundaries}

SurfaceFacts(impact) ==
    LET direct == Direct(impact.surfaces)
        runtime == Of(impact.surfaces, RuntimeRoles)
        directRuntime == Direct(runtime)
        reversible == IF directRuntime # {} THEN directRuntime ELSE runtime
    IN  About("documentation:changed", "documentation", Of(direct, {"documentation"}))
        \cup About("tests:changed", "proof-infrastructure",
                   {s \in Of(direct, {"test"}) : ~Exercises(s, Ids(directRuntime))})
        \cup About("oracle:changed", "proof-infrastructure", Behavioral(Of(direct, {"test"})))
        \cup About("proof-infrastructure:changed", "proof-infrastructure",
                   Of(direct, {"proof-infrastructure"}))
        \cup About("execution-context:changed", "product", Of(direct, {"execution-context"}))
        \cup About("evaluation:touched", "evaluation", Of(direct, {"evaluation"}))
        \cup ProductFacts(impact)
        \cup BoundaryFacts(impact)
        \cup (IF impact.reversibility \in {"costly", "irreversible"}
              THEN About(IF impact.reversibility = "costly" THEN "reversibility:costly"
                         ELSE "reversibility:irreversible", "product", reversible)
              ELSE {})

-----------------------------------------------------------------------------
(* Signals. *)

ObservedSameProduct(signal, impact) ==
    /\ signal.baseline = impact.baseline
    /\ signal.tree # None
    /\ signal.tree = impact.tree

\* A classified signal: the observation, how it is read, and the facts it yields.
Classified(signal, classification, exercises, basis, facts) ==
    [id |-> signal.id, revision |-> signal.revision, signal |-> signal.signal,
     classification |-> classification, exercises |-> exercises, basis |-> basis,
     surfaces |-> signal.surfaces, facts |-> facts]

IsUnresolvedSignal(c) ==
    \/ c.classification = "product"
    \/ c.classification = "unattributed" /\ c.exercises # "no"

OtherRevision(signal) == Classified(signal, "other-revision", signal.exercises, {}, {})

Observed(id, subject, signal) == Fact(id, subject, signal.surfaces, {signal.id})

\* The impact already says what the signal says.
Absorbs(impact, signal) ==
    LET declared == {s \in impact.surfaces : s.id \in signal.surfaces}
    IN  /\ signal.surfaces # {}
        /\ signal.surfaces \subseteq Ids(impact.surfaces)
        /\ \/ signal.signal = "UNPLANNED_IMPACT"
           \/ /\ signal.signal = "LIVE_RUNTIME_TOUCHED"
              /\ \A s \in declared :
                    s.runtime = "live" /\ s.role \in {"product", "execution-context"}


\* Mutant: a failure attributed to the baseline yields no fact.
ClassifyWithoutReproduction(signal, impact) ==
    IF signal.signal \in PreExistingCapable /\ "REPRODUCES_ON_BASELINE" \in signal.attribution
    THEN Classified(signal, "pre-existing", signal.exercises, {"REPRODUCES_ON_BASELINE"}, {})
    ELSE IF Absorbs(impact, signal) THEN Classified(signal, "absorbed", signal.exercises, {}, {})
    ELSE Classified(signal, "product", signal.exercises, {},
                    {Observed(SignalFacts[signal.signal], "product", signal)})

ClassifyProductSignal(signal, impact) ==
    LET read(classification, basis, facts) ==
            Classified(signal, classification, signal.exercises, basis, facts)
    IN  IF signal.signal \in PreExistingCapable /\ "REPRODUCES_ON_BASELINE" \in signal.attribution
        THEN read("pre-existing", {"REPRODUCES_ON_BASELINE"},
                  {Observed("observed:baseline-reproduction", "product", signal)})
        ELSE IF Absorbs(impact, signal) THEN read("absorbed", {}, {})
        ELSE read("product", {}, {Observed(SignalFacts[signal.signal], "product", signal)})

TrustsImpact(bound) == bound \in {"bounded-confident", "no-product-runtime"}

\* The surfaces that can make a job fail because of the change.
ExercisingChange(impact) ==
    LET runtime == Ids(Of(impact.surfaces, RuntimeRoles))
    IN  runtime \cup Ids({s \in Of(impact.surfaces, ProofRoles) :
                             IF s.exercises = None THEN s.role = "test" /\ runtime # {}
                             ELSE Exercises(s, runtime)})

ClassifyInfrastructureSignal(signal, input, bound) ==
    LET exercises ==
            IF signal.surfaces \cap ExercisingChange(input.impact) # {} THEN "yes"
            ELSE IF signal.exercises # "no" THEN signal.exercises
            ELSE IF signal.surfaces # {} /\ TrustsImpact(bound) THEN "no"
            ELSE "unknown"
        basis ==
            signal.attribution \cap
                (IF exercises = "no" THEN input.policy.attribution ELSE {"REPRODUCES_ON_BASELINE"})
        failure == Observed("observed:infrastructure-failure", "proof-infrastructure", signal)
        reproduced == Observed("observed:baseline-reproduction", "proof-infrastructure", signal)
        unattributed == Observed("observed:unattributed-failure",
                                 IF exercises = "no" THEN "proof-infrastructure" ELSE "product",
                                 signal)
    IN  IF basis = {} THEN Classified(signal, "unattributed", exercises, {}, {unattributed})
        ELSE Classified(signal, "proof-infrastructure", exercises, basis,
                        {failure} \cup (IF basis = {"REPRODUCES_ON_BASELINE"}
                                        THEN {reproduced} ELSE {}))

\* planCore's record: a signal of another revision counts while it is unresolved.
Recorded(signal, classified, impact) ==
    IF signal.revision # impact.revision /\ ~IsUnresolvedSignal(classified)
    THEN OtherRevision(signal)
    ELSE classified

-----------------------------------------------------------------------------
(* The impact bound. *)

Localized(analysis) == UNION analysis.unknowns

\* What an unknown may not touch: a live surface, or one of a high or critical claim.
Sensitive(input) ==
    Ids({s \in input.impact.surfaces : s.runtime = "live"})
    \cup UNION {c.surfaces : c \in {d \in input.claims : d.criticality \in {"high", "critical"}}}

IsUnbounded(input, facts) ==
    LET analysis == input.impact.analysis
    IN  \/ HasFact(facts, "observed:unknown-dependency")
        \/ HasFact(facts, "observed:unplanned-impact")
        \/ analysis.completeness = "unknown"
        \/ analysis.omitted
        \/ {} \in analysis.unknowns
        \/ analysis.completeness = "partial" /\ analysis.unknowns = {}
        \/ HasFact(facts, "execution-context:changed")
        \/ Localized(analysis) \cap Sensitive(input) # {}

IsUncertain(analysis) ==
    \/ analysis.method = "declared"
    \/ analysis.completeness = "partial"
    \/ analysis.uncertainty # "low"
    \/ Localized(analysis) # {}

BoundOf(input, facts) ==
    CASE IsUnbounded(input, facts) -> "unbounded"
      [] ~IsUnbounded(input, facts) /\ IsUncertain(input.impact.analysis) -> "bounded-uncertain"
      [] OTHER -> IF Of(input.impact.surfaces, RuntimeRoles) # {} THEN "bounded-confident"
                  ELSE "no-product-runtime"


\* Mutant: the uncertainty of an unbounded analysis raises nothing.
BoundFactsNotRaised(input, bound) ==
    LET analysis == input.impact.analysis
        subjects == {SubjectOfRole(s.role) : s \in input.impact.surfaces}
        each(id) == {Fact(id, subject, {}, {}) : subject \in subjects}
    IN  CASE bound = "unbounded" -> {Fact("impact:unbounded", "product", {}, {})}
          [] bound = "bounded-uncertain" ->
                each("impact:bounded-uncertain")
                \cup (IF analysis.uncertainty = "high" THEN each("uncertainty:high") ELSE {})
          [] OTHER -> {}

\* Facts about the analysis concern the runtime subjects it reaches, otherwise what changed;
\* an unbounded impact may reach the product whatever was enumerated.
BoundFacts(input, bound) ==
    LET impact == input.impact
        analysis == impact.analysis
        runtime == Of(impact.surfaces, RuntimeRoles)
        subjects == {SubjectOfRole(s.role) :
                        s \in IF runtime # {} THEN runtime ELSE Direct(impact.surfaces)}
        each(id, surfaces) == {Fact(id, subject, surfaces, {}) : subject \in subjects}
        high == analysis.uncertainty = "high"
    IN  CASE bound = "unbounded" ->
                {Fact("impact:unbounded", "product", {}, {})}
                \cup (IF high THEN {Fact("uncertainty:high", "product", {}, {})} ELSE {})
          [] bound = "bounded-uncertain" ->
                each("impact:bounded-uncertain", {})
                \cup (IF analysis.method = "declared" THEN each("impact:declared", {}) ELSE {})
                \cup (IF Localized(analysis) # {}
                      THEN each("impact:localized-unknowns", Localized(analysis)) ELSE {})
                \cup (IF high THEN each("uncertainty:high", {}) ELSE {})
          [] OTHER -> {}

-----------------------------------------------------------------------------
(* Claims. *)

Critical(claim) == claim.criticality \in {"high", "critical"}
CriticalFact(claim, reach) == "claim:" \o claim.criticality \o ":" \o reach

\* Changed tests and gates that check the claim: they can stop protecting it.
Protectors(impact, claim) ==
    {s \in Behavioral(Direct(Of(impact.surfaces, ProofRoles))) :
        s.id \in claim.surfaces \/ Exercises(s, claim.surfaces)}

OracleFacts(impact, claim) ==
    IF ~Critical(claim) \/ Protectors(impact, claim) = {} THEN {}
    ELSE {Fact(CriticalFact(claim, "oracle"), "proof-infrastructure",
               Ids(Protectors(impact, claim)), {claim.id})}

\* A documentation claim is stale when what it describes may behave differently.
StaleFacts(impact, claim) ==
    LET stale == {s \in Behavioral(Of(impact.surfaces, RuntimeRoles)) : s.id \in claim.surfaces}
    IN  IF stale = {} THEN {}
        ELSE {Fact("claim:documentation", "documentation", Ids(stale), {claim.id})}

\* A claim reached through some of its surfaces.
ReachedFacts(impact, claim, reach, surfaces) ==
    LET runtime == Of(impact.surfaces, RuntimeRoles)
        evaluated == {id \in surfaces : \E s \in runtime : s.id = id /\ s.role = "evaluation"}
        on(subject) == IF subject = "evaluation" THEN evaluated ELSE surfaces \ evaluated
        about(id) == {Fact(id, subject, on(subject), {claim.id}) :
                         subject \in {u \in {"product", "evaluation"} : on(u) # {}}}
    IN  IF claim.kind = "empirical"
        THEN {Fact(IF reach = "direct" THEN "claim:empirical" ELSE "claim:empirical:transitive",
                   "evaluation", surfaces, {claim.id})}
        ELSE (IF Critical(claim) THEN about(CriticalFact(claim, reach)) ELSE {})
             \cup (IF reach = "direct" /\ claim.scope # "local"
                   THEN about("claim:scope:" \o claim.scope) ELSE {})

InImpact(impact, claim) == {s \in Of(impact.surfaces, RuntimeRoles) : s.id \in claim.surfaces}

OutsideImpact(impact, claim, bound) ==
    claim.kind # "documentation" /\ InImpact(impact, claim) = {} /\ ~TrustsImpact(bound)

ClaimFacts(impact, claim, bound) ==
    LET within == InImpact(impact, claim)
    IN  CASE claim.kind = "documentation" -> StaleFacts(impact, claim)
          [] claim.kind # "documentation" /\ within # {} ->
                OracleFacts(impact, claim)
                \cup ReachedFacts(impact, claim,
                                  IF Direct(within) # {} THEN "direct" ELSE "transitive",
                                  Ids(within))
          [] OutsideImpact(impact, claim, bound)
                /\ bound = "bounded-uncertain" /\ claim.kind # "empirical" ->
                OracleFacts(impact, claim)
                \cup (IF Critical(claim)
                      THEN {Fact("claim:outside-impact", "product", claim.surfaces, {claim.id})}
                      ELSE {})
          [] OutsideImpact(impact, claim, bound)
                /\ (bound = "unbounded" \/ claim.kind = "empirical") ->
                OracleFacts(impact, claim)
                \cup ReachedFacts(impact, claim, "transitive", claim.surfaces)
          [] OTHER -> OracleFacts(impact, claim)

-----------------------------------------------------------------------------
(* Levels and evidence. *)

Greater(x, y) == IF x > y THEN x ELSE y
Lesser(x, y) == IF x < y THEN x ELSE y

FloorOf(policy, facts, subject) ==
    Max({0} \cup {e.level : e \in {g \in policy.floors :
                                     \E f \in facts : f.subject = subject /\ f.id = g.fact}})

LevelOf(policy, facts, subject) ==
    LET floor == FloorOf(policy, facts, subject)
        raised == \E f \in facts : f.subject = subject /\ f.id \in policy.raises.facts
    IN  IF raised THEN Greater(floor, Lesser(policy.raises.cap, floor + 1)) ELSE floor

\* A subject has a level when some fact concerns it.
Levels(policy, facts) ==
    [subject \in {f.subject : f \in facts} |-> LevelOf(policy, facts, subject)]

\* The impact surfaces a baseline of a subject is about: the direct ones and those a fact names.
SubjectSurfaces(impact, facts, subject) ==
    LET named == UNION {f.surfaces : f \in {g \in facts : g.subject = subject}}
    IN  Ids({s \in impact.surfaces :
                SubjectOfRole(s.role) = subject /\ (s.reach = "direct" \/ s.id \in named)})

\* Evidence bound to the exact revision carries no surface scope.
Scoped(spec, surfaces) == IF spec.binding = "exact-revision" THEN {} ELSE surfaces

Asked(spec, surfaces, because) ==
    [spec |-> spec, surfaces |-> Scoped(spec, surfaces), because |-> because]

Accumulated(asks) ==
    {LET same == {a \in asks : a.spec = spec}
     IN  [spec |-> spec, surfaces |-> UNION {a.surfaces : a \in same},
          because |-> UNION {a.because : a \in same}]
        : spec \in {a.spec : a \in asks}}

ByBaseline(input, facts, levels) ==
    {Asked(c[1], SubjectSurfaces(input.impact, facts, c[3]), {<<"baseline", c[2].level, c[3]>>}) :
        c \in {d \in input.policy.evidence \X input.policy.baselines \X DOMAIN levels :
                  /\ d[2].kind = d[1].id
                  /\ d[3] \in d[1].subjects
                  /\ levels[d[3]] >= d[2].level}}

\* c pairs a kind with a fact; asked pairs the names of facts with the kinds they ask for.
ByTrigger(policy, facts, asked) ==
    {Asked(c[1], c[2].surfaces, {<<"fact", c[2].id>>}) :
        c \in {d \in policy.evidence \X facts : <<d[2].id, d[1].id>> \in asked}}

KindsOf(entries) == {e.spec.id : e \in entries}

StatusOf(policy, facts) ==
    IF \E f \in facts : f.id \in policy.status.block THEN "BLOCKED"
    ELSE IF \E f \in facts : f.id \in policy.status.hold THEN "HOLD" ELSE "PROVE"

Relevant(input, signal) ==
    signal.revision = input.impact.revision \/ ObservedSameProduct(signal, input.impact)

\* What the facts ask for, unit by unit, by baselines and by triggers.
PlanOn(input, bound, signals, facts) ==
    LET policy == input.policy
        levels == Levels(policy, facts)
        required == Accumulated(ByBaseline(input, facts, levels)
                        \cup ByTrigger(policy, facts, Requires(policy)))
        recommended == Accumulated(ByTrigger(policy, facts, Recommends(policy)))
    IN  [status |-> StatusOf(policy, facts),
         levels |-> levels,
         level |-> Max({0} \cup {levels[u] : u \in DOMAIN levels}),
         bound |-> bound,
         facts |-> facts,
         signals |-> signals,
         outside |-> {c \in input.claims : OutsideImpact(input.impact, c, bound)},
         required |-> required,
         recommended |-> {r \in recommended : r.spec.id \notin KindsOf(required)}]

\* The facts the bound adds, those of claims, and those of infrastructure signals.
PlanWithin(input, bound, signals, observed) ==
    LET infrastructure == {Recorded(g, ClassifyInfrastructureSignal(g, input, bound), input.impact) :
                              g \in {h \in input.signals :
                                        Relevant(input, h) /\ h.signal \in InfrastructureSignals}}
    IN  PlanOn(input, bound, signals \cup infrastructure,
               Merged(observed \cup BoundFacts(input, bound)
                      \cup (UNION {ClaimFacts(input.impact, c, bound) : c \in input.claims})
                      \cup UNION {c.facts : c \in infrastructure}))

PlanAbout(input, signals, observed) ==
    PlanWithin(input, BoundOf(input, observed), signals, observed)

(***************************************************************************)
(* planCore: product signals first, since they can reopen the bound; then  *)
(* the bound; then claims; infrastructure signals last.                    *)
(***************************************************************************)
PlanCore(input) ==
    LET impact == input.impact
        others == {OtherRevision(g) : g \in {h \in input.signals : ~Relevant(input, h)}}
        product == {Recorded(g, ClassifyProductSignal(g, impact), impact) :
                       g \in {h \in input.signals :
                                 Relevant(input, h) /\ h.signal \in ProductSignals}}
    IN  PlanAbout(input, others \cup product,
                  SurfaceFacts(impact) \cup UNION {c.facts : c \in product})

-----------------------------------------------------------------------------
(* The rest of the plan: what is not required, and what would change that. *)

\* The worst case of the declared uncertainty; the analysis itself is kept.
WorstSurface(s) ==
    IF s.role \notin RuntimeRoles THEN s
    ELSE [s EXCEPT !.reach = "direct",
                   !.behaviorChange = IF @ = "none" THEN "suspected" ELSE @,
                   !.coverage = IF @ = "unknown" THEN "untested" ELSE @]


\* Mutant: what is reached transitively is taken as declared.
WorstCaseOfDirect(input) ==
    [input EXCEPT !.impact.surfaces =
        {IF s.reach = "direct" THEN WorstSurface(s) ELSE s : s \in @}]

WorstCase(input) == [input EXCEPT !.impact.surfaces = {WorstSurface(s) : s \in @}]

\* partitionCatalog: every kind ends in one of four statuses.
PartitionBeside(input, core, worst) ==
    LET uncertain == core.bound = "bounded-uncertain"
        selected == KindsOf(core.required) \cup KindsOf(core.recommended)
        worstAsks == {[a EXCEPT !.because = {<<"worst-case", b>> : b \in @}] :
                         a \in {e \in worst.required \cup worst.recommended :
                                   e.spec.id \notin selected}}
        added == IF uncertain THEN Accumulated(worstAsks) ELSE {}
        rest == {spec \in input.policy.evidence : spec.id \notin selected \cup KindsOf(added)}
        undetermined == core.bound = "unbounded" \/ (uncertain /\ worst.bound = "unbounded")
    IN  [recommended |-> core.recommended \cup added,
         notRequired |-> IF undetermined THEN {} ELSE rest,
         undetermined |-> IF undetermined THEN rest ELSE {}]

Partition(input, core) == PartitionBeside(input, core, PlanCore(WorstCase(input)))

Signal(id, revision, name, surfaces, exercises, attribution) ==
    [id |-> id, revision |-> revision, baseline |-> None, tree |-> None, signal |-> name,
     surfaces |-> surfaces, exercises |-> exercises, attribution |-> attribution]

\* computeEscalations' synthetic signal of one row.
HypotheticalSignal(impact, name, attribution) ==
    LET direct == Direct(impact.surfaces)
        product == {s \in direct : SubjectOfRole(s.role) = "product"}
        surfaces == CASE name = "UNPLANNED_IMPACT" -> {"hypothetical.unplanned-surface"}
                      [] name \in {"UNKNOWN_DEPENDENCY"} \cup InfrastructureSignals -> {}
                      [] OTHER -> Ids(IF product # {} THEN product ELSE direct)
    IN  Signal(Hypothetical, impact.revision, name, surfaces, "yes", attribution)


\* Mutant: the hypothetical signal replaces what was observed.
EscalationAlone(input, core, name, attribution) ==
    LET next == PlanCore([input EXCEPT
                    !.signals = {HypotheticalSignal(input.impact, name, attribution)}])
    IN  [signal |-> name, attribution |-> attribution, level |-> next.level,
         status |-> next.status, adds |-> KindsOf(next.required) \ KindsOf(core.required)]

Escalation(input, core, name, attribution) ==
    LET signal == HypotheticalSignal(input.impact, name, attribution)
        next == PlanCore([input EXCEPT !.signals = @ \cup {signal}])
    IN  [signal |-> name, attribution |-> attribution, level |-> next.level,
         status |-> next.status, adds |-> KindsOf(next.required) \ KindsOf(core.required)]

Doubt(id, mitigatedBy) == [id |-> id, mitigatedBy |-> mitigatedBy]
DoubtIf(condition, id, mitigatedBy) == IF condition THEN {Doubt(id, mitigatedBy)} ELSE {}

\* computeUncertainty: what the plan leaves open, and the evidence that answers it.
ResidualUncertainty(input, core, notRequired) ==
    LET impact == input.impact
        unbounded == core.bound = "unbounded"
        suite == {"FULL_TEST_SUITE"}
    IN  DoubtIf(impact.analysis.method = "declared", "impact.declared", {})
        \cup DoubtIf(~TrustsImpact(core.bound), "impact.bound", IF unbounded THEN suite ELSE {})
        \cup {Doubt("impact.unknown", IF u # {} THEN {"TARGETED_REGRESSION"} ELSE suite) :
                 u \in impact.analysis.unknowns}
        \cup DoubtIf(\E s \in Direct(Of(impact.surfaces, {"product"})) :
                        s.coverage = "unknown" /\ s.behaviorChange = "none",
                     "coverage.unknown", {"AFFECTED_TESTS"})
        \cup DoubtIf(HasFact(core.facts, "witness:infeasible"), "witness.infeasible",
                     {"PRODUCTION_PATH_TEST", "TARGETED_CORPUS"})
        \cup DoubtIf(core.outside # {}, "claim.outside-impact",
                     IF unbounded THEN {"INVARIANT_CHECK"} ELSE {})
        \cup DoubtIf(\E s \in Behavioral(Direct(Of(impact.surfaces, ProofRoles))) :
                        s.exercises = None,
                     "proof.exercises-unknown", {"GATE_DELTA_REVIEW"})
        \cup DoubtIf(HasFact(core.facts, "claim:empirical:transitive"),
                     "claim.empirical.transitive", {"BENCHMARK_PROTOCOL"})
        \cup DoubtIf(\E c \in core.signals :
                        c.classification \in {"unattributed", "pre-existing"},
                     "signal", {"FAILURE_ATTRIBUTION"})
        \cup DoubtIf(/\ core.bound = "bounded-confident"
                     /\ \E spec \in notRequired : spec.weight # "targeted",
                     "exemptions.rely-on-impact", {})
=============================================================================
