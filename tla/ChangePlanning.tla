---------------------------- MODULE ChangePlanning ----------------------------
(***************************************************************************)
(* The life of a change under the proof planner.  Its author commits,      *)
(* rebases and declares what the change reaches; proof runs report         *)
(* signals; evidence is produced.  After every step the change is planned  *)
(* again, and the evidence that carryOverEvidence does not let the new     *)
(* plan reuse is dropped, as src/proof-planner/carry-over.ts asks of its   *)
(* caller.                                                                 *)
(***************************************************************************)
EXTENDS ProofPlanner

-----------------------------------------------------------------------------
(***************************************************************************)
(* carryOverEvidence: which required evidence of a plan may reuse evidence *)
(* produced for the previous plan.  A stored plan is the input it was made *)
(* for and its core.  A scope is a surface, or Everything for evidence     *)
(* that is not scoped.                                                     *)
(***************************************************************************)
CONSTANT Everything

SurfacesOf(plan) == plan.input.impact.surfaces
Named(plan, id) == {s \in SurfacesOf(plan) : s.id = id}

SameRuntimeTree(previous, next) ==
    /\ previous.input.impact.tree # None
    /\ previous.input.impact.tree = next.input.impact.tree

\* What was observed, not under which name the plan stored it.
ObservationKey(c) == [c EXCEPT !.facts = {}]

\* A signal concerns everything when it, or a surface it names, cannot be mapped.
Unmapped(plan, signal) ==
    \/ signal.surfaces = {}
    \/ \E id \in signal.surfaces :
          \/ Named(plan, id) = {}
          \/ \E s \in Named(plan, id) :
                s.role = "execution-context" \/ (s.role \in ProofRoles /\ s.exercises = None)

ConcernedSurfaces(plan, signal) ==
    signal.surfaces
    \cup UNION {s.exercises : s \in {t \in Of(SurfacesOf(plan), ProofRoles) :
                                        t.id \in signal.surfaces}}

ConcernedInEither(previous, next, signal, scope) ==
    \/ scope = Everything
    \/ Unmapped(previous, signal)
    \/ Unmapped(next, signal)
    \/ scope \in ConcernedSurfaces(previous, signal) \cup ConcernedSurfaces(next, signal)

\* The signals that stand against reuse between two plans.
UnresolvedBetween(previous, next) ==
    LET sameRevision == previous.input.impact.revision = next.input.impact.revision
        before == {c \in previous.core.signals : IsUnresolvedSignal(c)}
        after == {c \in next.core.signals : IsUnresolvedSignal(c)}
        answered == {ObservationKey(c) : c \in before}
    IN  IF sameRevision THEN {c \in after : ObservationKey(c) \notin answered}
        ELSE before \cup after

UnresolvedOn(previous, next, scope) ==
    \E c \in UnresolvedBetween(previous, next) : ConcernedInEither(previous, next, c, scope)

\* The observations behind a requirement on a scope.
ObservationsBehind(plan, requirement, scope) ==
    {ObservationKey(c) : c \in {d \in plan.core.signals :
        /\ \E f \in plan.core.facts : /\ f.id \in {g.id : g \in d.facts}
                                      /\ <<"fact", f.id>> \in requirement.because
                                      /\ d.id \in f.refs
        /\ scope = Everything \/ d.surfaces = {} \/ scope \in d.surfaces}}

AnswersOther(previous, next, requirement, earlier, scope) ==
    ~(ObservationsBehind(next, requirement, scope)
        \subseteq ObservationsBehind(previous, earlier, scope))

\* Mutant: what is only about documentation ignores the tree, whatever the surface is.
DependsUnlessDocumentation(requirement, before, after) ==
    requirement.spec.subjects # {"documentation"}

DependsOnRuntimeTree(requirement, before, after) ==
    \/ before.role # "documentation"
    \/ after.role # "documentation"
    \/ requirement.spec.subjects # {"documentation"}

\* Mutant: a test that lists nothing exercises nothing.
ExercisersListed(plan, id) ==
    {s \in Of(SurfacesOf(plan), ProofRoles) : Exercises(s, {id})}

\* Proof surfaces that exercise a surface; a test without a list exercises everything.
Exercisers(plan, id) ==
    {s \in SurfacesOf(plan) :
        \/ s.role = "test" /\ (s.exercises = None \/ id \in s.exercises)
        \/ s.role = "proof-infrastructure" /\ Exercises(s, {id})}

Digests(surfaces) == {<<s.id, s.contentDigest>> : s \in surfaces}

\* surfaceReuseBlocker = null
SurfaceUnchanged(previous, next, requirement, earlier, id) ==
    /\ id \in earlier.surfaces
    /\ \E before \in Named(previous, id), after \in Named(next, id) :
          /\ before.contentDigest # None
          /\ before.contentDigest = after.contentDigest
          /\ DependsOnRuntimeTree(requirement, before, after)
                => SameRuntimeTree(previous, next)
    /\ \A s \in Exercisers(previous, id) \cup Exercisers(next, id) : s.contentDigest # None
    /\ Digests(Exercisers(previous, id)) = Digests(Exercisers(next, id))

\* One requirement of the next plan is reusable on a scope.
ReusableOn(previous, next, requirement, earlier, scope) ==
    LET binding == requirement.spec.binding
        quiet == /\ ~UnresolvedOn(previous, next, scope)
                 /\ ~AnswersOther(previous, next, requirement, earlier, scope)
    IN  /\ previous.input.impact.baseline = next.input.impact.baseline
        /\ CASE binding = "runtime-tree" -> SameRuntimeTree(previous, next) /\ quiet
             [] binding # "runtime-tree" /\ scope = Everything ->
                   /\ previous.input.impact.revision = next.input.impact.revision
                   /\ binding = "exact-revision" \/ quiet
             [] OTHER ->
                   SurfaceUnchanged(previous, next, requirement, earlier, scope) /\ quiet

\* Runtime-tree and revision-wide evidence is carried whole, the rest surface by surface.
Scopes(requirement) ==
    IF requirement.spec.binding = "surface-content" /\ requirement.surfaces # {}
    THEN requirement.surfaces
    ELSE {Everything}

Entries(plan) == UNION {{[spec |-> r.spec, scope |-> x] : x \in Scopes(r)} : r \in plan.core.required}

\* The entries of the next plan that may reuse evidence of the previous one.
Reusable(previous, next) ==
    UNION {{[spec |-> r.spec, scope |-> x] :
               x \in {y \in Scopes(r) :
                   \E e \in previous.core.required :
                       e.spec = r.spec /\ ReusableOn(previous, next, r, e, y)}}
           : r \in next.core.required}

-----------------------------------------------------------------------------
(***************************************************************************)
(* What is studied: named sets of changes, with the steps they may take.   *)
(*   inputs     the inputs a change may start with                         *)
(*   contents   the contents a committed surface may have                  *)
(*   elsewhere  those of the runtime files that no surface lists           *)
(*   analyses   the analyses its author may declare later                  *)
(*   lists      the lists of exercised surfaces a test may declare later   *)
(*   reports    the signals a proof run may report; one with a tree names  *)
(*              the baseline and the runtime tree it was observed on       *)
(*   policies   the policies a caller may supply instead of the default    *)
(*   learning   whether the uncertainty of the analysis may be resolved    *)
(*   steps      bound on the number of steps                               *)
(***************************************************************************)
CONSTANT Studies

InputFields == {"impact", "claims", "signals", "policy"}
ImpactFields ==
    {"revision", "baseline", "tree", "surfaces", "analysis", "reversibility", "causalWitness"}
SurfaceFields ==
    {"id", "role", "reach", "runtime", "boundaries", "behaviorChange", "coverage",
     "environmentSensitive", "contentDigest", "exercises"}

\* The value is a record of these fields.
IsRecordOf(fields, value) == value = [field \in fields |-> value[field]]

\* The levels of a policy are P0 to P5.
IsPolicy(policy) == \A e \in policy.floors \cup policy.baselines : e.level \in 0 .. 5

\* The input has the fields of ChangeImpact and its revisions are numbered.
IsInput(in) ==
    /\ IsRecordOf(InputFields, in) /\ IsRecordOf(ImpactFields, in.impact)
    /\ in.impact.revision \in Nat
    /\ \A s \in in.impact.surfaces : IsRecordOf(SurfaceFields, s)

\* The planner accepts what a change starts with; policies name their levels as the schema does.
ASSUME StudiesAssumption ==
    \A k \in DOMAIN Studies :
        /\ \A in \in Studies[k].inputs : IsInput(in) /\ IsPolicy(in.policy) /\ ~Rejected(in)
        /\ \A p \in Studies[k].policies : IsPolicy(p)

VARIABLES
    study,         \* the study the change belongs to
    input,         \* what the planner is given
    core,          \* the core of the latest plan
    evidence,      \* the evidence at hand, with the circumstances it was produced in
    unresolved,    \* every observation that some plan read as unresolved
    exempt,        \* kinds the plan did not require when its uncertainty was declared
    elsewhere,     \* the content of the runtime files that no surface lists
    steps

vars == <<study, input, core, evidence, unresolved, exempt, elsewhere, steps>>

Plan == [input |-> input, core |-> core]

UnresolvedIn(c) == {ObservationKey(s) : s \in {t \in c.signals : IsUnresolvedSignal(t)}}

Exempted(in, c) == {spec.id : spec \in Partition(in, c).notRequired}

\* The digest of every path that is not test, proof infrastructure or documentation.
TreeDigest(surfaces, other) == <<Digests(Of(surfaces, RuntimeRoles)), other>>

Init ==
    /\ study \in DOMAIN Studies
    /\ elsewhere = 1
    /\ input \in {[in EXCEPT !.impact.tree = TreeDigest(in.impact.surfaces, 1)] :
                    in \in Studies[study].inputs}
    /\ core = PlanCore(input)
    /\ evidence = {}
    /\ unresolved = UnresolvedIn(core)
    /\ exempt = Exempted(input, core)
    /\ steps = 0

\* planAssurance on the new input, then carryOverEvidence between the two plans.
Replan ==
    /\ steps < Studies[study].steps
    /\ steps' = steps + 1
    /\ ~Rejected(input')
    /\ core' = PlanCore(input')
    /\ LET reusable == Reusable(Plan, Plan')
       IN  evidence' = {e \in evidence : [spec |-> e.spec, scope |-> e.scope] \in reusable}
    /\ unresolved' = unresolved \cup UnresolvedIn(core')
    /\ UNCHANGED study

Redeclare == Replan /\ exempt' = Exempted(input', core')

\* A new commit: another revision, with the tree its runtime files make.
Committed(surfaces, other) ==
    input' = [input EXCEPT !.impact.revision = @ + 1,
                           !.impact.surfaces = surfaces,
                           !.impact.tree = TreeDigest(surfaces, other)]

Commit ==
    /\ \E s \in input.impact.surfaces : \E content \in Studies[study].contents \ {s.contentDigest} :
          Committed((input.impact.surfaces \ {s}) \cup {[s EXCEPT !.contentDigest = content]},
                    elsewhere)
    /\ UNCHANGED elsewhere
    /\ Redeclare

CommitElsewhere ==
    \E content \in Studies[study].elsewhere \ {elsewhere} :
        /\ Committed(input.impact.surfaces, content)
        /\ elsewhere' = content
        /\ Redeclare

Rebase ==
    /\ Studies[study].contents # {}
    /\ input' = [input EXCEPT !.impact.revision = @ + 1, !.impact.baseline = @ + 1]
    /\ UNCHANGED elsewhere
    /\ Redeclare

Amend ==
    /\ \/ \E analysis \in Studies[study].analyses \ {input.impact.analysis} :
             input' = [input EXCEPT !.impact.analysis = analysis]
       \/ \E s \in Of(input.impact.surfaces, {"test"}), list \in Studies[study].lists :
             /\ list # s.exercises
             /\ input' = [input EXCEPT !.impact.surfaces =
                             (@ \ {s}) \cup {[s EXCEPT !.exercises = list]}]
    /\ UNCHANGED elsewhere
    /\ Redeclare

\* A proof run reports a signal on the current revision; a report replaces one of its id.
\* It may name the baseline and the runtime tree it was observed on.
Report ==
    \E r \in Studies[study].reports :
        LET impact == input.impact
            signal == [r EXCEPT !.revision = impact.revision,
                                !.baseline = IF r.tree # None THEN impact.baseline ELSE None,
                                !.tree = IF r.tree # None THEN impact.tree ELSE None]
        IN  /\ signal \notin input.signals
            /\ input' = [input EXCEPT !.signals = {h \in @ : h.id # r.id} \cup {signal}]
            /\ UNCHANGED elsewhere
            /\ Redeclare

\* The caller supplies a policy, which parseAssurancePolicy may reject.
Adopt ==
    /\ input.policy = DefaultPolicy
    /\ \E p \in Studies[study].policies : input' = [input EXCEPT !.policy = p]
    /\ UNCHANGED elsewhere
    /\ Redeclare

\* What was declared uncertain about one surface turns out to be as bad as it could be.
Learn ==
    /\ Studies[study].learning
    /\ core.bound = "bounded-uncertain"
    /\ \E s \in Of(input.impact.surfaces, RuntimeRoles),
          learnt \in SUBSET {"reach", "behaviorChange", "coverage"} :
          LET known == [a \in DOMAIN s |-> IF a \in learnt THEN WorstSurface(s)[a] ELSE s[a]]
          IN  /\ known # s
              /\ input' = [input EXCEPT !.impact.surfaces = (@ \ {s}) \cup {known}]
    /\ UNCHANGED <<exempt, elsewhere>>
    /\ Replan

\* The evidence the plan asks for is produced, on the revision and beside what was observed.
Produce ==
    /\ steps < Studies[study].steps
    /\ steps' = steps + 1
    /\ LET missing == {x \in Entries(Plan) :
                          ~\E e \in evidence : e.spec = x.spec /\ e.scope = x.scope}
       IN  /\ missing # {}
           /\ evidence' = evidence
                \cup {[spec |-> x.spec, scope |-> x.scope, impact |-> input.impact,
                       beside |-> unresolved] : x \in missing}
    /\ UNCHANGED <<study, input, core, unresolved, exempt, elsewhere>>

Next ==
    \/ Commit
    \/ CommitElsewhere
    \/ Rebase
    \/ Amend
    \/ Report
    \/ Adopt
    \/ Learn
    \/ Produce

Spec == Init /\ [][Next]_vars

-----------------------------------------------------------------------------
(* Properties. *)

Rank == [PROVE |-> 0, HOLD |-> 1, BLOCKED |-> 2]

\* Independent of carry-over.ts: an observation bears on a scope when it names it, names
\* nothing the impact knows, or names a proof surface that may exercise it.
BearsOn(observation, scope) ==
    \/ scope = Everything \/ observation.surfaces = {}
    \/ scope \in observation.surfaces
    \/ \E id \in observation.surfaces :
          \A s \in input.impact.surfaces :
              s.id = id => \/ s.role = "execution-context"
                           \/ s.role \in ProofRoles /\ (s.exercises = None \/ scope \in s.exercises)

ProofContents(impact, scope) ==
    {<<s.id, s.contentDigest>> : s \in {t \in impact.surfaces :
        \/ t.id = scope
        \/ t.role = "test" /\ (t.exercises = None \/ scope \in t.exercises)}}

\* Evidence that is only about documentation, on a surface that is documentation: it was when
\* the evidence was produced, and it is now.
AboutDocumentation(e) ==
    /\ e.spec.subjects = {"documentation"}
    /\ \A impact \in {e.impact, input.impact} :
          \E s \in impact.surfaces : s.id = e.scope /\ s.role = "documentation"

\* Evidence that was carried over one or more plans was produced on the same merge-base, on
\* the same content of its surface and of the tests that exercise it, on the same runtime tree
\* (unless it is only about documentation and its surface is documentation), and no unresolved
\* observation that bears on it was made since (carryOverEvidence, carry-over.ts:29).
EvidenceStillHolds ==
    \A e \in {d \in evidence : d.spec.binding # "exact-revision"} :
        /\ e.impact.baseline = input.impact.baseline
        /\ e.impact.tree = input.impact.tree \/ AboutDocumentation(e)
        /\ e.scope # Everything =>
              ProofContents(e.impact, e.scope) = ProofContents(input.impact, e.scope)
        /\ \A o \in unresolved \ e.beside : ~BearsOn(o, e.scope)

\* What a plan under an uncertain bound calls not required stays so while that uncertainty is
\* resolved for the worse, surface by surface (worstCaseInput, plan.ts:1364).
ExemptionsHold == exempt \cap KindsOf(core.required) = {}

\* The evidence that a residual uncertainty names as its answer is evidence the plan asks for
\* or recommends (computeUncertainty, plan.ts:1576), except for claims outside an unbounded
\* impact, and for the unknowns of a change of which nothing is direct or at run time: no fact
\* says that it has any (plan.ts:1075).
DoubtsAreAnswered ==
    LET impact == input.impact
        partition == Partition(input, core)
        nothing == Direct(impact.surfaces) \cup Of(impact.surfaces, RuntimeRoles) = {}
        open == {d \in ResidualUncertainty(input, core, partition.notRequired) :
                    \/ d.id = "claim.outside-impact"
                    \/ d.id = "impact.unknown" /\ nothing /\ core.bound = "bounded-uncertain"}
    IN  \A doubt \in ResidualUncertainty(input, core, partition.notRequired) \ open :
            doubt.mitigatedBy \subseteq
                KindsOf(core.required) \cup KindsOf(partition.recommended)

\* Failures whose attribution a new signal can take back.
JobReruns == {"AFFECTED_JOB_RERUN"}

\* One more signal never lowers the level or the status and never takes a requirement back,
\* except the rerun of a job whose failure it makes unattributable (planCore, plan.ts:403).
NewReport == /\ input' # input
             /\ input'.impact = input.impact /\ input'.policy = input.policy
             /\ input.signals \subseteq input'.signals

SignalsOnlyEscalate ==
    [][NewReport =>
          /\ core'.level >= core.level
          /\ Rank[core'.status] >= Rank[core.status]
          /\ KindsOf(core.required) \subseteq KindsOf(core'.required) \cup JobReruns]_vars

\* The statement of tests/proof-planner.test.ts:1071, without that exception.
NoRequirementDropped ==
    [][NewReport => KindsOf(core.required) \subseteq KindsOf(core'.required)]_vars

\* The row a plan precomputes for a signal is what that signal, read as evidence about the
\* product, does when it is observed, whatever surfaces it names and whatever was observed
\* before; a live-runtime row may be absorbed where the observed signal is not
\* (computeEscalations, plan.ts:1509).
EscalationsForetell ==
    [][NewReport =>
          \A c \in {d \in core'.signals : d.id \notin Ids(input.signals) /\ IsUnresolvedSignal(d)} :
             LET name == IF c.signal \in InfrastructureSignals THEN "TIMEOUT" ELSE c.signal
                 row == Escalation(input, core, name, {})
                 adds == KindsOf(core'.required) \ KindsOf(core.required)
             IN  /\ core'.level >= row.level
                 /\ row.status = core'.status
                 /\ row.adds \subseteq adds
                 /\ name # "LIVE_RUNTIME_TOUCHED" => row.adds = adds /\ row.level = core'.level]_vars

\* A policy that parses never yields less than the default policy: no lower level or status,
\* and no requirement less, except the rerun of a job whose failure it does not let the
\* infrastructure explain (assertPolicyMinimum, policy.ts:613).
StricterNeverWeaker ==
    [][input'.policy # input.policy =>
          /\ \A u \in DOMAIN core.levels : core'.levels[u] >= core.levels[u]
          /\ Rank[core'.status] >= Rank[core.status]
          /\ KindsOf(core.required) \subseteq KindsOf(core'.required) \cup JobReruns
          /\ KindsOf(core.recommended) \subseteq
                KindsOf(core'.required) \cup KindsOf(core'.recommended)]_vars
=============================================================================
