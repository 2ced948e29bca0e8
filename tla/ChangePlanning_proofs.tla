----------------------- MODULE ChangePlanning_proofs -----------------------
(***************************************************************************)
(* Three results about the life of a change, for every study: any impacts, *)
(* signals, policies and number of steps.                                  *)
(*                                                                         *)
(* StillHolds.  Evidence carried over any number of plans still holds.     *)
(* One carry-over compares two successive plans; the property compares the *)
(* latest input with the one the evidence was produced on.  What connects  *)
(* them is that a step keeps the ids, the roles and, but for tests, the    *)
(* exercised surfaces (Keeps): whatever bears on a surface after a step    *)
(* that carryOverEvidence allows bore on it before, and the contents a     *)
(* proof rests on are compared by id, which only means something while ids *)
(* are unique (PlanInv).                                                   *)
(*                                                                         *)
(* NeverLooser.  A policy that is accepted in place of the default one     *)
(* lowers nothing.  A plan is a function of which fact is said of which    *)
(* subject (CoreKinds): the other policy says the same facts, except that  *)
(* it may not let a failed job be explained, so what has to be compared is *)
(* what it then says instead with what it no longer says (FactsKept).      *)
(*                                                                         *)
(* DoubtsAnswered.  A doubt names evidence that the plan asks for.  Behind *)
(* each doubt is a fact that has a trigger, or a floor, in the default     *)
(* policy, and therefore in every policy that is accepted.                 *)
(***************************************************************************)
EXTENDS ChangePlanning, TLAPS

(* The surfaces of the change.                                             *)
Surfaces == input.impact.surfaces

(* No two surfaces of an impact share an id.                               *)
Unique(surfaces) == \A s, t \in surfaces : s.id = t.id => s = t

(* Every surface of the one is in the other: the same role, and, unless it *)
(* is a test, with the same list of exercised surfaces.                    *)
Kept(these, those) ==
  \A s \in these : \E t \in those :
    t.id = s.id /\ t.role = s.role /\ (t.exercises = s.exercises \/ s.role = "test")

(* The classification of a signal is a record of these fields.             *)
IsClassified(c) ==
  c = [id |-> c.id, revision |-> c.revision, signal |-> c.signal,
       classification |-> c.classification, exercises |-> c.exercises, basis |-> c.basis,
       surfaces |-> c.surfaces, facts |-> c.facts]

(* The inductive invariant: what the planner accepted, and every           *)
(* unresolved observation of the latest plan is on record.                 *)
PlanInv ==
  /\ IsInput(input)
  /\ Unique(Surfaces)
  /\ \A c \in core.signals : IsClassified(c)
  /\ UnresolvedIn(core) \subseteq unresolved

(* Every signal of a plan, of any input, has been classified.              *)
LEMMA SignalsClassified ==
  ASSUME NEW in
  PROVE \A c \in PlanCore(in).signals : IsClassified(c)
<1>1. ASSUME NEW g, NEW a, NEW b, NEW d, NEW f PROVE IsClassified(Classified(g, a, b, d, f))
  BY DEF IsClassified, Classified
<1>2. ASSUME NEW g PROVE IsClassified(OtherRevision(g))
  BY <1>1 DEF OtherRevision
<1>3. ASSUME NEW g, NEW c, NEW impact, IsClassified(c) PROVE IsClassified(Recorded(g, c, impact))
  BY <1>2, <1>3 DEF Recorded
<1>4. ASSUME NEW g, NEW impact PROVE IsClassified(ClassifyProductSignal(g, impact))
  BY <1>1 DEF ClassifyProductSignal
<1>5. ASSUME NEW g, NEW bound PROVE IsClassified(ClassifyInfrastructureSignal(g, in, bound))
  BY <1>1 DEF ClassifyInfrastructureSignal
<1>6. ASSUME NEW bound, NEW signals, NEW observed, \A c \in signals : IsClassified(c)
      PROVE \A c \in PlanWithin(in, bound, signals, observed).signals : IsClassified(c)
  <2> DEFINE infrastructure ==
        {Recorded(g, ClassifyInfrastructureSignal(g, in, bound), in.impact) :
           g \in {h \in in.signals : Relevant(in, h) /\ h.signal \in InfrastructureSignals}}
  <2>1. ASSUME NEW facts PROVE PlanOn(in, bound, signals \cup infrastructure, facts).signals = signals \cup infrastructure
    BY DEF PlanOn
  <2>2. PlanWithin(in, bound, signals, observed).signals = signals \cup infrastructure
    BY <2>1 DEF PlanWithin
  <2>3. \A c \in infrastructure : IsClassified(c)
    BY <1>3, <1>5
  <2> QED BY <1>6, <2>2, <2>3
<1> DEFINE signals ==
      {OtherRevision(g) : g \in {h \in in.signals : ~Relevant(in, h)}}
      \cup {Recorded(g, ClassifyProductSignal(g, in.impact), in.impact) :
              g \in {h \in in.signals : Relevant(in, h) /\ h.signal \in ProductSignals}}
<1>7. \A c \in signals : IsClassified(c)
  BY <1>2, <1>3, <1>4
<1>8. \E bound, observed : PlanCore(in) = PlanWithin(in, bound, signals, observed)
  BY DEF PlanCore, PlanAbout
<1> HIDE DEF signals
<1> QED BY <1>6, <1>7, <1>8

-----------------------------------------------------------------------------
(* What a step of the author, of a proof run or of the caller leaves.      *)
Keeps ==
  /\ IsInput(input')
  /\ Kept(Surfaces, Surfaces') /\ Kept(Surfaces', Surfaces)
  /\ input'.impact.revision = input.impact.revision => input'.impact.tree = input.impact.tree

(* An impact keeps itself.                                                 *)
LEMMA KeptSame == ASSUME NEW surfaces PROVE Kept(surfaces, surfaces)
BY DEF Kept

(* Surfaces are kept when one is replaced by one of its id and role that,  *)
(* unless it is a test, exercises the same surfaces.                       *)
LEMMA KeptBut ==
  ASSUME NEW surfaces, NEW s \in surfaces, NEW t, t.id = s.id, t.role = s.role,
         t.exercises = s.exercises \/ s.role = "test"
  PROVE /\ Kept(surfaces, (surfaces \ {s}) \cup {t})
        /\ Kept((surfaces \ {s}) \cup {t}, surfaces)
BY DEF Kept

(* A field of a record is replaced.                                        *)
LEMMA Replaced ==
  ASSUME NEW fields, NEW r, IsRecordOf(fields, r), NEW f \in fields, NEW v
  PROVE /\ IsRecordOf(fields, [r EXCEPT ![f] = v])
        /\ [r EXCEPT ![f] = v][f] = v
        /\ \A g \in fields \ {f} : [r EXCEPT ![f] = v][g] = r[g]
<1> DEFINE n == [g \in fields |-> IF g = f THEN v ELSE r[g]]
<1>1. r = [g \in fields |-> r[g]]
  BY DEF IsRecordOf
<1>2. [r EXCEPT ![f] = v] = n
  BY <1>1
<1>3. IsRecordOf(fields, n) /\ n[f] = v /\ \A g \in fields \ {f} : n[g] = r[g]
  BY DEF IsRecordOf
<1> QED BY <1>2, <1>3

(* Another revision of some surfaces.                                      *)
LEMMA CommittedKeeps ==
  ASSUME PlanInv, NEW surfaces, NEW other, Committed(surfaces, other),
         Kept(Surfaces, surfaces), Kept(surfaces, Surfaces),
         \A s \in surfaces : IsRecordOf(SurfaceFields, s)
  PROVE Keeps
<1> DEFINE tree == TreeDigest(surfaces, other)
           one == [input.impact EXCEPT !["revision"] = input.impact.revision + 1]
           two == [one EXCEPT !["surfaces"] = surfaces]
           three == [two EXCEPT !["tree"] = tree]
<1>1. IsRecordOf(InputFields, input) /\ IsRecordOf(ImpactFields, input.impact) /\ input.impact.revision \in Nat
  BY DEF PlanInv, IsInput
<1>2. input' = [input EXCEPT !["impact"] = three]
  BY <1>1 DEF Committed, IsRecordOf, InputFields, ImpactFields
<1>3. IsRecordOf(ImpactFields, one) /\ one.revision = input.impact.revision + 1
  BY <1>1, Replaced DEF ImpactFields
<1>4. IsRecordOf(ImpactFields, two) /\ two.surfaces = surfaces /\ two.revision = one.revision
  BY <1>3, Replaced DEF ImpactFields
<1>5. IsRecordOf(ImpactFields, three) /\ three.surfaces = surfaces /\ three.revision = one.revision
  BY <1>4, Replaced DEF ImpactFields
<1> HIDE DEF three
<1>6. IsRecordOf(InputFields, input') /\ input'.impact = three
  <2>1. "impact" \in InputFields
    BY DEF InputFields
  <2> DEFINE new == [input EXCEPT !["impact"] = three]
  <2>2. IsRecordOf(InputFields, new) /\ new["impact"] = three
    BY <1>1, <2>1, Replaced
  <2> HIDE DEF new
  <2>3. input' = new
    BY <1>2 DEF new
  <2> QED BY <2>2, <2>3
<1> HIDE DEF one, two
<1> QED BY <1>1, <1>3, <1>5, <1>6 DEF Keeps, IsInput, Surfaces

(* The input is changed without a commit.                                  *)
LEMMA AmendedKeeps ==
  ASSUME PlanInv, NEW surfaces,
         \/ \E analysis : input' = [input EXCEPT !.impact.analysis = analysis] /\ surfaces = Surfaces
         \/ input' = [input EXCEPT !.impact.surfaces = surfaces],
         Kept(Surfaces, surfaces), Kept(surfaces, Surfaces),
         \A s \in surfaces : IsRecordOf(SurfaceFields, s)
  PROVE Keeps
<1>1. IsRecordOf(InputFields, input) /\ IsRecordOf(ImpactFields, input.impact) /\ input.impact.revision \in Nat
  BY DEF PlanInv, IsInput
<1>2. ASSUME NEW impact, input' = [input EXCEPT !["impact"] = impact], IsRecordOf(ImpactFields, impact),
             impact.surfaces = surfaces, impact.revision = input.impact.revision, impact.tree = input.impact.tree
      PROVE Keeps
  <2>1. "impact" \in InputFields
    BY DEF InputFields
  <2> DEFINE new == [input EXCEPT !["impact"] = impact]
  <2>2. IsRecordOf(InputFields, new) /\ new["impact"] = impact
    BY <1>1, <2>1, Replaced
  <2> HIDE DEF new
  <2>3. input' = new
    BY <1>2 DEF new
  <2> QED BY <1>1, <1>2, <2>2, <2>3 DEF Keeps, IsInput, Surfaces
<1>3. ASSUME NEW analysis, input' = [input EXCEPT !.impact.analysis = analysis], surfaces = Surfaces
      PROVE Keeps
  <2> DEFINE impact == [input.impact EXCEPT !["analysis"] = analysis]
  <2>1. input' = [input EXCEPT !["impact"] = impact]
    BY <1>1, <1>3 DEF IsRecordOf, InputFields
  <2>2. /\ IsRecordOf(ImpactFields, impact) /\ impact.surfaces = surfaces
        /\ impact.revision = input.impact.revision /\ impact.tree = input.impact.tree
    BY <1>1, <1>3, Replaced DEF ImpactFields, Surfaces
  <2> HIDE DEF impact
  <2> QED BY <1>2, <2>1, <2>2
<1>4. ASSUME input' = [input EXCEPT !.impact.surfaces = surfaces]
      PROVE Keeps
  <2> DEFINE impact == [input.impact EXCEPT !["surfaces"] = surfaces]
  <2>1. input' = [input EXCEPT !["impact"] = impact]
    BY <1>1, <1>4 DEF IsRecordOf, InputFields
  <2>2. /\ IsRecordOf(ImpactFields, impact) /\ impact.surfaces = surfaces
        /\ impact.revision = input.impact.revision /\ impact.tree = input.impact.tree
    BY <1>1, <1>4, Replaced DEF ImpactFields
  <2> HIDE DEF impact
  <2> QED BY <1>2, <2>1, <2>2
<1> QED BY <1>3, <1>4

(* A commit changes the content of one surface only.                       *)
LEMMA CommitKeeps == ASSUME PlanInv, Commit PROVE Keeps
<1>0. PICK s \in Surfaces :
        \E content : Committed((Surfaces \ {s}) \cup {[s EXCEPT !.contentDigest = content]}, elsewhere)
  BY DEF Commit, Surfaces
<1>1. PICK content : Committed((Surfaces \ {s}) \cup {[s EXCEPT !.contentDigest = content]}, elsewhere)
  BY <1>0
<1> DEFINE t == [s EXCEPT !["contentDigest"] = content]
           surfaces == (Surfaces \ {s}) \cup {t}
<1>2. \A x \in Surfaces : IsRecordOf(SurfaceFields, x)
  BY DEF PlanInv, IsInput, Surfaces
<1>3. IsRecordOf(SurfaceFields, t) /\ t.id = s.id /\ t.role = s.role /\ t.exercises = s.exercises
  BY <1>1, <1>2, Replaced DEF SurfaceFields
<1>4. Committed(surfaces, elsewhere)
  BY <1>1
<1> HIDE DEF t
<1>5. Kept(Surfaces, surfaces) /\ Kept(surfaces, Surfaces)
  BY <1>3, KeptBut
<1>6. \A x \in surfaces : IsRecordOf(SurfaceFields, x)
  BY <1>2, <1>3
<1> HIDE DEF surfaces
<1> QED BY <1>4, <1>5, <1>6, CommittedKeeps

(* A commit outside the surfaces keeps them.                               *)
LEMMA CommitElsewhereKeeps == ASSUME PlanInv, CommitElsewhere PROVE Keeps
<1>1. PICK content : Committed(Surfaces, content)
  BY DEF CommitElsewhere, Surfaces
<1>2. \A x \in Surfaces : IsRecordOf(SurfaceFields, x)
  BY DEF PlanInv, IsInput, Surfaces
<1> QED BY <1>1, <1>2, KeptSame, CommittedKeeps

(* A rebase keeps the surfaces.                                            *)
LEMMA RebaseKeeps == ASSUME PlanInv, Rebase PROVE Keeps
<1> DEFINE one == [input.impact EXCEPT !["revision"] = input.impact.revision + 1]
           impact == [one EXCEPT !["baseline"] = input.impact.baseline + 1]
<1>1. IsRecordOf(InputFields, input) /\ IsRecordOf(ImpactFields, input.impact) /\ input.impact.revision \in Nat
  BY DEF PlanInv, IsInput
<1>2. input' = [input EXCEPT !["impact"] = impact]
  BY <1>1 DEF Rebase, IsRecordOf, InputFields, ImpactFields
<1>3. IsRecordOf(ImpactFields, one) /\ one.revision = input.impact.revision + 1 /\ one.surfaces = Surfaces
  <2>1. "revision" \in ImpactFields /\ "surfaces" \in ImpactFields \ {"revision"}
    BY DEF ImpactFields
  <2> DEFINE following == input.impact.revision + 1
             new == [input.impact EXCEPT !["revision"] = following]
  <2> HIDE DEF following
  <2>2. /\ IsRecordOf(ImpactFields, new) /\ new["revision"] = following
        /\ new["surfaces"] = input.impact["surfaces"]
    BY <1>1, <2>1, Replaced
  <2>3. one = new
    BY DEF following
  <2> HIDE DEF one, new
  <2> QED BY <2>2, <2>3 DEF Surfaces, following
<1>4. IsRecordOf(ImpactFields, impact) /\ impact.revision = one.revision /\ impact.surfaces = Surfaces
  BY <1>3, Replaced DEF ImpactFields
<1> HIDE DEF impact
<1>5. IsRecordOf(InputFields, input') /\ input'.impact = impact
  <2>1. "impact" \in InputFields
    BY DEF InputFields
  <2> DEFINE new == [input EXCEPT !["impact"] = impact]
  <2>2. IsRecordOf(InputFields, new) /\ new["impact"] = impact
    BY <1>1, <2>1, Replaced
  <2> HIDE DEF new
  <2>3. input' = new
    BY <1>2 DEF new
  <2> QED BY <2>2, <2>3
<1> HIDE DEF one
<1>6. \A x \in Surfaces : IsRecordOf(SurfaceFields, x)
  BY DEF PlanInv, IsInput, Surfaces
<1> QED BY <1>1, <1>3, <1>4, <1>5, <1>6, KeptSame DEF Keeps, IsInput, Surfaces

(* What the author declares later keeps the tree, and all but the list of  *)
(* one test.                                                               *)
LEMMA AmendKeeps == ASSUME PlanInv, Amend PROVE Keeps
<1>1. \A x \in Surfaces : IsRecordOf(SurfaceFields, x)
  BY DEF PlanInv, IsInput, Surfaces
<1>2. CASE \E analysis : input' = [input EXCEPT !.impact.analysis = analysis]
  BY <1>1, <1>2, KeptSame, AmendedKeeps
<1>3. ASSUME NEW s \in Surfaces, s.role = "test", NEW list,
             input' = [input EXCEPT !.impact.surfaces = (@ \ {s}) \cup {[s EXCEPT !.exercises = list]}]
      PROVE Keeps
  <2> DEFINE t == [s EXCEPT !["exercises"] = list]
             surfaces == (Surfaces \ {s}) \cup {t}
  <2>1. IsRecordOf(SurfaceFields, t) /\ t.id = s.id /\ t.role = s.role
    BY <1>1, Replaced DEF SurfaceFields
  <2>2. input' = [input EXCEPT !.impact.surfaces = surfaces]
    BY <1>3 DEF Surfaces
  <2> HIDE DEF t
  <2>3. Kept(Surfaces, surfaces) /\ Kept(surfaces, Surfaces)
    BY <1>3, <2>1, KeptBut
  <2>4. \A x \in surfaces : IsRecordOf(SurfaceFields, x)
    BY <1>1, <2>1
  <2> HIDE DEF surfaces
  <2> QED BY <2>2, <2>3, <2>4, AmendedKeeps
<1> QED BY <1>2, <1>3 DEF Amend, Of, Surfaces

(* What is learnt about a surface is neither its id nor its role nor its   *)
(* list.                                                                   *)
LEMMA LearnKeeps == ASSUME PlanInv, Learn PROVE Keeps
<1>1. \A x \in Surfaces : IsRecordOf(SurfaceFields, x)
  BY DEF PlanInv, IsInput, Surfaces
<1>2. PICK s \in Surfaces, learnt \in SUBSET {"reach", "behaviorChange", "coverage"} :
        input' = [input EXCEPT !.impact.surfaces = (@ \ {s}) \cup
                    {[a \in DOMAIN s |-> IF a \in learnt THEN WorstSurface(s)[a] ELSE s[a]]}]
  BY DEF Learn, Of, Surfaces
<1> DEFINE t == [a \in DOMAIN s |-> IF a \in learnt THEN WorstSurface(s)[a] ELSE s[a]]
           surfaces == (Surfaces \ {s}) \cup {t}
<1>3. DOMAIN s = SurfaceFields
  BY <1>1, <1>2 DEF IsRecordOf
<1>4. IsRecordOf(SurfaceFields, t) /\ t.id = s.id /\ t.role = s.role /\ t.exercises = s.exercises
  BY <1>2, <1>3 DEF IsRecordOf, SurfaceFields
<1>5. input' = [input EXCEPT !.impact.surfaces = surfaces]
  BY <1>2 DEF Surfaces
<1> HIDE DEF t
<1>6. Kept(Surfaces, surfaces) /\ Kept(surfaces, Surfaces)
  BY <1>2, <1>4, KeptBut
<1>7. \A x \in surfaces : IsRecordOf(SurfaceFields, x)
  BY <1>1, <1>4
<1> HIDE DEF surfaces
<1> QED BY <1>5, <1>6, <1>7, AmendedKeeps

(* Signals and policies leave the impact as it is.                         *)
LEMMA SameImpact == ASSUME PlanInv, Report \/ Adopt PROVE Keeps
<1>1. IsRecordOf(InputFields, input)
  BY DEF PlanInv, IsInput
<1>2. \E f \in {"signals", "policy"} : \E v : input' = [input EXCEPT ![f] = v]
  BY DEF Report, Adopt
<1>3. IsRecordOf(InputFields, input') /\ input'.impact = input.impact
  <2>0. PICK f \in {"signals", "policy"} : \E v : input' = [input EXCEPT ![f] = v]
    BY <1>2
  <2>1. PICK v : input' = [input EXCEPT ![f] = v]
    BY <2>0
  <2>2. f \in InputFields /\ "impact" \in InputFields \ {f}
    BY DEF InputFields
  <2> DEFINE new == [input EXCEPT ![f] = v]
  <2>3. IsRecordOf(InputFields, new) /\ new["impact"] = input["impact"]
    BY <1>1, <2>2, Replaced
  <2> HIDE DEF new
  <2>4. input' = new
    BY <2>1 DEF new
  <2> QED BY <2>3, <2>4
<1> QED BY <1>3, KeptSame DEF Keeps, PlanInv, IsInput, Surfaces

(* Every step but the production of evidence plans again and keeps these.  *)
LEMMA StepKeeps ==
  ASSUME PlanInv, Next, ~Produce
  PROVE Keeps /\ Replan
<1>1. Keeps
  BY CommitKeeps, CommitElsewhereKeeps, RebaseKeeps, AmendKeeps, LearnKeeps, SameImpact DEF Next
<1>2. Replan
  BY DEF Next, Commit, CommitElsewhere, Rebase, Amend, Report, Adopt, Learn, Redeclare
<1> QED BY <1>1, <1>2

-----------------------------------------------------------------------------
(* The planner accepted what the change starts with.                       *)
LEMMA PlanInvStart == Init => PlanInv
<1> SUFFICES ASSUME Init PROVE PlanInv
  OBVIOUS
<1>1. PICK in \in Studies[study].inputs :
        input = [in EXCEPT !.impact.tree = TreeDigest(in.impact.surfaces, 1)]
  BY DEF Init
<1>2. IsInput(in) /\ ~Rejected(in)
  BY <1>1, StudiesAssumption DEF Init
<1> DEFINE impact == [in.impact EXCEPT !["tree"] = TreeDigest(in.impact.surfaces, 1)]
<1>3. /\ IsRecordOf(ImpactFields, impact) /\ impact.surfaces = in.impact.surfaces
      /\ impact.revision = in.impact.revision
  <2>1. {"tree", "surfaces", "revision"} \subseteq ImpactFields
    BY DEF ImpactFields
  <2> QED BY <1>2, <2>1, Replaced DEF IsInput
<1>4. IsRecordOf(InputFields, input) /\ input.impact = impact
  <2>1. "impact" \in InputFields
    BY DEF InputFields
  <2> HIDE DEF impact
  <2> DEFINE new == [in EXCEPT !["impact"] = impact]
  <2>2. IsRecordOf(InputFields, new) /\ new["impact"] = impact
    BY <1>2, <2>1, Replaced DEF IsInput
  <2> HIDE DEF new
  <2>3. input = new
    BY <1>1, <1>2 DEF new, impact, IsInput, IsRecordOf, InputFields
  <2> QED BY <2>2, <2>3
<1> HIDE DEF impact
<1>5. IsInput(input)
  BY <1>2, <1>3, <1>4 DEF IsInput
<1>6. Unique(Surfaces)
  BY <1>2, <1>3, <1>4 DEF Unique, Surfaces, Rejected, IdsOK
<1>7. /\ \A c \in core.signals : IsClassified(c)
      /\ UnresolvedIn(core) \subseteq unresolved
  BY SignalsClassified DEF Init
<1> QED BY <1>5, <1>6, <1>7 DEF PlanInv

(* The invariant is inductive: planning again rejects ids used twice.      *)
LEMMA PlanInvStep == PlanInv /\ [Next]_vars => PlanInv'
<1> SUFFICES ASSUME PlanInv, [Next]_vars PROVE PlanInv'
  OBVIOUS
<1>1. CASE Next /\ ~Produce
  <2>1. Keeps /\ Replan
    BY <1>1, StepKeeps
  <2>2. Unique(Surfaces')
    BY <2>1 DEF Replan, Rejected, IdsOK, Unique, Surfaces
  <2>3. /\ \A c \in core'.signals : IsClassified(c)
        /\ UnresolvedIn(core') \subseteq unresolved'
    BY <2>1, SignalsClassified DEF Replan
  <2> QED BY <2>1, <2>2, <2>3 DEF PlanInv, Keeps
<1>2. CASE Produce
  BY <1>2 DEF Produce, PlanInv, Surfaces
<1>3. CASE UNCHANGED vars
  BY <1>3 DEF vars, PlanInv, Surfaces
<1> QED BY <1>1, <1>2, <1>3

-----------------------------------------------------------------------------
(* What reuse on one surface keeps.                                        *)

(* The same tests have the same digests and exercise the surface, before   *)
(* and after.                                                              *)
LEMMA ExercisesStill ==
  ASSUME NEW p, NEW q, NEW id,
         Unique(SurfacesOf(p)), Unique(SurfacesOf(q)),
         Kept(SurfacesOf(p), SurfacesOf(q)),
         Digests(Exercisers(p, id)) \subseteq Digests(Exercisers(q, id))
  PROVE \A s \in SurfacesOf(p) :
          s.role = "test" /\ (s.exercises = None \/ id \in s.exercises) =>
            \E t \in SurfacesOf(q) :
              /\ t.id = s.id /\ t.role = "test" /\ t.contentDigest = s.contentDigest
              /\ t.exercises = None \/ id \in t.exercises
<1> SUFFICES ASSUME NEW s \in SurfacesOf(p), s.role = "test", s.exercises = None \/ id \in s.exercises
             PROVE \E t \in SurfacesOf(q) :
                     /\ t.id = s.id /\ t.role = "test" /\ t.contentDigest = s.contentDigest
                     /\ t.exercises = None \/ id \in t.exercises
  OBVIOUS
<1>1. s \in Exercisers(p, id)
  BY DEF Exercisers
<1>2. <<s.id, s.contentDigest>> \in Digests(Exercisers(q, id))
  BY <1>1 DEF Digests
<1>3. PICK t \in Exercisers(q, id) : t.id = s.id /\ t.contentDigest = s.contentDigest
  BY <1>2 DEF Digests
<1>4. PICK u \in SurfacesOf(q) : u.id = s.id /\ u.role = "test"
  BY DEF Kept
<1>5. t = u
  BY <1>3, <1>4 DEF Exercisers, Unique
<1> QED BY <1>3, <1>4, <1>5 DEF Exercisers

(* The contents a proof of the surface rests on are still there.           *)
LEMMA ContentsKept ==
  ASSUME NEW p, NEW q, NEW id,
         Unique(SurfacesOf(p)), Unique(SurfacesOf(q)),
         Kept(SurfacesOf(p), SurfacesOf(q)),
         Digests(Exercisers(p, id)) \subseteq Digests(Exercisers(q, id)),
         \E s \in Named(p, id), t \in Named(q, id) : s.contentDigest = t.contentDigest
  PROVE ProofContents(p.input.impact, id) \subseteq ProofContents(q.input.impact, id)
<1>0. \A s \in SurfacesOf(p) :
        s.role = "test" /\ (s.exercises = None \/ id \in s.exercises) =>
          \E t \in SurfacesOf(q) :
            /\ t.id = s.id /\ t.role = "test" /\ t.contentDigest = s.contentDigest
            /\ t.exercises = None \/ id \in t.exercises
  BY ExercisesStill
<1> SUFFICES ASSUME NEW s \in SurfacesOf(p),
                    s.id = id \/ (s.role = "test" /\ (s.exercises = None \/ id \in s.exercises))
             PROVE <<s.id, s.contentDigest>> \in ProofContents(q.input.impact, id)
  BY DEF ProofContents, SurfacesOf
<1>1. CASE s.id = id
  <2>1. PICK t \in SurfacesOf(q) : t.id = id /\ t.contentDigest = s.contentDigest
    BY <1>1 DEF Named, Unique
  <2> QED BY <1>1, <2>1 DEF ProofContents, SurfacesOf
<1>2. CASE s.role = "test" /\ (s.exercises = None \/ id \in s.exercises)
  <2>1. PICK t \in SurfacesOf(q) :
          /\ t.id = s.id /\ t.role = "test" /\ t.contentDigest = s.contentDigest
          /\ t.exercises = None \/ id \in t.exercises
    BY <1>0, <1>2
  <2> QED BY <2>1 DEF ProofContents, SurfacesOf
<1> QED BY <1>1, <1>2

(* An observation that bears on the surface afterwards did so before.      *)
LEMMA BearsBefore ==
  ASSUME NEW o, NEW id, Unique(Surfaces), Unique(Surfaces'),
         Kept(Surfaces, Surfaces'), Kept(Surfaces', Surfaces),
         Digests(Exercisers(Plan', id)) \subseteq Digests(Exercisers(Plan, id)),
         BearsOn(o, id)'
  PROVE BearsOn(o, id)
<1>1. SurfacesOf(Plan) = Surfaces /\ SurfacesOf(Plan') = Surfaces'
  BY DEF SurfacesOf, Plan, Surfaces
<1>1a. \A t \in Surfaces' :
         t.role = "test" /\ (t.exercises = None \/ id \in t.exercises) =>
           \E u \in Surfaces :
             u.id = t.id /\ u.role = "test" /\ (u.exercises = None \/ id \in u.exercises)
  <2>1. \A t \in SurfacesOf(Plan') :
          t.role = "test" /\ (t.exercises = None \/ id \in t.exercises) =>
            \E u \in SurfacesOf(Plan) :
              /\ u.id = t.id /\ u.role = "test" /\ u.contentDigest = t.contentDigest
              /\ u.exercises = None \/ id \in u.exercises
    BY <1>1, ExercisesStill
  <2> QED BY <1>1, <2>1
<1>2. CASE id = Everything \/ o.surfaces = {} \/ id \in o.surfaces
  BY <1>2 DEF BearsOn
<1>3. ASSUME NEW oid \in o.surfaces,
             \A t \in Surfaces' : t.id = oid =>
               \/ t.role = "execution-context"
               \/ t.role \in ProofRoles /\ (t.exercises = None \/ id \in t.exercises),
             NEW s \in Surfaces, s.id = oid
      PROVE \/ s.role = "execution-context"
            \/ s.role \in ProofRoles /\ (s.exercises = None \/ id \in s.exercises)
  <2>1. PICK t \in Surfaces' : t.id = s.id /\ t.role = s.role /\ (t.exercises = s.exercises \/ s.role = "test")
    BY DEF Kept
  <2>2. CASE t.role = "execution-context" \/ t.exercises = s.exercises
    BY <1>3, <2>1, <2>2
  <2>3. CASE s.role = "test" /\ (t.exercises = None \/ id \in t.exercises)
    <3>1. t.role = "test"
      BY <2>1, <2>3
    <3>2. PICK u \in Surfaces :
            u.id = t.id /\ u.role = "test" /\ (u.exercises = None \/ id \in u.exercises)
      BY <1>1a, <2>3, <3>1
    <3>3. u = s
      BY <2>1, <3>2 DEF Unique
    <3> QED BY <3>2, <3>3 DEF ProofRoles
  <2> QED BY <1>3, <2>1, <2>2, <2>3
<1>4. ASSUME NEW oid \in o.surfaces,
             \A t \in Surfaces' : t.id = oid =>
               \/ t.role = "execution-context"
               \/ t.role \in ProofRoles /\ (t.exercises = None \/ id \in t.exercises)
      PROVE BearsOn(o, id)
  BY <1>3, <1>4 DEF BearsOn, Surfaces
<1> QED BY <1>2, <1>4 DEF BearsOn, Surfaces

(* BearsOn, on given surfaces.                                             *)
Bears(surfaces, o, scope) ==
  \/ scope = Everything \/ o.surfaces = {}
  \/ scope \in o.surfaces
  \/ \E id \in o.surfaces :
       \A s \in surfaces :
         s.id = id => \/ s.role = "execution-context"
                      \/ s.role \in ProofRoles /\ (s.exercises = None \/ scope \in s.exercises)

(* An observation that bears on a surface concerns it, or is unmapped: it  *)
(* forbids reuse.                                                          *)
LEMMA BearsConcerns ==
  ASSUME NEW c, IsClassified(c), NEW scope, NEW p, Bears(SurfacesOf(p), ObservationKey(c), scope)
  PROVE Unmapped(p, c) \/ scope = Everything \/ scope \in ConcernedSurfaces(p, c)
<1>1. ObservationKey(c).surfaces = c.surfaces
  BY DEF ObservationKey, IsClassified
<1>3. CASE scope = Everything \/ c.surfaces = {} \/ scope \in c.surfaces
  BY <1>3 DEF Unmapped, ConcernedSurfaces
<1>4. ASSUME NEW id \in c.surfaces,
             \A s \in SurfacesOf(p) : s.id = id =>
               \/ s.role = "execution-context"
               \/ s.role \in ProofRoles /\ (s.exercises = None \/ scope \in s.exercises)
      PROVE Unmapped(p, c) \/ scope \in ConcernedSurfaces(p, c)
  <2>1. CASE Named(p, id) = {}
    BY <2>1 DEF Unmapped
  <2>2. ASSUME NEW s \in Named(p, id) PROVE Unmapped(p, c) \/ scope \in ConcernedSurfaces(p, c)
    <3>1. s \in SurfacesOf(p) /\ s.id = id
      BY <2>2 DEF Named
    <3>2. CASE s.role = "execution-context" \/ (s.role \in ProofRoles /\ s.exercises = None)
      BY <2>2, <3>2 DEF Unmapped
    <3>3. CASE s.role \in ProofRoles /\ scope \in s.exercises
      BY <3>1, <3>3 DEF ConcernedSurfaces, Of
    <3> QED BY <1>4, <3>1, <3>2, <3>3
  <2> QED BY <2>1, <2>2
<1> QED BY <1>1, <1>3, <1>4 DEF Bears

-----------------------------------------------------------------------------
(* What EvidenceStillHolds says of one piece of evidence.                  *)
Holds(e) ==
  /\ e.impact.baseline = input.impact.baseline
  /\ e.impact.tree = input.impact.tree \/ AboutDocumentation(e)
  /\ e.scope # Everything => ProofContents(e.impact, e.scope) = ProofContents(input.impact, e.scope)
  /\ \A o \in unresolved \ e.beside : ~BearsOn(o, e.scope)

(* Every surface has the role it had when the evidence was produced.       *)
RolesThen(e) ==
  \A s \in Surfaces : \E t \in e.impact.surfaces : t.id = s.id /\ t.role = s.role

(* Evidence that held and is reusable on the next plan holds there too.    *)
LEMMA ReusedHolds ==
  ASSUME PlanInv, PlanInv', Keeps, Replan,
         NEW e, Holds(e), RolesThen(e), e.spec.binding # "exact-revision",
         [spec |-> e.spec, scope |-> e.scope] \in Reusable(Plan, Plan')
  PROVE Holds(e)'
<1> DEFINE x == e.scope
<1>1. PICK r, earlier :
        /\ r.spec = e.spec /\ x \in Scopes(r)
        /\ ReusableOn(Plan, Plan', r, earlier, x)
  <2>1. PICK r \in Plan'.core.required :
          [spec |-> e.spec, scope |-> e.scope] \in
            {[spec |-> r.spec, scope |-> y] :
               y \in {y \in Scopes(r) : \E earlier \in Plan.core.required :
                       earlier.spec = r.spec /\ ReusableOn(Plan, Plan', r, earlier, y)}}
    BY DEF Reusable
  <2>2. PICK y \in Scopes(r), earlier \in Plan.core.required :
          /\ [spec |-> e.spec, scope |-> e.scope] = [spec |-> r.spec, scope |-> y]
          /\ ReusableOn(Plan, Plan', r, earlier, y)
    BY <2>1
  <2>3. e.spec = r.spec /\ e.scope = y
    BY <2>2
  <2> QED BY <2>2, <2>3
<1>2. /\ SurfacesOf(Plan) = Surfaces /\ SurfacesOf(Plan') = Surfaces'
      /\ Plan.input.impact = input.impact /\ Plan'.input.impact = input'.impact
      /\ Plan.input = input /\ Plan'.input = input'
      /\ Plan.core = core /\ Plan'.core = core'
  BY DEF SurfacesOf, Plan, Surfaces
<1>3. /\ input.impact.baseline = input'.impact.baseline
      /\ ~UnresolvedOn(Plan, Plan', x)
      /\ \/ x = Everything /\ SameRuntimeTree(Plan, Plan')
         \/ x = Everything /\ input.impact.revision = input'.impact.revision
         \/ x # Everything /\ SurfaceUnchanged(Plan, Plan', r, earlier, x)
  <2>1. CASE r.spec.binding = "runtime-tree"
    BY <1>1, <1>2, <2>1 DEF ReusableOn, Scopes
  <2>2. CASE r.spec.binding # "runtime-tree" /\ x = Everything
    BY <1>1, <1>2, <2>2 DEF ReusableOn
  <2>3. CASE r.spec.binding # "runtime-tree" /\ x # Everything
    BY <1>1, <1>2, <2>3 DEF ReusableOn
  <2> QED BY <2>1, <2>2, <2>3
<1>4. \/ input'.impact.tree = input.impact.tree
      \/ /\ e.spec.subjects = {"documentation"}
         /\ \E s \in Surfaces' : s.id = x /\ s.role = "documentation"
  <2>1. CASE x = Everything
    BY <1>2, <1>3, <2>1 DEF SameRuntimeTree, Keeps
  <2>2. CASE x # Everything
    <3>1. SurfaceUnchanged(Plan, Plan', r, earlier, x)
      BY <1>3, <2>2
    <3>2. CASE SameRuntimeTree(Plan, Plan')
      BY <1>2, <3>2 DEF SameRuntimeTree
    <3>3. PICK before \in Named(Plan, x), after \in Named(Plan', x) :
            DependsOnRuntimeTree(r, before, after) => SameRuntimeTree(Plan, Plan')
      BY <3>1 DEF SurfaceUnchanged
    <3>4. CASE ~DependsOnRuntimeTree(r, before, after)
      <4>1. r.spec.subjects = {"documentation"} /\ after.role = "documentation"
        BY <3>4 DEF DependsOnRuntimeTree
      <4>2. after \in Surfaces' /\ after.id = x
        BY <1>2 DEF Named
      <4> QED BY <1>1, <4>1, <4>2
    <3> QED BY <3>2, <3>3, <3>4
  <2> QED BY <2>1, <2>2
<1>5. Unique(Surfaces) /\ Unique(Surfaces') /\ Kept(Surfaces, Surfaces') /\ Kept(Surfaces', Surfaces)
  BY DEF PlanInv, Keeps
<1>5a. e.impact.tree = input'.impact.tree \/ AboutDocumentation(e)'
  <2>1. CASE /\ e.spec.subjects = {"documentation"}
             /\ \E s \in Surfaces' : s.id = x /\ s.role = "documentation"
    <3>1. PICK s \in Surfaces' : s.id = x /\ s.role = "documentation"
      BY <2>1
    <3>2. PICK t \in Surfaces : t.id = x /\ t.role = "documentation"
      BY <1>5, <3>1 DEF Kept
    <3>3. \E u \in e.impact.surfaces : u.id = x /\ u.role = "documentation"
      BY <3>2 DEF RolesThen
    <3> QED BY <2>1, <3>1, <3>3 DEF AboutDocumentation, Surfaces
  <2>2. CASE input'.impact.tree = input.impact.tree
    <3>1. CASE e.impact.tree = input.impact.tree
      BY <2>2, <3>1
    <3>2. CASE AboutDocumentation(e)
      <4>1. PICK s \in Surfaces : s.id = x /\ s.role = "documentation"
        BY <3>2 DEF AboutDocumentation, Surfaces
      <4>2. \E t \in Surfaces' : t.id = x /\ t.role = "documentation"
        BY <1>5, <4>1 DEF Kept
      <4> QED BY <3>2, <4>2 DEF AboutDocumentation, Surfaces
    <3> QED BY <3>1, <3>2 DEF Holds
  <2> QED BY <1>4, <2>1, <2>2
<1>6. ASSUME x # Everything
      PROVE /\ Digests(Exercisers(Plan, x)) = Digests(Exercisers(Plan', x))
            /\ \E s \in Named(Plan, x), t \in Named(Plan', x) : s.contentDigest = t.contentDigest
  BY <1>3, <1>6 DEF SurfaceUnchanged
<1>7. x # Everything => ProofContents(input.impact, x) = ProofContents(input'.impact, x)
  <2> SUFFICES ASSUME x # Everything PROVE ProofContents(input.impact, x) = ProofContents(input'.impact, x)
    OBVIOUS
  <2>1. ProofContents(Plan.input.impact, x) \subseteq ProofContents(Plan'.input.impact, x)
    BY <1>2, <1>5, <1>6, ContentsKept
  <2>2. ProofContents(Plan'.input.impact, x) \subseteq ProofContents(Plan.input.impact, x)
    BY <1>2, <1>5, <1>6, ContentsKept
  <2>3. ProofContents(Plan.input.impact, x) = ProofContents(Plan'.input.impact, x)
    BY <2>1, <2>2
  <2> QED BY <1>2, <2>3
<1>8. ASSUME NEW o \in unresolved \ e.beside PROVE ~BearsOn(o, x)'
  <2>1. ~BearsOn(o, x)
    BY DEF Holds
  <2>2. x # Everything
    BY <2>1 DEF BearsOn
  <2> QED BY <1>2, <1>5, <1>6, <2>1, <2>2, BearsBefore
<1>9. ASSUME NEW o \in UnresolvedIn(core'), o \notin unresolved PROVE ~BearsOn(o, x)'
  <2>1. PICK c \in core'.signals : IsUnresolvedSignal(c) /\ o = ObservationKey(c)
    BY DEF UnresolvedIn
  <2>2. o \notin UnresolvedIn(core)
    BY <1>9 DEF PlanInv
  <2>3. c \in UnresolvedBetween(Plan, Plan')
    BY <1>2, <2>1, <2>2 DEF UnresolvedBetween, UnresolvedIn
  <2>4. ~ConcernedInEither(Plan, Plan', c, x)
    BY <1>3, <2>3 DEF UnresolvedOn
  <2>5. IsClassified(c)
    BY <2>1 DEF PlanInv
  <2>6. ASSUME BearsOn(ObservationKey(c), x)'
        PROVE Unmapped(Plan', c) \/ x = Everything \/ x \in ConcernedSurfaces(Plan', c)
    <3>1. Bears(SurfacesOf(Plan'), ObservationKey(c), x)
      BY <1>2, <2>6 DEF BearsOn, Bears, Surfaces
    <3> QED BY <2>5, <3>1, BearsConcerns
  <2> QED BY <2>1, <2>4, <2>6 DEF ConcernedInEither
<1>10. unresolved' = unresolved \cup UnresolvedIn(core')
  BY DEF Replan
<1> QED BY <1>3, <1>5a, <1>7, <1>8, <1>9, <1>10 DEF Holds

(* No step changes the role of a surface.                                  *)
LEMMA RolesStep ==
  PlanInv /\ [Next]_vars /\ (\A e \in evidence : RolesThen(e)) => (\A e \in evidence : RolesThen(e))'
<1> SUFFICES ASSUME PlanInv, [Next]_vars, \A e \in evidence : RolesThen(e), NEW e \in evidence'
             PROVE RolesThen(e)'
  OBVIOUS
<1>1. CASE Next /\ ~Produce
  <2>1. Kept(Surfaces', Surfaces) /\ e \in evidence
    BY <1>1, StepKeeps DEF Keeps, Replan
  <2> QED BY <2>1 DEF RolesThen, Kept
<1>2. CASE Produce
  <2>1. Surfaces' = Surfaces /\ (e \in evidence \/ e.impact = input.impact)
    BY <1>2 DEF Produce, Surfaces
  <2> QED BY <2>1 DEF RolesThen, Surfaces
<1>3. CASE UNCHANGED vars
  BY <1>3 DEF vars, RolesThen, Surfaces
<1> QED BY <1>1, <1>2, <1>3

(* No step, of any action, leaves evidence that no longer holds.           *)
LEMMA StillHoldsStep ==
  PlanInv /\ PlanInv' /\ EvidenceStillHolds /\ (\A e \in evidence : RolesThen(e)) /\ [Next]_vars
    => EvidenceStillHolds'
<1> SUFFICES ASSUME PlanInv, PlanInv', EvidenceStillHolds, [Next]_vars,
                    \A e \in evidence : RolesThen(e),
                    NEW e \in evidence', e.spec.binding # "exact-revision"
             PROVE Holds(e)'
  BY DEF EvidenceStillHolds, Holds
<1>1. e \in evidence => Holds(e)
  BY DEF EvidenceStillHolds, Holds
<1>2. CASE Next /\ ~Produce
  <2>1. Keeps /\ Replan
    BY <1>2, StepKeeps
  <2>2. e \in evidence /\ [spec |-> e.spec, scope |-> e.scope] \in Reusable(Plan, Plan')
    BY <2>1 DEF Replan
  <2> QED BY <1>1, <2>1, <2>2, ReusedHolds
<1>3. CASE Produce
  <2>1. UNCHANGED <<input, unresolved>>
    BY <1>3 DEF Produce
  <2>2. CASE e \in evidence
    BY <1>1, <2>1, <2>2 DEF Holds, BearsOn, AboutDocumentation
  <2>3. CASE e \notin evidence
    <3>1. e.impact = input.impact /\ e.beside = unresolved
      BY <1>3, <2>3 DEF Produce
    <3> QED BY <2>1, <3>1 DEF Holds
  <2> QED BY <2>2, <2>3
<1>4. CASE UNCHANGED vars
  BY <1>1, <1>4 DEF vars, Holds, BearsOn, AboutDocumentation
<1> QED BY <1>2, <1>3, <1>4

(* Whatever the author commits, rebases, declares and learns, whatever is  *)
(* reported, and in whatever order: evidence not bound to its exact        *)
(* revision that carryOverEvidence (carry-over.ts) let every plan since    *)
(* reuse was produced on the same merge-base, the same runtime tree        *)
(* (unless it is only about documentation and its surface was and is       *)
(* documentation) and the same contents of its surface and of the tests    *)
(* that exercise it, and no unresolved observation that bears on it was    *)
(* made since.                                                             *)
THEOREM StillHolds == Spec => []EvidenceStillHolds
<1>1. Init => EvidenceStillHolds
  BY DEF Init, EvidenceStillHolds
<1>2. Init => \A e \in evidence : RolesThen(e)
  BY DEF Init
<1> QED BY <1>1, <1>2, PlanInvStart, PlanInvStep, RolesStep, StillHoldsStep, PTL DEF Spec

-----------------------------------------------------------------------------
(* What a plan asks for, said of ids and subjects alone.                   *)

(* Some fact has this id and this subject.                                 *)
Says(facts, id, subject) == \E f \in facts : f.id = id /\ f.subject = subject

(* A fact that is met again is one fact, of the same id and subject.       *)
LEMMA SaysMerged ==
  ASSUME NEW facts, NEW id, NEW subject
  PROVE Says(Merged(facts), id, subject) <=> Says(facts, id, subject)
<1> DEFINE keys == {<<f.id, f.subject>> : f \in facts}
           one(key) == LET same == {f \in facts : f.id = key[1] /\ f.subject = key[2]}
                       IN  Fact(key[1], key[2], UNION {f.surfaces : f \in same}, UNION {f.refs : f \in same})
<1>1. \A key : one(key).id = key[1] /\ one(key).subject = key[2]
  BY DEF Fact
<1>2. Merged(facts) = {one(key) : key \in keys}
  BY DEF Merged
<1>3. Says(facts, id, subject) <=> <<id, subject>> \in keys
  BY DEF Says
<1> HIDE DEF one
<1>4. Says(Merged(facts), id, subject) <=> \E key \in keys : one(key).id = id /\ one(key).subject = subject
  BY <1>2 DEF Says
<1>5. \A key \in keys : key = <<key[1], key[2]>>
  OBVIOUS
<1> HIDE DEF keys
<1> QED BY <1>1, <1>3, <1>4, <1>5

(* A set of levels has a greatest one.                                     *)
LEMMA MaxOfLevels ==
  ASSUME NEW S \in SUBSET (0 .. 5), S # {}
  PROVE Max(S) \in S /\ \A y \in S : Max(S) >= y
<1>1. \E x \in S : \A y \in S : x >= y
  <2>1. CASE 5 \in S
    BY <2>1
  <2>2. CASE 5 \notin S /\ 4 \in S
    BY <2>2
  <2>3. CASE S \subseteq 0 .. 3 /\ 3 \in S
    BY <2>3
  <2>4. CASE S \subseteq 0 .. 2 /\ 2 \in S
    BY <2>4
  <2>5. CASE S \subseteq 0 .. 1 /\ 1 \in S
    BY <2>5
  <2>6. CASE S \subseteq {0}
    <3>1. S = {0}
      BY <2>6
    <3> QED BY <3>1
  <2>7. S \subseteq 0 .. 3 \/ 5 \in S \/ (5 \notin S /\ 4 \in S)
    OBVIOUS
  <2>8. S \subseteq 0 .. 3 => (3 \in S \/ S \subseteq 0 .. 2)
    OBVIOUS
  <2>9. S \subseteq 0 .. 2 => (2 \in S \/ S \subseteq 0 .. 1)
    OBVIOUS
  <2>10. S \subseteq 0 .. 1 => (1 \in S \/ S \subseteq {0})
    OBVIOUS
  <2> QED BY <2>1, <2>2, <2>3, <2>4, <2>5, <2>6, <2>7, <2>8, <2>9, <2>10
<1> QED BY <1>1 DEF Max

(* The floor of a subject is the greatest one that a fact about it has.    *)
LEMMA FloorIsGreatest ==
  ASSUME NEW policy, IsPolicy(policy), NEW facts, NEW subject
  PROVE /\ FloorOf(policy, facts, subject) \in 0 .. 5
        /\ \A e \in policy.floors : Says(facts, e.fact, subject) => FloorOf(policy, facts, subject) >= e.level
        /\ \/ FloorOf(policy, facts, subject) = 0
           \/ \E e \in policy.floors : /\ Says(facts, e.fact, subject)
                                       /\ FloorOf(policy, facts, subject) = e.level
<1> DEFINE met == {g \in policy.floors : \E f \in facts : f.subject = subject /\ f.id = g.fact}
           S == {0} \cup {e.level : e \in met}
<1>1. \A e \in policy.floors : e \in met <=> Says(facts, e.fact, subject)
  BY DEF Says
<1>2. S \in SUBSET (0 .. 5) /\ S # {}
  BY DEF IsPolicy
<1>3. Max(S) \in S /\ \A y \in S : Max(S) >= y
  BY <1>2, MaxOfLevels
<1>4. FloorOf(policy, facts, subject) = Max(S)
  BY DEF FloorOf
<1> QED BY <1>1, <1>2, <1>3, <1>4

(* A subject some fact is about meets a baseline that lists this kind.     *)
Baselined(policy, facts, kind) ==
  \E u : /\ \E id : Says(facts, id, u)
         /\ \E spec \in policy.evidence, b \in policy.baselines :
              /\ spec.id = kind /\ b.kind = kind /\ u \in spec.subjects
              /\ LevelOf(policy, facts, u) >= b.level

(* A fact asks for this kind.                                              *)
Triggered(asked, facts, kind) == \E id, u : Says(facts, id, u) /\ <<id, kind>> \in asked

(* The policy defines a kind of evidence.                                  *)
Known(policy, kind) == \E spec \in policy.evidence : spec.id = kind

(* Asks for the same evidence are one requirement.                         *)
LEMMA KindsAccumulated ==
  ASSUME NEW asks
  PROVE KindsOf(Accumulated(asks)) = {a.spec.id : a \in asks}
<1> DEFINE one(spec) == LET same == {a \in asks : a.spec = spec}
                        IN  [spec |-> spec, surfaces |-> UNION {a.surfaces : a \in same},
                             because |-> UNION {a.because : a \in same}]
<1>1. \A spec : one(spec).spec = spec
  OBVIOUS
<1>2. Accumulated(asks) = {one(spec) : spec \in {a.spec : a \in asks}}
  BY DEF Accumulated
<1> HIDE DEF one
<1> QED BY <1>1, <1>2 DEF KindsOf

(* Triggers ask for the known kinds that a fact asks for.                  *)
LEMMA KindsByTrigger ==
  ASSUME NEW policy, NEW facts, NEW asked, NEW kind
  PROVE kind \in {a.spec.id : a \in ByTrigger(policy, facts, asked)}
          <=> Known(policy, kind) /\ Triggered(asked, facts, kind)
<1> DEFINE pairs == {d \in policy.evidence \X facts : <<d[2].id, d[1].id>> \in asked}
           ask(c) == Asked(c[1], c[2].surfaces, {<<"fact", c[2].id>>})
<1>1. \A c : ask(c).spec = c[1]
  BY DEF Asked
<1>2. ByTrigger(policy, facts, asked) = {ask(c) : c \in pairs}
  BY DEF ByTrigger
<1> HIDE DEF ask
<1>3. kind \in {a.spec.id : a \in ByTrigger(policy, facts, asked)} <=> \E c \in pairs : c[1].id = kind
  BY <1>1, <1>2
<1>4. ASSUME NEW c \in pairs, c[1].id = kind PROVE Known(policy, kind) /\ Triggered(asked, facts, kind)
  BY <1>4 DEF Known, Triggered, Says
<1>5. ASSUME Known(policy, kind), Triggered(asked, facts, kind) PROVE \E c \in pairs : c[1].id = kind
  <2>1. PICK spec \in policy.evidence : spec.id = kind
    BY <1>5 DEF Known
  <2>2. PICK f \in facts : <<f.id, kind>> \in asked
    BY <1>5 DEF Triggered, Says
  <2>3. <<spec, f>> \in pairs
    BY <2>1, <2>2
  <2> QED BY <2>1, <2>3
<1> QED BY <1>3, <1>4, <1>5

(* Baselines ask for the kinds that a subject of their level meets.        *)
LEMMA KindsByBaseline ==
  ASSUME NEW in, NEW facts, NEW kind
  PROVE kind \in {a.spec.id : a \in ByBaseline(in, facts, Levels(in.policy, facts))}
          <=> Baselined(in.policy, facts, kind)
<1> DEFINE levels == Levels(in.policy, facts)
           triples == {d \in in.policy.evidence \X in.policy.baselines \X DOMAIN levels :
                         /\ d[2].kind = d[1].id
                         /\ d[3] \in d[1].subjects
                         /\ levels[d[3]] >= d[2].level}
           ask(c) == Asked(c[1], SubjectSurfaces(in.impact, facts, c[3]), {<<"baseline", c[2].level, c[3]>>})
<1>1. \A c : ask(c).spec = c[1]
  BY DEF Asked
<1>2. ByBaseline(in, facts, levels) = {ask(c) : c \in triples}
  BY DEF ByBaseline
<1> HIDE DEF ask
<1>3. kind \in {a.spec.id : a \in ByBaseline(in, facts, levels)} <=> \E c \in triples : c[1].id = kind
  BY <1>1, <1>2
<1>4. /\ \A u : u \in DOMAIN levels <=> \E id : Says(facts, id, u)
      /\ \A u \in DOMAIN levels : levels[u] = LevelOf(in.policy, facts, u)
  BY DEF Levels, Says
<1> HIDE DEF levels
<1>5. ASSUME NEW c \in triples, c[1].id = kind PROVE Baselined(in.policy, facts, kind)
  <2>1. /\ c[1] \in in.policy.evidence /\ c[2] \in in.policy.baselines /\ c[3] \in DOMAIN levels
        /\ c[2].kind = c[1].id /\ c[3] \in c[1].subjects /\ levels[c[3]] >= c[2].level
    OBVIOUS
  <2> QED BY <1>4, <1>5, <2>1 DEF Baselined
<1>6. ASSUME Baselined(in.policy, facts, kind) PROVE \E c \in triples : c[1].id = kind
  <2>1. PICK u : /\ \E id : Says(facts, id, u)
                 /\ \E spec \in in.policy.evidence, b \in in.policy.baselines :
                      /\ spec.id = kind /\ b.kind = kind /\ u \in spec.subjects
                      /\ LevelOf(in.policy, facts, u) >= b.level
    BY <1>6 DEF Baselined
  <2>2. PICK spec \in in.policy.evidence, b \in in.policy.baselines :
          /\ spec.id = kind /\ b.kind = kind /\ u \in spec.subjects
          /\ LevelOf(in.policy, facts, u) >= b.level
    BY <2>1
  <2>3. <<spec, b, u>> \in triples
    BY <1>4, <2>1, <2>2
  <2> QED BY <2>2, <2>3
<1> HIDE DEF triples
<1> QED BY <1>3, <1>5, <1>6 DEF levels

(* The kinds a plan requires, and those it recommends.                     *)
LEMMA PlanKinds ==
  ASSUME NEW in, NEW bound, NEW signals, NEW facts, NEW kind
  PROVE /\ kind \in KindsOf(PlanOn(in, bound, signals, facts).required)
             <=> \/ Baselined(in.policy, facts, kind)
                 \/ Known(in.policy, kind) /\ Triggered(Requires(in.policy), facts, kind)
        /\ kind \in KindsOf(PlanOn(in, bound, signals, facts).recommended)
             <=> /\ kind \notin KindsOf(PlanOn(in, bound, signals, facts).required)
                 /\ Known(in.policy, kind) /\ Triggered(Recommends(in.policy), facts, kind)
<1> DEFINE policy == in.policy
           levels == Levels(policy, facts)
           required == Accumulated(ByBaseline(in, facts, levels) \cup ByTrigger(policy, facts, Requires(policy)))
           recommended == Accumulated(ByTrigger(policy, facts, Recommends(policy)))
           plan == PlanOn(in, bound, signals, facts)
<1>1. /\ plan.required = required
      /\ plan.recommended = {r \in recommended : r.spec.id \notin KindsOf(required)}
  BY DEF PlanOn
<1>2. kind \in KindsOf(required)
        <=> \/ kind \in {a.spec.id : a \in ByBaseline(in, facts, levels)}
            \/ kind \in {a.spec.id : a \in ByTrigger(policy, facts, Requires(policy))}
  BY KindsAccumulated
<1>3. kind \in KindsOf(recommended) <=> kind \in {a.spec.id : a \in ByTrigger(policy, facts, Recommends(policy))}
  BY KindsAccumulated
<1>4. kind \in KindsOf(plan.recommended) <=> kind \in KindsOf(recommended) /\ kind \notin KindsOf(required)
  BY <1>1 DEF KindsOf
<1>5. kind \in {a.spec.id : a \in ByBaseline(in, facts, levels)} <=> Baselined(policy, facts, kind)
  BY KindsByBaseline
<1>6. kind \in {a.spec.id : a \in ByTrigger(policy, facts, Requires(policy))}
        <=> Known(policy, kind) /\ Triggered(Requires(policy), facts, kind)
  BY KindsByTrigger
<1>7. kind \in {a.spec.id : a \in ByTrigger(policy, facts, Recommends(policy))}
        <=> Known(policy, kind) /\ Triggered(Recommends(policy), facts, kind)
  BY KindsByTrigger
<1> HIDE DEF required, recommended
<1>8. /\ kind \in KindsOf(plan.required)
             <=> \/ Baselined(policy, facts, kind)
                 \/ Known(policy, kind) /\ Triggered(Requires(policy), facts, kind)
      /\ kind \in KindsOf(plan.recommended)
             <=> /\ kind \notin KindsOf(plan.required)
                 /\ Known(policy, kind) /\ Triggered(Recommends(policy), facts, kind)
  <2> HIDE DEF plan, policy, levels
  <2> QED BY <1>1, <1>2, <1>3, <1>4, <1>5, <1>6, <1>7
<1> QED BY <1>8

-----------------------------------------------------------------------------
(* The plan of an input, part by part.                                     *)

(* The readings of the signals that concern another revision and product.  *)
OtherReadings(in) == {OtherRevision(g) : g \in {h \in in.signals : ~Relevant(in, h)}}

(* The readings of the signals about the product, and those of failed      *)
(* jobs under a bound.                                                     *)
ProductReadings(in) ==
  {Recorded(g, ClassifyProductSignal(g, in.impact), in.impact) :
     g \in {h \in in.signals : Relevant(in, h) /\ h.signal \in ProductSignals}}

JobReadings(in, bound) ==
  {Recorded(g, ClassifyInfrastructureSignal(g, in, bound), in.impact) :
     g \in {h \in in.signals : Relevant(in, h) /\ h.signal \in InfrastructureSignals}}

(* What was declared and observed before the bound; the bound; what        *)
(* failed jobs show.                                                       *)
SeenFacts(in) == SurfaceFacts(in.impact) \cup UNION {c.facts : c \in ProductReadings(in)}

BoundSeen(in) == BoundOf(in, SeenFacts(in))

JobFacts(in) == UNION {c.facts : c \in JobReadings(in, BoundSeen(in))}

(* The facts that no attribution of a failure bears on.                    *)
GivenFacts(in) ==
  SeenFacts(in) \cup BoundFacts(in, BoundSeen(in))
    \cup UNION {ClaimFacts(in.impact, c, BoundSeen(in)) : c \in in.claims}

(* The core is the plan on these facts.                                    *)
LEMMA CoreParts ==
  ASSUME NEW in
  PROVE PlanCore(in) =
          PlanOn(in, BoundSeen(in),
                 (OtherReadings(in) \cup ProductReadings(in)) \cup JobReadings(in, BoundSeen(in)),
                 Merged(GivenFacts(in) \cup JobFacts(in)))
<1> DEFINE signals == OtherReadings(in) \cup ProductReadings(in)
           seen == SeenFacts(in)
           bound == BoundSeen(in)
<1>1. PlanCore(in) = PlanWithin(in, bound, signals, seen)
  BY DEF PlanCore, PlanAbout, OtherReadings, ProductReadings, SeenFacts, BoundSeen
<1>2. PlanWithin(in, bound, signals, seen) =
        PlanOn(in, bound, signals \cup JobReadings(in, bound),
               Merged(seen \cup BoundFacts(in, bound)
                      \cup (UNION {ClaimFacts(in.impact, c, bound) : c \in in.claims})
                      \cup UNION {c.facts : c \in JobReadings(in, bound)}))
  BY DEF PlanWithin, JobReadings
<1> QED BY <1>1, <1>2 DEF GivenFacts, JobFacts

(* What the core requires and recommends, of an input.                     *)
LEMMA CoreKinds ==
  ASSUME NEW in, NEW kind
  PROVE /\ kind \in KindsOf(PlanCore(in).required)
             <=> \/ Baselined(in.policy, PlanCore(in).facts, kind)
                 \/ Known(in.policy, kind) /\ Triggered(Requires(in.policy), PlanCore(in).facts, kind)
        /\ kind \in KindsOf(PlanCore(in).recommended)
             <=> /\ kind \notin KindsOf(PlanCore(in).required)
                 /\ Known(in.policy, kind)
                 /\ Triggered(Recommends(in.policy), PlanCore(in).facts, kind)
<1> DEFINE facts == Merged(GivenFacts(in) \cup JobFacts(in))
           signals == (OtherReadings(in) \cup ProductReadings(in)) \cup JobReadings(in, BoundSeen(in))
           bound == BoundSeen(in)
<1>1. PlanCore(in) = PlanOn(in, bound, signals, facts)
  BY CoreParts
<1> HIDE DEF facts, signals, bound
<1>2. PlanCore(in).facts = facts
  BY <1>1 DEF PlanOn
<1>3. /\ kind \in KindsOf(PlanOn(in, bound, signals, facts).required)
           <=> \/ Baselined(in.policy, facts, kind)
               \/ Known(in.policy, kind) /\ Triggered(Requires(in.policy), facts, kind)
      /\ kind \in KindsOf(PlanOn(in, bound, signals, facts).recommended)
           <=> /\ kind \notin KindsOf(PlanOn(in, bound, signals, facts).required)
               /\ Known(in.policy, kind) /\ Triggered(Recommends(in.policy), facts, kind)
  BY PlanKinds
<1> QED BY <1>1, <1>2, <1>3

(* The rest of the core.                                                   *)
LEMMA CoreRest ==
  ASSUME NEW in
  PROVE LET core_ == PlanCore(in)
            facts == core_.facts
        IN /\ facts = Merged(GivenFacts(in) \cup JobFacts(in))
           /\ core_.bound = BoundSeen(in)
           /\ core_.signals = OtherReadings(in) \cup ProductReadings(in) \cup JobReadings(in, BoundSeen(in))
           /\ core_.status = StatusOf(in.policy, facts)
           /\ core_.levels = Levels(in.policy, facts)
<1> DEFINE facts == Merged(GivenFacts(in) \cup JobFacts(in))
           signals == (OtherReadings(in) \cup ProductReadings(in)) \cup JobReadings(in, BoundSeen(in))
           bound == BoundSeen(in)
<1>1. PlanCore(in) = PlanOn(in, bound, signals, facts)
  BY CoreParts
<1> HIDE DEF facts, signals, bound
<1>2. LET p == PlanOn(in, bound, signals, facts)
      IN /\ p.facts = facts /\ p.bound = bound /\ p.signals = signals
         /\ p.status = StatusOf(in.policy, facts) /\ p.levels = Levels(in.policy, facts)
  BY DEF PlanOn
<1> QED BY <1>1, <1>2 DEF facts, signals, bound

(* A fact is in the core when it was given or follows from a job.          *)
LEMMA CoreSays ==
  ASSUME NEW in, NEW id, NEW subject
  PROVE Says(PlanCore(in).facts, id, subject)
          <=> Says(GivenFacts(in), id, subject) \/ Says(JobFacts(in), id, subject)
<1>1. PlanCore(in).facts = Merged(GivenFacts(in) \cup JobFacts(in))
  BY CoreRest
<1>2. Says(Merged(GivenFacts(in) \cup JobFacts(in)), id, subject)
        <=> Says(GivenFacts(in) \cup JobFacts(in), id, subject)
  BY SaysMerged
<1> QED BY <1>1, <1>2 DEF Says

-----------------------------------------------------------------------------
(* The same change under another policy.                                   *)

(* Two inputs differ in their policies alone.                              *)
SameChange(in, other) ==
  /\ other.impact = in.impact /\ other.claims = in.claims /\ other.signals = in.signals
  /\ \A g \in in.signals : SignalOK(g)

(* A policy does not bear on what was given.                               *)
LEMMA GivenSame ==
  ASSUME NEW in, NEW other, SameChange(in, other)
  PROVE GivenFacts(other) = GivenFacts(in) /\ BoundSeen(other) = BoundSeen(in)
<1>1. ProductReadings(other) = ProductReadings(in)
  BY DEF SameChange, ProductReadings, Relevant
<1>2. SeenFacts(other) = SeenFacts(in)
  BY <1>1 DEF SameChange, SeenFacts
<1>3. ASSUME NEW facts PROVE BoundOf(other, facts) = BoundOf(in, facts)
  <2>1. IsUnbounded(other, facts) <=> IsUnbounded(in, facts)
    BY DEF SameChange, IsUnbounded, Sensitive
  <2> QED BY <2>1 DEF SameChange, BoundOf
<1>4. BoundSeen(other) = BoundSeen(in)
  BY <1>2, <1>3 DEF BoundSeen
<1>5. ASSUME NEW bound PROVE BoundFacts(other, bound) = BoundFacts(in, bound)
  BY DEF SameChange, BoundFacts
<1> QED BY <1>2, <1>4, <1>5 DEF SameChange, GivenFacts

(* Whether a failed job exercises the change.                              *)
ExercisesOf(g, in, bound) ==
  IF g.surfaces \cap ExercisingChange(in.impact) # {} THEN "yes"
  ELSE IF g.exercises # "no" THEN g.exercises
  ELSE IF g.surfaces # {} /\ TrustsImpact(bound) THEN "no"
  ELSE "unknown"

(* What explains a failed job under the policy.                            *)
BasisOf(g, in, bound) ==
  g.attribution \cap
    (IF ExercisesOf(g, in, bound) = "no" THEN in.policy.attribution ELSE {"REPRODUCES_ON_BASELINE"})

(* What a failed job shows.                                                *)
ShownBy(g, exercises, basis) ==
  IF basis = {}
  THEN {Observed("observed:unattributed-failure",
                 IF exercises = "no" THEN "proof-infrastructure" ELSE "product", g)}
  ELSE {Observed("observed:infrastructure-failure", "proof-infrastructure", g)}
       \cup (IF basis = {"REPRODUCES_ON_BASELINE"}
             THEN {Observed("observed:baseline-reproduction", "proof-infrastructure", g)} ELSE {})

(* The reading of a failed job, by whether it exercises the change and by  *)
(* its basis.                                                              *)
LEMMA JobReading ==
  ASSUME NEW g, NEW in, NEW bound
  PROVE LET c == ClassifyInfrastructureSignal(g, in, bound)
            exercises == ExercisesOf(g, in, bound)
            basis == BasisOf(g, in, bound)
        IN /\ c.facts = ShownBy(g, exercises, basis)
           /\ c.exercises = exercises
           /\ c.classification = IF basis = {} THEN "unattributed" ELSE "proof-infrastructure"
<1> DEFINE exercises == ExercisesOf(g, in, bound)
           basis == BasisOf(g, in, bound)
           failure == Observed("observed:infrastructure-failure", "proof-infrastructure", g)
           reproduced == Observed("observed:baseline-reproduction", "proof-infrastructure", g)
           unattributed == Observed("observed:unattributed-failure",
                                    IF exercises = "no" THEN "proof-infrastructure" ELSE "product", g)
<1>1. ClassifyInfrastructureSignal(g, in, bound) =
        IF basis = {} THEN Classified(g, "unattributed", exercises, {}, {unattributed})
        ELSE Classified(g, "proof-infrastructure", exercises, basis,
                        {failure} \cup (IF basis = {"REPRODUCES_ON_BASELINE"} THEN {reproduced} ELSE {}))
  BY DEF ClassifyInfrastructureSignal, ExercisesOf, BasisOf
<1>2. ShownBy(g, exercises, basis) =
        IF basis = {} THEN {unattributed}
        ELSE {failure} \cup (IF basis = {"REPRODUCES_ON_BASELINE"} THEN {reproduced} ELSE {})
  BY DEF ShownBy
<1> HIDE DEF exercises, basis, failure, reproduced, unattributed
<1>3. /\ ClassifyInfrastructureSignal(g, in, bound).facts = ShownBy(g, exercises, basis)
      /\ ClassifyInfrastructureSignal(g, in, bound).exercises = exercises
      /\ ClassifyInfrastructureSignal(g, in, bound).classification =
           IF basis = {} THEN "unattributed" ELSE "proof-infrastructure"
  BY <1>1, <1>2 DEF Classified
<1> QED BY <1>3 DEF exercises, basis

(* What is recorded of a signal of another revision that is resolved is no *)
(* fact.                                                                   *)
LEMMA RecordedFacts ==
  ASSUME NEW g, NEW c, NEW impact
  PROVE Recorded(g, c, impact).facts =
          IF g.revision # impact.revision /\ ~IsUnresolvedSignal(c) THEN {} ELSE c.facts
BY DEF Recorded, OtherRevision, Classified

(* The default policy lets every basis explain a failed job, another one   *)
(* some: what it does not let be explained is unattributed.                *)
LEMMA JobKept ==
  ASSUME NEW in, NEW other, SameChange(in, other), in.policy = DefaultPolicy,
         NEW id, NEW u, Says(JobFacts(in), id, u)
  PROVE \/ Says(JobFacts(other), id, u)
        \/ id \in AttributedFacts /\ Says(JobFacts(other), "observed:unattributed-failure", u)
<1> DEFINE bound == BoundSeen(in)
<1>1. BoundSeen(other) = bound
  BY GivenSame
<1> HIDE DEF bound
<1>2. PICK c \in JobReadings(in, bound) : \E f \in c.facts : f.id = id /\ f.subject = u
  BY DEF Says, JobFacts, bound
<1>3. PICK g \in in.signals :
        /\ Relevant(in, g) /\ g.signal \in InfrastructureSignals
        /\ c = Recorded(g, ClassifyInfrastructureSignal(g, in, bound), in.impact)
  BY <1>2 DEF JobReadings
<1> DEFINE d == Recorded(g, ClassifyInfrastructureSignal(g, other, bound), other.impact)
           ci == ClassifyInfrastructureSignal(g, in, bound)
           co == ClassifyInfrastructureSignal(g, other, bound)
           e == ExercisesOf(g, in, bound)
           bi == BasisOf(g, in, bound)
           bo == BasisOf(g, other, bound)
<1>4. d \in JobReadings(other, bound)
  BY <1>3 DEF SameChange, JobReadings, Relevant
<1>5. \A f \in d.facts : Says(JobFacts(other), f.id, f.subject)
  BY <1>1, <1>4 DEF Says, JobFacts
<1>6. ExercisesOf(g, other, bound) = e
  BY DEF ExercisesOf, SameChange
<1>7. /\ ci.facts = ShownBy(g, e, bi) /\ ci.exercises = e
      /\ ci.classification = IF bi = {} THEN "unattributed" ELSE "proof-infrastructure"
  BY JobReading
<1>8. /\ co.facts = ShownBy(g, e, bo) /\ co.exercises = e
      /\ co.classification = IF bo = {} THEN "unattributed" ELSE "proof-infrastructure"
  BY <1>6, JobReading
<1>9. /\ c.facts = IF g.revision # in.impact.revision /\ ~IsUnresolvedSignal(ci) THEN {} ELSE ci.facts
      /\ d.facts = IF g.revision # in.impact.revision /\ ~IsUnresolvedSignal(co) THEN {} ELSE co.facts
  BY <1>3, RecordedFacts DEF SameChange
<1>10. CASE e # "no"
  <2>1. bo = bi
    BY <1>6, <1>10 DEF BasisOf
  <2>2. c.facts = d.facts
    <3> HIDE DEF ci, co, d, e, bi, bo
    <3> QED BY <1>7, <1>8, <1>9, <2>1 DEF IsUnresolvedSignal
  <2> QED BY <1>2, <1>5, <2>2
<1>11. CASE e = "no"
  <2>1. g.attribution \subseteq AttributionBases
    BY <1>3 DEF SameChange, SignalOK
  <2>2. bo \subseteq bi
    BY <1>6, <1>11, <2>1 DEF BasisOf, DefaultPolicy
  <2>3. c.facts # {} /\ c.facts = ci.facts /\ g.revision = in.impact.revision
    <3> HIDE DEF ci, e, bi
    <3> QED BY <1>2, <1>7, <1>9, <1>11 DEF IsUnresolvedSignal
  <2>4. d.facts = ShownBy(g, e, bo)
    <3> HIDE DEF ci, co, d, e, bi, bo
    <3> QED BY <1>8, <1>9, <2>3
  <2>5. PICK f \in ShownBy(g, e, bi) : f.id = id /\ f.subject = u
    BY <1>2, <1>7, <2>3
  <2> HIDE DEF ci, co, d, e, bi, bo
  <2>6. CASE bo # {}
    <3>1. f \in ShownBy(g, e, bo)
      BY <2>2, <2>5, <2>6 DEF ShownBy
    <3> QED BY <1>5, <2>4, <2>5, <3>1
  <2>7. CASE bo = {} /\ bi = {}
    BY <1>5, <2>4, <2>5, <2>7
  <2>8. CASE bo = {} /\ bi # {}
    <3>1. id \in AttributedFacts /\ u = "proof-infrastructure"
      BY <2>5, <2>8 DEF ShownBy, Observed, Fact, AttributedFacts
    <3>2. Observed("observed:unattributed-failure", "proof-infrastructure", g) \in d.facts
      BY <1>11, <2>4, <2>8 DEF ShownBy
    <3>3. Says(JobFacts(other), "observed:unattributed-failure", "proof-infrastructure")
      BY <1>5, <3>2 DEF Observed, Fact
    <3> QED BY <3>1, <3>3
  <2> QED BY <2>6, <2>7, <2>8
<1> QED BY <1>10, <1>11

(* So a fact under the default policy is one under another, or an          *)
(* attributed failure that is not attributed there.                        *)
LEMMA FactsKept ==
  ASSUME NEW in, NEW other, SameChange(in, other), in.policy = DefaultPolicy,
         NEW id, NEW u, Says(PlanCore(in).facts, id, u)
  PROVE \/ Says(PlanCore(other).facts, id, u)
        \/ id \in AttributedFacts /\ Says(PlanCore(other).facts, "observed:unattributed-failure", u)
BY CoreSays, GivenSame, JobKept

-----------------------------------------------------------------------------
(* What the default policy says of failed jobs.                            *)

(* The entries that a row of the default policy stands for.                *)
LEMMA InFloor ==
  ASSUME NEW level, NEW facts, NEW e \in Floor(level, facts)
  PROVE e.fact \in facts /\ e.level = level
BY DEF Floor

(* A requiring row recommends nothing.                                     *)
LEMMA InRequiring ==
  ASSUME NEW facts, NEW kinds, NEW t \in Requiring(facts, kinds)
  PROVE t.fact \in facts /\ t.require = kinds /\ t.recommend = {}
BY DEF Requiring, Trigger

(* A recommending row requires nothing.                                    *)
LEMMA InRecommending ==
  ASSUME NEW facts, NEW kinds, NEW t \in Recommending(facts, kinds)
  PROVE t.fact \in facts /\ t.require = {} /\ t.recommend = kinds
BY DEF Recommending, Trigger

(* No fact about a boundary is about a failed job.                         *)
LEMMA BoundaryFact ==
  ASSUME NEW b \in Boundaries, NEW q \in {"touched", "behavior", "transitive"}
  PROVE Boundary(b, q) # "observed:infrastructure-failure" /\ Boundary(b, q) # "observed:baseline-reproduction"
BY FactsAssumption DEF AttributedFacts

(* What an explained job shows has no floor in the default policy.         *)
LEMMA FloorsOfOthers == \A e \in Floors : e.level \in 0 .. 5 /\ e.fact \notin AttributedFacts
<1> SUFFICES ASSUME NEW e \in Floors PROVE e.level \in 0 .. 5 /\ e.fact \notin AttributedFacts
  OBVIOUS
<1>1. /\ CompatibilityBoundaries \subseteq Boundaries /\ BehaviorBoundaries \subseteq Boundaries
      /\ EvaluationBoundaries \subseteq Boundaries
      /\ {"decision", "admission", "security"} \subseteq Boundaries
  BY DEF CompatibilityBoundaries, BehaviorBoundaries, EvaluationBoundaries, Boundaries
<1>2. ASSUME NEW B \in SUBSET Boundaries, NEW q \in {"touched", "behavior", "transitive"}
      PROVE {Boundary(b, q) : b \in B} \cap AttributedFacts = {}
  BY <1>2, FactsAssumption
<1>3. Boundary("security", "touched") \notin AttributedFacts
  BY <1>1, FactsAssumption
<1> DEFINE f2 == {"product:behavior-change", "product:new-behavior",
                  "execution-context:changed", "claim:high:transitive",
                  "claim:high:oracle", "claim:scope:component"}
                 \cup {Boundary(b, "touched") : b \in CompatibilityBoundaries}
           f3 == {"runtime:live:touched", "claim:high:direct", "claim:critical:transitive",
                  "claim:critical:oracle", "reversibility:costly", "impact:unbounded",
                  Boundary("security", "touched")}
                 \cup {Boundary(b, "behavior") : b \in BehaviorBoundaries}
           f4 == {"runtime:live:behavior", "claim:critical:direct", "claim:scope:system",
                  "reversibility:irreversible", "observed:live-runtime",
                  "observed:corpus-divergence"}
                 \cup {Boundary(b, "behavior") : b \in {"decision", "admission", "security"}}
           f5 == {"claim:empirical"} \cup {Boundary(b, "behavior") : b \in EvaluationBoundaries}
           f1 == {"tests:changed", "oracle:changed", "proof-infrastructure:changed",
                  "evaluation:touched", "product:refactor"}
           f0 == {"documentation:changed"}
<1>4. e \in Floor(0, f0) \/ e \in Floor(1, f1) \/ e \in Floor(2, f2) \/ e \in Floor(3, f3)
        \/ e \in Floor(4, f4) \/ e \in Floor(5, f5)
  BY DEF Floors
<1>5. f0 \cap AttributedFacts = {} /\ f1 \cap AttributedFacts = {}
  BY DEF AttributedFacts
<1>6. f2 \cap AttributedFacts = {}
  <2>1. {Boundary(b, "touched") : b \in CompatibilityBoundaries} \cap AttributedFacts = {}
    BY <1>1, <1>2
  <2> HIDE DEF CompatibilityBoundaries
  <2> QED BY <2>1 DEF AttributedFacts
<1>7. f3 \cap AttributedFacts = {}
  <2>1. {Boundary(b, "behavior") : b \in BehaviorBoundaries} \cap AttributedFacts = {}
    BY <1>1, <1>2
  <2> QED BY <1>3, <2>1 DEF AttributedFacts
<1>8. f4 \cap AttributedFacts = {}
  <2>1. {Boundary(b, "behavior") : b \in {"decision", "admission", "security"}} \cap AttributedFacts = {}
    BY <1>1, <1>2
  <2> QED BY <2>1 DEF AttributedFacts
<1>9. f5 \cap AttributedFacts = {}
  <2>1. {Boundary(b, "behavior") : b \in EvaluationBoundaries} \cap AttributedFacts = {}
    BY <1>1, <1>2
  <2> QED BY <2>1 DEF AttributedFacts
<1> HIDE DEF f0, f1, f2, f3, f4, f5
<1> QED BY <1>4, <1>5, <1>6, <1>7, <1>8, <1>9, InFloor

(* What the default policy asks for after a failed job.                    *)
JobTrigger(t) ==
  /\ t.fact = "observed:infrastructure-failure" => t.require = {"AFFECTED_JOB_RERUN"} /\ t.recommend = {}
  /\ t.fact = "observed:baseline-reproduction" => t.require = {"FAILURE_ATTRIBUTION"} /\ t.recommend = {}

(* What the triggers of the default policy ask for when a job is           *)
(* explained.                                                              *)
LEMMA JobTriggers == \A t \in Triggers : JobTrigger(t)
<1> SUFFICES ASSUME NEW t \in Triggers PROVE JobTrigger(t)
  OBVIOUS
<1>1. ASSUME NEW facts, NEW kinds, facts \cap AttributedFacts = {},
             t \in Requiring(facts, kinds) \/ t \in Recommending(facts, kinds)
      PROVE JobTrigger(t)
  BY <1>1, InRequiring, InRecommending DEF JobTrigger, AttributedFacts
<1>2. ASSUME NEW fact, NEW required, NEW recommended, fact \notin AttributedFacts,
             t = Trigger(fact, required, recommended)
      PROVE JobTrigger(t)
  BY <1>2 DEF JobTrigger, AttributedFacts, Trigger
<1>3. /\ CompatibilityBoundaries \subseteq Boundaries /\ Boundaries \ EvaluationBoundaries \subseteq Boundaries
      /\ {"replay", "analysis"} \subseteq Boundaries
      /\ {"decision", "admission", "security", "benchmark", "holdout"} \subseteq Boundaries
  BY DEF CompatibilityBoundaries, Boundaries
<1>4. /\ \A q \in {"touched", "behavior", "transitive"} :
           /\ Boundary("decision", q) \notin AttributedFacts
           /\ Boundary("admission", q) \notin AttributedFacts
           /\ Boundary("security", q) \notin AttributedFacts
           /\ Boundary("benchmark", q) \notin AttributedFacts
           /\ Boundary("holdout", q) \notin AttributedFacts
      /\ {Boundary(b, q) : b \in CompatibilityBoundaries, q \in {"touched", "behavior"}}
           \cap AttributedFacts = {}
      /\ {Boundary(b, "behavior") : b \in {"replay", "analysis"}} \cap AttributedFacts = {}
      /\ {Boundary(b, "transitive") : b \in Boundaries \ EvaluationBoundaries} \cap AttributedFacts = {}
  BY <1>3, FactsAssumption
<1> DEFINE changed == t \in Requiring({"tests:changed", "observed:infrastructure-failure"}, {"AFFECTED_JOB_RERUN"})
           shown == t \in Requiring({"observed:unattributed-failure", "observed:baseline-reproduction"},
                                    {"FAILURE_ATTRIBUTION"})
<1>5. CASE changed
  BY <1>5, InRequiring DEF JobTrigger
<1>6. CASE shown
  BY <1>6, InRequiring DEF JobTrigger
<1>7. CASE ~changed /\ ~shown
  <2>1. \/ \E facts, kinds : /\ facts \cap AttributedFacts = {}
                             /\ t \in Requiring(facts, kinds) \/ t \in Recommending(facts, kinds)
        \/ \E fact, required, recommended :
              fact \notin AttributedFacts /\ t = Trigger(fact, required, recommended)
    <3> DEFINE harmless(facts) == facts \cap AttributedFacts = {}
    <3>1. ASSUME NEW facts PROVE harmless(facts) <=>
             "observed:infrastructure-failure" \notin facts /\ "observed:baseline-reproduction" \notin facts
      BY DEF AttributedFacts
    <3> QED
      BY <1>4, <1>7, <3>1 DEF Triggers, AttributedFacts
  <2> QED BY <1>1, <1>2, <2>1
<1> QED BY <1>5, <1>6, <1>7

(* An explained job asks for its rerun or for its attribution alone.       *)
LEMMA AskedOfJobs ==
  /\ \A kind : <<"observed:infrastructure-failure", kind>> \in Requires(DefaultPolicy)
                 => kind \in JobReruns
  /\ \A kind : <<"observed:baseline-reproduction", kind>> \in Requires(DefaultPolicy)
                 => kind = "FAILURE_ATTRIBUTION"
  /\ \A id, kind : id \in AttributedFacts => <<id, kind>> \notin Recommends(DefaultPolicy)
<1>1. \A id, kind : <<id, kind>> \in Requires(DefaultPolicy) <=> \E t \in Triggers : t.fact = id /\ kind \in t.require
  BY DEF Requires, DefaultPolicy
<1>2. \A id, kind : <<id, kind>> \in Recommends(DefaultPolicy) <=> \E t \in Triggers : t.fact = id /\ kind \in t.recommend
  BY DEF Recommends, DefaultPolicy
<1> QED BY <1>1, <1>2, JobTriggers DEF JobTrigger, AttributedFacts, JobReruns

(* An unattributed failure is attributed by someone.                        *)
LEMMA UnattributedAsks == <<"observed:unattributed-failure", "FAILURE_ATTRIBUTION">> \in Requires(DefaultPolicy)
<1> DEFINE t == Trigger("observed:unattributed-failure", {"FAILURE_ATTRIBUTION"}, {})
<1>1. t \in Requiring({"observed:unattributed-failure", "observed:baseline-reproduction"}, {"FAILURE_ATTRIBUTION"})
  BY DEF Requiring
<1>2. t \in Triggers
  BY <1>1 DEF Triggers
<1>3. t.fact = "observed:unattributed-failure" /\ "FAILURE_ATTRIBUTION" \in t.require
  BY DEF Trigger
<1> HIDE DEF t
<1> QED BY <1>2, <1>3 DEF Requires, DefaultPolicy

(* The levels of the default policy are P0 to P5.                          *)
LEMMA LevelsOfDefault == IsPolicy(DefaultPolicy)
<1>1. \A e \in Baselines : e.level \in 0 .. 5
  BY DEF Baselines, Baseline
<1> QED BY <1>1, FloorsOfOthers DEF IsPolicy, DefaultPolicy

(* Levels and evidence of an admitted policy are at least the default's.   *)
LEMMA LevelsKept ==
  ASSUME NEW in, NEW other, SameChange(in, other), in.policy = DefaultPolicy,
         Admitted(other.policy), IsPolicy(other.policy), NEW u
  PROVE /\ LevelOf(other.policy, PlanCore(other).facts, u) \in Nat
        /\ LevelOf(in.policy, PlanCore(in).facts, u) \in Nat
        /\ LevelOf(other.policy, PlanCore(other).facts, u) >= LevelOf(in.policy, PlanCore(in).facts, u)
<1> DEFINE facts == PlanCore(in).facts
           those == PlanCore(other).facts
           p == other.policy
           x == FloorOf(in.policy, facts, u)
           y == FloorOf(p, those, u)
           raisedIn == \E f \in facts : f.subject = u /\ f.id \in in.policy.raises.facts
           raisedOut == \E f \in those : f.subject = u /\ f.id \in p.raises.facts
<1>1. /\ x \in 0 .. 5
      /\ x = 0 \/ \E e \in Floors : Says(facts, e.fact, u) /\ x = e.level
  <2>1. IsPolicy(in.policy)
    BY LevelsOfDefault
  <2>2. in.policy.floors = Floors
    BY DEF DefaultPolicy
  <2> QED BY <2>1, <2>2, FloorIsGreatest
<1>2. /\ y \in 0 .. 5
      /\ \A e \in p.floors : Says(those, e.fact, u) => y >= e.level
  BY FloorIsGreatest
<1>3. x <= y
  <2>1. CASE x = 0
    BY <1>2, <2>1
  <2>2. ASSUME NEW e \in Floors, Says(facts, e.fact, u), x = e.level PROVE x <= y
    <3>1. Says(those, e.fact, u)
      BY <2>2, FactsKept, FloorsOfOthers
    <3>2. PICK a \in p.floors : a.fact = e.fact /\ a.level >= e.level
      BY <2>2 DEF Admitted, AtLeastDefault, FloorAtLeast
    <3>3. y >= a.level
      BY <1>2, <3>1, <3>2
    <3>4. a.level \in 0 .. 5 /\ e.level \in 0 .. 5
      BY <3>2, FloorsOfOthers DEF IsPolicy
    <3> QED BY <1>2, <2>2, <3>2, <3>3, <3>4
  <2> QED BY <1>1, <2>1, <2>2
<1>4. raisedIn => raisedOut
  <2> SUFFICES ASSUME NEW f \in facts, f.subject = u, f.id \in in.policy.raises.facts PROVE raisedOut
    OBVIOUS
  <2>1. Says(facts, f.id, u)
    BY DEF Says
  <2>2. f.id \notin AttributedFacts
    BY DEF DefaultPolicy, AttributedFacts
  <2>3. Says(those, f.id, u)
    BY <2>1, <2>2, FactsKept
  <2>4. f.id \in p.raises.facts
    BY DEF Admitted, AtLeastDefault
  <2> QED BY <2>3, <2>4 DEF Says
<1>5. in.policy.raises.cap = 4 /\ p.raises.cap = 4
  BY DEF Admitted, AtLeastDefault, DefaultPolicy
<1> HIDE DEF x, y, raisedIn, raisedOut, p, facts, those
<1>6. /\ LevelOf(in.policy, facts, u) = IF raisedIn THEN Greater(x, Lesser(4, x + 1)) ELSE x
      /\ LevelOf(p, those, u) = IF raisedOut THEN Greater(y, Lesser(4, y + 1)) ELSE y
  BY <1>5 DEF LevelOf, x, y, raisedIn, raisedOut
<1>7. x \in Nat /\ y \in Nat
  BY <1>1, <1>2
<1>8. LevelOf(in.policy, facts, u) \in Nat /\ LevelOf(p, those, u) \in Nat
        /\ LevelOf(p, those, u) >= LevelOf(in.policy, facts, u)
  BY <1>3, <1>4, <1>6, <1>7 DEF Greater, Lesser
<1> QED BY <1>8 DEF p, facts, those

(* A policy has the kinds of the default one, for its subjects at least.   *)
LEMMA KindKept ==
  ASSUME NEW p, Admitted(p), NEW spec \in Evidence
  PROVE \E k \in p.evidence : k.id = spec.id /\ spec.subjects \subseteq k.subjects
BY DEF Admitted, AtLeastDefault, KindAtLeast

(* An admitted policy never lowers the status of a change.                 *)
LEMMA StatusKept ==
  ASSUME NEW in, NEW other, SameChange(in, other), in.policy = DefaultPolicy, Admitted(other.policy)
  PROVE Rank[PlanCore(other).status] >= Rank[PlanCore(in).status]
<1> DEFINE facts == PlanCore(in).facts
           those == PlanCore(other).facts
           p == other.policy
           rules == DefaultPolicy.status
<1>1. /\ PlanCore(in).status = StatusOf(DefaultPolicy, facts)
      /\ PlanCore(other).status = StatusOf(p, those)
  BY CoreRest
<1>2. rules.hold \cap AttributedFacts = {} /\ rules.block \cap AttributedFacts = {}
  BY DEF DefaultPolicy, AttributedFacts
<1>3. rules.hold \subseteq p.status.hold \cup p.status.block /\ rules.block \subseteq p.status.block
  BY DEF Admitted, AtLeastDefault
<1>4. ASSUME NEW f \in facts, f.id \notin AttributedFacts PROVE \E g \in those : g.id = f.id
  <2>1. Says(facts, f.id, f.subject)
    BY DEF Says
  <2>2. Says(those, f.id, f.subject)
    BY <1>4, <2>1, FactsKept
  <2> QED BY <2>2 DEF Says
<1> HIDE DEF facts, those, p, rules
<1>5. CASE \E f \in facts : f.id \in rules.block
  <2>1. \E g \in those : g.id \in p.status.block
    BY <1>2, <1>3, <1>4, <1>5
  <2>2. PlanCore(other).status = "BLOCKED"
    BY <1>1, <2>1 DEF StatusOf
  <2>3. PlanCore(in).status \in {"PROVE", "HOLD", "BLOCKED"}
    BY <1>1 DEF StatusOf
  <2> QED BY <2>2, <2>3 DEF Rank
<1>6. CASE ~(\E f \in facts : f.id \in rules.block) /\ \E f \in facts : f.id \in rules.hold
  <2>1. \E g \in those : g.id \in p.status.hold \cup p.status.block
    BY <1>2, <1>3, <1>4, <1>6
  <2>2. PlanCore(other).status \in {"BLOCKED", "HOLD"}
    BY <1>1, <2>1 DEF StatusOf
  <2>3. PlanCore(in).status = "HOLD"
    BY <1>1, <1>6 DEF StatusOf, rules
  <2> QED BY <2>2, <2>3 DEF Rank
<1>7. CASE ~(\E f \in facts : f.id \in rules.block) /\ ~(\E f \in facts : f.id \in rules.hold)
  <2>1. PlanCore(in).status = "PROVE"
    BY <1>1, <1>7 DEF StatusOf, rules
  <2>2. PlanCore(other).status \in {"PROVE", "HOLD", "BLOCKED"}
    BY <1>1 DEF StatusOf
  <2> QED BY <2>1, <2>2 DEF Rank
<1> QED BY <1>5, <1>6, <1>7

(* What the default policy requires, an admitted policy requires, except   *)
(* to run a job again whose failure it does not let be explained.          *)
LEMMA RequiredKept ==
  ASSUME NEW in, NEW other, SameChange(in, other), in.policy = DefaultPolicy,
         Admitted(other.policy), IsPolicy(other.policy),
         NEW kind \in KindsOf(PlanCore(in).required), kind \notin JobReruns
  PROVE kind \in KindsOf(PlanCore(other).required)
<1> DEFINE facts == PlanCore(in).facts
           those == PlanCore(other).facts
           p == other.policy
<1>1. in.policy.evidence = Evidence /\ in.policy.baselines = Baselines
  BY DEF DefaultPolicy
<1>2. /\ Baselined(in.policy, facts, kind) \/ (Known(in.policy, kind) /\ Triggered(Requires(in.policy), facts, kind))
      /\ (Baselined(p, those, kind) \/ (Known(p, kind) /\ Triggered(Requires(p), those, kind)))
           => kind \in KindsOf(PlanCore(other).required)
  BY CoreKinds
<1>3. ASSUME NEW id, NEW u, Says(facts, id, u) PROVE \E i : Says(those, i, u)
  BY <1>3, FactsKept
<1>4. CASE Baselined(in.policy, facts, kind)
  <2>1. PICK u : /\ \E id : Says(facts, id, u)
                 /\ \E spec \in Evidence, b \in Baselines :
                      /\ spec.id = kind /\ b.kind = kind /\ u \in spec.subjects
                      /\ LevelOf(in.policy, facts, u) >= b.level
    BY <1>1, <1>4 DEF Baselined
  <2>2. PICK spec \in Evidence, b \in Baselines :
          /\ spec.id = kind /\ b.kind = kind /\ u \in spec.subjects
          /\ LevelOf(in.policy, facts, u) >= b.level
    BY <2>1
  <2>3. PICK k \in p.evidence : k.id = kind /\ u \in k.subjects
    BY <2>2, KindKept
  <2>4. PICK a \in p.baselines : a.kind = kind /\ a.level <= b.level
    BY <2>2 DEF Admitted, AtLeastDefault
  <2>5. a.level \in 0 .. 5 /\ b.level \in 0 .. 5
    BY <1>1, <2>2, <2>4, LevelsOfDefault DEF IsPolicy
  <2>6. LevelOf(p, those, u) >= a.level
    BY <2>2, <2>4, <2>5, LevelsKept
  <2>7. Baselined(p, those, kind)
    BY <1>3, <2>1, <2>3, <2>4, <2>6 DEF Baselined
  <2> QED BY <1>2, <2>7
<1>5. CASE Known(in.policy, kind) /\ Triggered(Requires(in.policy), facts, kind)
  <2>1. PICK id, u : Says(facts, id, u) /\ <<id, kind>> \in Requires(DefaultPolicy)
    BY <1>5 DEF Triggered
  <2>2. Known(p, kind)
    BY <1>1, <1>5, KindKept DEF Known
  <2>3. Requires(DefaultPolicy) \subseteq Requires(p)
    BY DEF Admitted, AtLeastDefault
  <2>4. CASE Says(those, id, u)
    BY <1>2, <2>1, <2>2, <2>3, <2>4 DEF Triggered
  <2>5. CASE id \in AttributedFacts /\ Says(those, "observed:unattributed-failure", u)
    <3>1. kind = "FAILURE_ATTRIBUTION"
      BY <2>1, <2>5, AskedOfJobs DEF AttributedFacts
    <3> QED BY <1>2, <2>2, <2>3, <2>5, <3>1, UnattributedAsks DEF Triggered
  <2> QED BY <2>1, <2>4, <2>5, FactsKept
<1> QED BY <1>2, <1>4, <1>5

(* What the default policy recommends, an admitted one requires or         *)
(* recommends.                                                             *)
LEMMA RecommendedKept ==
  ASSUME NEW in, NEW other, SameChange(in, other), in.policy = DefaultPolicy,
         Admitted(other.policy), NEW kind \in KindsOf(PlanCore(in).recommended)
  PROVE kind \in KindsOf(PlanCore(other).required) \cup KindsOf(PlanCore(other).recommended)
<1> DEFINE facts == PlanCore(in).facts
           those == PlanCore(other).facts
           p == other.policy
<1>1. Known(in.policy, kind) /\ Triggered(Recommends(in.policy), facts, kind)
  BY CoreKinds
<1>2. PICK id, u : Says(facts, id, u) /\ <<id, kind>> \in Recommends(DefaultPolicy)
  BY <1>1 DEF Triggered
<1>3. Says(those, id, u)
  BY <1>2, FactsKept, AskedOfJobs
<1>4. Known(p, kind)
  <2>1. in.policy.evidence = Evidence
    BY DEF DefaultPolicy
  <2> QED BY <1>1, <2>1, KindKept DEF Known
<1>5. <<id, kind>> \in Requires(p) \cup Recommends(p)
  BY <1>2 DEF Admitted, AtLeastDefault
<1> QED BY <1>3, <1>4, <1>5, CoreKinds DEF Triggered

-----------------------------------------------------------------------------
(* The core is the plan of the input, whose policy the planner accepted.   *)
PolicyInv ==
  /\ study \in DOMAIN Studies
  /\ core = PlanCore(input)
  /\ ~Rejected(input)
  /\ IsPolicy(input.policy)

(* Only Adopt changes the policy of a change.                              *)
LEMMA PolicyStays ==
  ASSUME PlanInv, Next, ~Produce, ~Adopt
  PROVE input'.policy = input.policy
<1>1. IsRecordOf(InputFields, input)
  BY DEF PlanInv, IsInput
<1>2. ASSUME NEW f \in {"impact", "signals"}, NEW v, input' = [input EXCEPT ![f] = v]
      PROVE input'.policy = input.policy
  <2>1. f \in InputFields /\ "policy" \in InputFields \ {f}
    BY DEF InputFields
  <2> DEFINE new == [input EXCEPT ![f] = v]
  <2>2. new["policy"] = input["policy"]
    BY <1>1, <2>1, Replaced
  <2> HIDE DEF new
  <2>3. input' = new
    BY <1>2 DEF new
  <2> QED BY <2>2, <2>3
<1>3. ASSUME NEW v, input' = [input EXCEPT !.impact = v] PROVE input'.policy = input.policy
  BY <1>2, <1>3
<1>4. ASSUME NEW v, input' = [input EXCEPT !.signals = v] PROVE input'.policy = input.policy
  BY <1>2, <1>4
<1>5. CASE \E v : input' = [input EXCEPT !.impact = v]
  BY <1>3, <1>5
<1>6. CASE \E v : input' = [input EXCEPT !.signals = v]
  BY <1>4, <1>6
<1>7. (\E v : input' = [input EXCEPT !.impact = v]) \/ (\E v : input' = [input EXCEPT !.signals = v])
  <2>1. CASE Commit \/ CommitElsewhere
    BY <2>1 DEF Commit, CommitElsewhere, Committed
  <2>2. CASE Rebase
    BY <2>2 DEF Rebase
  <2>3. CASE Amend
    BY <2>3 DEF Amend
  <2>4. CASE Report
    BY <2>4 DEF Report
  <2>5. CASE Learn
    BY <2>5 DEF Learn
  <2> QED BY <2>1, <2>2, <2>3, <2>4, <2>5 DEF Next
<1> QED BY <1>5, <1>6, <1>7

(* Adopt changes nothing else, and puts an admissible policy in place of   *)
(* the default.                                                            *)
LEMMA AdoptChanges ==
  ASSUME PlanInv, PolicyInv, Adopt
  PROVE /\ input'.impact = input.impact /\ input'.claims = input.claims /\ input'.signals = input.signals
        /\ input.policy = DefaultPolicy
        /\ IsPolicy(input'.policy)
<1>1. IsRecordOf(InputFields, input)
  BY DEF PlanInv, IsInput
<1>2. PICK p \in Studies[study].policies : input' = [input EXCEPT !.policy = p]
  BY DEF Adopt
<1> DEFINE new == [input EXCEPT !["policy"] = p]
<1>3. /\ new["policy"] = p /\ new["impact"] = input["impact"]
      /\ new["claims"] = input["claims"] /\ new["signals"] = input["signals"]
  <2>1. ASSUME NEW f \in InputFields PROVE \A g \in InputFields \ {f} : [input EXCEPT ![f] = p][g] = input[g]
    BY <1>1, Replaced
  <2>2. ASSUME NEW f \in InputFields PROVE [input EXCEPT ![f] = p][f] = p
    <3>1. f \in DOMAIN input
      BY <1>1, <2>2 DEF IsRecordOf
    <3> QED BY <3>1
  <2>3. "policy" \in InputFields /\ {"impact", "claims", "signals"} \subseteq InputFields \ {"policy"}
    BY DEF InputFields
  <2>4. \A g \in InputFields \ {"policy"} : new[g] = input[g]
    BY <2>1, <2>3
  <2>5. new["policy"] = p
    BY <2>2, <2>3
  <2> QED BY <2>3, <2>4, <2>5
<1> HIDE DEF new
<1>4. input' = new
  BY <1>2 DEF new
<1>5. IsPolicy(p)
  BY <1>2, StudiesAssumption DEF PolicyInv
<1>6. input.policy = DefaultPolicy
  BY DEF Adopt
<1> QED BY <1>3, <1>4, <1>5, <1>6

(* PolicyInv holds at the first plan.                                      *)
LEMMA PolicyInvStart == Init => PolicyInv
<1> SUFFICES ASSUME Init PROVE PolicyInv
  OBVIOUS
<1>1. PICK in \in Studies[study].inputs :
        input = [in EXCEPT !.impact.tree = TreeDigest(in.impact.surfaces, 1)]
  BY DEF Init
<1>2. IsInput(in) /\ IsPolicy(in.policy) /\ ~Rejected(in)
  BY <1>1, StudiesAssumption DEF Init
<1> DEFINE impact == [in.impact EXCEPT !["tree"] = TreeDigest(in.impact.surfaces, 1)]
           new == [in EXCEPT !["impact"] = impact]
<1>3. \A f \in ImpactFields \ {"tree"} : impact[f] = in.impact[f]
  <2>1. "tree" \in ImpactFields
    BY DEF ImpactFields
  <2> QED BY <1>2, <2>1, Replaced DEF IsInput
<1>4. new["impact"] = impact /\ \A f \in InputFields \ {"impact"} : new[f] = in[f]
  <2> HIDE DEF impact
  <2>1. IsRecordOf(InputFields, in)
    BY <1>2 DEF IsInput
  <2>2. ASSUME NEW f \in InputFields PROVE \A g \in InputFields \ {f} : [in EXCEPT ![f] = impact][g] = in[g]
    BY <2>1, Replaced
  <2>3. ASSUME NEW f \in InputFields PROVE [in EXCEPT ![f] = impact][f] = impact
    <3>1. f \in DOMAIN in
      BY <2>1, <2>3 DEF IsRecordOf
    <3> QED BY <3>1
  <2>4. "impact" \in InputFields
    BY DEF InputFields
  <2> QED BY <2>2, <2>3, <2>4
<1>5. input = new
  BY <1>1, <1>2 DEF IsInput, IsRecordOf, InputFields
<1> HIDE DEF new, impact
<1>6. /\ impact.surfaces = in.impact.surfaces /\ impact.analysis = in.impact.analysis
      /\ impact.reversibility = in.impact.reversibility /\ impact.causalWitness = in.impact.causalWitness
  BY <1>3 DEF ImpactFields
<1>7. /\ input.impact = impact /\ input.claims = in.claims /\ input.signals = in.signals
      /\ input.policy = in.policy
  BY <1>4, <1>5 DEF InputFields
<1>8. ~Rejected(input)
  <2>1. ImpactOK(input.impact) <=> ImpactOK(in.impact)
    BY <1>6, <1>7 DEF ImpactOK
  <2> QED BY <1>2, <1>6, <1>7, <2>1 DEF Rejected
<1> QED BY <1>2, <1>7, <1>8 DEF PolicyInv, Init

(* Every step keeps PolicyInv.                                             *)
LEMMA PolicyInvStep == PlanInv /\ PolicyInv /\ [Next]_vars => PolicyInv'
<1> SUFFICES ASSUME PlanInv, PolicyInv, [Next]_vars PROVE PolicyInv'
  OBVIOUS
<1>1. CASE Next /\ ~Produce
  <2>1. Replan
    BY <1>1, StepKeeps
  <2>2. study' = study /\ core' = PlanCore(input') /\ ~Rejected(input')
    BY <2>1 DEF Replan
  <2>3. IsPolicy(input'.policy)
    BY <1>1, PolicyStays, AdoptChanges DEF PolicyInv
  <2> QED BY <2>2, <2>3 DEF PolicyInv
<1>2. CASE Produce
  BY <1>2 DEF Produce, PolicyInv
<1>3. CASE UNCHANGED vars
  BY <1>3 DEF vars, PolicyInv
<1> QED BY <1>1, <1>2, <1>3

(* What the caller's own policy may not lower.                             *)
NeverWeaker ==
  input'.policy # input.policy =>
    /\ \A u \in DOMAIN core.levels : core'.levels[u] >= core.levels[u]
    /\ Rank[core'.status] >= Rank[core.status]
    /\ KindsOf(core.required) \subseteq KindsOf(core'.required) \cup JobReruns
    /\ KindsOf(core.recommended) \subseteq KindsOf(core'.required) \cup KindsOf(core'.recommended)

(* A step that changes the policy lowers nothing.                          *)
LEMMA NeverWeakerStep == PlanInv /\ PolicyInv /\ [Next]_vars => NeverWeaker
<1> SUFFICES ASSUME PlanInv, PolicyInv, [Next]_vars, input'.policy # input.policy PROVE NeverWeaker
  BY DEF NeverWeaker
<1>1. Adopt
  BY PolicyStays DEF vars, Produce
<1>2. /\ core = PlanCore(input) /\ core' = PlanCore(input')
      /\ ~Rejected(input) /\ ~Rejected(input')
  BY <1>1 DEF PolicyInv, Adopt, Redeclare, Replan
<1>3. /\ SameChange(input, input') /\ input.policy = DefaultPolicy
      /\ Admitted(input'.policy) /\ IsPolicy(input'.policy)
  BY <1>1, <1>2, AdoptChanges DEF Rejected, SameChange
<1>4. ASSUME NEW u \in DOMAIN core.levels PROVE core'.levels[u] >= core.levels[u]
  <2>1. /\ core.levels = Levels(input.policy, core.facts)
        /\ core'.levels = Levels(input'.policy, core'.facts)
    BY <1>2, CoreRest
  <2>2. PICK id : Says(core.facts, id, u)
    BY <2>1 DEF Levels, Says
  <2>3. \E i : Says(core'.facts, i, u)
    BY <1>2, <1>3, <2>2, FactsKept
  <2>4. /\ core.levels[u] = LevelOf(input.policy, core.facts, u)
        /\ core'.levels[u] = LevelOf(input'.policy, core'.facts, u)
    BY <2>1, <2>3 DEF Levels, Says
  <2> QED BY <1>2, <1>3, <2>4, LevelsKept
<1>5. Rank[core'.status] >= Rank[core.status]
  BY <1>2, <1>3, StatusKept
<1>6. KindsOf(core.required) \subseteq KindsOf(core'.required) \cup JobReruns
  BY <1>2, <1>3, RequiredKept
<1>7. KindsOf(core.recommended) \subseteq KindsOf(core'.required) \cup KindsOf(core'.recommended)
  BY <1>2, <1>3, RecommendedKept
<1> QED BY <1>4, <1>5, <1>6, <1>7 DEF NeverWeaker

(* A caller may supply a stricter policy, never a looser one (policy.ts,   *)
(* assertPolicyMinimum): whatever policy is accepted in place of the       *)
(* default one, for whatever change, no level and no status falls, and     *)
(* nothing that was required or recommended is lost, but the rerun of a    *)
(* job whose failure the policy does not let be explained.                 *)
THEOREM NeverLooser == Spec => StricterNeverWeaker
<1>1. PlanInv /\ PolicyInv /\ [Next]_vars => [NeverWeaker]_vars
  BY NeverWeakerStep
<1>2. Spec => [][NeverWeaker]_vars
  BY <1>1, PlanInvStart, PlanInvStep, PolicyInvStart, PolicyInvStep, PTL DEF Spec
<1>3. [][NeverWeaker]_vars <=> StricterNeverWeaker
  BY DEF NeverWeaker, StricterNeverWeaker
<1> QED BY <1>2, <1>3

-----------------------------------------------------------------------------
(* Doubts and their answers.                                               *)

(* The evidence a plan asks for or recommends.                             *)
Answers(in) == KindsOf(PlanCore(in).required) \cup KindsOf(PlanCore(in).recommended)

(* An admitted policy asks for what the default one asks for.              *)
LEMMA AskedIsAnswer ==
  ASSUME NEW in, Admitted(in.policy), NEW id, NEW u, Says(PlanCore(in).facts, id, u), NEW kind,
         <<id, kind>> \in Requires(DefaultPolicy) \cup Recommends(DefaultPolicy)
  PROVE kind \in Answers(in)
<1> DEFINE p == in.policy
           facts == PlanCore(in).facts
<1>1. <<id, kind>> \in Requires(p) \cup Recommends(p)
  BY DEF Admitted, AtLeastDefault
<1>2. Known(p, kind)
  BY <1>1 DEF Admitted, ReferencesResolve, KindIds, Known, Requires, Recommends
<1>3. Triggered(Requires(p), facts, kind) \/ Triggered(Recommends(p), facts, kind)
  BY <1>1 DEF Triggered
<1> HIDE DEF p, facts
<1> QED BY <1>2, <1>3, CoreKinds DEF Answers, p, facts

(* A fact with a floor asks for the evidence of every level up to it.      *)
LEMMA FlooredIsAnswer ==
  ASSUME NEW in, Admitted(in.policy), IsPolicy(in.policy), NEW u, NEW e \in Floors,
         Says(PlanCore(in).facts, e.fact, u),
         NEW b \in Baselines, b.level <= e.level,
         NEW spec \in Evidence, spec.id = b.kind, u \in spec.subjects
  PROVE b.kind \in Answers(in)
<1> DEFINE p == in.policy
           facts == PlanCore(in).facts
           x == FloorOf(p, facts, u)
<1>1. PICK a \in p.baselines : a.kind = b.kind /\ a.level <= b.level
  BY DEF Admitted, AtLeastDefault
<1>2. PICK k \in p.evidence : k.id = spec.id /\ spec.subjects \subseteq k.subjects
  BY KindKept
<1>3. PICK f \in p.floors : f.fact = e.fact /\ f.level >= e.level
  BY DEF Admitted, AtLeastDefault, FloorAtLeast
<1>4. /\ x \in 0 .. 5
      /\ \A g \in p.floors : Says(facts, g.fact, u) => x >= g.level
  BY FloorIsGreatest
<1>5. x >= f.level
  BY <1>3, <1>4
<1>6. a.level \in 0 .. 5 /\ b.level \in 0 .. 5 /\ e.level \in 0 .. 5 /\ f.level \in 0 .. 5
  <2>1. DefaultPolicy.baselines = Baselines
    BY DEF DefaultPolicy
  <2> QED BY <1>1, <1>3, <2>1, FloorsOfOthers, LevelsOfDefault DEF IsPolicy
<1>7. p.raises.cap = 4
  BY DEF Admitted, AtLeastDefault, DefaultPolicy
<1>8. LevelOf(p, facts, u) >= x
  <2> HIDE DEF x
  <2>1. LevelOf(p, facts, u) \in {x, Greater(x, Lesser(4, x + 1))}
    BY <1>7 DEF LevelOf, x
  <2>2. x \in Nat
    BY <1>4
  <2> QED BY <2>1, <2>2 DEF Greater, Lesser
<1>9. LevelOf(p, facts, u) \in Nat
  <2> HIDE DEF x
  <2>1. LevelOf(p, facts, u) \in {x, Greater(x, Lesser(4, x + 1))}
    BY <1>7 DEF LevelOf, x
  <2>2. x \in Nat
    BY <1>4
  <2> QED BY <2>1, <2>2 DEF Greater, Lesser
<1>10. LevelOf(p, facts, u) >= a.level
  <2> HIDE DEF x
  <2>1. x \in Nat
    BY <1>4
  <2> QED BY <1>1, <1>3, <1>5, <1>6, <1>8, <1>9, <2>1
<1>11. Baselined(p, facts, b.kind)
  BY <1>1, <1>2, <1>10 DEF Baselined
<1> QED BY <1>11, CoreKinds DEF Answers

(* The rows of the default policy that answer doubts.                      *)
LEMMA AnsweringTriggers ==
  /\ <<"impact:unbounded", "FULL_TEST_SUITE">> \in Requires(DefaultPolicy)
  /\ <<"witness:infeasible", "PRODUCTION_PATH_TEST">> \in Requires(DefaultPolicy)
  /\ <<"witness:infeasible", "TARGETED_CORPUS">> \in Requires(DefaultPolicy)
  /\ <<"oracle:changed", "GATE_DELTA_REVIEW">> \in Requires(DefaultPolicy)
  /\ <<"proof-infrastructure:changed", "GATE_DELTA_REVIEW">> \in Requires(DefaultPolicy)
  /\ <<"observed:unattributed-failure", "FAILURE_ATTRIBUTION">> \in Requires(DefaultPolicy)
  /\ <<"observed:baseline-reproduction", "FAILURE_ATTRIBUTION">> \in Requires(DefaultPolicy)
  /\ <<"impact:localized-unknowns", "TARGETED_REGRESSION">> \in Recommends(DefaultPolicy)
  /\ <<"claim:empirical:transitive", "BENCHMARK_PROTOCOL">> \in Recommends(DefaultPolicy)
<1>1. \A t \in Triggers : \A kind \in t.require : <<t.fact, kind>> \in Requires(DefaultPolicy)
  BY DEF Requires, DefaultPolicy
<1>2. \A t \in Triggers : \A kind \in t.recommend : <<t.fact, kind>> \in Recommends(DefaultPolicy)
  BY DEF Recommends, DefaultPolicy
<1>3. ASSUME NEW facts, NEW kinds, NEW f \in facts, Requiring(facts, kinds) \subseteq Triggers
      PROVE \A kind \in kinds : <<f, kind>> \in Requires(DefaultPolicy)
  <2> DEFINE t == Trigger(f, kinds, {})
  <2>1. t \in Requiring(facts, kinds) /\ t.fact = f /\ t.require = kinds
    BY DEF Requiring, Trigger
  <2> HIDE DEF t
  <2> QED BY <1>1, <1>3, <2>1
<1>4. ASSUME NEW facts, NEW kinds, NEW f \in facts, Recommending(facts, kinds) \subseteq Triggers
      PROVE \A kind \in kinds : <<f, kind>> \in Recommends(DefaultPolicy)
  <2> DEFINE t == Trigger(f, {}, kinds)
  <2>1. t \in Recommending(facts, kinds) /\ t.fact = f /\ t.recommend = kinds
    BY DEF Recommending, Trigger
  <2> HIDE DEF t
  <2> QED BY <1>2, <1>4, <2>1
<1>5. ASSUME NEW f, NEW kinds, NEW others, Trigger(f, kinds, others) \in Triggers
      PROVE \A kind \in kinds : <<f, kind>> \in Requires(DefaultPolicy)
  <2> DEFINE t == Trigger(f, kinds, others)
  <2>1. t.fact = f /\ t.require = kinds
    BY DEF Trigger
  <2> HIDE DEF t
  <2> QED BY <1>1, <1>5, <2>1 DEF t
<1>6. /\ Trigger("impact:unbounded", {"FULL_TEST_SUITE"}, {"FULL_CORPUS", "INDEPENDENT_REVIEW"}) \in Triggers
      /\ Trigger("witness:infeasible", {"PRODUCTION_PATH_TEST", "TARGETED_CORPUS"},
                 {"INDEPENDENT_REVIEW"}) \in Triggers
      /\ Requiring({"oracle:changed", "proof-infrastructure:changed"},
                   {"GATE_DELTA_REVIEW", "AFFECTED_JOB_RERUN"}) \subseteq Triggers
      /\ Requiring({"observed:unattributed-failure", "observed:baseline-reproduction"},
                   {"FAILURE_ATTRIBUTION"}) \subseteq Triggers
      /\ Recommending({"impact:localized-unknowns"}, {"TARGETED_REGRESSION"}) \subseteq Triggers
      /\ Recommending({Boundary("benchmark", "transitive"), "claim:empirical:transitive"},
                      {"BENCHMARK_PROTOCOL"}) \subseteq Triggers
  BY DEF Triggers
<1> QED BY <1>3, <1>4, <1>5, <1>6

(* The floors and baselines of the default policy that answer doubts.      *)
LEMMA AnsweringLevels ==
  /\ \E e \in Floors : e.fact = "impact:unbounded" /\ e.level = 3
  /\ \E e \in Floors : e.fact = "product:refactor" /\ e.level = 1
  /\ \E e \in Floors : e.fact = "product:behavior-change" /\ e.level = 2
  /\ \E b \in Baselines : b.kind = "AFFECTED_TESTS" /\ b.level = 1
  /\ \E b \in Baselines : b.kind = "TARGETED_REGRESSION" /\ b.level = 2
  /\ \E spec \in Evidence : spec.id = "AFFECTED_TESTS" /\ "product" \in spec.subjects
  /\ \E spec \in Evidence : spec.id = "TARGETED_REGRESSION" /\ "product" \in spec.subjects
<1>1. ASSUME NEW level, NEW facts, NEW f \in facts, Floor(level, facts) \subseteq Floors
      PROVE \E e \in Floors : e.fact = f /\ e.level = level
  <2> DEFINE x == [fact |-> f, level |-> level]
  <2>1. x \in Floor(level, facts) /\ x.fact = f /\ x.level = level
    BY <1>1 DEF Floor
  <2> HIDE DEF x
  <2> QED BY <1>1, <2>1
<1>2. ASSUME NEW level, NEW kinds, NEW k \in kinds, Baseline(level, kinds) \subseteq Baselines
      PROVE \E b \in Baselines : b.kind = k /\ b.level = level
  <2> DEFINE x == [level |-> level, kind |-> k]
  <2>1. x \in Baseline(level, kinds) /\ x.kind = k /\ x.level = level
    BY <1>2 DEF Baseline
  <2> HIDE DEF x
  <2> QED BY <1>2, <2>1
<1>3. ASSUME NEW w, NEW b, NEW subjects, NEW v, NEW ids, NEW k \in ids, Kinds(w, b, subjects, v, ids) \subseteq Evidence
      PROVE \E spec \in Evidence : spec.id = k /\ spec.subjects = subjects
  <2> DEFINE x == [id |-> k, weight |-> w, binding |-> b, subjects |-> subjects,
                   verification |-> v, semanticsVersion |-> 1]
  <2>1. x \in Kinds(w, b, subjects, v, ids) /\ x.id = k /\ x.subjects = subjects
    BY <1>3 DEF Kinds
  <2> HIDE DEF x
  <2> QED BY <1>3, <2>1
<1> DEFINE f1 == {"tests:changed", "oracle:changed", "proof-infrastructure:changed",
                  "evaluation:touched", "product:refactor"}
           f2 == {"product:behavior-change", "product:new-behavior",
                  "execution-context:changed", "claim:high:transitive",
                  "claim:high:oracle", "claim:scope:component"}
                 \cup {Boundary(b, "touched") : b \in CompatibilityBoundaries}
           f3 == {"runtime:live:touched", "claim:high:direct", "claim:critical:transitive",
                  "claim:critical:oracle", "reversibility:costly", "impact:unbounded",
                  Boundary("security", "touched")}
                 \cup {Boundary(b, "behavior") : b \in BehaviorBoundaries}
<1>4. Floor(1, f1) \subseteq Floors /\ Floor(2, f2) \subseteq Floors /\ Floor(3, f3) \subseteq Floors
  BY DEF Floors
<1>5. "product:refactor" \in f1 /\ "product:behavior-change" \in f2 /\ "impact:unbounded" \in f3
  OBVIOUS
<1> HIDE DEF f1, f2, f3
<1>6. /\ Baseline(1, {"STATIC_CHECKS", "AFFECTED_TESTS"}) \subseteq Baselines
      /\ Baseline(2, {"TARGETED_REGRESSION", "REVISION_IDENTITY"}) \subseteq Baselines
  BY DEF Baselines
<1>7. /\ Kinds("targeted", "surface-content", {"product", "evaluation"}, "executed",
               {"AFFECTED_TESTS"}) \subseteq Evidence
      /\ Kinds("targeted", "surface-content", {"product"}, "executed",
               {"CHARACTERIZATION_TESTS", "CAUSAL_WITNESS", "ACCEPTANCE_TEST",
                "PRODUCTION_PATH_TEST", "TARGETED_REGRESSION", "TARGETED_INTEGRATION",
                "TARGETED_CORPUS", "BOUNDARY_COMPATIBILITY", "INVARIANT_CHECK"}) \subseteq Evidence
  BY DEF Evidence
<1>8. /\ \E e \in Floors : e.fact = "impact:unbounded" /\ e.level = 3
      /\ \E e \in Floors : e.fact = "product:refactor" /\ e.level = 1
      /\ \E e \in Floors : e.fact = "product:behavior-change" /\ e.level = 2
  BY <1>1, <1>4, <1>5
<1>9. /\ \E b \in Baselines : b.kind = "AFFECTED_TESTS" /\ b.level = 1
      /\ \E b \in Baselines : b.kind = "TARGETED_REGRESSION" /\ b.level = 2
  BY <1>2, <1>6
<1>10. /\ \E spec \in Evidence : spec.id = "AFFECTED_TESTS" /\ "product" \in spec.subjects
       /\ \E spec \in Evidence : spec.id = "TARGETED_REGRESSION" /\ "product" \in spec.subjects
  BY <1>3, <1>7
<1> QED BY <1>8, <1>9, <1>10

(* A fact of what was declared, or of its bound, is a fact of the plan.    *)
LEMMA DeclaredSays ==
  ASSUME NEW in, NEW id, NEW u,
         Says(SurfaceFacts(in.impact), id, u) \/ Says(BoundFacts(in, BoundSeen(in)), id, u)
  PROVE Says(PlanCore(in).facts, id, u)
<1>1. Says(GivenFacts(in), id, u)
  BY DEF Says, GivenFacts, SeenFacts
<1> QED BY <1>1, CoreSays

(* A fact about some surfaces is said.                                     *)
LEMMA AboutSays ==
  ASSUME NEW id, NEW u, NEW surfaces, surfaces # {}
  PROVE Says(About(id, u, surfaces), id, u)
<1> DEFINE x == Fact(id, u, Ids(surfaces), {})
<1>1. x \in About(id, u, surfaces) /\ x.id = id /\ x.subject = u
  BY DEF About, Fact
<1> HIDE DEF x
<1> QED BY <1>1 DEF Says

(* A conditional doubt is raised under its condition only.                 *)
LEMMA DoubtIs ==
  ASSUME NEW condition, NEW id, NEW kinds, NEW d \in DoubtIf(condition, id, kinds)
  PROVE condition /\ d.id = id /\ d.mitigatedBy = kinds
BY DEF DoubtIf, Doubt

(* An unbounded impact asks for the whole suite.                           *)
LEMMA UnboundedAnswer ==
  ASSUME NEW in, Admitted(in.policy), BoundSeen(in) = "unbounded"
  PROVE Says(PlanCore(in).facts, "impact:unbounded", "product") /\ "FULL_TEST_SUITE" \in Answers(in)
<1> DEFINE x == Fact("impact:unbounded", "product", {}, {})
<1>1. x \in BoundFacts(in, BoundSeen(in))
  BY DEF BoundFacts
<1>2. x.id = "impact:unbounded" /\ x.subject = "product"
  BY DEF Fact
<1> HIDE DEF x
<1>3. Says(BoundFacts(in, BoundSeen(in)), "impact:unbounded", "product")
  BY <1>1, <1>2 DEF Says
<1>4. Says(PlanCore(in).facts, "impact:unbounded", "product")
  BY <1>3, DeclaredSays
<1> QED BY <1>4, AskedIsAnswer, AnsweringTriggers

(* What the unknowns of an analysis do not name may be anything; what they *)
(* name is tested again.                                                   *)
LEMMA UnknownAnswer ==
  ASSUME NEW in, Admitted(in.policy), IsPolicy(in.policy), NEW u \in in.impact.analysis.unknowns,
         \/ BoundSeen(in) # "bounded-uncertain"
         \/ Direct(in.impact.surfaces) \cup Of(in.impact.surfaces, RuntimeRoles) # {}
  PROVE (IF u # {} THEN {"TARGETED_REGRESSION"} ELSE {"FULL_TEST_SUITE"}) \subseteq Answers(in)
<1> DEFINE seen == SeenFacts(in)
           analysis == in.impact.analysis
<1>1. ASSUME u = {} PROVE BoundSeen(in) = "unbounded"
  <2>1. IsUnbounded(in, seen)
    BY <1>1 DEF IsUnbounded
  <2> QED BY <2>1 DEF BoundSeen, BoundOf
<1>2. ASSUME u # {} PROVE BoundSeen(in) \in {"unbounded", "bounded-uncertain"} /\ Localized(analysis) # {}
  <2>1. Localized(analysis) # {}
    BY <1>2 DEF Localized
  <2>2. IsUncertain(analysis)
    BY <2>1 DEF IsUncertain
  <2>3. BoundOf(in, seen) \in {"unbounded", "bounded-uncertain"}
    <3>1. CASE IsUnbounded(in, seen)
      BY <3>1 DEF BoundOf
    <3>2. CASE ~IsUnbounded(in, seen)
      BY <2>2, <3>2 DEF BoundOf
    <3> QED BY <3>1, <3>2
  <2> QED BY <2>1, <2>3 DEF BoundSeen
<1>3. ASSUME u # {}, BoundSeen(in) = "unbounded" PROVE "TARGETED_REGRESSION" \in Answers(in)
  <2>1. Says(PlanCore(in).facts, "impact:unbounded", "product")
    BY <1>3, UnboundedAnswer
  <2>2. PICK e \in Floors : e.fact = "impact:unbounded" /\ e.level = 3
    BY AnsweringLevels
  <2>3. PICK b \in Baselines : b.kind = "TARGETED_REGRESSION" /\ b.level = 2
    BY AnsweringLevels
  <2>4. PICK spec \in Evidence : spec.id = "TARGETED_REGRESSION" /\ "product" \in spec.subjects
    BY AnsweringLevels
  <2>5. b.level <= e.level
    BY <2>2, <2>3
  <2>6. b.kind \in Answers(in)
    BY <2>1, <2>2, <2>3, <2>4, <2>5, FlooredIsAnswer
  <2> QED BY <2>3, <2>6
<1>4. ASSUME u # {}, BoundSeen(in) = "bounded-uncertain" PROVE "TARGETED_REGRESSION" \in Answers(in)
  <2> DEFINE runtime == Of(in.impact.surfaces, RuntimeRoles)
             subjects == {SubjectOfRole(s.role) :
                            s \in IF runtime # {} THEN runtime ELSE Direct(in.impact.surfaces)}
             each(id, surfaces) == {Fact(id, subject, surfaces, {}) : subject \in subjects}
  <2>1. PICK subject \in subjects : TRUE
    BY <1>4
  <2> DEFINE x == Fact("impact:localized-unknowns", subject, Localized(analysis), {})
  <2>2. x \in each("impact:localized-unknowns", Localized(analysis))
    OBVIOUS
  <2>3. each("impact:localized-unknowns", Localized(analysis)) \subseteq BoundFacts(in, "bounded-uncertain")
    BY <1>2, <1>4 DEF BoundFacts
  <2>4. x.id = "impact:localized-unknowns" /\ x.subject = subject
    BY DEF Fact
  <2> HIDE DEF x, each, subjects
  <2>5. Says(BoundFacts(in, BoundSeen(in)), "impact:localized-unknowns", subject)
    BY <1>4, <2>2, <2>3, <2>4 DEF Says
  <2>6. Says(PlanCore(in).facts, "impact:localized-unknowns", subject)
    BY <2>5, DeclaredSays
  <2> QED BY <2>6, AskedIsAnswer, AnsweringTriggers
<1> QED BY <1>1, <1>2, <1>3, <1>4, UnboundedAnswer

(* A product surface of unknown coverage is tested.                        *)
LEMMA CoverageAnswer ==
  ASSUME NEW in, Admitted(in.policy), IsPolicy(in.policy), Direct(Of(in.impact.surfaces, {"product"})) # {}
  PROVE "AFFECTED_TESTS" \in Answers(in)
<1> DEFINE product == Direct(Of(in.impact.surfaces, {"product"}))
<1>1. ProductFacts(in.impact) \subseteq SurfaceFacts(in.impact)
  BY DEF SurfaceFacts
<1>2. /\ Behavioral(product) = {} => About("product:refactor", "product", product) \subseteq ProductFacts(in.impact)
      /\ About("product:behavior-change", "product", Behavioral(product)) \subseteq ProductFacts(in.impact)
  BY DEF ProductFacts
<1> HIDE DEF product
<1>3. \E e \in Floors : e.level >= 1 /\ Says(SurfaceFacts(in.impact), e.fact, "product")
  <2>1. CASE Behavioral(product) = {}
    <3>1. Says(About("product:refactor", "product", product), "product:refactor", "product")
      BY AboutSays DEF product
    <3>2. Says(SurfaceFacts(in.impact), "product:refactor", "product")
      BY <1>1, <1>2, <2>1, <3>1 DEF Says
    <3>3. PICK e \in Floors : e.fact = "product:refactor" /\ e.level = 1
      BY AnsweringLevels
    <3> QED BY <3>2, <3>3
  <2>2. CASE Behavioral(product) # {}
    <3>1. Says(About("product:behavior-change", "product", Behavioral(product)), "product:behavior-change", "product")
      BY <2>2, AboutSays
    <3>2. Says(SurfaceFacts(in.impact), "product:behavior-change", "product")
      BY <1>1, <1>2, <3>1 DEF Says
    <3>3. PICK e \in Floors : e.fact = "product:behavior-change" /\ e.level = 2
      BY AnsweringLevels
    <3> QED BY <3>2, <3>3
  <2> QED BY <2>1, <2>2
<1>4. PICK e \in Floors : e.level >= 1 /\ Says(SurfaceFacts(in.impact), e.fact, "product")
  BY <1>3
<1>5. Says(PlanCore(in).facts, e.fact, "product")
  BY <1>4, DeclaredSays
<1>6. PICK b \in Baselines : b.kind = "AFFECTED_TESTS" /\ b.level = 1
  BY AnsweringLevels
<1>7. PICK spec \in Evidence : spec.id = "AFFECTED_TESTS" /\ "product" \in spec.subjects
  BY AnsweringLevels
<1>8. e.level \in 0 .. 5
  BY FloorsOfOthers
<1>9. b.level <= e.level
  BY <1>4, <1>6, <1>8
<1>10. b.kind \in Answers(in)
  BY <1>5, <1>6, <1>7, <1>9, FlooredIsAnswer
<1> QED BY <1>6, <1>10

(* A changed test or gate that lists nothing is reviewed.                  *)
LEMMA ProofAnswer ==
  ASSUME NEW in, Admitted(in.policy), NEW s \in Behavioral(Direct(Of(in.impact.surfaces, ProofRoles)))
  PROVE "GATE_DELTA_REVIEW" \in Answers(in)
<1> DEFINE direct == Direct(in.impact.surfaces)
<1>1. s \in direct /\ s.behaviorChange # "none" /\ s.role \in {"test", "proof-infrastructure"}
  BY DEF Behavioral, Direct, Of, ProofRoles
<1>2. /\ About("oracle:changed", "proof-infrastructure", Behavioral(Of(direct, {"test"})))
           \subseteq SurfaceFacts(in.impact)
      /\ About("proof-infrastructure:changed", "proof-infrastructure", Of(direct, {"proof-infrastructure"}))
           \subseteq SurfaceFacts(in.impact)
  BY DEF SurfaceFacts
<1> HIDE DEF direct
<1>3. CASE s.role = "test"
  <2>1. Behavioral(Of(direct, {"test"})) # {}
    BY <1>1, <1>3 DEF Behavioral, Of
  <2>2. Says(About("oracle:changed", "proof-infrastructure", Behavioral(Of(direct, {"test"}))),
             "oracle:changed", "proof-infrastructure")
    BY <2>1, AboutSays
  <2>3. Says(SurfaceFacts(in.impact), "oracle:changed", "proof-infrastructure")
    BY <1>2, <2>2 DEF Says
  <2>4. Says(PlanCore(in).facts, "oracle:changed", "proof-infrastructure")
    BY <2>3, DeclaredSays
  <2> QED BY <2>4, AskedIsAnswer, AnsweringTriggers
<1>4. CASE s.role = "proof-infrastructure"
  <2>1. Of(direct, {"proof-infrastructure"}) # {}
    BY <1>1, <1>4 DEF Of
  <2>2. Says(About("proof-infrastructure:changed", "proof-infrastructure", Of(direct, {"proof-infrastructure"})),
             "proof-infrastructure:changed", "proof-infrastructure")
    BY <2>1, AboutSays
  <2>3. Says(SurfaceFacts(in.impact), "proof-infrastructure:changed", "proof-infrastructure")
    BY <1>2, <2>2 DEF Says
  <2>4. Says(PlanCore(in).facts, "proof-infrastructure:changed", "proof-infrastructure")
    BY <2>3, DeclaredSays
  <2> QED BY <2>4, AskedIsAnswer, AnsweringTriggers
<1> QED BY <1>1, <1>3, <1>4

(* A failure that is not attributed, or that the baseline reproduces, is   *)
(* attributed by someone.                                                  *)
LEMMA SignalAnswer ==
  ASSUME NEW in, Admitted(in.policy), NEW c \in PlanCore(in).signals,
         c.classification \in {"unattributed", "pre-existing"}
  PROVE "FAILURE_ATTRIBUTION" \in Answers(in)
<1> DEFINE bound == BoundSeen(in)
<1>1. c \in OtherReadings(in) \cup ProductReadings(in) \cup JobReadings(in, bound)
  BY CoreRest
<1> HIDE DEF bound
<1>2. ASSUME NEW g PROVE OtherRevision(g).classification = "other-revision"
  BY DEF OtherRevision, Classified
<1>3. ASSUME NEW g, NEW x, c = Recorded(g, x, in.impact) PROVE c = x
  BY <1>2, <1>3 DEF Recorded
<1>4. c \notin OtherReadings(in)
  BY <1>2 DEF OtherReadings
<1>5. ASSUME c \in ProductReadings(in)
      PROVE Says(c.facts, "observed:baseline-reproduction", "product")
  <2>1. PICK g : c = ClassifyProductSignal(g, in.impact)
    BY <1>3, <1>5 DEF ProductReadings
  <2> DEFINE x == Observed("observed:baseline-reproduction", "product", g)
             reproduces == g.signal \in PreExistingCapable /\ "REPRODUCES_ON_BASELINE" \in g.attribution
  <2>2. reproduces
    BY <2>1 DEF ClassifyProductSignal, Classified
  <2>3. c.facts = {x}
    BY <2>1, <2>2 DEF ClassifyProductSignal, Classified
  <2>4. x.id = "observed:baseline-reproduction" /\ x.subject = "product"
    BY DEF Observed, Fact
  <2> HIDE DEF x
  <2> QED BY <2>3, <2>4 DEF Says
<1>6. ASSUME c \in JobReadings(in, bound)
      PROVE \E u : Says(c.facts, "observed:unattributed-failure", u)
  <2>1. PICK g : c = ClassifyInfrastructureSignal(g, in, bound)
    BY <1>3, <1>6 DEF JobReadings
  <2>2. /\ c.facts = ShownBy(g, ExercisesOf(g, in, bound), BasisOf(g, in, bound))
        /\ BasisOf(g, in, bound) = {}
    BY <2>1, JobReading
  <2>3. PICK u : c.facts = {Observed("observed:unattributed-failure", u, g)}
    BY <2>2 DEF ShownBy
  <2> DEFINE x == Observed("observed:unattributed-failure", u, g)
  <2>4. x.id = "observed:unattributed-failure" /\ x.subject = u
    BY DEF Observed, Fact
  <2> HIDE DEF x
  <2>5. c.facts = {x}
    BY <2>3 DEF x
  <2> QED BY <2>4, <2>5 DEF Says
<1>7. \A id, u : Says(c.facts, id, u) => Says(PlanCore(in).facts, id, u)
  <2> SUFFICES ASSUME NEW id, NEW u, Says(c.facts, id, u) PROVE Says(PlanCore(in).facts, id, u)
    OBVIOUS
  <2>1. Says(GivenFacts(in), id, u) \/ Says(JobFacts(in), id, u)
    BY <1>1, <1>4 DEF Says, GivenFacts, SeenFacts, JobFacts, bound
  <2> QED BY <2>1, CoreSays
<1> QED BY <1>1, <1>4, <1>5, <1>6, <1>7, AskedIsAnswer, AnsweringTriggers

(* The doubts of a plan, and what each one stands on.                      *)
LEMMA DoubtCases ==
  ASSUME NEW in, NEW plan, NEW spared, NEW d \in ResidualUncertainty(in, plan, spared)
  PROVE \/ d.mitigatedBy = {}
        \/ d.id = "claim.outside-impact"
        \/ plan.bound = "unbounded" /\ d.mitigatedBy = {"FULL_TEST_SUITE"}
        \/ /\ d.id = "impact.unknown"
           /\ \E u \in in.impact.analysis.unknowns :
                d.mitigatedBy = IF u # {} THEN {"TARGETED_REGRESSION"} ELSE {"FULL_TEST_SUITE"}
        \/ Direct(Of(in.impact.surfaces, {"product"})) # {} /\ d.mitigatedBy = {"AFFECTED_TESTS"}
        \/ /\ HasFact(plan.facts, "witness:infeasible")
           /\ d.mitigatedBy = {"PRODUCTION_PATH_TEST", "TARGETED_CORPUS"}
        \/ /\ Behavioral(Direct(Of(in.impact.surfaces, ProofRoles))) # {}
           /\ d.mitigatedBy = {"GATE_DELTA_REVIEW"}
        \/ HasFact(plan.facts, "claim:empirical:transitive") /\ d.mitigatedBy = {"BENCHMARK_PROTOCOL"}
        \/ /\ \E c \in plan.signals : c.classification \in {"unattributed", "pre-existing"}
           /\ d.mitigatedBy = {"FAILURE_ATTRIBUTION"}
<1> DEFINE impact == in.impact
           unbounded == plan.bound = "unbounded"
           suite == {"FULL_TEST_SUITE"}
           unknown == {Doubt("impact.unknown", IF u # {} THEN {"TARGETED_REGRESSION"} ELSE suite) :
                         u \in impact.analysis.unknowns}
           untested == \E s \in Direct(Of(impact.surfaces, {"product"})) :
                          s.coverage = "unknown" /\ s.behaviorChange = "none"
           unlisted == \E s \in Behavioral(Direct(Of(impact.surfaces, ProofRoles))) : s.exercises = None
           failed == \E c \in plan.signals : c.classification \in {"unattributed", "pre-existing"}
           relies == /\ plan.bound = "bounded-confident"
                     /\ \E spec \in spared : spec.weight # "targeted"
           d1 == DoubtIf(impact.analysis.method = "declared", "impact.declared", {})
           d2 == DoubtIf(~TrustsImpact(plan.bound), "impact.bound", IF unbounded THEN suite ELSE {})
           d3 == DoubtIf(untested, "coverage.unknown", {"AFFECTED_TESTS"})
           d4 == DoubtIf(HasFact(plan.facts, "witness:infeasible"), "witness.infeasible",
                         {"PRODUCTION_PATH_TEST", "TARGETED_CORPUS"})
           d5 == DoubtIf(plan.outside # {}, "claim.outside-impact",
                         IF unbounded THEN {"INVARIANT_CHECK"} ELSE {})
           d6 == DoubtIf(unlisted, "proof.exercises-unknown", {"GATE_DELTA_REVIEW"})
           d7 == DoubtIf(HasFact(plan.facts, "claim:empirical:transitive"),
                         "claim.empirical.transitive", {"BENCHMARK_PROTOCOL"})
           d8 == DoubtIf(failed, "signal", {"FAILURE_ATTRIBUTION"})
           d9 == DoubtIf(relies, "exemptions.rely-on-impact", {})
<1>1. d \in d1 \cup d2 \cup unknown \cup d3 \cup d4 \cup d5 \cup d6 \cup d7 \cup d8 \cup d9
  BY DEF ResidualUncertainty
<1>2. ASSUME d \in d1 \/ d \in d9 PROVE d.mitigatedBy = {}
  BY <1>2, DoubtIs
<1>3. ASSUME d \in d2 PROVE d.mitigatedBy = {} \/ (plan.bound = "unbounded" /\ d.mitigatedBy = {"FULL_TEST_SUITE"})
  <2>1. d.mitigatedBy = IF unbounded THEN suite ELSE {}
    BY <1>3, DoubtIs
  <2> QED BY <2>1
<1>4. ASSUME d \in unknown
      PROVE /\ d.id = "impact.unknown"
            /\ \E u \in in.impact.analysis.unknowns :
                 d.mitigatedBy = IF u # {} THEN {"TARGETED_REGRESSION"} ELSE {"FULL_TEST_SUITE"}
  <2> DEFINE answers(u) == IF u # {} THEN {"TARGETED_REGRESSION"} ELSE suite
  <2>1. PICK u \in impact.analysis.unknowns : d = Doubt("impact.unknown", answers(u))
    BY <1>4
  <2>2. d.id = "impact.unknown" /\ d.mitigatedBy = answers(u)
    <3> HIDE DEF answers
    <3> QED BY <2>1 DEF Doubt
  <2> QED BY <2>2
<1>5. ASSUME d \in d3
      PROVE Direct(Of(in.impact.surfaces, {"product"})) # {} /\ d.mitigatedBy = {"AFFECTED_TESTS"}
  <2>1. untested => Direct(Of(in.impact.surfaces, {"product"})) # {}
    OBVIOUS
  <2> HIDE DEF untested
  <2>2. untested /\ d.mitigatedBy = {"AFFECTED_TESTS"}
    BY <1>5, DoubtIs
  <2> QED BY <2>1, <2>2
<1>6. ASSUME d \in d4
      PROVE HasFact(plan.facts, "witness:infeasible") /\ d.mitigatedBy = {"PRODUCTION_PATH_TEST", "TARGETED_CORPUS"}
  BY <1>6, DoubtIs
<1>7. ASSUME d \in d5 PROVE d.id = "claim.outside-impact"
  BY <1>7, DoubtIs
<1>8. ASSUME d \in d6
      PROVE Behavioral(Direct(Of(in.impact.surfaces, ProofRoles))) # {} /\ d.mitigatedBy = {"GATE_DELTA_REVIEW"}
  <2>1. unlisted => Behavioral(Direct(Of(in.impact.surfaces, ProofRoles))) # {}
    OBVIOUS
  <2> HIDE DEF unlisted
  <2>2. unlisted /\ d.mitigatedBy = {"GATE_DELTA_REVIEW"}
    BY <1>8, DoubtIs
  <2> QED BY <2>1, <2>2
<1>9. ASSUME d \in d7
      PROVE HasFact(plan.facts, "claim:empirical:transitive") /\ d.mitigatedBy = {"BENCHMARK_PROTOCOL"}
  BY <1>9, DoubtIs
<1>10. ASSUME d \in d8 PROVE failed /\ d.mitigatedBy = {"FAILURE_ATTRIBUTION"}
  BY <1>10, DoubtIs
<1> HIDE DEF unknown, d1, d2, d3, d4, d5, d6, d7, d8, d9
<1> QED BY <1>1, <1>2, <1>3, <1>4, <1>5, <1>6, <1>7, <1>8, <1>9, <1>10

(* A doubt of an accepted input names evidence that its plan asks for,     *)
(* unless it is one that the property sets apart.                          *)
LEMMA DoubtAnswered ==
  ASSUME NEW in, Admitted(in.policy), IsPolicy(in.policy), NEW spared,
         NEW d \in ResidualUncertainty(in, PlanCore(in), spared),
         d.id # "claim.outside-impact",
         \/ d.id # "impact.unknown" \/ BoundSeen(in) # "bounded-uncertain"
         \/ Direct(in.impact.surfaces) \cup Of(in.impact.surfaces, RuntimeRoles) # {}
  PROVE d.mitigatedBy \subseteq Answers(in)
<1> DEFINE plan == PlanCore(in)
<1>1. plan.bound = BoundSeen(in)
  BY CoreRest
<1>2. ASSUME NEW id, HasFact(plan.facts, id), NEW kind,
             <<id, kind>> \in Requires(DefaultPolicy) \cup Recommends(DefaultPolicy)
      PROVE kind \in Answers(in)
  <2>1. PICK u : Says(plan.facts, id, u)
    BY <1>2 DEF HasFact, Says
  <2> QED BY <1>2, <2>1, AskedIsAnswer
<1>3. \/ d.mitigatedBy = {}
      \/ plan.bound = "unbounded" /\ d.mitigatedBy = {"FULL_TEST_SUITE"}
      \/ /\ d.id = "impact.unknown"
         /\ \E u \in in.impact.analysis.unknowns :
              d.mitigatedBy = IF u # {} THEN {"TARGETED_REGRESSION"} ELSE {"FULL_TEST_SUITE"}
      \/ Direct(Of(in.impact.surfaces, {"product"})) # {} /\ d.mitigatedBy = {"AFFECTED_TESTS"}
      \/ /\ HasFact(plan.facts, "witness:infeasible")
         /\ d.mitigatedBy = {"PRODUCTION_PATH_TEST", "TARGETED_CORPUS"}
      \/ /\ Behavioral(Direct(Of(in.impact.surfaces, ProofRoles))) # {}
         /\ d.mitigatedBy = {"GATE_DELTA_REVIEW"}
      \/ HasFact(plan.facts, "claim:empirical:transitive") /\ d.mitigatedBy = {"BENCHMARK_PROTOCOL"}
      \/ /\ \E c \in plan.signals : c.classification \in {"unattributed", "pre-existing"}
         /\ d.mitigatedBy = {"FAILURE_ATTRIBUTION"}
  BY DoubtCases
<1>4. (\E c \in plan.signals : c.classification \in {"unattributed", "pre-existing"})
        => "FAILURE_ATTRIBUTION" \in Answers(in)
  BY SignalAnswer
<1>5. Behavioral(Direct(Of(in.impact.surfaces, ProofRoles))) # {} => "GATE_DELTA_REVIEW" \in Answers(in)
  BY ProofAnswer
<1>6. HasFact(plan.facts, "witness:infeasible") => {"PRODUCTION_PATH_TEST", "TARGETED_CORPUS"} \subseteq Answers(in)
  BY <1>2, AnsweringTriggers
<1>7. HasFact(plan.facts, "claim:empirical:transitive") => "BENCHMARK_PROTOCOL" \in Answers(in)
  BY <1>2, AnsweringTriggers
<1>8. plan.bound = "unbounded" => "FULL_TEST_SUITE" \in Answers(in)
  BY <1>1, UnboundedAnswer
<1>9. Direct(Of(in.impact.surfaces, {"product"})) # {} => "AFFECTED_TESTS" \in Answers(in)
  BY CoverageAnswer
<1>10. ASSUME d.id = "impact.unknown", NEW u \in in.impact.analysis.unknowns
       PROVE (IF u # {} THEN {"TARGETED_REGRESSION"} ELSE {"FULL_TEST_SUITE"}) \subseteq Answers(in)
  BY <1>10, UnknownAnswer
<1> HIDE DEF plan
<1> QED BY <1>3, <1>4, <1>5, <1>6, <1>7, <1>8, <1>9, <1>10

(* The doubts of the latest plan are answered.                             *)
LEMMA AnsweredNow == PlanInv /\ PolicyInv => DoubtsAreAnswered
<1> SUFFICES ASSUME PlanInv, PolicyInv PROVE DoubtsAreAnswered
  OBVIOUS
<1> DEFINE partition == Partition(input, core)
           doubts == ResidualUncertainty(input, core, partition.notRequired)
           nothing == Direct(input.impact.surfaces) \cup Of(input.impact.surfaces, RuntimeRoles) = {}
           open == {d \in doubts :
                      \/ d.id = "claim.outside-impact"
                      \/ d.id = "impact.unknown" /\ nothing /\ core.bound = "bounded-uncertain"}
           given == KindsOf(core.required) \cup KindsOf(partition.recommended)
<1>1. core = PlanCore(input) /\ Admitted(input.policy) /\ IsPolicy(input.policy)
  BY DEF PolicyInv, Rejected
<1>2. core.bound = BoundSeen(input)
  BY <1>1, CoreRest
<1>3. Answers(input) \subseteq given
  <2>1. core.recommended \subseteq partition.recommended
    BY DEF Partition, PartitionBeside
  <2> HIDE DEF partition
  <2> QED BY <1>1, <2>1 DEF Answers, KindsOf
<1>4. ASSUME NEW doubt \in doubts \ open PROVE doubt.mitigatedBy \subseteq given
  <2>1. doubt \in ResidualUncertainty(input, PlanCore(input), partition.notRequired)
    BY <1>1
  <2>2. /\ doubt.id # "claim.outside-impact"
        /\ \/ doubt.id # "impact.unknown" \/ BoundSeen(input) # "bounded-uncertain" \/ ~nothing
    BY <1>2
  <2> HIDE DEF doubts, open, given
  <2> DEFINE spared == partition.notRequired
  <2>3. doubt \in ResidualUncertainty(input, PlanCore(input), spared)
    BY <2>1
  <2> HIDE DEF spared, partition
  <2>4. doubt.mitigatedBy \subseteq Answers(input)
    BY <1>1, <2>2, <2>3, DoubtAnswered
  <2> QED BY <1>3, <2>4
<1>5. DoubtsAreAnswered <=> \A doubt \in doubts \ open : doubt.mitigatedBy \subseteq given
  BY DEF DoubtsAreAnswered
<1> HIDE DEF doubts, open, given
<1> QED BY <1>4, <1>5

(* No plan names an answer it does not ask for (computeUncertainty,        *)
(* plan.ts:1576): whatever the change, its claims, its signals and the     *)
(* accepted policy, a doubt's evidence is required or recommended.         *)
THEOREM DoubtsAnswered == Spec => []DoubtsAreAnswered
BY PlanInvStart, PlanInvStep, PolicyInvStart, PolicyInvStep, AnsweredNow, PTL DEF Spec
=============================================================================
