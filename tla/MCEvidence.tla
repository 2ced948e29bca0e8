----------------------------- MODULE MCEvidence -----------------------------
(* What is concluded from evidence, one kind per behaviour: the receipt of *)
(* a qualification, the study of a corpus, the admission of an executable  *)
(* by its probes, where an executable may be replaced once and the odd     *)
(* ones are wrong in one probe, each in another respect, and the selection *)
(* of the decision core over three candidates that may be eligible or not, *)
(* every combination of three killed targets, two of the candidates of     *)
(* equal size; at most two are selected, so that the maximum, the break    *)
(* and the tie-breaks occur.                                               *)
EXTENDS Conclusions

CONSTANTS
  f1, f2,                                 \* of the qualification
  wRef, wNeutral, t1, t2, t3, c1, c2, c3  \* of the selection

-----------------------------------------------------------------------------
(* Four plans of three worlds and two attempts: the tests of a Bun suite;  *)
(* the tests of a Node suite after an installation whose executable is     *)
(* opaque; a wrapper command that must run its stage and exit zero; and a  *)
(* Turbo selection next to a hosted pipeline.                              *)
Act(adapter, files, observes) ==
  [adapter |-> adapter, files |-> files, observes |-> observes, controlled |-> TRUE]
World(kind, discriminants) == [kind |-> kind, discriminants |-> discriminants]
Check(action, field, expected) == [action |-> action, field |-> field, expected |-> expected]
Obligation(kind, required, suites, checks) ==
  [kind |-> kind, required |-> required, suites |-> suites, checks |-> checks]

Plan(actions, obligations, discriminants, ci) ==
  [worlds |-> <<World("REFERENCE", [o \in {} |-> {}]), World("TARGET", discriminants),
                World("NEUTRAL", [o \in {} |-> {}])>>,
   attempts |-> 2, actions |-> actions, obligations |-> obligations,
   suites |-> IF \E o \in DOMAIN obligations : obligations[o].kind = "tests"
              THEN [unit |-> [files |-> {f1}, complete |-> TRUE]] ELSE [s \in {} |-> {}],
   ci |-> ci, requiredSteps |-> {"gate"}]

Tests(a) == Obligation("tests", TRUE, {"unit"}, [passes |-> Check(a, "testOutcome", "PASS")])

MCPlans ==
  {Plan(<<Act("bun-native", {f1, f2}, {})>>, [unit |-> Tests(1)], [unit |-> {"passes"}], FALSE),
   Plan(<<Act("command", {}, {}), Act("node-test", {f1}, {})>>,
        [unit |-> Tests(2),
         install |-> Obligation("propagation", FALSE, {}, [exits |-> Check(1, "exitCode", "zero")])],
        [unit |-> {"passes"}], FALSE),
   Plan(<<Act("command", {}, {"trace", "outputs"})>>,
        [wrapper |-> Obligation("wrapper", TRUE, {},
           [exits |-> Check(1, "exitCode", "zero"), stage |-> Check(1, "executedTasks", "ran")])],
        [wrapper |-> {"exits", "stage"}], FALSE),
   Plan(<<Act("turbo", {}, {})>>,
        [selection |-> Obligation("selection", TRUE, {}, [tasks |-> Check(1, "summary", "expected")]),
         hosted |-> Obligation("ci-live", TRUE, {}, [exits |-> Check(1, "exitCode", "zero")])],
        [selection |-> {"tasks"}], TRUE)}

Ran(files, failed, exit) ==
  [CleanRun EXCEPT !.ran = files, !.failed = failed, !.exit = exit]

BunFailed(file) ==
  [Ran({f1, f2}, {file}, "zero") EXCEPT !.claims = "ASSERTION_FAILURE", !.inner = "nonzero"]

MCRunsOf(action) ==
  CASE action.adapter = "bun-native" -> {Ran({f1, f2}, {}, "zero"), BunFailed(f1), BunFailed(f2)}
    [] action.adapter = "node-test" ->
         {Ran({f1}, {}, "zero"), Ran({f1}, {f1}, "nonzero"), Ran({f2}, {}, "zero")}
    [] action.adapter = "turbo" ->
         {CleanRun, [CleanRun EXCEPT !.value = "other"], [CleanRun EXCEPT !.exit = "nonzero"]}
    [] action.adapter = "command" /\ action.observes = {} ->
         {[CleanRun EXCEPT !.known = FALSE]}
    [] OTHER ->
         {CleanRun, [CleanRun EXCEPT !.trace = "omitted"],
          [CleanRun EXCEPT !.exit = "nonzero", !.report = "agrees"],
          [CleanRun EXCEPT !.exit = "nonzero", !.report = "contradicts"]}

Vouched == [signed |-> TRUE, subject |-> TRUE, pipeline |-> TRUE, terminal |-> "SUCCESS",
            steps |-> {"gate"}, other |-> TRUE]
MCCiStatementsOf(p) ==
  IF ~p.ci THEN {} ELSE {Vouched, [Vouched EXCEPT !.steps = {}], [Vouched EXCEPT !.signed = FALSE]}

-----------------------------------------------------------------------------
(* Two sources of two cases each; the author has a second key that may     *)
(* review.  The corpora of the evaluations have one case in each split,    *)
(* vouched for by any pair of keys, with any one thing wrong.              *)
Key(name, holder, roles) ==
    [keyId |-> [sha256 |-> name], key |-> name, subject |-> holder, roles |-> roles]
MCKeys == {Key("ka", "ann", {"AUTHOR"}), Key("kb", "ben", {"REVIEWER", "AUTHOR"}),
           Key("kc", "ann", {"REVIEWER"})}
MCSources == {[sourceId |-> s, identity |-> <<s, "repository">>, authors |-> {"ann"},
               reviewers |-> {"ann", "ben"}] : s \in {"s1", "s2"}}
MCPolicy == [keys |-> MCKeys, sources |-> MCSources,
             digest |-> [sha256 |-> [keys |-> MCKeys, sources |-> MCSources]]]
MCHeld == [s1 |-> {<<1, 0>>, <<2, 0>>}, s2 |-> {<<3, 0>>, <<4, 0>>}]
MCCalibrated == [s1 |-> 1, s2 |-> 1]
MCAuthor == [sha256 |-> "ka"]
MCReviewer == [sha256 |-> "kb"]
MCSecondKey == [sha256 |-> "kc"]
MCSuites == [BASELINE |-> {"k1"}, PROFILE |-> {"k2"}]
MCScore(seed, c) == (c[1] * FoldFunction(LAMBDA x, y : x + y, 1, seed)) % 5

(* The documents of the corpora are made as those of the study are. *)
Study == INSTANCE CorpusStudy
           WITH plan <- declared, verdict <- conclusion, Candidates <- MCSuites, Corpora <- {},
                Score <- MCScore

(* The metrics of a case: support and opposition, one hypothesis at a time. *)
Full == [h1 |-> [equalTargetStrength |-> TRUE, baseline |-> 3, profile |-> 2],
         h2 |-> [baseline |-> <<1, 2>>, profile |-> <<2, 3>>],
         h3 |-> [equalBudget |-> TRUE, baseline |-> <<1, 2>>, profile |-> <<1, 2>>],
         h4 |-> [reviewedReduction |-> TRUE, baseline |-> <<1, 2>>, profile |-> <<1, 2>>,
                 baselineCost |-> 2, profileCost |-> 1, baselineMutants |-> 2,
                 profileMutants |-> 1]]
Metrics ==
    {Full,
     [Full EXCEPT !.h1.profile = 3, !.h2.profile = <<1, 2>>, !.h3.profile = <<1, 3>>,
                  !.h4.profileCost = 2],
     [Full EXCEPT !.h1.equalTargetStrength = FALSE, !.h2 = Absent, !.h3.equalBudget = FALSE,
                  !.h4 = Absent],
     [Full EXCEPT !.h2.profile = <<3, 2>>]}

MeasuredCase(c, metrics) ==
    [Study!Document(c, "r1") EXCEPT !.h1 = metrics.h1, !.h2 = metrics.h2, !.h3 = metrics.h3,
                               !.h4 = metrics.h4]

File(kind, name, document) ==
    [kind |-> kind, name |-> name, regular |-> TRUE, document |-> document]
WithSidecar(c, metrics, author, reviewer) ==
    {File("case", c, MeasuredCase(c, metrics)),
     File("provenance", c, Study!Vouched(MeasuredCase(c, metrics), author, reviewer))}

\* One thing wrong with a split.
Troubled(split, wrong, c, metrics) ==
    CASE wrong = "NONE" -> split
      [] wrong = "EMPTY" -> {}
      [] wrong = "UNVOUCHED" -> {f \in split : f.kind = "case"}
      [] wrong = "STRAY" -> split \cup {[f EXCEPT !.name = <<9, 0>>] :
                                            f \in {g \in split : g.kind = "provenance"}}
      [] wrong = "COLLISION" -> split \cup {[f EXCEPT !.name = <<c[1], 1>>] : f \in split}
      [] wrong = "LINKED" -> {[f EXCEPT !.regular = FALSE] : f \in split}
      [] wrong = "EDITED" ->
            {IF f.kind = "case" THEN [f EXCEPT !.document.revision = "r2"] ELSE f : f \in split}
      [] wrong = "OTHER_CASE" -> {[f EXCEPT !.name = <<9, 0>>] : f \in split}
Troubles == {"NONE", "EMPTY", "UNVOUCHED", "STRAY", "COLLISION", "LINKED", "EDITED", "OTHER_CASE"}

KeyIds == {k.keyId : k \in MCKeys}
Pairs == {<<a, r>> \in KeyIds \X KeyIds : TRUE}

CorpusOf(m1, m2, pair, wrong, separate, second) ==
    [separate |-> separate,
     public |-> Troubled(WithSidecar(<<1, 0>>, m1, pair[1], pair[2]), wrong, <<1, 0>>, m1),
     private |-> WithSidecar(second, m2, [sha256 |-> "ka"], [sha256 |-> "kb"])]
Honest == <<MCAuthor, MCReviewer>>
MCCorpora ==
    {CorpusOf(m1, m2, Honest, "NONE", TRUE, <<3, 0>>) : m1 \in Metrics, m2 \in Metrics}
    \cup {CorpusOf(Full, Full, pair, "NONE", TRUE, <<3, 0>>) : pair \in Pairs}
    \cup {CorpusOf(Full, Full, Honest, wrong, separate, second) :
             wrong \in Troubles, separate \in BOOLEAN, second \in {<<1, 0>>, <<2, 0>>, <<3, 0>>}}

-----------------------------------------------------------------------------
(* The selection.                                                          *)
MCWorlds == {wRef, wNeutral, t1, t2, t3}
MCCandidates == {c1, c2, c3}
MCKind ==
  [w \in MCWorlds |->
     CASE w = wRef -> "REFERENCE" [] w = wNeutral -> "NEUTRAL" [] OTHER -> "TARGET"]
MCWeight == [w \in MCWorlds |-> IF w \in {wRef, wNeutral} THEN 0 ELSE 1]
MCSize == [c \in MCCandidates |-> IF c = c2 THEN 1 ELSE 2]
MCRank == [c \in MCCandidates |-> CASE c = c1 -> 2 [] c = c2 -> 3 [] OTHER -> 1]

-----------------------------------------------------------------------------
(* The admission of an executable by its probes.                           *)
Faultless == [version |-> "qualified", id |-> 2, loads |-> TRUE, odd |-> "none", says |-> "none"]
MCBuilds ==
  {Faultless, [Faultless EXCEPT !.id = 3], [Faultless EXCEPT !.version = "later"],
   [Faultless EXCEPT !.version = "unsupported"], [Faultless EXCEPT !.loads = FALSE]}
  \cup {[Faultless EXCEPT !.odd = o[1], !.says = o[2]] :
          o \in {<<"assertion", "attribution">>, <<"generic-throw", "nothing">>,
                 <<"replayed-row", "outcome">>, <<"custom-matcher", "attribution">>,
                 <<"late-after-timeout", "tests">>, <<"isolated-load", "candidates">>}}
MCOtherBuilds == {Faultless}
=============================================================================
