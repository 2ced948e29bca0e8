---------------------------- MODULE MCArtifacts ----------------------------
(* Two candidates with one of ten behaviours each, three targets of which  *)
(* the first is required and a candidate must reach three quarters of the  *)
(* weight, two attempts.  Times are short so that two lanes separate them. *)
EXTENDS Artifacts

CONSTANTS wRef, wNeutral, wT1, wT2, wT3, c1, c2

MCKind ==
  [w \in Worlds |-> CASE w = wRef -> "REFERENCE" [] w = wNeutral -> "NEUTRAL" [] OTHER -> "TARGET"]
MCWeight == [w \in Worlds |-> CASE w \in {wRef, wNeutral} -> 0 [] w = wT1 -> 2 [] OTHER -> 1]
MCRequired == {wRef, wNeutral, wT1}
MCSize == [c \in Candidates |-> IF c = c1 THEN 2 ELSE 1]
MCRank == [c \in Candidates |-> IF c = c1 THEN 1 ELSE 2]
MCDigest == [c \in Candidates |-> IF c = c1 THEN "d1" ELSE "d2"]
MCProvenance == [w \in Worlds |-> IF w = wRef THEN "GIT" ELSE "OTHER"]
MCPortableSegment(s) == IF s = "ADAPTER" THEN "adapter" ELSE s

(* What a candidate of a behaviour does in a world, in an attempt. *)
KillsOf == [STRONG |-> {wT1, wT2, wT3}, HALF |-> {wT1, wT2}, SECOND |-> {wT1, wT3},
            SMALL |-> {wT2}, WEAK |-> {}]
Broken == {"CRASHES", "TIMES_OUT", "FLAKY", "RED", "UNSEEN"}

OutcomeOf(behaviour, w, n) ==
  CASE behaviour \in DOMAIN KillsOf -> IF w \in KillsOf[behaviour] THEN "ASSERTION_FAILURE" ELSE "PASS"
    [] behaviour = "CRASHES" /\ w = wT2 -> "PROCESS_CRASH"
    [] behaviour = "TIMES_OUT" /\ w = wT1 -> "TIMEOUT"
    [] behaviour = "FLAKY" /\ w = wT1 /\ n = 2 -> "PASS"
    [] behaviour = "RED" /\ w = wRef -> "ASSERTION_FAILURE"
    [] behaviour = "UNSEEN" /\ w = wNeutral -> "NO_TEST_DISCOVERED"
    [] OTHER -> IF w = wT1 THEN "ASSERTION_FAILURE" ELSE "PASS"

(* How long the two reference runs take. *)
TimesOf == [QUICK |-> <<1, 1>>, FREE |-> <<0, 0>>, UNEVEN |-> <<1, 3>>, ONCE |-> <<1, Untimed>>]

ControlRuns(sound) ==
  {[runId |-> <<Control, w, n>>, candidate |-> Control, world |-> w, attempt |-> n,
    outcome |-> IF ~sound /\ w = wNeutral THEN "ASSERTION_FAILURE" ELSE "PASS",
    candidateTests |-> 0, attributed |-> FALSE, ms |-> 1] : w \in Worlds, n \in Attempts}

CandidateRunsOf(c, behaviour, times) ==
  {[runId |-> <<c, w, n>>, candidate |-> c, world |-> w, attempt |-> n,
    outcome |-> OutcomeOf(behaviour, w, n),
    candidateTests |-> IF OutcomeOf(behaviour, w, n) \in {"TIMEOUT", "NO_TEST_DISCOVERED"} THEN 0 ELSE 1,
    attributed |-> OutcomeOf(behaviour, w, n) \notin {"TIMEOUT", "NO_TEST_DISCOVERED"},
    ms |-> IF w = wRef THEN TimesOf[times][n] ELSE 1] : w \in Worlds, n \in Attempts}

Observed(b1, t1, b2, t2) ==
  ControlRuns(TRUE) \cup CandidateRunsOf(c1, b1, t1) \cup CandidateRunsOf(c2, b2, t2)

MCEvidences ==
  {Observed(b1, "QUICK", b2, "QUICK") : b1 \in DOMAIN KillsOf \cup Broken, b2 \in {"WEAK", "CRASHES", "FLAKY"}}
  \cup {Observed(b1, t1, b2, t2) : b1 \in {"HALF", "STRONG"}, t1 \in DOMAIN TimesOf,
                                   b2 \in {"SECOND", "SMALL"}, t2 \in DOMAIN TimesOf}
  \cup {ControlRuns(FALSE) \cup CandidateRunsOf(c1, "STRONG", "QUICK")
                           \cup CandidateRunsOf(c2, "WEAK", "QUICK")}
  \cup {ControlRuns(TRUE) \cup CandidateRunsOf(c1, "STRONG", "QUICK")
          \cup {o \in CandidateRunsOf(c2, "WEAK", "QUICK") : ~(o.world = wT3 /\ o.attempt = 2)}}

MCTouched == {<<c2, wT1, 1>>, <<c2, wRef, 1>>, <<Control, wT1, 1>>}

MCEvidence1 == {Observed("HALF", "QUICK", "SECOND", "QUICK"), Observed("STRONG", "QUICK", "WEAK", "QUICK"),
                Observed("WEAK", "QUICK", "TIMES_OUT", "QUICK")}

MCPolicies == {[minimumSamples |-> n, lanes |-> l] : n \in {1, 2}, l \in {<<1, 2>>, <<2, 4>>, <<2, 1>>}}
MCPoliciesV2 == {<<4, 6>>, <<2>>, <<6, 12>>, <<6, 6>>}

MCConsumerRequests ==
  {NoRequest, [i \in {} |-> "NEUTRAL_PASS"], [a |-> "NEUTRAL_PASS", b |-> "STABILITY_REPETITION"],
   [a |-> "NEUTRAL_PASS", b |-> "SANDBOXED_EXECUTION"], [a |-> "SANDBOXED_EXECUTION"]}

PlanOf(cold, warm) ==
  [minimum |-> 2, cold |-> cold, warmup |-> 1, warm |-> warm, maximumExecutions |-> 10]
RequestOf(plan, overlays) ==
  [plan |-> plan, reporter |-> <<"adapter", "report">>, dependencies |-> <<<<"lock">>>>,
   overlays |-> overlays]

MCRequests ==
  {RequestOf(PlanOf(2, 2), {<<"test", "c1">>}), RequestOf(PlanOf(1, 2), {<<"adapterx">>}),
   RequestOf(PlanOf(2, 2), {<<"ADAPTER", "report">>}), RequestOf(PlanOf(3, 2), {}),
   RequestOf(PlanOf(2, 2), {<<"adapter">>})}

End(process, exit, report, phases, cpu) ==
  [process |-> process, exit |-> exit, report |-> report, phases |-> phases, cpu |-> cpu]
MCUsual == End("PASS", 0, "PASS", <<1, 0, 1, 1>>, 1)
MCEnds ==
  {MCUsual, End("PASS", 0, "PASS", <<2, 1, 4, 1>>, Untimed), End("TIMEOUT", 1, "PASS", NoTimes, Untimed),
   End("PASS", 1, "PASS", <<1, 1, 1, 1>>, Untimed), End("PASS", 1, "ASSERTION_FAILURE", NoTimes, Untimed),
   End("PASS", 0, "MALFORMED", NoTimes, Untimed), End("PASS", 0, "PASS", NoTimes, Untimed)}
=============================================================================
