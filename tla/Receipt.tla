------------------------------ MODULE Receipt ------------------------------
(***************************************************************************)
(* How one action of a qualification plan becomes an observation, a state  *)
(* and the facts it comes with (executeAction of                           *)
(* src/engine/qualification.ts and collectBunNative of                     *)
(* src/engine/adapters/bun-native.ts), and what a qualification concludes  *)
(* from its observations (src/core/qualification.ts): the issues that make *)
(* a set of them unusable, the status of every obligation, the decision,   *)
(* the receipt that carries them, and its replay.  This module is pure: a  *)
(* "run" is everything the processes of an action did and left behind, and *)
(* an observation is a function of the action and the run.                 *)
(*                                                                         *)
(* A plan is a record: "worlds" and "actions" are sequences, "obligations" *)
(* and "suites" functions from their names.  An observation is bound to    *)
(* the slot it was collected for, and a fact that a run does not have is   *)
(* outside the domain of its facts.                                        *)
(***************************************************************************)
EXTENDS Integers, FiniteSets, Sequences, SequencesExt

(* The facts of both, those of the first where both have one. *)
f ++ g ==
  [x \in DOMAIN f \cup DOMAIN g |-> IF x \in DOMAIN f THEN f[x] ELSE g[x]]

Adapters == {"command", "turbo", "node-test", "bun-native", "ci-config"}
Testing == {"node-test", "bun-native"}

(* An action: its adapter, the test files it names, what it asks to        *)
(* observe, and whether a Turbo command names exactly the controlled cache.*)
IsAction(action) ==
  /\ action.adapter \in Adapters /\ action.controlled \in BOOLEAN
  /\ action.files # {} => action.adapter \in Testing
  /\ action.observes \subseteq {"trace", "outputs", "report"}

(* A run that went well and left nothing.  Each file that ran holds one    *)
(* test; "failed" are the files with a failed assertion, "thrown" says     *)
(* that a named file failed otherwise, "foreign" that something else did.  *)
CleanRun ==
  [end |-> "closed",       \* closed, timeout or error
   exit |-> "zero",        \* zero, nonzero or null: by a signal, or never started
   truncated |-> FALSE,
   known |-> TRUE,         \* the executable answered as Node or Bun
   terminal |-> "clean",   \* the lifecycle record: clean, exceptional or missing
   report |-> "none",      \* structured result: none, plain, agrees or contradicts
   trace |-> "ran",        \* the traced stage: ran, omitted; or a broken trace
   output |-> "written",   \* the declared output: written, absent or irregular
   value |-> "expected",   \* what a summary or a parsed configuration says
   readable |-> TRUE, ran |-> {}, failed |-> {}, thrown |-> FALSE, foreign |-> FALSE,
   skipped |-> FALSE,
   claims |-> "PASS", inner |-> "zero"]   \* of the Bun driver's report

(* What can be known of any run.  The Bun driver reports no skipped test   *)
(* as an outcome of the named ones.                                        *)
IsRun(action, run) ==
  /\ run.end \in {"closed", "timeout", "error"} /\ run.exit \in {"zero", "nonzero", "null"}
  /\ {run.truncated, run.known, run.readable, run.thrown, run.foreign, run.skipped} \subseteq BOOLEAN
  /\ run.claims \in
       {"PASS", "ASSERTION_FAILURE", "PROCESS_CRASH", "INFRA_ERROR", "NO_TEST_DISCOVERED"}
  /\ action.adapter = "bun-native" /\ run.claims \in {"PASS", "ASSERTION_FAILURE"} => ~run.skipped

NoFacts == [f \in {} |-> "absent"]
Observed(state, facts) == [state |-> state, facts |-> facts]

-----------------------------------------------------------------------------
(* The process of the action.                                              *)

CompletedState(run) ==
  CASE run.end = "timeout" -> "TIMEOUT"
    [] run.end = "error" -> "INFRA_ERROR"
    [] run.end = "closed" /\ run.exit = "null" -> "CRASH"
    [] OTHER -> "COMPLETED"

ProcessState(run) == IF run.truncated THEN "COLLECTION_ERROR" ELSE CompletedState(run)

(* A command that exits zero passes, whatever else it is asked to show.    *)
ProcessFacts(action, run) ==
  [exitCode |-> run.exit] ++
  (IF action.adapter = "command" /\ CompletedState(run) = "COMPLETED" /\ run.exit = "zero"
   THEN [commandOutcome |-> "PASS"] ELSE NoFacts)

-----------------------------------------------------------------------------
(* What every completed run is asked for in the end.                       *)

TerminalAgrees(run) == run.terminal = "clean"

ReportRequired(action, run) ==
  \/ "report" \in action.observes
  \/ action.adapter = "command" /\ run.exit # "zero"

(* A report that names the command's completion must agree with the        *)
(* process, and a command that failed must have such a report.             *)
ReportAgrees(action, run) ==
  /\ run.report # "none"
  /\ action.adapter = "command" =>
       /\ run.report # "contradicts"
       /\ run.exit # "zero" => run.report = "agrees"

Reported(action, run) == ReportRequired(action, run) => ReportAgrees(action, run)

Observable(action, run) ==
  /\ action.adapter = "command" => TerminalAgrees(run)
  /\ Reported(action, run)
  /\ "trace" \in action.observes => run.trace # "broken"
  /\ "outputs" \in action.observes => run.output # "irregular"

SemanticFacts(action, run, nonce) ==
  (IF action.adapter = "command"
   THEN [terminalNonce |-> nonce, terminalProvenance |-> "ENGINE_LIFECYCLE_OBSERVED"]
   ELSE NoFacts) ++
  (IF ReportRequired(action, run)
   THEN [reportNonce |-> nonce] ++
        (IF action.adapter = "command"
         THEN [commandOutcome |-> IF run.exit = "zero" THEN "PASS" ELSE "EXPECTED_FAILURE"]
         ELSE NoFacts)
   ELSE NoFacts) ++
  (IF "trace" \in action.observes THEN [executedTasks |-> run.trace] ELSE NoFacts) ++
  (IF "outputs" \in action.observes THEN [outputs |-> run.output] ELSE NoFacts)

(* Facts that are asked for later replace those measured earlier.  Nobody  *)
(* reads the facts of an observation that did not complete: they are left  *)
(* as they were.                                                           *)
Finish(action, run, nonce, state, facts) ==
  CASE state # "COMPLETED" -> Observed(state, facts)
    [] state = "COMPLETED" /\ ~Observable(action, run) -> Observed("COLLECTION_ERROR", facts)
    [] OTHER -> Observed("COMPLETED", SemanticFacts(action, run, nonce) ++ facts)

-----------------------------------------------------------------------------
(* The adapters.                                                           *)

(* An executable that is neither Node nor Bun shows its exit, no more. *)
OpaqueCommand(action, run) ==
  CASE action.observes # {} -> Observed("COLLECTION_ERROR", NoFacts)
    [] action.observes = {} /\ ProcessState(run) = "COMPLETED" ->
         IF run.exit = "zero"
         THEN Observed("COMPLETED", ProcessFacts(action, run)
                                      ++ [terminalProvenance |-> "PROCESS_EXIT_ZERO"])
         ELSE Observed("COLLECTION_ERROR", ProcessFacts(action, run))
    [] OTHER -> Observed(ProcessState(run), ProcessFacts(action, run))

Command(action, run, nonce) ==
  IF run.known THEN Finish(action, run, nonce, ProcessState(run), ProcessFacts(action, run))
               ELSE OpaqueCommand(action, run)

CandidateFailed(action, run) == run.thrown \/ run.failed \cap action.files # {}
ForeignFailed(action, run) == run.foreign \/ run.failed \ action.files # {}

(* The reporter's counts and its list of assertion owners agree. *)
NodeReportAgrees(action, run) ==
  /\ run.readable
  /\ run.failed \subseteq run.ran
  /\ CandidateFailed(action, run) /\ ~run.thrown => run.failed # {}
  /\ ~CandidateFailed(action, run) => run.failed = {}

NodeOutcome(action, run) ==
  CASE ForeignFailed(action, run) \/ run.thrown -> "PROCESS_CRASH"
    [] ~ForeignFailed(action, run) /\ ~run.thrown /\ CandidateFailed(action, run) -> "ASSERTION_FAILURE"
    [] OTHER -> "PASS"

TestFacts(action, run, outcome) ==
  [testFiles |-> run.ran, failureFiles |-> run.failed, testOutcome |-> outcome,
   testsDiscovered |-> Cardinality(run.ran \cap action.files)]

NodeFacts(action, run) ==
  TestFacts(action, run, NodeOutcome(action, run)) ++
  [skippedTests |-> run.skipped,
   attributed |-> CandidateFailed(action, run) /\ ~ForeignFailed(action, run) /\ ~run.thrown]

(* Every named file ran, nothing was skipped, and the exit code agrees.    *)
NodeState(action, run) ==
  CASE run.ran \cap action.files = {} -> "NO_TESTS"
    [] run.ran \cap action.files # {} /\
         (\/ run.skipped
          \/ NodeOutcome(action, run) = "PROCESS_CRASH"
          \/ (NodeOutcome(action, run) = "PASS") # (run.exit = "zero")) -> "COLLECTION_ERROR"
    [] OTHER -> IF action.files \subseteq run.ran THEN "COMPLETED" ELSE "NO_TESTS"

NodeTest(action, run, nonce) ==
  CASE ProcessState(run) # "COMPLETED" -> Observed(ProcessState(run), ProcessFacts(action, run))
    [] ProcessState(run) = "COMPLETED" /\ ~NodeReportAgrees(action, run) ->
         Observed("COLLECTION_ERROR", ProcessFacts(action, run))
    [] OTHER -> Finish(action, run, nonce, NodeState(action, run),
                       NodeFacts(action, run) ++ ProcessFacts(action, run))

(* The Bun driver exits zero with every complete report; the exit of the   *)
(* tests themselves is in the report.                                      *)
BunRowAgrees(action, run) ==
  /\ run.failed \subseteq run.ran /\ run.ran \subseteq action.files
  /\ run.claims = "ASSERTION_FAILURE" <=> run.failed # {}
  /\ run.claims \in {"PASS", "ASSERTION_FAILURE"} =>
       /\ ~run.thrown /\ ~run.foreign /\ run.ran # {} /\ action.files \subseteq run.ran
       /\ IF run.claims = "PASS" THEN run.inner = "zero" ELSE run.inner = "nonzero"

BunState(action, run) ==
  CASE ~run.known -> "INFRA_ERROR"
    [] run.known /\ action.files = {} -> "NO_TESTS"
    [] run.known /\ action.files # {} /\ CompletedState(run) # "COMPLETED" -> CompletedState(run)
    [] OTHER ->
         CASE run.exit # "zero" -> "CRASH"
           [] run.exit = "zero" /\ (run.truncated \/ ~run.readable \/ ~BunRowAgrees(action, run)) ->
                "INFRA_ERROR"
           [] OTHER -> [PASS |-> "COMPLETED", ASSERTION_FAILURE |-> "COMPLETED",
                        PROCESS_CRASH |-> "CRASH", INFRA_ERROR |-> "INFRA_ERROR",
                        NO_TEST_DISCOVERED |-> "NO_TESTS"][run.claims]

BunNative(action, run, nonce) ==
  LET state == BunState(action, run) IN
  IF state # "COMPLETED"
  THEN Observed(state, [TestFacts(action, CleanRun, state) EXCEPT !.testsDiscovered = 0]
                         ++ [exitCode |-> "null", attributed |-> FALSE])
  ELSE Finish(action, run, nonce, state,
              TestFacts(action, run, run.claims) ++ [exitCode |-> run.inner, attributed |-> TRUE])

(* The summary of the one Turbo run, or the routes of the CI configuration.*)
Summary(action, run, nonce) ==
  LET facts == ProcessFacts(action, run) IN
  CASE ProcessState(run) # "COMPLETED" -> Observed(ProcessState(run), facts)
    [] ProcessState(run) = "COMPLETED" /\ (run.exit # "zero" \/ ~run.readable) ->
         Observed("COLLECTION_ERROR", facts)
    [] OTHER -> Finish(action, run, nonce, "COMPLETED", [summary |-> run.value] ++ facts)

(* A Turbo command that does not name the controlled cache ends the whole  *)
(* qualification, before anything runs.                                    *)
Refused(action) == action.adapter = "turbo" /\ ~action.controlled

ExecuteAction(action, run, nonce) ==
  CASE action.adapter = "command" -> Command(action, run, nonce)
    [] action.adapter = "node-test" -> NodeTest(action, run, nonce)
    [] action.adapter = "bun-native" -> BunNative(action, run, nonce)
    [] OTHER -> Summary(action, run, nonce)

-----------------------------------------------------------------------------
(* Plans and the slots of their observations.                              *)

WorldKinds == {"REFERENCE", "NEUTRAL", "TARGET"}

Attempts(plan) == 1..plan.attempts

(* World by world, attempt by attempt, the actions in their order. *)
Slots(plan) ==
  [k \in 1..(Len(plan.worlds) * plan.attempts * Len(plan.actions)) |->
     LET n == Len(plan.actions) IN
     [world   |-> ((k - 1) \div (plan.attempts * n)) + 1,
      attempt |-> (((k - 1) \div n) % plan.attempts) + 1,
      action  |-> ((k - 1) % n) + 1]]

SlotOf(observation) ==
  [world |-> observation.world, attempt |-> observation.attempt, action |-> observation.action]

Fact(observation, field) ==
  IF field \in DOMAIN observation.facts THEN observation.facts[field] ELSE "absent"

Has(observation, field) == field \in DOMAIN observation.facts

ActionOf(plan, observation) == plan.actions[observation.action]

-----------------------------------------------------------------------------
(* The issues of single observations.  They concern completed ones only.   *)

ReportFactsAgree(plan, observation) ==
  LET action == ActionOf(plan, observation) IN
  (\/ "report" \in action.observes
   \/ action.adapter = "command" /\ Fact(observation, "commandOutcome") = "EXPECTED_FAILURE")
     => Has(observation, "reportNonce")

CommandFactsAgree(observation) ==
  Has(observation, "commandOutcome") =>
    IF Fact(observation, "commandOutcome") = "PASS"
    THEN Fact(observation, "exitCode") = "zero"
    ELSE Fact(observation, "exitCode") = "nonzero"

ChecksOf(plan) == UNION {Range(plan.obligations[o].checks) : o \in DOMAIN plan.obligations}

OpaqueFactsSuffice(plan, observation) ==
  /\ DOMAIN observation.facts = {"exitCode", "commandOutcome", "terminalProvenance"}
  /\ Fact(observation, "exitCode") = "zero"
  /\ Fact(observation, "commandOutcome") = "PASS"
  /\ ActionOf(plan, observation).observes = {}
  /\ \A check \in ChecksOf(plan) :
       check.action = observation.action => check.field = "exitCode" /\ check.expected = "zero"

TerminalFactsAgree(plan, observation) ==
  IF Fact(observation, "terminalProvenance") = "PROCESS_EXIT_ZERO"
  THEN OpaqueFactsSuffice(plan, observation)
  ELSE /\ Has(observation, "terminalNonce")
       /\ Has(observation, "reportNonce") =>
            Fact(observation, "reportNonce") = Fact(observation, "terminalNonce")

TestFactsAgree(plan, observation) ==
  LET f == observation.facts IN
  /\ {"testOutcome", "testFiles", "failureFiles", "testsDiscovered", "attributed"} \subseteq DOMAIN f
  /\ f.testOutcome \in {"PASS", "ASSERTION_FAILURE"}
  /\ IF f.testOutcome = "PASS" THEN f.exitCode = "zero" /\ f.failureFiles = {}
     ELSE f.exitCode = "nonzero" /\ f.failureFiles # {} /\ f.attributed
  /\ f.testFiles # {} /\ f.failureFiles \subseteq f.testFiles
  /\ f.testsDiscovered > 0 /\ f.testsDiscovered >= Cardinality(f.testFiles)
  /\ ActionOf(plan, observation).adapter = "node-test" => ~f.skippedTests

Sound(plan, observation) ==
  LET adapter == ActionOf(plan, observation).adapter IN
  /\ observation.binding = SlotOf(observation)
  /\ observation.state = "COMPLETED" =>
       /\ Has(observation, "exitCode") /\ Fact(observation, "exitCode") # "null"
       /\ ReportFactsAgree(plan, observation)
       /\ adapter \in {"command", "turbo"} => CommandFactsAgree(observation)
       /\ adapter = "turbo" => Fact(observation, "commandOutcome") # "EXPECTED_FAILURE"
       /\ adapter = "command" => TerminalFactsAgree(plan, observation)
       /\ adapter \in Testing => TestFactsAgree(plan, observation)

(* No two observations were made by the same execution. *)
FreshNonces(observations) ==
  \A i, j \in DOMAIN observations : \A field \in {"reportNonce", "terminalNonce"} :
    /\ i # j /\ observations[i].state = "COMPLETED" /\ observations[j].state = "COMPLETED"
    /\ Has(observations[i], field) /\ Has(observations[j], field)
    => Fact(observations[i], field) # Fact(observations[j], field)

(* One sound observation for every slot of the plan, and no other. *)
NoIssues(plan, observations) ==
  /\ {SlotOf(x) : x \in Range(observations)} = Range(Slots(plan))
  /\ \A i, j \in DOMAIN observations : SlotOf(observations[i]) = SlotOf(observations[j]) => i = j
  /\ \A i \in DOMAIN observations : Sound(plan, observations[i])
  /\ FreshNonces(observations)

-----------------------------------------------------------------------------
(* A hosted pipeline's signed observation.                                 *)

NoCi == [signed |-> FALSE]

(* The signature, the subject and the pipeline's identity hold or do not;  *)
(* "steps" are the required steps that succeeded on the plan's commit, and *)
(* "other" says that no step ran twice or on another commit.               *)
VerifyCi(plan, ci) ==
  /\ plan.ci /\ ci # NoCi
  /\ ci.signed /\ ci.subject /\ ci.pipeline
  /\ ci.terminal = "SUCCESS"
  /\ plan.requiredSteps \subseteq ci.steps /\ ci.other

-----------------------------------------------------------------------------
(* What an obligation makes of the observations.                           *)

At(observations, w, n, a) ==
  {x \in Range(observations) : SlotOf(x) = [world |-> w, attempt |-> n, action |-> a]}

(* The observation of a slot.  Where more than one is found there is an    *)
(* issue, and the statuses do not depend on which of them it is.           *)
Found(observations, w, n, a) == CHOOSE x \in At(observations, w, n, a) : TRUE

Bears(plan, o, w) == plan.worlds[w].kind # "TARGET" \/ o \in DOMAIN plan.worlds[w].discriminants
Targets(plan, o) == {w \in DOMAIN plan.worlds : plan.worlds[w].kind = "TARGET" /\ Bears(plan, o, w)}
Baselines(plan) == {w \in DOMAIN plan.worlds : plan.worlds[w].kind # "TARGET"}

CheckedActions(plan, o) == {check.action : check \in Range(plan.obligations[o].checks)}

(* The files of its suites were seen to run, everywhere and every time.    *)
SuitesObserved(plan, o, observations) ==
  /\ \A s \in plan.obligations[o].suites :
       /\ plan.suites[s].complete /\ plan.suites[s].files # {}
       /\ \A w \in {w \in DOMAIN plan.worlds : Bears(plan, o, w)}, n \in Attempts(plan) :
            plan.suites[s].files \subseteq
              UNION {x.facts.testFiles : x \in
                       {x \in Range(observations) :
                          /\ x.world = w /\ x.attempt = n
                          /\ x.action \in CheckedActions(plan, o) /\ x.state = "COMPLETED"
                          /\ Has(x, "testsDiscovered") /\ x.facts.testsDiscovered > 0}}
  /\ \A s \in DOMAIN plan.suites : \E p \in DOMAIN plan.obligations : s \in plan.obligations[p].suites

(* The observation proves nothing for the obligation: it did not complete, *)
(* or it has not seen what the check asks about.                           *)
OperationalFailure(plan, o, check, x) ==
  LET adapter == plan.actions[check.action].adapter IN
  \/ x.state # "COMPLETED"
  \/ /\ adapter \in {"command", "turbo"}
     /\ Fact(x, "exitCode") # "zero" /\ Fact(x, "commandOutcome") # "EXPECTED_FAILURE"
  \/ /\ adapter \in Testing \/ plan.obligations[o].kind = "tests"
     /\ ~Has(x, "testsDiscovered") \/ x.facts.testsDiscovered = 0
  \/ Has(x, "testOutcome") /\ Fact(x, "testOutcome") \notin {"PASS", "ASSERTION_FAILURE"}
  \/ ~Has(x, check.field)

Operational(plan, o, w, n, observations) ==
  \E check \in Range(plan.obligations[o].checks) :
    \/ At(observations, w, n, check.action) = {}
    \/ OperationalFailure(plan, o, check, Found(observations, w, n, check.action))

CheckedValues(plan, o, w, n, observations) ==
  [c \in DOMAIN plan.obligations[o].checks |->
     LET check == plan.obligations[o].checks[c] IN
     IF At(observations, w, n, check.action) = {} THEN "unobserved"
     ELSE Fact(Found(observations, w, n, check.action), check.field)]

FailedChecks(plan, o, w, n, observations) ==
  {c \in DOMAIN plan.obligations[o].checks :
     LET check == plan.obligations[o].checks[c] IN
     /\ At(observations, w, n, check.action) # {}
     /\ Fact(Found(observations, w, n, check.action), check.field) # check.expected}

(* The tests of a reference or neutral world must pass outright. *)
BaselineTestsFail(plan, o, w, n, observations) ==
  /\ plan.obligations[o].kind = "tests"
  /\ \E a \in CheckedActions(plan, o) :
       LET x == Found(observations, w, n, a) IN
       /\ plan.actions[a].adapter \in Testing
       /\ At(observations, w, n, a) # {} /\ x.state = "COMPLETED"
       /\ Fact(x, "testOutcome") # "PASS" \/ Fact(x, "exitCode") # "zero"

Contradicted(plan, o, observations) ==
  \E w \in Baselines(plan), n \in Attempts(plan) :
    \/ BaselineTestsFail(plan, o, w, n, observations)
    \/ /\ ~Operational(plan, o, w, n, observations)
       /\ FailedChecks(plan, o, w, n, observations) # {}

(* Mutant: any failed assertion of the action detects the fault. *)
DiscriminatesAnyFile(plan, o, w, n, c, observations) ==
  LET check == plan.obligations[o].checks[c]
      x     == Found(observations, w, n, check.action)
  IN plan.obligations[o].kind = "tests" =>
       /\ plan.actions[check.action].adapter \in Testing
       /\ Fact(x, "testOutcome") = "ASSERTION_FAILURE" /\ x.facts.attributed

(* A failed check of a test obligation counts only with a failed assertion *)
(* owned by a file of its suites that the action names.                    *)
Discriminates(plan, o, w, n, c, observations) ==
  LET check == plan.obligations[o].checks[c]
      x     == Found(observations, w, n, check.action)
  IN plan.obligations[o].kind = "tests" =>
       /\ plan.actions[check.action].adapter \in Testing
       /\ x.facts.failureFiles \cap plan.actions[check.action].files
            \cap UNION {plan.suites[s].files : s \in plan.obligations[o].suites} # {}
       /\ Fact(x, "testOutcome") = "ASSERTION_FAILURE" /\ x.facts.attributed

Detected(plan, o, w, n, observations) ==
  LET failed   == FailedChecks(plan, o, w, n, observations)
      declared == plan.worlds[w].discriminants[o]
  IN /\ \E c \in failed \cap declared : Discriminates(plan, o, w, n, c, observations)
     /\ failed \subseteq declared

Stable(plan, o, w, observations) ==
  Cardinality({<<Operational(plan, o, w, n, observations),
                 CheckedValues(plan, o, w, n, observations)>> : n \in Attempts(plan)}) = 1

FaultsDetected(plan, o, observations) ==
  /\ Targets(plan, o) # {}
  /\ \A w \in DOMAIN plan.worlds : Bears(plan, o, w) =>
       /\ Stable(plan, o, w, observations)
       /\ \A n \in Attempts(plan) :
            /\ ~Operational(plan, o, w, n, observations)
            /\ plan.worlds[w].kind = "TARGET" => Detected(plan, o, w, n, observations)

Status(plan, o, observations, usable, ci) ==
  LET live == plan.obligations[o].kind = "ci-live" IN
  CASE ~usable -> "REJECTED"
    [] usable /\ ~live /\ Contradicted(plan, o, observations) -> "REJECTED"
    [] OTHER ->
         IF /\ SuitesObserved(plan, o, observations)
            /\ IF live THEN VerifyCi(plan, ci) ELSE FaultsDetected(plan, o, observations)
         THEN "COVERED" ELSE "OPEN"

-----------------------------------------------------------------------------
(* The receipt.  Its digests bind it as it was made: "sealed" says whether *)
(* they still do.                                                          *)

NoReceipt == [decision |-> "none"]

Decision(plan, statuses) ==
  LET required == {o \in DOMAIN plan.obligations : plan.obligations[o].required} IN
  CASE \E o \in required : statuses[o] = "REJECTED" -> "REJECTED"
    [] \A o \in required : statuses[o] = "COVERED" -> "QUALIFIED"
    [] OTHER -> "OPEN"

CreateReceipt(plan, observations, ci) ==
  LET usable   == NoIssues(plan, observations)
      statuses == [o \in DOMAIN plan.obligations |-> Status(plan, o, observations, usable, ci)]
  IN
  [observations |-> observations, ci |-> ci, statuses |-> statuses,
   decision |-> IF usable THEN Decision(plan, statuses) ELSE "REJECTED",
   sealed |-> TRUE]

(* Mutant: the summary is not derived again. *)
ReplaySealed(plan, receipt) == receipt.sealed /\ NoIssues(plan, receipt.observations)

(* A replay recomputes everything from the receipt's own observations.     *)
Replay(plan, receipt) ==
  /\ receipt.sealed
  /\ NoIssues(plan, receipt.observations)
  /\ receipt = CreateReceipt(plan, receipt.observations, receipt.ci)
=============================================================================
