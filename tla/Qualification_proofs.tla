------------------------ MODULE Qualification_proofs ------------------------
(***************************************************************************)
(* Whatever the plan and whatever its runs do: a qualified receipt was     *)
(* earned, and a replay accepts it as it was issued and nothing else that  *)
(* the damages of Qualification make of it.                                *)
(***************************************************************************)
EXTENDS Qualification, SequenceTheorems, TLAPS

-----------------------------------------------------------------------------
(* Facts.  The nonces apart, each fact of a completed observation is what  *)
(* the run behind it shows.                                                *)

Nonces == {"reportNonce", "terminalNonce"}

Agrees(facts, action, run) ==
  \A x \in DOMAIN facts : x \in Nonces \/
    /\ x \in DOMAIN Shown(action, run) /\ facts[x] = Shown(action, run)[x]
    /\ x = "testsDiscovered" => action.adapter \in Testing

LEMMA AgreesBoth ==
  ASSUME NEW f, NEW g, NEW action, NEW run, Agrees(f, action, run), Agrees(g, action, run)
  PROVE  Agrees(f ++ g, action, run)
BY DEF Agrees, ++

LEMMA AgreesNone ==
  ASSUME NEW action, NEW run
  PROVE  Agrees(NoFacts, action, run)
BY DEF Agrees, NoFacts

LEMMA ProcessFactsAgree ==
  ASSUME NEW action, NEW run, action.adapter # "bun-native"
  PROVE  Agrees(ProcessFacts(action, run), action, run)
<1>1. Agrees([exitCode |-> run.exit], action, run)
  BY DEF Agrees, Shown
<1>2. run.exit = "zero" => Agrees([commandOutcome |-> "PASS"], action, run)
  BY DEF Agrees, Shown
<1>3. QED
  BY <1>1, <1>2, AgreesBoth, AgreesNone DEF ProcessFacts

LEMMA SemanticFactsAgree ==
  ASSUME NEW action, NEW run, NEW nonce, action.adapter = "command" => run.known
  PROVE  Agrees(SemanticFacts(action, run, nonce), action, run)
<1>1. action.adapter = "command" =>
        Agrees([terminalNonce |-> nonce, terminalProvenance |-> "ENGINE_LIFECYCLE_OBSERVED"],
               action, run)
  BY DEF Agrees, Shown, Nonces
<1>2. Agrees([reportNonce |-> nonce], action, run)
  BY DEF Agrees, Nonces
<1>3. Agrees([commandOutcome |-> IF run.exit = "zero" THEN "PASS" ELSE "EXPECTED_FAILURE"],
             action, run)
  BY DEF Agrees, Shown
<1>4. Agrees([executedTasks |-> run.trace], action, run)
  BY DEF Agrees, Shown
<1>5. Agrees([outputs |-> run.output], action, run)
  BY DEF Agrees, Shown
<1>6. QED
  BY <1>1, <1>2, <1>3, <1>4, <1>5, AgreesBoth, AgreesNone DEF SemanticFacts

(* A completed observation says what its run shows, the run had ended by   *)
(* itself, and the tests it speaks of had all run.                         *)
Genuine(action, run, observation) ==
  observation.state = "COMPLETED" =>
    /\ Agrees(observation.facts, action, run)
    /\ Ended(run)
    /\ action.adapter \in Testing => TestsRan(action, run)

LEMMA ProcessCompleted ==
  ASSUME NEW action, NEW run, IsRun(action, run), ProcessState(run) = "COMPLETED"
  PROVE  Ended(run)
BY DEF IsRun, ProcessState, CompletedState, Ended

(* What an adapter makes of a run that it considers complete stays what    *)
(* the run shows when the last facts are added.                            *)
LEMMA FinishGenuine ==
  ASSUME NEW action, NEW run, NEW nonce, NEW state, NEW facts,
         action.adapter = "command" => run.known,
         Genuine(action, run, Observed(state, facts))
  PROVE  Genuine(action, run, Finish(action, run, nonce, state, facts))
<1>1. Agrees(SemanticFacts(action, run, nonce), action, run)
  BY SemanticFactsAgree
<1>2. CASE state # "COMPLETED"
  BY <1>2 DEF Finish, Genuine, Observed
<1>3. CASE state = "COMPLETED" /\ ~Observable(action, run)
  BY <1>3 DEF Finish, Genuine, Observed
<1>4. CASE state = "COMPLETED" /\ Observable(action, run)
  <2>1. Agrees(facts, action, run) /\ Ended(run) /\ (action.adapter \in Testing => TestsRan(action, run))
    BY <1>4 DEF Genuine, Observed
  <2>2. Agrees(SemanticFacts(action, run, nonce) ++ facts, action, run)
    BY <2>1, <1>1, AgreesBoth
  <2>3. Finish(action, run, nonce, state, facts)
          = Observed("COMPLETED", SemanticFacts(action, run, nonce) ++ facts)
    BY <1>4 DEF Finish
  <2>4. QED
    BY <2>1, <2>2, <2>3 DEF Genuine, Observed
<1>5. QED
  BY <1>2, <1>3, <1>4

LEMMA NotCompleted ==
  ASSUME NEW action, NEW run, NEW state, NEW facts, state # "COMPLETED"
  PROVE  Genuine(action, run, Observed(state, facts))
BY DEF Genuine, Observed

LEMMA CommandGenuine ==
  ASSUME NEW action, NEW run, NEW nonce, IsRun(action, run), action.adapter = "command"
  PROVE  Genuine(action, run, Command(action, run, nonce))
<1>1. Agrees(ProcessFacts(action, run), action, run)
  BY ProcessFactsAgree
<1>2. action.adapter \notin Testing
  BY DEF Testing
<1>3. CASE run.known
  <2>1. Genuine(action, run, Observed(ProcessState(run), ProcessFacts(action, run)))
    BY <1>1, <1>2, ProcessCompleted DEF Genuine, Observed
  <2>2. QED
    BY <1>3, <2>1, FinishGenuine DEF Command
<1>4. CASE ~run.known
  <2>1. Agrees([terminalProvenance |-> "PROCESS_EXIT_ZERO"], action, run)
    BY <1>4 DEF Agrees, Shown
  <2>2. Agrees(ProcessFacts(action, run) ++ [terminalProvenance |-> "PROCESS_EXIT_ZERO"], action, run)
    BY <1>1, <2>1, AgreesBoth
  <2>3. CASE action.observes # {}
    BY <2>3, <1>4, NotCompleted DEF Command, OpaqueCommand
  <2>4. CASE action.observes = {} /\ ProcessState(run) = "COMPLETED"
    <3>1. Ended(run)
      BY <2>4, ProcessCompleted
    <3>2. Genuine(action, run, Observed("COMPLETED", ProcessFacts(action, run)
                                          ++ [terminalProvenance |-> "PROCESS_EXIT_ZERO"]))
      BY <3>1, <2>2, <1>2 DEF Genuine, Observed
    <3>3. Genuine(action, run, Observed("COLLECTION_ERROR", ProcessFacts(action, run)))
      BY NotCompleted
    <3>4. QED
      BY <3>2, <3>3, <2>4, <1>4 DEF Command, OpaqueCommand
  <2>5. CASE action.observes = {} /\ ProcessState(run) # "COMPLETED"
    <3>1. Genuine(action, run, Observed(ProcessState(run), ProcessFacts(action, run)))
      BY <2>5, NotCompleted
    <3>2. QED
      BY <3>1, <2>5, <1>4 DEF Command, OpaqueCommand
  <2>6. QED
    BY <2>3, <2>4, <2>5
<1>5. QED
  BY <1>3, <1>4

LEMMA SummaryGenuine ==
  ASSUME NEW action, NEW run, NEW nonce, IsRun(action, run),
         action.adapter \notin Testing, action.adapter # "command"
  PROVE  Genuine(action, run, Summary(action, run, nonce))
<1>1. Agrees(ProcessFacts(action, run), action, run)
  BY ProcessFactsAgree DEF Testing
<1>2. Agrees([summary |-> run.value], action, run)
  BY DEF Agrees, Shown
<1>3. Agrees([summary |-> run.value] ++ ProcessFacts(action, run), action, run)
  BY <1>1, <1>2, AgreesBoth
<1>4. CASE ProcessState(run) # "COMPLETED"
  BY <1>4, NotCompleted DEF Summary
<1>5. CASE ProcessState(run) = "COMPLETED" /\ (run.exit # "zero" \/ ~run.readable)
  BY <1>5, NotCompleted DEF Summary
<1>6. CASE ProcessState(run) = "COMPLETED" /\ ~(run.exit # "zero" \/ ~run.readable)
  <2>1. Ended(run)
    BY <1>6, ProcessCompleted
  <2>2. Genuine(action, run, Observed("COMPLETED", [summary |-> run.value] ++ ProcessFacts(action, run)))
    BY <2>1, <1>3 DEF Genuine, Observed
  <2>3. Genuine(action, run, Finish(action, run, nonce, "COMPLETED",
                                    [summary |-> run.value] ++ ProcessFacts(action, run)))
    BY <2>2, FinishGenuine
  <2>4. QED
    BY <2>3, <1>6 DEF Summary
<1>7. QED
  BY <1>4, <1>5, <1>6

(* The facts about the files of a run whose outcome is the one it shows. *)
LEMMA TestFactsShown ==
  ASSUME NEW action, NEW run, action.adapter \in Testing
  PROVE  Agrees(TestFacts(action, run, IF run.failed = {} THEN "PASS" ELSE "ASSERTION_FAILURE"),
                action, run)
BY DEF Agrees, TestFacts, Shown

LEMMA NodeGenuine ==
  ASSUME NEW action, NEW run, NEW nonce, IsRun(action, run), action.adapter = "node-test"
  PROVE  Genuine(action, run, NodeTest(action, run, nonce))
<1> DEFINE facts == NodeFacts(action, run) ++ ProcessFacts(action, run)
<1>1. CASE ProcessState(run) # "COMPLETED"
  BY <1>1, NotCompleted DEF NodeTest
<1>2. CASE ProcessState(run) = "COMPLETED" /\ ~NodeReportAgrees(action, run)
  BY <1>2, NotCompleted DEF NodeTest
<1>3. CASE ProcessState(run) = "COMPLETED" /\ NodeReportAgrees(action, run)
  <2>1. Ended(run)
    BY <1>3, ProcessCompleted
  <2>2. Genuine(action, run, Observed(NodeState(action, run), facts))
    <3>1. CASE NodeState(action, run) = "COMPLETED"
      <4>1. NodeOutcome(action, run) # "PROCESS_CRASH" /\ ~run.skipped /\ action.files \subseteq run.ran
        BY <3>1 DEF NodeState
      <4>2. /\ ~ForeignFailed(action, run) /\ ~run.thrown
            /\ NodeOutcome(action, run)
                 = IF CandidateFailed(action, run) THEN "ASSERTION_FAILURE" ELSE "PASS"
        BY <4>1 DEF NodeOutcome
      <4>3. ~run.foreign /\ run.failed \subseteq action.files
        BY <4>2 DEF ForeignFailed
      <4>4. CandidateFailed(action, run) <=> run.failed # {}
        BY <4>2, <4>3 DEF CandidateFailed
      <4>5. TestsRan(action, run)
        BY <2>1, <4>1, <4>2, <4>3 DEF TestsRan
      <4>6. NodeOutcome(action, run) = IF run.failed = {} THEN "PASS" ELSE "ASSERTION_FAILURE"
        BY <4>2, <4>4
      <4>7. Agrees(TestFacts(action, run, NodeOutcome(action, run)), action, run)
        BY <4>6, TestFactsShown DEF Testing
      <4>8. Agrees([skippedTests |-> run.skipped,
                    attributed |-> CandidateFailed(action, run) /\ ~ForeignFailed(action, run)
                                     /\ ~run.thrown], action, run)
        BY <4>2, <4>4 DEF Agrees, Shown
      <4>9. Agrees(ProcessFacts(action, run), action, run)
        BY ProcessFactsAgree
      <4>10. Agrees(facts, action, run)
        BY <4>7, <4>8, <4>9, AgreesBoth DEF NodeFacts
      <4>11. QED
        BY <4>5, <4>10, <2>1 DEF Genuine, Observed
    <3>2. CASE NodeState(action, run) # "COMPLETED"
      BY <3>2, NotCompleted
    <3>3. QED
      BY <3>1, <3>2
  <2>3. Genuine(action, run, Finish(action, run, nonce, NodeState(action, run), facts))
    BY <2>2, FinishGenuine
  <2>4. QED
    BY <2>3, <1>3 DEF NodeTest
<1>4. QED
  BY <1>1, <1>2, <1>3

LEMMA ExitAndAttribution ==
  ASSUME NEW action, NEW run, NEW code, NEW blame,
         {"exitCode", "attributed"} \subseteq DOMAIN Shown(action, run),
         Shown(action, run)["exitCode"] = code, Shown(action, run)["attributed"] = blame
  PROVE  Agrees([exitCode |-> code, attributed |-> blame], action, run)
BY DEF Agrees

LEMMA BunGenuine ==
  ASSUME NEW action, NEW run, NEW nonce, IsRun(action, run), action.adapter = "bun-native"
  PROVE  Genuine(action, run, BunNative(action, run, nonce))
<1> DEFINE facts ==
      TestFacts(action, run, run.claims) ++ [exitCode |-> run.inner, attributed |-> TRUE]
<1>1. CASE BunState(action, run) # "COMPLETED"
  BY <1>1, NotCompleted DEF BunNative
<1>2. CASE BunState(action, run) = "COMPLETED"
  <2>1. /\ CompletedState(run) = "COMPLETED" /\ ~run.truncated /\ BunRowAgrees(action, run)
        /\ run.claims \in {"PASS", "ASSERTION_FAILURE"}
    BY <1>2 DEF BunState, IsRun
  <2>2. Ended(run)
    BY <2>1 DEF CompletedState, IsRun, Ended
  <2>3. TestsRan(action, run)
    BY <2>1, <2>2 DEF BunRowAgrees, IsRun, TestsRan
  <2>4. run.claims = IF run.failed = {} THEN "PASS" ELSE "ASSERTION_FAILURE"
    BY <2>1 DEF BunRowAgrees
  <2>5. Agrees(TestFacts(action, run, run.claims), action, run)
    BY <2>4, TestFactsShown DEF Testing
  <2>6. Agrees([exitCode |-> run.inner, attributed |-> TRUE], action, run)
    <3>1. Shown(action, run)["exitCode"] = run.inner
      BY DEF Shown
    <3>2. Shown(action, run)["attributed"] = TRUE
      BY Zenon DEF Shown
    <3>3. {"exitCode", "attributed"} \subseteq DOMAIN Shown(action, run)
      BY DEF Shown
    <3>4. QED
      BY Zenon, <3>1, <3>2, <3>3, ExitAndAttribution
  <2>7. Agrees(facts, action, run)
    BY <2>5, <2>6, AgreesBoth
  <2>8. Genuine(action, run, Observed("COMPLETED", facts))
    BY <2>2, <2>3, <2>7 DEF Genuine, Observed
  <2>9. Genuine(action, run, Finish(action, run, nonce, "COMPLETED", facts))
    BY <2>8, FinishGenuine
  <2>10. QED
    BY <2>9, <1>2 DEF BunNative
<1>3. QED
  BY <1>1, <1>2

(* However an action is executed. *)
LEMMA ExecuteGenuine ==
  ASSUME NEW action, NEW run, NEW nonce, IsAction(action), IsRun(action, run)
  PROVE  Genuine(action, run, ExecuteAction(action, run, nonce))
<1>1. CASE action.adapter = "command"
  BY <1>1, CommandGenuine DEF ExecuteAction
<1>2. CASE action.adapter = "node-test"
  BY <1>2, NodeGenuine DEF ExecuteAction
<1>3. CASE action.adapter = "bun-native"
  BY <1>3, BunGenuine DEF ExecuteAction
<1>4. CASE action.adapter \in {"turbo", "ci-config"}
  BY <1>4, SummaryGenuine DEF ExecuteAction, Testing
<1>5. QED
  BY <1>1, <1>2, <1>3, <1>4 DEF IsAction, Adapters

(* An execution yields a state and facts, and nothing else. *)
LEMMA FinishShape ==
  ASSUME NEW action, NEW run, NEW nonce, NEW state, NEW facts
  PROVE  DOMAIN Finish(action, run, nonce, state, facts) = {"state", "facts"}
BY DEF Finish, Observed

LEMMA ExecuteShape ==
  ASSUME NEW action, NEW run, NEW nonce
  PROVE  DOMAIN ExecuteAction(action, run, nonce) = {"state", "facts"}
<1>1. DOMAIN Command(action, run, nonce) = {"state", "facts"}
  BY FinishShape DEF Command, OpaqueCommand, Observed
<1>2. DOMAIN NodeTest(action, run, nonce) = {"state", "facts"}
  BY FinishShape DEF NodeTest, Observed
<1>3. DOMAIN BunNative(action, run, nonce) = {"state", "facts"}
  BY FinishShape DEF BunNative, Observed
<1>4. DOMAIN Summary(action, run, nonce) = {"state", "facts"}
  BY FinishShape DEF Summary, Observed
<1>5. QED
  BY <1>1, <1>2, <1>3, <1>4 DEF ExecuteAction

(* What is collected is the execution's, bound to its slot. *)
LEMMA CollectedShape ==
  ASSUME NEW w, NEW n, NEW a, NEW action, NEW run, NEW nonce
  PROVE  LET slot == [world |-> w, attempt |-> n, action |-> a]
             x    == Collected(slot, action, run, nonce)
         IN /\ SlotOf(x) = slot
            /\ x.binding = slot /\ "binding" \in DOMAIN x
            /\ x.state = ExecuteAction(action, run, nonce).state
            /\ x.facts = ExecuteAction(action, run, nonce).facts
<1> DEFINE slot == [world |-> w, attempt |-> n, action |-> a]
<1> DEFINE e == ExecuteAction(action, run, nonce)
<1> DEFINE both == e ++ slot
<1>1. DOMAIN e = {"state", "facts"}
  BY ExecuteShape
<1>2. DOMAIN slot = {"world", "attempt", "action"}
  OBVIOUS
<1> HIDE DEF e
<1>3. /\ DOMAIN both = {"state", "facts", "world", "attempt", "action"}
      /\ both["state"] = e["state"] /\ both["facts"] = e["facts"]
      /\ both["world"] = w /\ both["attempt"] = n /\ both["action"] = a
  BY <1>1, <1>2 DEF ++
<1> HIDE DEF both
<1>4. LET x == both ++ [binding |-> slot] IN
      /\ DOMAIN x = {"state", "facts", "world", "attempt", "action", "binding"}
      /\ x["state"] = e["state"] /\ x["facts"] = e["facts"]
      /\ x["world"] = w /\ x["attempt"] = n /\ x["action"] = a /\ x["binding"] = slot
  BY <1>3 DEF ++
<1>5. Collected(slot, action, run, nonce) = both ++ [binding |-> slot]
  BY DEF Collected, both, e
<1>6. QED
  BY <1>4, <1>5 DEF SlotOf, e

-----------------------------------------------------------------------------
(* The observations and the runs behind them.                              *)

AllRuns(p) == UNION {RunsOf(p.actions[a]) : a \in DOMAIN p.actions}

AllObservations(p) ==
  {Collected(slot, p.actions[slot.action], run, nonce) :
     slot \in Range(Slots(p)), run \in AllRuns(p), nonce \in Nat}

(* The observations are those of the runs, slot after slot. *)
Recorded(p, made, behind) ==
  /\ made \in Seq(AllObservations(p)) /\ behind \in Seq(AllRuns(p))
  /\ Len(made) = Len(behind) /\ Len(made) <= Len(Slots(p))
  /\ \A k \in 1..Len(made) :
       LET slot == Slots(p)[k] IN
       /\ behind[k] \in RunsOf(p.actions[slot.action])
       /\ made[k] = Collected(slot, p.actions[slot.action], behind[k], k)

LEMMA ProductAtLeastTwo ==
  ASSUME NEW x \in Nat, NEW y \in Nat, NEW z \in Nat, x >= 1, y >= 2, z >= 1
  PROVE  x * y * z \in Nat /\ x * y * z >= 2
<1>1. x * y \in Nat /\ x * y >= 2
  OBVIOUS
<1> DEFINE xy == x * y
<1> HIDE DEF xy
<1>2. xy \in Nat /\ xy >= 2 => xy * z \in Nat /\ xy * z >= 2
  OBVIOUS
<1>3. QED
  BY <1>1, <1>2 DEF xy

(* The slots of a plan: at least two, each of one of its actions. *)
LEMMA SlotsOfPlan ==
  ASSUME NEW p \in Plans
  PROVE  /\ Slots(p) \in Seq(Range(Slots(p))) /\ Len(Slots(p)) \in Nat /\ Len(Slots(p)) >= 2
         /\ Slots(p)[1] # Slots(p)[2]
         /\ \A k \in 1..Len(Slots(p)) :
              /\ Slots(p)[k] = [world |-> Slots(p)[k].world, attempt |-> Slots(p)[k].attempt,
                                action |-> Slots(p)[k].action]
              /\ Slots(p)[k].action \in DOMAIN p.actions
<1> DEFINE x == Len(p.worlds)
<1> DEFINE y == p.attempts
<1> DEFINE z == Len(p.actions)
<1> DEFINE size == x * y * z
<1>1. /\ x \in Nat /\ y \in Nat /\ y >= 2 /\ z \in Nat
      /\ p.actions \in Seq(Range(p.actions)) /\ p.actions # <<>>
      /\ p.worlds \in Seq(Range(p.worlds)) /\ \E r \in DOMAIN p.worlds : TRUE
  BY QualificationAssumption
<1>2. x >= 1
  BY <1>1
<1>3. z >= 1 /\ DOMAIN p.actions = 1..z
  BY <1>1
<1>4. size \in Nat /\ size >= 2
  BY <1>1, <1>2, <1>3, ProductAtLeastTwo
<1>5. DOMAIN Slots(p) = 1..size
  BY DEF Slots
<1>6. \A k \in 1..size : ((k - 1) % z) + 1 \in 1..z
  BY <1>1, <1>3, <1>4
<1>7. \A k \in 1..size :
        Slots(p)[k] = [world |-> ((k - 1) \div (y * z)) + 1,
                       attempt |-> (((k - 1) \div z) % y) + 1, action |-> ((k - 1) % z) + 1]
  BY DEF Slots
<1> HIDE DEF size, x, y, z
<1>8. Slots(p) = [k \in 1..size |-> Slots(p)[k]]
  BY <1>5 DEF Slots, size, x, y, z
<1>9. \A k \in 1..size : Slots(p)[k] \in Range(Slots(p))
  BY <1>5 DEF Range
<1>10. Slots(p) \in Seq(Range(Slots(p))) /\ Len(Slots(p)) = size
  BY <1>4, <1>5, <1>8, <1>9
<1>11. Slots(p)[1] # Slots(p)[2]
  <2>1. Slots(p)[1].attempt = 1 /\ Slots(p)[1].action = 1
    <3>1. 0 % z = 0 /\ 0 \div z = 0 /\ 0 % y = 0
      BY <1>1, <1>3
    <3>2. Slots(p)[1] = [world |-> ((1 - 1) \div (y * z)) + 1,
                         attempt |-> (((1 - 1) \div z) % y) + 1, action |-> ((1 - 1) % z) + 1]
      BY <1>4, <1>7
    <3>3. QED
      BY <3>1, <3>2
  <2>0. Slots(p)[2] = [world |-> ((2 - 1) \div (y * z)) + 1,
                       attempt |-> (((2 - 1) \div z) % y) + 1, action |-> ((2 - 1) % z) + 1]
    BY <1>4, <1>7
  <2>2. CASE z = 1
    <3>1. Slots(p)[2].attempt = (((2 - 1) \div z) % y) + 1
      BY <2>0
    <3>2. (1 \div z) = 1 /\ 1 % y = 1
      BY <2>2, <1>1
    <3>3. Slots(p)[2].attempt = 2
      BY <3>1, <3>2
    <3>4. QED
      BY <2>1, <3>3
  <2>3. CASE z >= 2
    <3>1. Slots(p)[2].action = ((2 - 1) % z) + 1
      BY <2>0
    <3>2. 1 % z = 1
      BY <2>3, <1>1
    <3>3. QED
      BY <2>1, <3>1, <3>2
  <2>4. QED
    BY <1>1, <1>3, <2>2, <2>3
<1>12. QED
  BY <1>3, <1>4, <1>6, <1>7, <1>10, <1>11

(* What is known of the k-th observation. *)
LEMMA Place ==
  ASSUME NEW p \in Plans, NEW made, NEW behind, Recorded(p, made, behind), NEW k \in 1..Len(made)
  PROVE  LET slot == Slots(p)[k] IN
         /\ k \in 1..Len(Slots(p)) /\ k \in DOMAIN made /\ k \in DOMAIN behind
         /\ SlotOf(made[k]) = slot /\ "binding" \in DOMAIN made[k]
         /\ slot.action \in DOMAIN p.actions
         /\ Genuine(p.actions[slot.action], behind[k], made[k])
<1> DEFINE slot == Slots(p)[k]
<1> DEFINE action == p.actions[slot.action]
<1>1. /\ made \in Seq(AllObservations(p)) /\ behind \in Seq(AllRuns(p))
      /\ Len(made) = Len(behind) /\ Len(made) <= Len(Slots(p))
      /\ behind[k] \in RunsOf(action) /\ made[k] = Collected(slot, action, behind[k], k)
  BY DEF Recorded
<1>2. Len(Slots(p)) \in Nat
  BY SlotsOfPlan
<1>3. k \in 1..Len(Slots(p)) /\ k \in DOMAIN made /\ k \in DOMAIN behind
  BY <1>1, <1>2
<1>4. /\ slot = [world |-> slot.world, attempt |-> slot.attempt, action |-> slot.action]
      /\ slot.action \in DOMAIN p.actions
  BY <1>3, SlotsOfPlan
<1>5. IsAction(action) /\ IsRun(action, behind[k])
  BY <1>1, <1>4, QualificationAssumption
<1>6. Genuine(action, behind[k], ExecuteAction(action, behind[k], k))
  BY <1>5, ExecuteGenuine
<1> HIDE DEF action, slot
<1>7. /\ SlotOf(made[k]) = slot /\ "binding" \in DOMAIN made[k]
      /\ made[k].state = ExecuteAction(action, behind[k], k).state
      /\ made[k].facts = ExecuteAction(action, behind[k], k).facts
  BY <1>1, <1>4, CollectedShape
<1>8. Genuine(action, behind[k], made[k])
  BY <1>6, <1>7 DEF Genuine
<1>9. QED
  BY <1>3, <1>4, <1>7, <1>8 DEF action, slot

(* Where there are no issues, one observation is found for a slot. *)
LEMMA FoundIs ==
  ASSUME NEW p, NEW made, NoIssues(p, made), NEW k \in DOMAIN made,
         NEW w, NEW n, NEW a, SlotOf(made[k]) = [world |-> w, attempt |-> n, action |-> a]
  PROVE  At(made, w, n, a) = {made[k]} /\ Found(made, w, n, a) = made[k]
<1>1. \A j \in DOMAIN made : SlotOf(made[j]) = SlotOf(made[k]) => j = k
  BY DEF NoIssues
<1>2. At(made, w, n, a) = {made[k]}
  BY <1>1 DEF At, Range
<1>3. QED
  BY <1>2 DEF Found

-----------------------------------------------------------------------------
(* What a covered obligation says about the runs.                          *)

Cell(w, n, a) == [world |-> w, attempt |-> n, action |-> a]

(* Behind an observation of a slot there is a run of that slot. *)
LEMMA RunBehind ==
  ASSUME plan \in Plans, Recorded(plan, observations, happened), NoIssues(plan, observations),
         NEW x \in Range(observations), NEW w, NEW n, NEW a, SlotOf(x) = Cell(w, n, a)
  PROVE  RunsAt(w, n, a) # {} /\ Found(observations, w, n, a) = x
<1>1. PICK k \in DOMAIN observations : x = observations[k]
  BY DEF Range
<1>2. k \in 1..Len(observations)
  BY <1>1 DEF Recorded
<1>3. k \in DOMAIN happened /\ Slots(plan)[k] = Cell(w, n, a)
  BY <1>1, <1>2, Place
<1>4. happened[k] \in RunsAt(w, n, a)
  BY <1>3 DEF RunsAt, Cell
<1>5. Found(observations, w, n, a) = x
  BY <1>1, FoundIs DEF Cell
<1>6. QED
  BY <1>4, <1>5

(* The run of a slot is the one that was observed there. *)
LEMMA ObservedThere ==
  ASSUME plan \in Plans, Recorded(plan, observations, happened), NoIssues(plan, observations),
         NEW w, NEW n, NEW a, NEW run \in RunsAt(w, n, a)
  PROVE  LET x == Found(observations, w, n, a) IN
         /\ x \in Range(observations) /\ SlotOf(x) = Cell(w, n, a)
         /\ a \in DOMAIN plan.actions
         /\ Genuine(plan.actions[a], run, x)
         /\ Sound(plan, x) /\ ActionOf(plan, x) = plan.actions[a]
<1>1. PICK k \in DOMAIN happened : run = happened[k] /\ Slots(plan)[k] = Cell(w, n, a)
  BY DEF RunsAt, Cell
<1>2. k \in 1..Len(observations)
  BY <1>1 DEF Recorded
<1>3. /\ k \in DOMAIN observations /\ SlotOf(observations[k]) = Slots(plan)[k]
      /\ Slots(plan)[k].action \in DOMAIN plan.actions
      /\ Genuine(plan.actions[Slots(plan)[k].action], happened[k], observations[k])
  BY <1>2, Place
<1>4. Slots(plan)[k].action = a
  BY <1>1 DEF Cell
<1>5. SlotOf(observations[k]) = Cell(w, n, a)
  BY <1>1, <1>3
<1>6. Found(observations, w, n, a) = observations[k]
  BY <1>3, <1>5, FoundIs DEF Cell
<1>7. Sound(plan, observations[k]) /\ observations[k] \in Range(observations)
  BY <1>3 DEF NoIssues, Range
<1>8. observations[k].action = a
  BY <1>5 DEF SlotOf, Cell
<1>9. QED
  BY <1>1, <1>3, <1>4, <1>5, <1>6, <1>7, <1>8 DEF ActionOf

LEMMA CoveredMeans ==
  ASSUME NEW p, NEW o, NEW made, NEW usable, NEW ci, Status(p, o, made, usable, ci) = "COVERED"
  PROVE  /\ usable /\ SuitesObserved(p, o, made)
         /\ p.obligations[o].kind = "ci-live" => VerifyCi(p, ci)
         /\ p.obligations[o].kind # "ci-live" =>
              ~Contradicted(p, o, made) /\ FaultsDetected(p, o, made)
BY DEF Status

(* Wherever an obligation is assessed, each of its checks was answered by  *)
(* a completed observation, and behind it there is a run.                  *)
LEMMA Answered ==
  ASSUME plan \in Plans, Recorded(plan, observations, happened), NoIssues(plan, observations),
         NEW o, FaultsDetected(plan, o, observations),
         NEW w \in DOMAIN plan.worlds, Bears(plan, o, w), NEW n \in Attempts(plan),
         NEW check \in Range(plan.obligations[o].checks)
  PROVE  LET x == Found(observations, w, n, check.action) IN
         /\ At(observations, w, n, check.action) # {}
         /\ x \in Range(observations) /\ SlotOf(x) = Cell(w, n, check.action)
         /\ x.state = "COMPLETED" /\ Has(x, check.field)
         /\ RunsAt(w, n, check.action) # {}
<1> DEFINE x == Found(observations, w, n, check.action)
<1>1. ~Operational(plan, o, w, n, observations)
  BY DEF FaultsDetected
<1>2. /\ At(observations, w, n, check.action) # {}
      /\ ~OperationalFailure(plan, o, check, x)
  BY <1>1 DEF Operational
<1>3. x \in At(observations, w, n, check.action)
  BY <1>2 DEF Found
<1>4. x \in Range(observations) /\ SlotOf(x) = Cell(w, n, check.action)
  BY <1>3 DEF At, Cell
<1>5. x.state = "COMPLETED" /\ Has(x, check.field)
  BY <1>2 DEF OperationalFailure
<1>6. RunsAt(w, n, check.action) # {}
  BY <1>4, RunBehind
<1>7. QED
  BY <1>2, <1>4, <1>5, <1>6

(* In a reference or neutral world the answers are those that are expected.*)
LEMMA ExpectedAnswer ==
  ASSUME NEW o, NEW w \in Baselines(plan), NEW n \in Attempts(plan),
         FaultsDetected(plan, o, observations), ~Contradicted(plan, o, observations),
         NEW check \in Range(plan.obligations[o].checks),
         At(observations, w, n, check.action) # {}
  PROVE  Fact(Found(observations, w, n, check.action), check.field) = check.expected
<1>1. w \in DOMAIN plan.worlds /\ Bears(plan, o, w)
  BY DEF Baselines, Bears
<1>2. ~Operational(plan, o, w, n, observations)
  BY <1>1 DEF FaultsDetected
<1>3. FailedChecks(plan, o, w, n, observations) = {}
  BY <1>2 DEF Contradicted
<1>4. PICK c \in DOMAIN plan.obligations[o].checks : check = plan.obligations[o].checks[c]
  BY DEF Range
<1>5. QED
  BY <1>3, <1>4 DEF FailedChecks

(* No check of a covered obligation asks for a nonce: its answers in two   *)
(* attempts would have to differ and yet both be the one expected.         *)
LEMMA NonceNeverAsked ==
  ASSUME plan \in Plans, Recorded(plan, observations, happened), NoIssues(plan, observations),
         NEW o, FaultsDetected(plan, o, observations), ~Contradicted(plan, o, observations),
         NEW check \in Range(plan.obligations[o].checks)
  PROVE  check.field \notin Nonces
<1> SUFFICES ASSUME check.field \in Nonces PROVE FALSE
  OBVIOUS
<1>1. PICK w \in DOMAIN plan.worlds : plan.worlds[w].kind = "REFERENCE"
  BY QualificationAssumption
<1>2. w \in Baselines(plan) /\ Bears(plan, o, w)
  BY <1>1 DEF Baselines, Bears
<1>3. 1 \in Attempts(plan) /\ 2 \in Attempts(plan)
  BY QualificationAssumption DEF Attempts
<1> DEFINE x(n) == Found(observations, w, n, check.action)
<1>4. \A n \in {1, 2} :
        /\ At(observations, w, n, check.action) # {}
        /\ x(n) \in Range(observations) /\ SlotOf(x(n)) = Cell(w, n, check.action)
        /\ x(n).state = "COMPLETED" /\ Has(x(n), check.field)
  BY <1>2, <1>3, Answered
<1>5. \A n \in {1, 2} : Fact(x(n), check.field) = check.expected
  BY <1>2, <1>3, <1>4, ExpectedAnswer
<1> HIDE DEF x
<1>6. PICK i \in DOMAIN observations : x(1) = observations[i]
  BY <1>4 DEF Range
<1>7. PICK j \in DOMAIN observations : x(2) = observations[j]
  BY <1>4 DEF Range
<1>8. i # j
  BY <1>4, <1>6, <1>7 DEF Cell
<1>9. Fact(observations[i], check.field) # Fact(observations[j], check.field)
  BY <1>4, <1>6, <1>7, <1>8 DEF NoIssues, FreshNonces, Nonces
<1>10. QED
  BY <1>5, <1>6, <1>7, <1>9

(* The facts of a test observation speak of the files of the run.          *)
LEMMA TestRun ==
  ASSUME NEW run, NEW x, Genuine(ActionOf(plan, x), run, x), Sound(plan, x),
         x.state = "COMPLETED", ActionOf(plan, x).adapter \in Testing
  PROVE  /\ TestsRan(ActionOf(plan, x), run)
         /\ x.facts.testFiles = run.ran /\ x.facts.failureFiles = run.failed
         /\ Fact(x, "testOutcome") = "PASS" => run.failed = {}
<1> DEFINE action == ActionOf(plan, x)
<1>1. TestsRan(action, run) /\ Agrees(x.facts, action, run)
  BY DEF Genuine
<1>2. {"testOutcome", "testFiles", "failureFiles"} \subseteq DOMAIN x.facts
  BY DEF Sound, TestFactsAgree
<1>3. /\ Shown(action, run)["testFiles"] = run.ran
      /\ Shown(action, run)["failureFiles"] = run.failed
      /\ Shown(action, run)["testOutcome"] = IF run.failed = {} THEN "PASS" ELSE "ASSERTION_FAILURE"
  BY DEF Shown
<1> HIDE DEF action
<1>4. \A field \in {"testOutcome", "testFiles", "failureFiles"} :
        x.facts[field] = Shown(action, run)[field]
  BY <1>1, <1>2 DEF Agrees, Nonces
<1>5. x.facts["testOutcome"] = "PASS" => run.failed = {}
  BY <1>3, <1>4
<1>6. x.facts["testFiles"] = run.ran /\ x.facts["failureFiles"] = run.failed
  BY <1>3, <1>4
<1>7. Fact(x, "testOutcome") = x.facts["testOutcome"]
  BY <1>2 DEF Fact
<1>8. QED
  BY <1>1, <1>5, <1>6, <1>7 DEF action

(* Each file of the suites ran and passed in the references and neutrals.  *)
LEMMA BaselineTests ==
  ASSUME plan \in Plans, Recorded(plan, observations, happened), NoIssues(plan, observations),
         NEW o, plan.obligations[o].kind = "tests", SuitesObserved(plan, o, observations),
         ~Contradicted(plan, o, observations),
         NEW w \in Baselines(plan), NEW n \in Attempts(plan)
  PROVE  TestsPass(o, w, n)
<1> SUFFICES ASSUME NEW f \in SuiteFiles(o)
             PROVE  \E a \in CheckedActions(plan, o) : \A run \in RunsAt(w, n, a) :
                      f \in run.ran /\ TestsRan(plan.actions[a], run) /\ run.failed = {}
  BY DEF TestsPass
<1>1. PICK s \in plan.obligations[o].suites : f \in plan.suites[s].files
  BY DEF SuiteFiles
<1>2. w \in DOMAIN plan.worlds /\ Bears(plan, o, w)
  BY DEF Baselines, Bears
<1>3. PICK x \in Range(observations) :
        /\ x.world = w /\ x.attempt = n /\ x.action \in CheckedActions(plan, o)
        /\ x.state = "COMPLETED" /\ Has(x, "testsDiscovered") /\ f \in x.facts.testFiles
  BY <1>1, <1>2 DEF SuitesObserved
<1> DEFINE a == x.action
<1>4. SlotOf(x) = Cell(w, n, a)
  BY <1>3 DEF SlotOf, Cell
<1>5. Found(observations, w, n, a) = x
  BY <1>3, <1>4, RunBehind
<1>6. SUFFICES ASSUME NEW run \in RunsAt(w, n, a)
               PROVE  f \in run.ran /\ TestsRan(plan.actions[a], run) /\ run.failed = {}
  BY <1>3
<1>7. /\ Genuine(plan.actions[a], run, x) /\ Sound(plan, x)
      /\ ActionOf(plan, x) = plan.actions[a]
  BY <1>5, ObservedThere
<1>8. ActionOf(plan, x).adapter \in Testing
  BY <1>3, <1>7 DEF Genuine, Agrees, Nonces, Has
<1>9. At(observations, w, n, a) # {}
  BY <1>3, <1>4 DEF At, Cell
<1>10. Fact(x, "testOutcome") = "PASS"
  <2>1. ~BaselineTestsFail(plan, o, w, n, observations)
    BY DEF Contradicted
  <2>2. QED
    BY <2>1, <1>3, <1>5, <1>7, <1>8, <1>9 DEF BaselineTestsFail
<1>11. QED
  BY <1>3, <1>7, <1>8, <1>10, TestRun

LEMMA BaselineChecks ==
  ASSUME plan \in Plans, Recorded(plan, observations, happened), NoIssues(plan, observations),
         NEW o, FaultsDetected(plan, o, observations), ~Contradicted(plan, o, observations),
         NEW w \in Baselines(plan), NEW n \in Attempts(plan)
  PROVE  ChecksHold(o, w, n)
<1> SUFFICES ASSUME NEW check \in Range(plan.obligations[o].checks),
                    NEW run \in RunsAt(w, n, check.action)
             PROVE  /\ Ended(run)
                    /\ Shows(plan.actions[check.action], run, check.field, check.expected)
  BY DEF ChecksHold
<1> DEFINE a == check.action
<1> DEFINE x == Found(observations, w, n, a)
<1>1. w \in DOMAIN plan.worlds /\ Bears(plan, o, w)
  BY DEF Baselines, Bears
<1>2. /\ At(observations, w, n, a) # {} /\ x.state = "COMPLETED" /\ Has(x, check.field)
  BY <1>1, Answered
<1>3. Genuine(plan.actions[a], run, x)
  BY ObservedThere
<1>4. Fact(x, check.field) = check.expected
  BY <1>2, ExpectedAnswer
<1>5. check.field \notin Nonces
  BY NonceNeverAsked
<1> HIDE DEF x
<1>6. Ended(run) /\ Agrees(x.facts, plan.actions[a], run)
  BY <1>2, <1>3 DEF Genuine
<1>7. QED
  BY <1>2, <1>4, <1>5, <1>6 DEF Agrees, Shows, Fact, Has

(* In its fault worlds each attempt showed a difference: for tests a       *)
(* failed assertion of a suite of the obligation.                          *)
LEMMA TargetDetected ==
  ASSUME plan \in Plans, Recorded(plan, observations, happened), NoIssues(plan, observations),
         NEW o, FaultsDetected(plan, o, observations), ~Contradicted(plan, o, observations),
         NEW w \in Targets(plan, o), NEW n \in Attempts(plan)
  PROVE  IF plan.obligations[o].kind = "tests" THEN TestsFail(o, w, n) ELSE ChecksFail(o, w, n)
<1>1. w \in DOMAIN plan.worlds /\ Bears(plan, o, w) /\ plan.worlds[w].kind = "TARGET"
  BY DEF Targets
<1>2. Detected(plan, o, w, n, observations)
  BY <1>1 DEF FaultsDetected
<1>3. PICK c \in FailedChecks(plan, o, w, n, observations) :
        Discriminates(plan, o, w, n, c, observations)
  BY <1>2 DEF Detected
<1> DEFINE check == plan.obligations[o].checks[c]
<1> DEFINE a == check.action
<1> DEFINE x == Found(observations, w, n, a)
<1>4. check \in Range(plan.obligations[o].checks) /\ Fact(x, check.field) # check.expected
  BY <1>3 DEF FailedChecks, Range
<1>5. x.state = "COMPLETED" /\ Has(x, check.field)
  BY <1>1, <1>4, Answered
<1>6. \A run \in RunsAt(w, n, a) :
        /\ Genuine(plan.actions[a], run, x) /\ Sound(plan, x)
        /\ ActionOf(plan, x) = plan.actions[a]
  BY ObservedThere
<1>7. CASE plan.obligations[o].kind = "tests"
  <2>1. /\ plan.actions[a].adapter \in Testing
        /\ x.facts.failureFiles \cap SuiteFiles(o) # {}
    BY <1>3, <1>7 DEF Discriminates, SuiteFiles
  <2>2. a \in CheckedActions(plan, o)
    BY <1>4 DEF CheckedActions
  <2> HIDE DEF x, a
  <2>3. \A run \in RunsAt(w, n, a) :
          TestsRan(plan.actions[a], run) /\ run.failed \cap SuiteFiles(o) # {}
    BY <1>5, <1>6, <2>1, TestRun
  <2>4. QED
    BY <1>7, <2>2, <2>3 DEF TestsFail
<1>8. CASE plan.obligations[o].kind # "tests"
  <2>1. check.field \notin Nonces
    BY <1>4, NonceNeverAsked
  <2> HIDE DEF x, check
  <2>2. \A run \in RunsAt(w, n, check.action) :
          /\ Ended(run)
          /\ ShowsOther(plan.actions[check.action], run, check.field, check.expected)
    BY <1>4, <1>5, <1>6, <2>1 DEF Genuine, Agrees, ShowsOther, Fact, Has
  <2>3. QED
    BY <1>4, <1>8, <2>2 DEF ChecksFail
<1>9. QED
  BY <1>7, <1>8

LEMMA Earned ==
  ASSUME plan \in Plans, Recorded(plan, observations, happened), NoIssues(plan, observations),
         NEW o, SuitesObserved(plan, o, observations), FaultsDetected(plan, o, observations),
         ~Contradicted(plan, o, observations)
  PROVE  EarnedLocally(o)
<1>1. Targets(plan, o) # {}
  BY DEF FaultsDetected
<1>2. ASSUME NEW w \in Baselines(plan) \cup Targets(plan, o), NEW n \in Attempts(plan),
             NEW a \in CheckedActions(plan, o)
      PROVE  RunsAt(w, n, a) # {}
  <2>1. w \in DOMAIN plan.worlds /\ Bears(plan, o, w)
    BY DEF Baselines, Targets, Bears
  <2>2. PICK check \in Range(plan.obligations[o].checks) : a = check.action
    BY DEF CheckedActions
  <2>3. QED
    BY <2>1, <2>2, Answered
<1>3. \A n \in Attempts(plan), w \in Baselines(plan) :
        IF plan.obligations[o].kind = "tests" THEN TestsPass(o, w, n) ELSE ChecksHold(o, w, n)
  BY BaselineTests, BaselineChecks
<1>4. \A n \in Attempts(plan), w \in Targets(plan, o) :
        IF plan.obligations[o].kind = "tests" THEN TestsFail(o, w, n) ELSE ChecksFail(o, w, n)
  BY TargetDetected
<1>5. QED
  BY <1>1, <1>2, <1>3, <1>4 DEF EarnedLocally

-----------------------------------------------------------------------------
(* The receipt and its damages.                                            *)

LEMMA Issued ==
  ASSUME NEW p, NEW made, NEW ci, NEW file, file = CreateReceipt(p, made, ci)
  PROVE  /\ file.observations = made /\ file.ci = ci /\ file.sealed
         /\ DOMAIN file = {"observations", "ci", "statuses", "decision", "sealed"}
         /\ file # NoReceipt
<1>1. /\ file.observations = made /\ file.ci = ci /\ file.sealed
      /\ DOMAIN file = {"observations", "ci", "statuses", "decision", "sealed"}
  BY DEF CreateReceipt
<1>2. "ci" \notin DOMAIN NoReceipt
  BY DEF NoReceipt
<1>3. QED
  BY <1>1, <1>2

LEMMA IssuedQualified ==
  ASSUME NEW p, NEW made, NEW ci, NEW file, file = CreateReceipt(p, made, ci),
         file.decision = "QUALIFIED"
  PROVE  /\ NoIssues(p, made)
         /\ \A o \in DOMAIN p.obligations : p.obligations[o].required =>
              Status(p, o, made, TRUE, ci) = "COVERED"
<1> DEFINE usable == NoIssues(p, made)
<1> DEFINE statuses == [o \in DOMAIN p.obligations |-> Status(p, o, made, usable, ci)]
<1>1. file.decision = IF usable THEN Decision(p, statuses) ELSE "REJECTED"
  BY DEF CreateReceipt
<1>2. usable /\ Decision(p, statuses) = "QUALIFIED"
  BY <1>1
<1>3. \A o \in DOMAIN p.obligations : p.obligations[o].required => statuses[o] = "COVERED"
  BY <1>2 DEF Decision
<1>4. \A o \in DOMAIN p.obligations : statuses[o] = Status(p, o, made, TRUE, ci)
  BY <1>2
<1>5. QED
  BY <1>2, <1>3, <1>4

LEMMA IssuedReplays ==
  ASSUME NEW p, NEW made, NEW ci, NEW file, file = CreateReceipt(p, made, ci)
  PROVE  Replay(p, file) <=> NoIssues(p, made)
<1>1. file.observations = made /\ file.ci = ci /\ file.sealed
  BY Issued
<1>2. QED
  BY <1>1 DEF Replay

LEMMA LoseSpoils ==
  ASSUME NEW p, NEW S, NEW made \in Seq(S), NoIssues(p, made), NEW i \in 1..Len(made)
  PROVE  ~NoIssues(p, RemoveAt(made, i))
<1> DEFINE before == SubSeq(made, 1, i - 1)
<1> DEFINE after == SubSeq(made, i + 1, Len(made))
<1>1. /\ before \in Seq(S) /\ Len(before) = i - 1
      /\ \A k \in 1..Len(before) : before[k] = made[k]
  BY SubSeqProperties
<1>2. /\ after \in Seq(S) /\ Len(after) = Len(made) - i
      /\ \A k \in 1..Len(after) : after[k] = made[i + k]
  BY SubSeqProperties
<1> HIDE DEF before, after
<1>3. RemoveAt(made, i) = before \o after
  BY DEF RemoveAt, before, after
<1>4. \A x \in Range(RemoveAt(made, i)) : \E j \in DOMAIN made : j # i /\ x = made[j]
  <2>1. ASSUME NEW k \in DOMAIN (before \o after)
        PROVE  \E j \in DOMAIN made : j # i /\ (before \o after)[k] = made[j]
    <3>1. k \in 1..(i - 1 + (Len(made) - i))
      BY <1>1, <1>2
    <3>2. CASE k <= i - 1
      BY <3>1, <3>2, <1>1, <1>2
    <3>3. CASE k > i - 1
      <4>1. (before \o after)[k] = after[k - (i - 1)] /\ k - (i - 1) \in 1..Len(after)
        BY <3>1, <3>3, <1>1, <1>2
      <4>2. after[k - (i - 1)] = made[i + (k - (i - 1))]
        BY <4>1, <1>2, Zenon
      <4> i + (k - (i - 1)) = k + 1
        <5>1. k \in Int /\ i \in Int
          BY <3>1
        <5>2. QED
          BY ONLY <5>1
      <4>3. k + 1 \in DOMAIN made /\ k + 1 # i
        BY <3>1, <3>3
      <4>4. QED
        BY <4>1, <4>2, <4>3
    <3>4. QED
      BY <3>1, <3>2, <3>3
  <2>2. QED
    BY <2>1, <1>3 DEF Range
<1>5. SlotOf(made[i]) \in Range(Slots(p))
  <2>1. made[i] \in Range(made)
    BY DEF Range
  <2>2. QED
    BY <2>1 DEF NoIssues
<1>6. \A j \in DOMAIN made : j # i => SlotOf(made[j]) # SlotOf(made[i])
  BY DEF NoIssues
<1>7. SlotOf(made[i]) \notin {SlotOf(x) : x \in Range(RemoveAt(made, i))}
  BY <1>4, <1>6
<1>8. QED
  BY <1>5, <1>7 DEF NoIssues

LEMMA RepeatSpoils ==
  ASSUME NEW p, NEW S, NEW made \in Seq(S), NEW i \in 1..Len(made)
  PROVE  ~NoIssues(p, Append(made, made[i]))
<1> DEFINE more == Append(made, made[i])
<1>1. more[i] = made[i] /\ more[Len(made) + 1] = made[i] /\ i # Len(made) + 1
      /\ i \in DOMAIN more /\ Len(made) + 1 \in DOMAIN more
  OBVIOUS
<1>2. QED
  BY <1>1 DEF NoIssues

LEMMA ExchangeSpoils ==
  ASSUME NEW p, NEW made, NoIssues(p, made), NEW i \in DOMAIN made, NEW j \in DOMAIN made, i # j,
         "binding" \in DOMAIN made[i],
         NEW other, i \in DOMAIN other, other[i] = SlotOf(made[j]) ++ made[i]
  PROVE  ~NoIssues(p, other)
<1> DEFINE x == SlotOf(made[j]) ++ made[i]
<1>1. x.world = made[j].world /\ x.attempt = made[j].attempt /\ x.action = made[j].action
      /\ x.binding = made[i].binding
  BY DEF SlotOf, ++
<1> HIDE DEF x
<1>2. SlotOf(x) = SlotOf(made[j])
  BY <1>1 DEF SlotOf
<1>3. x.binding = SlotOf(made[i])
  BY <1>1 DEF NoIssues, Sound
<1>4. SlotOf(made[i]) # SlotOf(made[j])
  BY DEF NoIssues
<1>5. ~Sound(p, x)
  BY <1>2, <1>3, <1>4 DEF Sound
<1>6. QED
  BY <1>5 DEF NoIssues, x

Damages(file) ==
  (UNION {{Lose(file, i), Repeat(file, i)} : i \in {1, Len(file.observations)}})
  \cup {Exchange(file, 1, j) : j \in {2, Len(file.observations)}}
  \cup {Summarize(file, "QUALIFIED")}

(* A receipt that was damaged and still claims qualification is refused,   *)
(* however its digests are computed, unless it is what it was before.      *)
LEMMA DamageSpoils ==
  ASSUME NEW p \in Plans, NEW made, NEW behind, Recorded(p, made, behind), NEW ci,
         NEW file, file = CreateReceipt(p, made, ci),
         NEW damaged \in Damages(file), damaged.decision = "QUALIFIED", NEW resealed \in BOOLEAN
  PROVE  LET stored == [damaged EXCEPT !.sealed = resealed] IN
         stored = file \/ ~Replay(p, stored)
<1> DEFINE stored == [damaged EXCEPT !.sealed = resealed]
<1>1. /\ file.observations = made /\ file.ci = ci /\ file.sealed
      /\ DOMAIN file = {"observations", "ci", "statuses", "decision", "sealed"}
  BY Issued
<1>2. file.decision = "QUALIFIED" => NoIssues(p, made)
  BY IssuedQualified
<1>3. made \in Seq(AllObservations(p))
  BY DEF Recorded
<1>4. \A i \in 1..Len(made) : "binding" \in DOMAIN made[i]
  BY Place
<1>5. NoIssues(p, made) => Len(made) >= 2
  <2>1. 1 \in DOMAIN Slots(p) /\ 2 \in DOMAIN Slots(p) /\ Slots(p)[1] # Slots(p)[2]
    BY SlotsOfPlan
  <2>2. Slots(p)[1] \in Range(Slots(p)) /\ Slots(p)[2] \in Range(Slots(p))
    BY <2>1 DEF Range
  <2>3. ASSUME NoIssues(p, made)
        PROVE  \E i, j \in DOMAIN made : i # j
    <3>1. PICK x \in Range(made) : SlotOf(x) = Slots(p)[1]
      BY <2>2, <2>3 DEF NoIssues
    <3>2. PICK y \in Range(made) : SlotOf(y) = Slots(p)[2]
      BY <2>2, <2>3 DEF NoIssues
    <3>3. x # y
      BY <2>1, <3>1, <3>2
    <3>4. QED
      BY <3>3 DEF Range
  <2>4. QED
    BY <2>3, <1>3
<1>6. \/ \E i \in {1, Len(made)} : damaged = Lose(file, i)
      \/ \E i \in {1, Len(made)} : damaged = Repeat(file, i)
      \/ \E j \in {2, Len(made)} : damaged = Exchange(file, 1, j)
      \/ damaged = Summarize(file, "QUALIFIED")
  <2> DEFINE places == {1, Len(made)}
  <2> DEFINE shorter == {{Lose(file, i), Repeat(file, i)} : i \in places}
  <2> DEFINE exchanged == {Exchange(file, 1, j) : j \in {2, Len(made)}}
  <2> DEFINE summarized == Summarize(file, "QUALIFIED")
  <2>1. damaged \in (UNION shorter) \cup exchanged \cup {summarized}
    BY <1>1 DEF Damages
  <2> HIDE DEF shorter
  <2>2. CASE damaged \in UNION shorter
    <3>1. PICK both \in shorter : damaged \in both
      BY <2>2
    <3>2. PICK i \in places : both = {Lose(file, i), Repeat(file, i)}
      BY DEF shorter
    <3>3. QED
      BY <3>1, <3>2
  <2>3. CASE damaged \in exchanged
    BY <2>3
  <2>4. CASE damaged = summarized
    BY <2>4
  <2> HIDE DEF exchanged, summarized
  <2>5. QED
    BY <2>1, <2>2, <2>3, <2>4
<1>7. DOMAIN damaged = DOMAIN file /\ damaged.ci = file.ci
  BY <1>1, <1>6 DEF Lose, Repeat, Exchange, Summarize
<1>8. stored.observations = damaged.observations /\ stored.ci = damaged.ci /\ stored.sealed = resealed
  BY <1>1, <1>7
<1>9. CASE resealed = FALSE
  BY <1>8, <1>9 DEF Replay
<1>10. CASE resealed = TRUE /\ damaged = Summarize(file, "QUALIFIED")
  <2>1. stored.observations = made /\ stored.ci = ci
    BY <1>1, <1>8, <1>10 DEF Summarize
  <2>2. Replay(p, stored) => stored = file
    BY <2>1 DEF Replay
  <2>3. QED
    BY <2>2
<1>11. ASSUME resealed = TRUE, damaged # Summarize(file, "QUALIFIED")
       PROVE  ~NoIssues(p, damaged.observations)
  <2>1. damaged.decision = file.decision
    BY <1>1, <1>6, <1>11 DEF Lose, Repeat, Exchange
  <2>2. NoIssues(p, made) /\ Len(made) \in Nat /\ Len(made) >= 2
    BY <1>2, <1>3, <1>5, <2>1
  <2>3. CASE \E i \in {1, Len(made)} : damaged = Lose(file, i)
    <3>1. PICK i \in 1..Len(made) : damaged = Lose(file, i)
      BY <2>2, <2>3
    <3>2. damaged.observations = RemoveAt(made, i)
      BY <1>1, <3>1 DEF Lose
    <3>3. QED
      BY <1>3, <2>2, <3>2, LoseSpoils
  <2>4. CASE \E i \in {1, Len(made)} : damaged = Repeat(file, i)
    <3>1. PICK i \in 1..Len(made) : damaged = Repeat(file, i)
      BY <2>2, <2>4
    <3>2. damaged.observations = Append(made, made[i])
      BY <1>1, <3>1 DEF Repeat
    <3>3. QED
      BY <1>3, <3>2, RepeatSpoils
  <2>5. CASE \E j \in {2, Len(made)} : damaged = Exchange(file, 1, j)
    <3>1. PICK j \in 2..Len(made) : damaged = Exchange(file, 1, j)
      BY <2>2, <2>5
    <3>2. 1 \in DOMAIN made /\ j \in DOMAIN made /\ 1 # j
      BY <1>3, <2>2
    <3>3. /\ 1 \in DOMAIN damaged.observations
          /\ damaged.observations[1] = SlotOf(made[j]) ++ made[1]
      BY <1>1, <3>1, <3>2 DEF Exchange
    <3>4. "binding" \in DOMAIN made[1]
      BY <1>4, <2>2
    <3>5. QED
      BY <2>2, <3>2, <3>3, <3>4, ExchangeSpoils
  <2>6. QED
    BY <1>6, <1>11, <2>3, <2>4, <2>5
<1>12. QED
  BY <1>8, <1>9, <1>10, <1>11 DEF Replay

-----------------------------------------------------------------------------
(* The invariant.                                                          *)

LEMMA RecordedStart ==
  ASSUME NEW p \in Plans
  PROVE  Recorded(p, <<>>, <<>>)
BY SlotsOfPlan DEF Recorded

LEMMA RecordedStep ==
  ASSUME NEW p \in Plans, NEW made, NEW behind, Recorded(p, made, behind),
         Len(made) # Len(Slots(p)),
         NEW run \in RunsOf(p.actions[Slots(p)[Len(made) + 1].action])
  PROVE  LET slot == Slots(p)[Len(made) + 1]
             x    == Collected(slot, p.actions[slot.action], run, Len(made) + 1)
         IN Recorded(p, Append(made, x), Append(behind, run)) /\ Append(made, x) # <<>>
<1> DEFINE k == Len(made) + 1
<1> DEFINE slot == Slots(p)[k]
<1> DEFINE x == Collected(slot, p.actions[slot.action], run, k)
<1>1. /\ made \in Seq(AllObservations(p)) /\ behind \in Seq(AllRuns(p))
      /\ Len(made) = Len(behind) /\ Len(made) <= Len(Slots(p)) /\ Len(Slots(p)) \in Nat
  BY SlotsOfPlan DEF Recorded
<1>2. k \in 1..Len(Slots(p)) /\ k \in Nat /\ k \in DOMAIN Slots(p)
  BY <1>1, SlotsOfPlan
<1>3. slot.action \in DOMAIN p.actions /\ slot \in Range(Slots(p))
  BY <1>2, SlotsOfPlan DEF Range
<1>4. run \in AllRuns(p)
  BY <1>3 DEF AllRuns
<1>5. x \in AllObservations(p)
  BY <1>2, <1>3, <1>4 DEF AllObservations
<1> HIDE DEF x
<1>6. /\ Append(made, x) \in Seq(AllObservations(p)) /\ Append(behind, run) \in Seq(AllRuns(p))
      /\ Len(Append(made, x)) = k /\ Len(Append(behind, run)) = k
      /\ Append(made, x)[k] = x /\ Append(behind, run)[k] = run
      /\ \A i \in 1..Len(made) : Append(made, x)[i] = made[i] /\ Append(behind, run)[i] = behind[i]
  BY <1>1, <1>4, <1>5
<1>7. \A i \in 1..k : i = k \/ i \in 1..Len(made)
  BY <1>1
<1>8. Append(made, x) # <<>>
  BY <1>1, <1>2, <1>6, EmptySeq
<1>9. Recorded(p, Append(made, x), Append(behind, run))
  BY <1>1, <1>2, <1>6, <1>7 DEF Recorded, x
<1>10. QED
  BY <1>8, <1>9 DEF x

PreRun == {"inputs", "tools", "prepare"}
Steps == PreRun \cup {"running", "engine", "tools again", "removing", "threw", "returned"}

(* What was edited when the last run began, and what was known of it. *)
OneSubject ==
  /\ known \subseteq edited /\ during \subseteq edited /\ edited \subseteq Things
  /\ known \subseteq {"engine"}
  /\ observations # <<>> => known \subseteq during
  /\ pc \in PreRun => observations = <<>>
  /\ pc \in {"engine", "tools again"} => Finished /\ "inputs" \notin during
  /\ pc = "tools again" => during \cap {"engine"} = known

(* The receipt is the one of these observations, and so is the file, or a  *)
(* replay refuses it.                                                      *)
OneReceipt ==
  /\ pending # NoReceipt => pending = CreateReceipt(plan, observations, NoCi) /\ during = known
  /\ pending # NoReceipt => pc \in {"removing", "threw", "returned"}
  /\ receipt # NoReceipt => receipt = CreateReceipt(plan, observations, receipt.ci) /\ during = known
  /\ receipt # NoReceipt <=> pc = "returned"
  /\ pc # "returned" => verdict = "none"
  /\ held = receipt \/ ~Replay(plan, held)
  /\ verdict # "none" => verdict = Verdict(held)

IInv ==
  /\ plan \in Plans /\ pc \in Steps
  /\ Recorded(plan, observations, happened)
  /\ OneSubject
  /\ OneReceipt

LEMMA InitInvariant == Init => IInv
<1> SUFFICES ASSUME Init PROVE IInv
  OBVIOUS
<1>1. plan \in Plans /\ pc \in Steps
  BY DEF Init, Steps, PreRun
<1>2. Recorded(plan, observations, happened)
  BY <1>1, RecordedStart DEF Init
<1>3. OneSubject
  BY DEF Init, OneSubject, Things, PreRun
<1>4. OneReceipt
  BY DEF Init, OneReceipt
<1>5. QED
  BY <1>1, <1>2, <1>3, <1>4 DEF IInv

(* Nothing is written when nothing runs. *)
LEMMA EarlyStep ==
  ASSUME IInv, SnapshotInputs \/ ProbeTools \/ Prepare
  PROVE  IInv'
<1> USE DEF IInv, running, filed
<1>1. plan' \in Plans /\ pc' \in Steps /\ Recorded(plan, observations, happened)'
  BY DEF SnapshotInputs, ProbeTools, Prepare, Steps, PreRun
<1>2. OneSubject'
  BY DEF SnapshotInputs, ProbeTools, Prepare, OneSubject, PreRun, Things, Finished
<1>3. OneReceipt'
  <2>1. pending = NoReceipt /\ receipt = NoReceipt /\ verdict = "none" /\ pc' # "returned"
    BY DEF SnapshotInputs, ProbeTools, Prepare, OneReceipt
  <2>2. UNCHANGED <<plan, pending, receipt, held, verdict>>
    BY DEF SnapshotInputs, ProbeTools, Prepare
  <2>3. QED
    BY <2>1, <2>2 DEF OneReceipt
<1>4. QED
  BY <1>1, <1>2, <1>3

LEMMA ExecuteStep ==
  ASSUME IInv, Execute
  PROVE  IInv'
<1> USE DEF IInv, running, filed
<1>1. PICK run \in RunsOf(Action) :
        /\ observations' = Append(observations,
                             Collected(Slot, Action, run, Len(observations) + 1))
        /\ happened' = Append(happened, run)
  BY DEF Execute
<1>2. Recorded(plan, observations', happened') /\ observations' # <<>>
  BY <1>1, RecordedStep DEF Execute, Finished, Slot, Action
<1>3. plan' = plan /\ plan' \in Plans /\ pc' = "running" /\ pc' \in Steps
  BY DEF Execute, Steps
<1>4. OneSubject'
  BY <1>2, <1>3 DEF Execute, OneSubject, PreRun
<1>5. pending = NoReceipt /\ receipt = NoReceipt /\ verdict = "none"
  BY DEF Execute, OneReceipt
<1>6. OneReceipt'
  BY <1>3, <1>5 DEF Execute, OneReceipt
<1>7. QED
  BY <1>2, <1>3, <1>4, <1>6

(* Every slot was run: there is at least one. *)
LEMMA SomethingRan ==
  ASSUME plan \in Plans, Finished
  PROVE  observations # <<>>
<1>1. Len(Slots(plan)) >= 2
  BY SlotsOfPlan
<1>2. Len(observations) # 0
  BY <1>1, SlotsOfPlan DEF Finished
<1>3. QED
  BY <1>2, EmptySeq

(* Each recheck removes one thing that may have been edited unnoticed. *)
LEMMA RecheckStep ==
  ASSUME IInv, RecheckInputs \/ RecheckEngine \/ ExecuteThrows
  PROVE  IInv'
<1> USE DEF IInv, running, filed
<1>1. plan' \in Plans /\ pc' \in Steps /\ Recorded(plan, observations, happened)'
  BY DEF RecheckInputs, RecheckEngine, ExecuteThrows, Steps
<1>2. UNCHANGED <<plan, edited, known, observations, happened, during, pending, receipt, held, verdict>>
  BY DEF RecheckInputs, RecheckEngine, ExecuteThrows
<1>3. OneSubject'
  <2>1. CASE RecheckInputs
    BY <2>1, <1>2 DEF RecheckInputs, OneSubject, Finished, PreRun
  <2>2. CASE ExecuteThrows
    BY <2>2, <1>2 DEF ExecuteThrows, OneSubject, PreRun
  <2>3. CASE RecheckEngine
    <3>1. observations # <<>> /\ Finished /\ "inputs" \notin during /\ known \subseteq during
      BY <2>3, SomethingRan DEF RecheckEngine, OneSubject
    <3>2. pc' = "tools again" => during \cap {"engine"} = known
      BY <2>3, <3>1 DEF RecheckEngine, OneSubject
    <3>3. pc' \in {"removing", "tools again"}
      BY <2>3 DEF RecheckEngine
    <3>4. QED
      BY <3>1, <3>2, <3>3, <1>2 DEF OneSubject, Finished, PreRun
  <2>4. QED
    BY <2>1, <2>2, <2>3
<1>4. OneReceipt'
  <2>1. pending = NoReceipt /\ receipt = NoReceipt /\ verdict = "none" /\ pc' # "returned"
    BY DEF RecheckInputs, RecheckEngine, ExecuteThrows, OneReceipt
  <2>2. QED
    BY <2>1, <1>2 DEF OneReceipt
<1>5. QED
  BY <1>1, <1>3, <1>4

LEMMA CreateStep ==
  ASSUME IInv, RecheckToolsAndCreate
  PROVE  IInv'
<1> USE DEF IInv, running, filed
<1>1. /\ pc = "tools again" /\ pc' = "removing"
      /\ pending' = IF "tools" \in edited THEN NoReceipt ELSE CreateReceipt(plan, observations, NoCi)
      /\ UNCHANGED <<plan, edited, known, observations, happened, during, receipt, held, verdict>>
  BY DEF RecheckToolsAndCreate
<1>2. plan' \in Plans /\ pc' \in Steps /\ Recorded(plan, observations, happened)'
  BY <1>1 DEF Steps
<1>3. OneSubject'
  BY <1>1 DEF OneSubject, PreRun
<1>4. "tools" \notin edited => during = known
  BY <1>1 DEF OneSubject, Things
<1>5. receipt = NoReceipt /\ verdict = "none"
  BY <1>1 DEF OneReceipt
<1>6. OneReceipt'
  BY <1>1, <1>4, <1>5 DEF OneReceipt
<1>7. QED
  BY <1>2, <1>3, <1>6

LEMMA RemoveStep ==
  ASSUME IInv, RemoveTemporary \/ RemoveFails
  PROVE  IInv'
<1> USE DEF IInv, running, filed
<1>1. /\ pc = "removing" /\ pc' \in {"threw", "returned"}
      /\ UNCHANGED <<plan, edited, known, observations, happened, during, pending, verdict>>
  BY DEF RemoveTemporary, RemoveFails
<1>2. plan' \in Plans /\ pc' \in Steps /\ Recorded(plan, observations, happened)'
  BY <1>1 DEF Steps
<1>3. OneSubject'
  BY <1>1 DEF OneSubject, PreRun
<1>4. receipt = NoReceipt /\ verdict = "none"
  BY <1>1 DEF OneReceipt
<1>5. OneReceipt'
  <2>1. CASE RemoveTemporary
    <3>1. /\ receipt' = pending /\ held' = pending
          /\ pc' = IF pending = NoReceipt THEN "threw" ELSE "returned"
      BY <2>1 DEF RemoveTemporary
    <3>2. pending # NoReceipt => pending.ci = NoCi
      BY Issued DEF OneReceipt
    <3>3. QED
      BY <3>1, <3>2, <1>1, <1>4 DEF OneReceipt
  <2>2. CASE RemoveFails
    <3>1. pc' = "threw" /\ UNCHANGED <<receipt, held>>
      BY <2>2 DEF RemoveFails
    <3>2. QED
      BY <3>1, <1>1, <1>4 DEF OneReceipt
  <2>3. QED
    BY <2>1, <2>2
<1>6. QED
  BY <1>2, <1>3, <1>5

LEMMA ReplayStep ==
  ASSUME IInv, ReplayHeld
  PROVE  IInv'
<1> USE DEF IInv, running, filed
<1>1. /\ pc = "returned" /\ verdict' = Verdict(held)
      /\ UNCHANGED <<plan, pc, edited, known, observations, happened, during, pending, receipt, held>>
  BY DEF ReplayHeld
<1>2. Recorded(plan, observations, happened)' /\ OneSubject'
  BY <1>1 DEF OneSubject, Finished
<1>3. verdict' = Verdict(held)'
  BY <1>1 DEF Verdict
<1>4. OneReceipt'
  BY <1>1, <1>3 DEF OneReceipt
<1>5. QED
  BY <1>1, <1>2, <1>4

(* Only the receipt as it was issued is taken up again. *)
LEMMA AdmitStep ==
  ASSUME IInv, AdmitCi
  PROVE  IInv'
<1> USE DEF IInv, running, filed
<1>1. PICK ci \in CiStatementsOf(plan) : held' = CreateReceipt(plan, held.observations, ci)
  BY DEF AdmitCi
<1>2. /\ pc = "returned" /\ Replay(plan, held) /\ receipt' = held' /\ verdict' = "none"
      /\ UNCHANGED <<plan, pc, edited, known, observations, happened, during, pending>>
  BY DEF AdmitCi
<1>3. Recorded(plan, observations, happened)' /\ OneSubject'
  BY <1>2 DEF OneSubject, Finished
<1>4. held = receipt /\ receipt # NoReceipt /\ receipt = CreateReceipt(plan, observations, receipt.ci)
  BY <1>2 DEF OneReceipt
<1>5. held.observations = observations
  BY <1>4, Issued
<1>6. held' = CreateReceipt(plan, observations, ci)
  BY <1>1, <1>5
<1>7. held'.ci = ci /\ held' # NoReceipt
  BY <1>6, Issued
<1>8. OneReceipt'
  BY <1>2, <1>4, <1>6, <1>7 DEF OneReceipt
<1>9. QED
  BY <1>2, <1>3, <1>8

LEMMA DamageStep ==
  ASSUME IInv, Damage
  PROVE  IInv'
<1> USE DEF IInv, running, filed
<1>1. /\ pc = "returned" /\ held = receipt /\ verdict = "none"
      /\ UNCHANGED <<plan, pc, edited, known, observations, happened, during, pending, receipt, verdict>>
  BY DEF Damage
<1>2. PICK damaged \in Damages(held) : \E resealed \in BOOLEAN :
        damaged.decision = "QUALIFIED" /\ held' = [damaged EXCEPT !.sealed = resealed]
  BY DEF Damage, Damages
<1>3. PICK resealed \in BOOLEAN :
        damaged.decision = "QUALIFIED" /\ held' = [damaged EXCEPT !.sealed = resealed]
  BY <1>2
<1>4. Recorded(plan, observations, happened)' /\ OneSubject'
  BY <1>1 DEF OneSubject, Finished
<1>5. held = CreateReceipt(plan, observations, receipt.ci)
  BY <1>1 DEF OneReceipt
<1>6. held' = held \/ ~Replay(plan, held')
  BY <1>3, <1>5, DamageSpoils
<1>7. OneReceipt'
  BY <1>1, <1>6 DEF OneReceipt
<1>8. QED
  BY <1>1, <1>4, <1>7

LEMMA EditStep ==
  ASSUME IInv, Edit
  PROVE  IInv'
<1> USE DEF IInv, running, filed
<1>1. PICK thing \in Things \ edited : edited' = edited \cup {thing}
  BY DEF Edit
<1>2. UNCHANGED <<plan, pc, known, observations, happened, during, pending, receipt, held, verdict>>
  BY DEF Edit
<1>3. Recorded(plan, observations, happened)'
  BY <1>2
<1>4. OneSubject'
  BY <1>1, <1>2 DEF OneSubject, Finished
<1>5. Verdict(held)' = Verdict(held) /\ (Replay(plan, held)' <=> Replay(plan, held))
  BY <1>2 DEF Verdict
<1>6. OneReceipt'
  BY <1>2, <1>5 DEF OneReceipt
<1>7. QED
  BY <1>2, <1>3, <1>4, <1>6

LEMMA StepInvariant == IInv /\ [Next]_vars => IInv'
<1> SUFFICES ASSUME IInv, [Next]_vars PROVE IInv'
  OBVIOUS
<1>1. CASE UNCHANGED vars
  <2>1. UNCHANGED <<plan, pc, edited, known, observations, happened, during, pending, receipt, held, verdict>>
    BY <1>1 DEF vars, running, filed
  <2>2. Recorded(plan, observations, happened)' <=> Recorded(plan, observations, happened)
    BY <2>1
  <2>3. OneSubject' <=> OneSubject
    BY <2>1 DEF OneSubject, Finished
  <2>4. OneReceipt' <=> OneReceipt
    <3>1. Verdict(held)' = Verdict(held) /\ (Replay(plan, held)' <=> Replay(plan, held))
      BY <2>1 DEF Verdict
    <3>2. QED
      BY <2>1, <3>1 DEF OneReceipt
  <2>5. QED
    BY <2>1, <2>2, <2>3, <2>4 DEF IInv
<1>2. CASE Next
  BY <1>2, EarlyStep, ExecuteStep, RecheckStep, CreateStep, RemoveStep, ReplayStep, AdmitStep,
     DamageStep, EditStep DEF Next
<1>3. QED
  BY <1>1, <1>2

(* Every reachable state satisfies the invariant: the observations are     *)
(* what executeAction notes of the runs that happened, slot by slot, the   *)
(* receipt is computed from them for one subject, and what is held of it   *)
(* is the receipt itself or a file that no replay accepts.                 *)
THEOREM QualificationInvariant == Spec => []IInv
<1>1. Init => IInv
  BY InitInvariant
<1>2. IInv /\ [Next]_vars => IInv'
  BY StepInvariant
<1>3. QED
  BY <1>1, <1>2, PTL DEF Spec

-----------------------------------------------------------------------------
(* The two properties.                                                     *)

LEMMA InvariantEarns == IInv => QualifiedIsEarned
<1> SUFFICES ASSUME IInv, receipt.decision = "QUALIFIED"
             PROVE  /\ during = known
                    /\ \A o \in DOMAIN plan.obligations : plan.obligations[o].required =>
                         IF plan.obligations[o].kind = "ci-live"
                         THEN receipt.ci.signed /\ receipt.ci.subject
                                /\ plan.requiredSteps \subseteq receipt.ci.steps
                         ELSE EarnedLocally(o)
  BY DEF QualifiedIsEarned
<1>1. receipt # NoReceipt
  BY DEF NoReceipt
<1>2. receipt = CreateReceipt(plan, observations, receipt.ci) /\ during = known
  BY <1>1 DEF IInv, OneReceipt
<1>3. /\ NoIssues(plan, observations)
      /\ \A o \in DOMAIN plan.obligations : plan.obligations[o].required =>
           Status(plan, o, observations, TRUE, receipt.ci) = "COVERED"
  BY <1>2, IssuedQualified
<1>4. plan \in Plans /\ Recorded(plan, observations, happened)
  BY DEF IInv
<1>5. ASSUME NEW o \in DOMAIN plan.obligations, plan.obligations[o].required
      PROVE  IF plan.obligations[o].kind = "ci-live"
             THEN receipt.ci.signed /\ receipt.ci.subject
                    /\ plan.requiredSteps \subseteq receipt.ci.steps
             ELSE EarnedLocally(o)
  <2>1. /\ SuitesObserved(plan, o, observations)
        /\ plan.obligations[o].kind = "ci-live" => VerifyCi(plan, receipt.ci)
        /\ plan.obligations[o].kind # "ci-live" =>
             ~Contradicted(plan, o, observations) /\ FaultsDetected(plan, o, observations)
    BY <1>3, <1>5, CoveredMeans
  <2>2. CASE plan.obligations[o].kind = "ci-live"
    BY <2>1, <2>2 DEF VerifyCi
  <2>3. CASE plan.obligations[o].kind # "ci-live"
    BY <2>1, <2>3, <1>3, <1>4, Earned
  <2>4. QED
    BY <2>2, <2>3
<1>6. QED
  BY <1>2, <1>5

(* A qualified receipt was earned by one subject: for every required       *)
(* obligation the runs themselves, not what was noted of them, passed in   *)
(* each reference and neutral world and failed in each fault world, or a   *)
(* signed statement vouches for the hosted pipeline                        *)
(* (createQualificationReceipt of src/core/qualification.ts over           *)
(* qualifyOrchestration of src/engine/qualification.ts).                   *)
THEOREM QualificationEarned == Spec => []QualifiedIsEarned
BY QualificationInvariant, InvariantEarns, PTL

LEMMA InvariantReplays == IInv => ReplayIsExact
<1> SUFFICES ASSUME IInv, verdict # "none"
             PROVE  verdict = "valid" <=> held = receipt /\ NoIssues(plan, receipt.observations)
  BY DEF ReplayIsExact
<1>1. /\ receipt = CreateReceipt(plan, observations, receipt.ci)
      /\ held = receipt \/ ~Replay(plan, held)
      /\ verdict = Verdict(held)
  BY DEF IInv, OneReceipt
<1>2. receipt.observations = observations
  BY <1>1, Issued
<1>3. Replay(plan, receipt) <=> NoIssues(plan, observations)
  BY <1>1, IssuedReplays
<1>4. verdict = "valid" <=> Replay(plan, held)
  BY <1>1 DEF Verdict
<1>5. QED
  BY <1>1, <1>2, <1>3, <1>4

(* replayQualificationReceipt accepts the receipt that was issued, if its  *)
(* observations were usable, and no file in which observations were lost,  *)
(* repeated or exchanged or the decision replaced, even where all digests  *)
(* were computed anew.                                                     *)
THEOREM ReplayExact == Spec => []ReplayIsExact
BY QualificationInvariant, InvariantReplays, PTL
=============================================================================
