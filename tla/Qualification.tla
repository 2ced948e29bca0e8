--------------------------- MODULE Qualification ---------------------------
(***************************************************************************)
(* qualifyOrchestration of src/engine/qualification.ts: the sealed plan is *)
(* compared with the repository and the tools, every action of the plan is *)
(* executed in every world as often as the plan says, the repository, the  *)
(* engine and the tools are read again, and the observations become a      *)
(* receipt.  Other programs may edit any of the three meanwhile.           *)
(*                                                                         *)
(* A receipt is a file afterwards: it may be damaged on the way to whoever *)
(* replays it or imports the observation of a hosted pipeline into it.     *)
(***************************************************************************)
EXTENDS Receipt

CONSTANTS
  Plans,          \* the plans a behaviour may qualify, as Receipt describes them
  RunsOf(_),      \* the runs an action may have
  CiStatementsOf(_),   \* the observations of hosted pipelines that may be imported
  MaximumEdits    \* a bound of a model
ASSUME QualificationAssumption ==
  /\ MaximumEdits \in Nat
  /\ \A plan \in Plans :
       /\ plan.attempts \in Nat /\ plan.attempts >= 2
       /\ plan.worlds \in Seq(Range(plan.worlds))
       /\ plan.actions \in Seq(Range(plan.actions)) /\ plan.actions # <<>>
       /\ \A a \in DOMAIN plan.actions : IsAction(plan.actions[a])
       /\ \A a \in DOMAIN plan.actions : \A run \in RunsOf(plan.actions[a]) :
            IsRun(plan.actions[a], run)
       /\ \E r, n \in DOMAIN plan.worlds :
            plan.worlds[r].kind = "REFERENCE" /\ plan.worlds[n].kind = "NEUTRAL"
       /\ \A w \in DOMAIN plan.worlds :
            plan.worlds[w].kind = "TARGET" <=> DOMAIN plan.worlds[w].discriminants # {}

VARIABLES
  plan,
  pc,
  edited,        \* which of the inputs, the tools and the engine are not what they were
  known,         \* what of them had been edited when the engine's own digest was taken
  observations,
  happened,      \* the runs behind the observations
  during,        \* what had been edited when the last of them began
  pending,       \* the receipt that is still to be returned
  temporary,     \* the directory that holds the domains of the attempts
  receipt,       \* the receipt that was returned
  held,          \* the file that holds it
  verdict        \* of the last replay

running == <<observations, happened, during, pending, temporary>>
filed == <<receipt, held, verdict>>
vars == <<plan, pc, edited, known, running, filed>>

Things == {"inputs", "tools", "engine"}

Init ==
  /\ plan \in Plans
  /\ pc = "inputs" /\ known = {}
  /\ edited \in {things \in SUBSET Things : Cardinality(things) <= MaximumEdits}
  /\ observations = <<>> /\ happened = <<>> /\ during = {}
  /\ pending = NoReceipt /\ temporary = FALSE
  /\ receipt = NoReceipt /\ held = NoReceipt /\ verdict = "none"

-----------------------------------------------------------------------------
(* Before anything runs.                                                   *)

(* The contents that will be laid out are those whose digest is compared. *)
SnapshotInputs ==
  /\ pc = "inputs"
  /\ pc' = IF "inputs" \in edited THEN "threw" ELSE "tools"
  /\ UNCHANGED <<plan, edited, known, running, filed>>

ProbeTools ==
  /\ pc = "tools"
  /\ pc' = IF "tools" \in edited THEN "threw" ELSE "prepare"
  /\ UNCHANGED <<plan, edited, known, running, filed>>

Prepare ==
  /\ pc = "prepare" /\ pc' = "running"
  /\ temporary' = TRUE /\ known' = edited \cap {"engine"}
  /\ UNCHANGED <<plan, edited, observations, happened, during, pending, filed>>

-----------------------------------------------------------------------------
(* The executions, slot after slot.                                        *)

(* The observation of a slot is bound to it; its place stands for its nonce. *)
Collected(slot, action, run, nonce) ==
  ExecuteAction(action, run, nonce) ++ slot ++ [binding |-> slot]

Slot == Slots(plan)[Len(observations) + 1]
Action == plan.actions[Slot.action]
Finished == Len(observations) = Len(Slots(plan))

Execute ==
  /\ pc = "running" /\ ~Finished /\ ~Refused(Action)
  /\ \E run \in RunsOf(Action) :
       /\ observations' = Append(observations,
            Collected(Slot, Action, run, Len(observations) + 1))
       /\ happened' = Append(happened, run)
  /\ during' = edited
  /\ UNCHANGED <<plan, pc, edited, known, pending, temporary, filed>>

(* A refused action, and a domain or a report file that cannot be made,    *)
(* end the qualification.                                                  *)
ExecuteThrows ==
  /\ pc = "running" /\ ~Finished /\ pc' = "removing"
  /\ UNCHANGED <<plan, edited, known, running, filed>>

-----------------------------------------------------------------------------
(* Afterwards.                                                             *)

RecheckInputs ==
  /\ pc = "running" /\ Finished
  /\ pc' = IF "inputs" \in edited THEN "removing" ELSE "engine"
  /\ UNCHANGED <<plan, edited, known, running, filed>>

RecheckEngine ==
  /\ pc = "engine"
  /\ pc' = IF edited \cap {"engine"} # known THEN "removing" ELSE "tools again"
  /\ UNCHANGED <<plan, edited, known, running, filed>>

(* Mutant: the tools are not read again. *)
SkipToolsAndCreate ==
  /\ pc = "tools again" /\ pc' = "removing"
  /\ pending' = CreateReceipt(plan, observations, NoCi)
  /\ UNCHANGED <<plan, edited, known, observations, happened, during, temporary, filed>>

RecheckToolsAndCreate ==
  /\ pc = "tools again" /\ pc' = "removing"
  /\ pending' = IF "tools" \in edited THEN NoReceipt ELSE CreateReceipt(plan, observations, NoCi)
  /\ UNCHANGED <<plan, edited, known, observations, happened, during, temporary, filed>>

(* finally: a removal that fails takes the receipt with it.                *)
RemoveTemporary ==
  /\ pc = "removing"
  /\ pc' = IF pending = NoReceipt THEN "threw" ELSE "returned"
  /\ temporary' = FALSE /\ receipt' = pending /\ held' = pending
  /\ UNCHANGED <<plan, edited, known, observations, happened, during, pending, verdict>>

RemoveFails ==
  /\ pc = "removing" /\ pc' = "threw"
  /\ UNCHANGED <<plan, edited, known, running, filed>>

-----------------------------------------------------------------------------
(* The life of the file.                                                   *)

Verdict(file) == IF Replay(plan, file) THEN "valid" ELSE "invalid"

ReplayHeld ==
  /\ pc = "returned" /\ verdict = "none" /\ verdict' = Verdict(held)
  /\ UNCHANGED <<plan, pc, edited, known, running, receipt, held>>

AdmitCi ==
  /\ pc = "returned" /\ Replay(plan, held)
  /\ \E ci \in CiStatementsOf(plan) : held' = CreateReceipt(plan, held.observations, ci)
  /\ receipt' = held' /\ verdict' = "none"
  /\ UNCHANGED <<plan, pc, edited, known, running>>

(* Observations are lost, repeated or exchanged, or the summary is         *)
(* replaced; the digests may have been computed anew since.  Only a file   *)
(* that still claims qualification matters.                                *)
Lose(file, i) == [file EXCEPT !.observations = RemoveAt(@, i)]
Repeat(file, i) == [file EXCEPT !.observations = Append(@, @[i])]
Exchange(file, i, j) ==
  LET o == file.observations IN
  [file EXCEPT !.observations[i] = SlotOf(o[j]) ++ @, !.observations[j] = SlotOf(o[i]) ++ @]
Summarize(file, decision) == [file EXCEPT !.decision = decision]

Damage ==
  /\ pc = "returned" /\ held = receipt /\ verdict = "none"
  /\ \E damaged \in
       (UNION {{Lose(held, i), Repeat(held, i)} : i \in {1, Len(held.observations)}})
       \cup {Exchange(held, 1, j) : j \in {2, Len(held.observations)}}
       \cup {Summarize(held, "QUALIFIED")},
     resealed \in BOOLEAN :
       damaged.decision = "QUALIFIED" /\ held' = [damaged EXCEPT !.sealed = resealed]
  /\ UNCHANGED <<plan, pc, edited, known, running, receipt, verdict>>

(* Another program edits the repository, a tool or the engine. *)
Edit ==
  /\ pc \notin {"removing", "threw", "returned"} /\ Cardinality(edited) < MaximumEdits
  /\ \E thing \in Things \ edited : edited' = edited \cup {thing}
  /\ UNCHANGED <<plan, pc, known, running, filed>>

Next ==
  \/ SnapshotInputs \/ ProbeTools \/ Prepare
  \/ Execute \/ ExecuteThrows
  \/ RecheckInputs \/ RecheckEngine \/ RecheckToolsAndCreate
  \/ RemoveTemporary \/ RemoveFails
  \/ ReplayHeld \/ AdmitCi \/ Damage
  \/ Edit

Spec == Init /\ [][Next]_vars

-----------------------------------------------------------------------------
(* Properties.  They speak of the runs, never of the observations made of  *)
(* them.                                                                   *)

RunsAt(w, n, a) ==
  {happened[k] : k \in {k \in DOMAIN happened :
     Slots(plan)[k] = [world |-> w, attempt |-> n, action |-> a]}}

(* The processes of the run ended by themselves, with all they wrote.      *)
Ended(run) == run.end = "closed" /\ run.exit # "null" /\ ~run.truncated

(* All the named test files ran to their end, and nothing else failed.     *)
TestsRan(action, run) ==
  /\ Ended(run) /\ action.files \subseteq run.ran
  /\ ~run.thrown /\ ~run.foreign /\ run.failed \subseteq action.files /\ ~run.skipped

SuiteFiles(o) == UNION {plan.suites[s].files : s \in plan.obligations[o].suites}

TestsPass(o, w, n) ==
  \A f \in SuiteFiles(o) : \E a \in CheckedActions(plan, o) : \A run \in RunsAt(w, n, a) :
    f \in run.ran /\ TestsRan(plan.actions[a], run) /\ run.failed = {}

TestsFail(o, w, n) ==
  \E a \in CheckedActions(plan, o) : \A run \in RunsAt(w, n, a) :
    TestsRan(plan.actions[a], run) /\ run.failed \cap SuiteFiles(o) # {}

(* What a run shows an onlooker who asks for it: it is no fact of it that  *)
(* somebody read it under a nonce.                                         *)
Shown(action, run) ==
  [exitCode |-> IF action.adapter = "bun-native" THEN run.inner ELSE run.exit,
   commandOutcome |-> IF run.exit = "zero" THEN "PASS" ELSE "EXPECTED_FAILURE",
   terminalProvenance |-> IF run.known THEN "ENGINE_LIFECYCLE_OBSERVED" ELSE "PROCESS_EXIT_ZERO",
   executedTasks |-> run.trace, outputs |-> run.output, summary |-> run.value,
   testOutcome |-> IF run.failed = {} THEN "PASS" ELSE "ASSERTION_FAILURE",
   testFiles |-> run.ran, failureFiles |-> run.failed,
   testsDiscovered |-> Cardinality(run.ran \cap action.files),
   skippedTests |-> run.skipped,
   attributed |-> action.adapter = "bun-native" \/ run.failed # {}]

Shows(action, run, field, value) ==
  field \in DOMAIN Shown(action, run) /\ Shown(action, run)[field] = value

ShowsOther(action, run, field, value) ==
  field \in DOMAIN Shown(action, run) /\ Shown(action, run)[field] # value

ChecksHold(o, w, n) ==
  \A check \in Range(plan.obligations[o].checks) : \A run \in RunsAt(w, n, check.action) :
    Ended(run) /\ Shows(plan.actions[check.action], run, check.field, check.expected)

ChecksFail(o, w, n) ==
  \E check \in Range(plan.obligations[o].checks) : \A run \in RunsAt(w, n, check.action) :
    Ended(run) /\ ShowsOther(plan.actions[check.action], run, check.field, check.expected)

EarnedLocally(o) ==
  LET tests == plan.obligations[o].kind = "tests" IN
  /\ Targets(plan, o) # {}
  /\ \A w \in Baselines(plan) \cup Targets(plan, o), n \in Attempts(plan) :
       \A a \in CheckedActions(plan, o) : RunsAt(w, n, a) # {}
  /\ \A n \in Attempts(plan) :
       /\ \A w \in Baselines(plan) : IF tests THEN TestsPass(o, w, n) ELSE ChecksHold(o, w, n)
       /\ \A w \in Targets(plan, o) : IF tests THEN TestsFail(o, w, n) ELSE ChecksFail(o, w, n)

(* A qualified receipt was earned by one subject: nothing ran after the    *)
(* repository, a tool or the engine itself had been edited unless the plan *)
(* was qualified for the edited one; and for every required obligation,    *)
(* each attempt in a reference or neutral world ran to its end and showed  *)
(* what the plan expects, and each attempt in one of its fault worlds      *)
(* showed a difference, for tests a failed assertion of one of its suites; *)
(* a hosted pipeline is vouched for by a signed statement about this very  *)
(* subject with every required step successful.                            *)
QualifiedIsEarned ==
  receipt.decision = "QUALIFIED" =>
    /\ during = known
    /\ \A o \in DOMAIN plan.obligations : plan.obligations[o].required =>
         IF plan.obligations[o].kind = "ci-live"
         THEN receipt.ci.signed /\ receipt.ci.subject /\ plan.requiredSteps \subseteq receipt.ci.steps
         ELSE EarnedLocally(o)

(* A replay accepts the receipt as it was issued, unless its observations  *)
(* were unusable from the start, and accepts nothing in which observations *)
(* were lost, repeated or exchanged or the decision replaced, not even     *)
(* with all digests computed anew.                                         *)
ReplayIsExact ==
  verdict # "none" =>
    (verdict = "valid" <=> held = receipt /\ NoIssues(plan, receipt.observations))
=============================================================================
