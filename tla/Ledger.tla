------------------------------- MODULE Ledger -------------------------------
(***************************************************************************)
(* What a verification campaign promises, with the engine left out: one    *)
(* execution of every world and attempt without a candidate and with each  *)
(* candidate, in any order and nothing twice, then one decision of the     *)
(* core on exactly that evidence.  A campaign may be abandoned at any      *)
(* moment, and an abandoned campaign has no verdict.                       *)
(***************************************************************************)
EXTENDS Integers

CONSTANTS
  Worlds, Candidates, Control, RequiredAttempts,   \* see Evidence
  DecisionsOf(_),    \* the decisions the core may make on a set of observations
  ResultsOf(_, _),   \* the results an execution of a candidate, or of the control, may
                     \* have in a world
  ControlNamed       \* the candidate whose identifier is the text "control", if any

VARIABLES
  evidence,   \* the observations gathered so far
  verdict     \* a decision, Undecided, or Abandoned

ledgerVars == <<evidence, verdict>>

Undecided == [status |-> "undecided"]
Abandoned == [status |-> "abandoned"]

Jobs == [candidate : Candidates \cup {Control}, world : Worlds, attempt : 1 .. RequiredAttempts]

(* Mutant: the attempt is left out of the identifier. *)
RunIdPerWorld(j) ==
  [candidate |-> IF j.candidate \in ControlNamed THEN Control ELSE j.candidate,
   world |-> j.world]

(* `${candidate?.id ?? "control"}:${world.id}:${attempt}` *)
RunId(j) ==
  [j EXCEPT !.candidate = IF j.candidate \in ControlNamed THEN Control ELSE @]

(* The observation of job j with result r. *)
Observation(j, r) ==
  [runId |-> RunId(j), candidate |-> j.candidate, world |-> j.world, attempt |-> j.attempt,
   outcome |-> r.outcome, candidateTests |-> r.candidateTests, attributed |-> r.attributed]

JobOf(o) == [candidate |-> o.candidate, world |-> o.world, attempt |-> o.attempt]

Gathered(obs, j) == \E o \in obs : JobOf(o) = j

-----------------------------------------------------------------------------
LedgerInit == evidence = {} /\ verdict = Undecided

Gather(j) ==
  /\ verdict = Undecided
  /\ ~Gathered(evidence, j)
  /\ \E r \in ResultsOf(j.candidate, j.world) : evidence' = evidence \cup {Observation(j, r)}
  /\ UNCHANGED verdict

Decide ==
  /\ verdict = Undecided
  /\ \A j \in Jobs : Gathered(evidence, j)
  /\ verdict' \in DecisionsOf(evidence)
  /\ UNCHANGED evidence

Abandon ==
  /\ verdict = Undecided
  /\ verdict' = Abandoned
  /\ UNCHANGED evidence

LedgerNext == (\E j \in Jobs : Gather(j)) \/ Decide \/ Abandon

LedgerSpec == LedgerInit /\ [][LedgerNext]_ledgerVars

=============================================================================
