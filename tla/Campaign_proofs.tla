--------------------------- MODULE Campaign_proofs ---------------------------
(***************************************************************************)
(* Theorems about Campaign, for every request: any finite number of worlds *)
(* and candidates, any policy, any result an execution may have.           *)
(***************************************************************************)
EXTENDS Campaign, Sums_proofs

-----------------------------------------------------------------------------
(* The nested loops visit every job exactly once.                          *)

(* The numbers of worlds, candidates and attempts, and the two orders.     *)
LEMMA RequestFacts ==
  /\ NW \in Nat /\ NW >= 1 /\ NC \in Nat /\ NC >= 1
  /\ RequiredAttempts \in Nat /\ RequiredAttempts >= 1
  /\ WorldAt \in [1 .. NW -> Worlds]
  /\ \A i, j \in 1 .. NW : WorldAt[i] = WorldAt[j] => i = j
  /\ \A w \in Worlds : \E i \in 1 .. NW : WorldAt[i] = w
  /\ CandidateAt \in [1 .. NC -> Candidates]
  /\ \A i, j \in 1 .. NC : CandidateAt[i] = CandidateAt[j] => i = j
  /\ \A c \in Candidates : \E i \in 1 .. NC : CandidateAt[i] = c
  /\ Control \notin Candidates
<1>1. NW \in Nat /\ NW >= 1 /\ NC \in Nat /\ NC >= 1
  BY CampaignAssumption
<1>2. RequiredAttempts \in Nat /\ RequiredAttempts >= 1 /\ Control \notin Candidates
  BY EvidenceAssumption
<1>3. /\ WorldAt \in [1 .. NW -> Worlds]
      /\ \A i, j \in 1 .. NW : WorldAt[i] = WorldAt[j] => i = j
      /\ \A w \in Worlds : \E i \in 1 .. NW : WorldAt[i] = w
  BY CampaignAssumption DEF Bijection, Injection, Surjection, IsInjective
<1>4. /\ CandidateAt \in [1 .. NC -> Candidates]
      /\ \A i, j \in 1 .. NC : CandidateAt[i] = CandidateAt[j] => i = j
      /\ \A c \in Candidates : \E i \in 1 .. NC : CandidateAt[i] = c
  BY CampaignAssumption DEF Bijection, Injection, Surjection, IsInjective
<1> QED BY <1>1, <1>2, <1>3, <1>4

(* Every cursor inside the loops is a job, *)
LEMMA JobAtIsJob ==
  ASSUME NEW k \in Cursors
  PROVE  JobAt(k) \in L!Jobs
BY RequestFacts DEF Cursors, JobAt, L!Jobs, Attempts

(* no two cursors are the same job, *)
LEMMA JobAtInjective ==
  ASSUME NEW k \in Cursors, NEW l \in Cursors, JobAt(k) = JobAt(l)
  PROVE  k = l
<1>1. /\ k.candidate \in 0 .. NC /\ l.candidate \in 0 .. NC
      /\ k.world \in 1 .. NW /\ l.world \in 1 .. NW
      /\ k = [candidate |-> k.candidate, world |-> k.world, attempt |-> k.attempt]
      /\ l = [candidate |-> l.candidate, world |-> l.world, attempt |-> l.attempt]
  BY DEF Cursors
<1>2. k.attempt = l.attempt
  BY DEF JobAt
<1>3. k.world = l.world
  <2>1. WorldAt[k.world] = WorldAt[l.world]
    BY DEF JobAt
  <2> QED BY <2>1, <1>1, RequestFacts
<1>4. k.candidate = l.candidate
  <2>1. JobAt(k).candidate = JobAt(l).candidate
    OBVIOUS
  <2>2. CASE k.candidate = 0 \/ l.candidate = 0
    BY <2>1, <2>2, <1>1, RequestFacts DEF JobAt
  <2>3. CASE k.candidate # 0 /\ l.candidate # 0
    BY <2>1, <2>3, <1>1, RequestFacts DEF JobAt
  <2> QED BY <2>2, <2>3
<1> QED BY <1>1, <1>2, <1>3, <1>4

(* and every job has its cursor. *)
LEMMA JobAtSurjective ==
  ASSUME NEW j \in L!Jobs
  PROVE  \E k \in Cursors : JobAt(k) = j
<1>1. /\ j.candidate \in Candidates \cup {Control} /\ j.world \in Worlds
      /\ j.attempt \in Attempts
      /\ j = [candidate |-> j.candidate, world |-> j.world, attempt |-> j.attempt]
  BY DEF L!Jobs, Attempts
<1>2. PICK i \in 1 .. NW : WorldAt[i] = j.world
  BY <1>1, RequestFacts
<1>3. PICK m \in 0 .. NC : (IF m = 0 THEN Control ELSE CandidateAt[m]) = j.candidate
  <2>1. CASE j.candidate = Control
    BY <2>1, RequestFacts
  <2>2. CASE j.candidate \in Candidates
    <3>1. PICK m \in 1 .. NC : CandidateAt[m] = j.candidate
      BY <2>2, RequestFacts
    <3>2. m \in 0 .. NC /\ m # 0
      BY <3>1, RequestFacts
    <3> QED BY <3>1, <3>2
  <2> QED BY <2>1, <2>2, <1>1
<1> DEFINE k == [candidate |-> m, world |-> i, attempt |-> j.attempt]
<1>4. k \in Cursors
  BY <1>1, <1>2, <1>3 DEF Cursors
<1>5. JobAt(k) = j
  BY <1>1, <1>2, <1>3 DEF JobAt
<1> QED BY <1>4, <1>5

(* The cursors the loops have passed when they stand at l. *)
Before(k, l) ==
  \/ k.candidate < l.candidate
  \/ k.candidate = l.candidate /\ k.world < l.world
  \/ k.candidate = l.candidate /\ k.world = l.world /\ k.attempt < l.attempt

(* The values of the loop variables, one turn of the outer loop past its   *)
(* end included.                                                           *)
LoopValues == [candidate : 0 .. NC + 1, world : 1 .. NW, attempt : Attempts]

(* The components of the loop variables and where Advance puts them.       *)
LEMMA CursorFacts ==
  /\ \A k \in Cursors :
       /\ k.candidate \in 0 .. NC /\ k.world \in 1 .. NW
       /\ k.attempt \in 1 .. RequiredAttempts
  /\ \A k, l \in Cursors :
       k = l <=> k.candidate = l.candidate /\ k.world = l.world /\ k.attempt = l.attempt
BY DEF Cursors, Attempts

(* Advancing passes exactly the cursor the loops stand at. *)
LEMMA AdvancePassesOne ==
  ASSUME NEW l \in LoopValues, ~(l.candidate > NC)
  PROVE  /\ l \in Cursors
         /\ Advance(l) \in LoopValues
         /\ \A k \in Cursors : Before(k, Advance(l)) <=> (Before(k, l) \/ k = l)
<1>1. /\ l \in Cursors
      /\ l.candidate \in 0 .. NC /\ l.world \in 1 .. NW /\ l.attempt \in 1 .. RequiredAttempts
      /\ l = [candidate |-> l.candidate, world |-> l.world, attempt |-> l.attempt]
  BY RequestFacts DEF LoopValues, Cursors, Attempts
<1>2. CASE l.attempt < RequiredAttempts
  <2>1. Advance(l) = [candidate |-> l.candidate, world |-> l.world, attempt |-> l.attempt + 1]
    BY <1>1, <1>2 DEF Advance
  <2>2. Advance(l) \in LoopValues
    BY <2>1, <1>1, <1>2, RequestFacts DEF LoopValues, Attempts
  <2> QED BY <2>1, <2>2, <1>1, CursorFacts, RequestFacts DEF Before
<1>3. CASE ~(l.attempt < RequiredAttempts) /\ l.world < NW
  <2>1. Advance(l) = [candidate |-> l.candidate, world |-> l.world + 1, attempt |-> 1]
    BY <1>1, <1>3 DEF Advance
  <2>2. Advance(l) \in LoopValues
    BY <2>1, <1>1, <1>3, RequestFacts DEF LoopValues, Attempts
  <2> QED BY <2>1, <2>2, <1>1, <1>3, CursorFacts, RequestFacts DEF Before
<1>4. CASE ~(l.attempt < RequiredAttempts) /\ ~(l.world < NW)
  <2>1. Advance(l) = [candidate |-> l.candidate + 1, world |-> 1, attempt |-> 1]
    BY <1>1, <1>4 DEF Advance
  <2>2. Advance(l) \in LoopValues
    BY <2>1, <1>1, <1>4, RequestFacts DEF LoopValues, Attempts
  <2> QED BY <2>1, <2>2, <1>1, <1>4, CursorFacts, RequestFacts DEF Before
<1> QED BY <1>2, <1>3, <1>4

-----------------------------------------------------------------------------
(* The inductive invariant.                                                *)

(* The loops have gathered exactly the jobs they have passed, each once.   *)
GatheredSoFar ==
  /\ \A o \in observations : \E k \in Cursors : Before(k, cursor) /\ L!JobOf(o) = JobAt(k)
  /\ \A k \in Cursors : Before(k, cursor) => L!Gathered(observations, JobAt(k))
  /\ \A o, p \in observations : L!JobOf(o) = L!JobOf(p) => o = p

(* A result waits to be recorded only inside the loops, and it is one the  *)
(* current job may have.                                                   *)
PendingInLoops ==
  pending # NoResult =>
    /\ phase = "executions" /\ ~LoopsDone /\ ~failed /\ workspace = "present"
    /\ pending \in ResultsOf(JobAt(cursor).candidate, JobAt(cursor).world)

(* A manifest is the decision on everything the loops gather, and only a   *)
(* campaign that failed ends without one.                                  *)
SealedOnAll ==
  /\ phase = "sealing" \/ Sealed => LoopsDone
  /\ Sealed => /\ manifest \in DecisionsFor(observations)
               /\ phase \in {"cleanup", "closing", "returned", "threw"}
  /\ phase \in {"cleanup", "closing", "returned"} /\ ~failed => Sealed

(* What is held in which stage, and that what leaks is reported.           *)
HeldInStage ==
  /\ workspace = "present" => phase = "executions" /\ ~LoopsDone
  /\ workspace = "leaked" => failed
  /\ root = "present" => phase \in {"snapshot", "executions", "sealing", "cleanup"}
  /\ root = "leaked" => failed
  /\ control = "open" => phase \notin {"backend", "transport", "returned", "threw"}
  /\ failed => \/ phase \in {"cleanup", "closing", "threw"}
               \/ phase = "executions" /\ workspace = "present"
  /\ phase = "threw" => failed

IInv == TypeOK /\ GatheredSoFar /\ PendingInLoops /\ SealedOnAll /\ HeldInStage

-----------------------------------------------------------------------------
(* What a decision is made of.                                             *)

(* Selecting nothing is a selection.                                       *)
LEMMA EmptySelection == <<>> \in CandidateSeqs
<1>1. Cardinality(Candidates) \in Nat
  BY EvidenceAssumption, FS_CardinalityType
<1>2. 0 \in 0 .. Cardinality(Candidates) /\ <<>> \in [1 .. 0 -> Candidates]
  BY <1>1
<1> QED BY <1>2 DEF CandidateSeqs

(* Every member of DecisionsFor is a decision. *)
LEMMA DecisionsTyped ==
  ASSUME NEW obs, NEW d \in DecisionsFor(obs)
  PROVE  d \in Decisions
<1>1. CASE ~Acceptable(obs)
  BY <1>1, EmptySelection DEF DecisionsFor, DecisionsGiven, Decisions, DecisionStatuses
<1>2. CASE Acceptable(obs) /\ ~ControlsAreValid(obs)
  BY <1>2, EmptySelection DEF DecisionsFor, DecisionsGiven, Decisions, DecisionStatuses
<1>3. CASE Acceptable(obs) /\ ControlsAreValid(obs)
  <2>1. PICK s \in CandidateSeqs : d = Conclude(Assess(obs), s)
    BY <1>3 DEF DecisionsFor, DecisionsGiven
  <2> QED BY <2>1 DEF Conclude, Decisions, DecisionStatuses
<1> QED BY <1>1, <1>2, <1>3

-----------------------------------------------------------------------------
(* Type correctness.                                                       *)

(* Nothing was gathered, held or sealed when verifyCampaign is called.     *)
LEMMA InitInv == Init => IInv
<1> SUFFICES ASSUME Init PROVE IInv
  OBVIOUS
<1>1. TypeOK
  <2>1. FirstCursor \in [candidate : 0 .. NC + 1, world : 1 .. NW, attempt : Attempts]
    BY RequestFacts DEF FirstCursor, Attempts
  <2> QED BY <2>1 DEF Init, TypeOK, Phases
<1>2. GatheredSoFar
  BY CursorFacts DEF Init, GatheredSoFar, FirstCursor, Before
<1>3. PendingInLoops /\ SealedOnAll /\ HeldInStage
  BY DEF Init, PendingInLoops, SealedOnAll, HeldInStage, Sealed
<1> QED BY <1>1, <1>2, <1>3 DEF IInv

(* The steps that change no part of the evidence. *)
LEMMA TypeStep == IInv /\ [Next]_vars => TypeOK'
<1> SUFFICES ASSUME IInv, [Next]_vars PROVE TypeOK'
  OBVIOUS
<1> USE DEF IInv, TypeOK, Phases
<1>1. CASE Record
  <2>1. /\ ~(cursor.candidate > NC) /\ cursor \in LoopValues
        /\ pending \in ResultsOf(JobAt(cursor).candidate, JobAt(cursor).world)
    BY <1>1 DEF Record, PendingInLoops, LoopsDone, LoopValues
  <2>2. JobAt(cursor) \in L!Jobs /\ Advance(cursor) \in LoopValues
    BY <2>1, AdvancePassesOne, JobAtIsJob
  <2>3. observations' = observations \cup {L!Observation(JobAt(cursor), pending)}
    BY <1>1 DEF Record
  <2>4. \A o \in observations' : \E j \in L!Jobs : \E r \in ResultsOf(j.candidate, j.world) :
          o = L!Observation(j, r)
    BY <2>1, <2>2, <2>3
  <2> QED BY <1>1, <2>2, <2>4 DEF Record, LoopValues
<1>2. CASE Seal
  BY <1>2, DecisionsTyped DEF Seal
<1>3. CASE Execute
  <2>1. ~(cursor.candidate > NC) /\ cursor \in LoopValues
    BY <1>3 DEF Execute, HeldInStage, LoopsDone, LoopValues
  <2>2. JobAt(cursor) \in L!Jobs
    BY <2>1, AdvancePassesOne, JobAtIsJob
  <2>3. pending' \in ResultsOf(JobAt(cursor).candidate, JobAt(cursor).world)
    BY <1>3 DEF Execute
  <2> QED BY <1>3, <2>2, <2>3 DEF Execute
<1>4. CASE PrepareBackend \/ PrepareBackendFails \/ OpenControl \/ UseCli \/ OpenControlFails
  BY <1>4 DEF PrepareBackend, PrepareBackendFails, OpenControl, UseCli, OpenControlFails,
              campaignVars
<1>5. CASE Preflight \/ PreflightFails \/ TakeSnapshot \/ CreateWorkspace \/ ExecuteThrows
  BY <1>5 DEF Preflight, PreflightFails, TakeSnapshot, CreateWorkspace, ExecuteThrows,
              campaignVars
<1>6. CASE Unwind \/ RemoveWorkspaceFails \/ LeaveLoops \/ StageFails
  BY <1>6 DEF Unwind, RemoveWorkspaceFails, LeaveLoops, StageFails, campaignVars
<1>7. CASE RemoveRoot \/ RemoveRootFails \/ CloseControl
  BY <1>7 DEF RemoveRoot, RemoveRootFails, CloseControl, campaignVars
<1>8. CASE UNCHANGED vars
  BY <1>8 DEF vars
<1> QED BY <1>1, <1>2, <1>3, <1>4, <1>5, <1>6, <1>7, <1>8 DEF Next, Execution
-----------------------------------------------------------------------------
(* The rest of the invariant, part by part.                                *)

(* Only Record touches the loop variables and the evidence. *)
LEMMA OnlyRecordGathers ==
  ASSUME [Next]_vars, ~Record
  PROVE  UNCHANGED <<cursor, observations>>
BY DEF Next, Execution, vars, campaignVars, PrepareBackend, PrepareBackendFails, OpenControl,
       UseCli, OpenControlFails, Preflight, PreflightFails, TakeSnapshot, CreateWorkspace,
       Execute, ExecuteThrows, Unwind, RemoveWorkspaceFails, LeaveLoops, StageFails, Seal,
       RemoveRoot, RemoveRootFails, CloseControl

(* What Record adds is a job of its own, one the evidence lacks. *)
LEMMA RecordGathersOne ==
  ASSUME IInv, Record
  PROVE  /\ cursor \in Cursors /\ cursor \in LoopValues /\ ~(cursor.candidate > NC)
         /\ JobAt(cursor) \in L!Jobs
         /\ pending \in ResultsOf(JobAt(cursor).candidate, JobAt(cursor).world)
         /\ L!JobOf(L!Observation(JobAt(cursor), pending)) = JobAt(cursor)
         /\ ~L!Gathered(observations, JobAt(cursor))
<1>1. /\ ~(cursor.candidate > NC) /\ cursor \in LoopValues
      /\ pending \in ResultsOf(JobAt(cursor).candidate, JobAt(cursor).world)
  BY DEF IInv, TypeOK, Record, PendingInLoops, LoopsDone, LoopValues
<1>2. cursor \in Cursors
  BY <1>1, AdvancePassesOne
<1>3. JobAt(cursor) \in L!Jobs
  BY <1>2, JobAtIsJob
<1>4. L!JobOf(L!Observation(JobAt(cursor), pending)) = JobAt(cursor)
  BY <1>3 DEF L!JobOf, L!Observation, L!Jobs
<1>5. ASSUME NEW o \in observations, L!JobOf(o) = JobAt(cursor) PROVE FALSE
  <2>1. PICK k \in Cursors : Before(k, cursor) /\ L!JobOf(o) = JobAt(k)
    BY DEF IInv, GatheredSoFar
  <2>2. k = cursor
    BY <2>1, <1>2, <1>5, JobAtInjective
  <2> QED BY <2>1, <2>2, CursorFacts DEF Before
<1> QED BY <1>1, <1>2, <1>3, <1>4, <1>5 DEF L!Gathered

(* The loops push the observation of their own turn, once, and advance.    *)
LEMMA GatheredStep == IInv /\ [Next]_vars => GatheredSoFar'
<1> SUFFICES ASSUME IInv, [Next]_vars PROVE GatheredSoFar'
  OBVIOUS
<1>1. CASE Record
  <2> DEFINE o0 == L!Observation(JobAt(cursor), pending)
  <2>1. /\ cursor \in Cursors /\ L!JobOf(o0) = JobAt(cursor)
        /\ ~L!Gathered(observations, JobAt(cursor))
        /\ \A k \in Cursors : Before(k, cursor') <=> (Before(k, cursor) \/ k = cursor)
        /\ observations' = observations \cup {o0}
    BY <1>1, RecordGathersOne, AdvancePassesOne DEF Record
  <2> HIDE DEF o0
  <2>2. \A o \in observations' : \E k \in Cursors : Before(k, cursor') /\ L!JobOf(o) = JobAt(k)
    BY <2>1 DEF IInv, GatheredSoFar
  <2>3. \A k \in Cursors : Before(k, cursor') => L!Gathered(observations', JobAt(k))
    BY <2>1 DEF IInv, GatheredSoFar, L!Gathered
  <2>4. \A o, p \in observations' : L!JobOf(o) = L!JobOf(p) => o = p
    BY <2>1 DEF IInv, GatheredSoFar, L!Gathered
  <2> QED BY <2>2, <2>3, <2>4 DEF GatheredSoFar
<1>2. CASE ~Record
  BY <1>2, OnlyRecordGathers DEF IInv, GatheredSoFar
<1> QED BY <1>1, <1>2

(* Only Execute makes a result pending, inside the loops.                  *)
LEMMA PendingStep == IInv /\ [Next]_vars => PendingInLoops'
<1> SUFFICES ASSUME IInv, [Next]_vars PROVE PendingInLoops'
  OBVIOUS
<1> USE DEF IInv, PendingInLoops, LoopsDone
<1>1. CASE Execute
  <2>1. phase = "executions" /\ ~LoopsDone /\ ~failed /\ workspace = "present"
    BY <1>1 DEF Execute, HeldInStage
  <2>2. pending' \in ResultsOf(JobAt(cursor).candidate, JobAt(cursor).world)
    BY <1>1 DEF Execute
  <2> QED BY <1>1, <2>1, <2>2 DEF Execute
<1>2. CASE Record
  BY <1>2 DEF Record
<1>3. CASE PrepareBackend \/ PrepareBackendFails \/ OpenControl \/ UseCli \/ OpenControlFails
  BY <1>3 DEF PrepareBackend, PrepareBackendFails, OpenControl, UseCli, OpenControlFails,
              campaignVars
<1>4. CASE Preflight \/ PreflightFails \/ TakeSnapshot \/ CreateWorkspace \/ ExecuteThrows
  BY <1>4 DEF Preflight, PreflightFails, TakeSnapshot, CreateWorkspace, ExecuteThrows,
              campaignVars
<1>5. CASE Unwind \/ RemoveWorkspaceFails \/ LeaveLoops \/ StageFails
  BY <1>5 DEF Unwind, RemoveWorkspaceFails, LeaveLoops, StageFails, campaignVars
<1>6. CASE Seal \/ RemoveRoot \/ RemoveRootFails \/ CloseControl
  BY <1>6 DEF Seal, RemoveRoot, RemoveRootFails, CloseControl, campaignVars
<1>7. CASE UNCHANGED vars
  BY <1>7 DEF vars
<1> QED BY <1>1, <1>2, <1>3, <1>4, <1>5, <1>6, <1>7 DEF Next, Execution

(* The loops are left, and so the manifest sealed, only when they are done.*)
LEMMA SealedStep == IInv /\ [Next]_vars => SealedOnAll'
<1> SUFFICES ASSUME IInv, [Next]_vars PROVE SealedOnAll'
  OBVIOUS
<1> USE DEF IInv, SealedOnAll, Sealed, LoopsDone
<1>1. CASE Seal
  <2>1. manifest' \in DecisionsFor(observations') /\ phase' = "cleanup" /\ LoopsDone'
    BY <1>1 DEF Seal
  <2>2. manifest' # NoManifest
    BY <2>1, DecisionsTyped DEF Decisions, DecisionStatuses, NoManifest
  <2> QED BY <2>1, <2>2
<1>2. CASE Record
  BY <1>2 DEF Record
<1>3. CASE PrepareBackend \/ PrepareBackendFails \/ OpenControl \/ UseCli \/ OpenControlFails
  BY <1>3 DEF PrepareBackend, PrepareBackendFails, OpenControl, UseCli, OpenControlFails,
              campaignVars
<1>4. CASE Preflight \/ PreflightFails \/ TakeSnapshot \/ CreateWorkspace \/ Execute
             \/ ExecuteThrows
  BY <1>4 DEF Preflight, PreflightFails, TakeSnapshot, CreateWorkspace, Execute, ExecuteThrows,
              campaignVars
<1>5. CASE Unwind \/ RemoveWorkspaceFails \/ LeaveLoops \/ StageFails
  BY <1>5 DEF Unwind, RemoveWorkspaceFails, LeaveLoops, StageFails, campaignVars, HeldInStage
<1>6. CASE RemoveRoot \/ RemoveRootFails \/ CloseControl
  BY <1>6 DEF RemoveRoot, RemoveRootFails, CloseControl, campaignVars
<1>7. CASE UNCHANGED vars
  BY <1>7 DEF vars
<1> QED BY <1>1, <1>2, <1>3, <1>4, <1>5, <1>6, <1>7 DEF Next, Execution

(* Each stage releases what it holds before the next, or reports a leak.   *)
LEMMA HeldStep == IInv /\ [Next]_vars => HeldInStage'
<1> SUFFICES ASSUME IInv, [Next]_vars PROVE HeldInStage'
  OBVIOUS
<1> USE DEF IInv, HeldInStage, TypeOK, LoopsDone
<1>1. CASE Record
  BY <1>1 DEF Record, PendingInLoops
<1>2. CASE PrepareBackend \/ PrepareBackendFails \/ OpenControl \/ UseCli \/ OpenControlFails
  BY <1>2 DEF PrepareBackend, PrepareBackendFails, OpenControl, UseCli, OpenControlFails,
              campaignVars
<1>3. CASE Preflight \/ PreflightFails \/ TakeSnapshot \/ CreateWorkspace \/ Execute
             \/ ExecuteThrows
  BY <1>3 DEF Preflight, PreflightFails, TakeSnapshot, CreateWorkspace, Execute, ExecuteThrows,
              campaignVars
<1>4. CASE Unwind \/ RemoveWorkspaceFails \/ LeaveLoops \/ StageFails
  BY <1>4 DEF Unwind, RemoveWorkspaceFails, LeaveLoops, StageFails, campaignVars
<1>5. CASE Seal \/ RemoveRoot \/ RemoveRootFails \/ CloseControl
  BY <1>5 DEF Seal, RemoveRoot, RemoveRootFails, CloseControl, campaignVars
<1>6. CASE UNCHANGED vars
  BY <1>6 DEF vars
<1> QED BY <1>1, <1>2, <1>3, <1>4, <1>5, <1>6 DEF Next, Execution

(* The strengthening is an invariant, *)
THEOREM Invariance == Spec => []IInv
<1>1. IInv /\ [Next]_vars => IInv'
  BY TypeStep, GatheredStep, PendingStep, SealedStep, HeldStep DEF IInv
<1> QED BY InitInv, <1>1, PTL DEF Spec

(* and so is type correctness. *)
THEOREM TypeCorrect == Spec => []TypeOK
<1>1. IInv => TypeOK
  BY DEF IInv
<1> QED BY Invariance, <1>1, PTL
-----------------------------------------------------------------------------
(* What an eligible candidate, a valid control and a decision rest on.     *)

(* Complete runs hold every required attempt.                              *)
LEMMA CompleteHasAttempts ==
  ASSUME NEW obs, NEW c, NEW w, IsComplete(RunsFor(obs, c, w)), NEW n \in Attempts
  PROVE  L!Gathered(obs, [candidate |-> c, world |-> w, attempt |-> n])
<1>1. PICK o \in RunsFor(obs, c, w) : o.attempt = n
  BY DEF IsComplete
<1> QED BY <1>1 DEF RunsFor, L!Gathered, L!JobOf

(* A candidate that passes every gate ran everywhere, and each of its      *)
(* observations supports it.                                               *)
LEMMA EligibleIsSupported ==
  ASSUME NEW obs, NEW c, Status(obs, c) = "ELIGIBLE"
  PROVE  /\ \A w \in Worlds : IsComplete(RunsFor(obs, c, w))
         /\ \A o \in obs : o.candidate = c /\ o.world \in Worlds => Supports(o)
<1>1. /\ Complete(obs, c) /\ UndiscoveredRuns(obs, c) = {}
      /\ GreenIn(obs, c, "REFERENCE") /\ GreenIn(obs, c, "NEUTRAL") /\ TargetPassed(obs, c)
  BY DEF Status
<1>2. ASSUME NEW o \in obs, o.candidate = c, o.world \in Worlds
      PROVE  Supports(o)
  <2>1. o \in RunsFor(obs, c, o.world)
    BY <1>2 DEF RunsFor
  <2>2. o.candidateTests >= 1 /\ o.attributed
    BY <1>1, <1>2 DEF UndiscoveredRuns, CandidateRuns
  <2>3. Kind[o.world] # "TARGET" => o.outcome = "PASS"
    <3>1. Kind[o.world] \in WorldKinds
      BY <1>2, EvidenceAssumption
    <3> QED BY <3>1, <2>1, <1>1, <1>2 DEF WorldKinds, GreenIn, WorldsOf
  <2>4. o.world \in Required \cap Targets => o.outcome = "ASSERTION_FAILURE"
    BY <2>1, <1>1 DEF TargetPassed, KilledWorlds
  <2> QED BY <2>2, <2>3, <2>4 DEF Supports
<1> QED BY <1>1, <1>2 DEF Complete

(* A VERIFIED decision: acceptable evidence, valid controls, and a         *)
(* selection of eligible candidates that is not empty.                     *)
LEMMA VerifiedDecision ==
  ASSUME NEW obs, NEW d \in DecisionsFor(obs), d.status = "VERIFIED"
  PROVE  /\ ControlsAreValid(obs)
         /\ DOMAIN d.selected # {}
         /\ \A i \in DOMAIN d.selected :
              d.selected[i] \in Candidates /\ Status(obs, d.selected[i]) = "ELIGIBLE"
<1>1. Acceptable(obs) /\ ControlsAreValid(obs)
  BY DEF DecisionsFor, DecisionsGiven
<1>2. PICK s \in CandidateSeqs :
        IsSelection(Assess(obs), s) /\ d = Conclude(Assess(obs), s)
  BY <1>1 DEF DecisionsFor, DecisionsGiven
<1>3. s # <<>> /\ d.selected = s
  BY <1>2 DEF Conclude
<1>4. DOMAIN s # {}
  <2>1. PICK n \in Nat : s \in [1 .. n -> Candidates]
    <3>1. Cardinality(Candidates) \in Nat
      BY EvidenceAssumption, FS_CardinalityType
    <3> QED BY <3>1 DEF CandidateSeqs
  <2>2. n # 0
    BY <2>1, <1>3
  <2> QED BY <2>1, <2>2
<1>5. ASSUME NEW i \in DOMAIN s
      PROVE  s[i] \in Candidates /\ Status(obs, s[i]) = "ELIGIBLE"
  <2>1. s[i] \in Eligible(Assess(obs))
    BY <1>2 DEF IsSelection, NextChoice
  <2> QED BY <2>1 DEF Eligible, Assess
<1> QED BY <1>1, <1>3, <1>4, <1>5

(* Every observation has a world of the request. *)
LEMMA ObservedWorlds ==
  ASSUME TypeOK, NEW o \in observations
  PROVE  o.world \in Worlds
<1>1. PICK j \in L!Jobs : \E r \in ResultsOf(j.candidate, j.world) : o = L!Observation(j, r)
  BY DEF TypeOK
<1> QED BY <1>1 DEF L!Jobs, L!Observation

(* VERIFIED is earned by the raw observations, whatever the worlds, the    *)
(* candidates, the policy and the results are.                             *)
THEOREM VerifiedEarned == Spec => []VerifiedIsEarned
<1>1. IInv => VerifiedIsEarned
  <2> SUFFICES ASSUME IInv, Sealed, manifest.status = "VERIFIED"
               PROVE  VerifiedIsEarned
    BY DEF VerifiedIsEarned
  <2>1. manifest \in DecisionsFor(observations) /\ TypeOK
    BY DEF IInv, SealedOnAll
  <2>2. /\ ControlsAreValid(observations)
        /\ Selected # {}
        /\ \A c \in Selected : Status(observations, c) = "ELIGIBLE"
    BY <2>1, VerifiedDecision DEF Selected
  <2>3. ASSUME NEW c \in Selected, NEW w \in Worlds, NEW n \in Attempts
        PROVE  /\ L!Gathered(observations, [candidate |-> c, world |-> w, attempt |-> n])
               /\ L!Gathered(observations, [candidate |-> Control, world |-> w, attempt |-> n])
    <3>1. IsComplete(RunsFor(observations, c, w))
      BY <2>2, EligibleIsSupported
    <3>2. IsComplete(RunsFor(observations, Control, w))
      BY <2>2 DEF ControlsAreValid, IsCompleteStable
    <3> QED BY <3>1, <3>2, CompleteHasAttempts
  <2>4. ASSUME NEW o \in observations
        PROVE  /\ o.candidate \in Selected => Supports(o)
               /\ o.candidate = Control => o.outcome = "PASS" /\ o.candidateTests = 0
    <3>1. o.world \in Worlds
      BY <2>1, ObservedWorlds
    <3>2. o.candidate \in Selected => Supports(o)
      BY <3>1, <2>2, EligibleIsSupported
    <3>3. o.candidate = Control => o.outcome = "PASS" /\ o.candidateTests = 0
      BY <3>1, <2>2 DEF ControlsAreValid, RunsFor
    <3> QED BY <3>2, <3>3
  <2> QED BY <2>2, <2>3, <2>4 DEF VerifiedIsEarned
<1> QED BY Invariance, <1>1, PTL
-----------------------------------------------------------------------------
(* The greedy selection finds an eligible candidate when there is one.     *)

(* Of any candidates, one comes first in the order a round sorts by.       *)
LEMMA FirstExists ==
  ASSUME NEW a, NEW chosen, NEW S, S \subseteq Candidates, S # {},
         \A c \in S : a[c].killed \subseteq Targets
  PROVE  \E c \in S : \A d \in S : Precedes(a, c, d, chosen)
<1> DEFINE gain == [c \in S |-> Cardinality(Marginal(a, c, chosen))]
           loss == [c \in S |-> Cardinality(Targets) - gain[c]]
<1>1. Cardinality(Targets) \in Nat /\ \A c \in S : gain[c] \in Nat /\ loss[c] \in Nat
  <2>1. IsFiniteSet(Targets)
    <3>1. Targets \in SUBSET Worlds
      BY DEF Targets, WorldsOf
    <3> QED BY <3>1, EvidenceAssumption, FS_Subset
  <2>2. ASSUME NEW c \in S
        PROVE  /\ Cardinality(Marginal(a, c, chosen)) \in Nat
               /\ Cardinality(Marginal(a, c, chosen)) <= Cardinality(Targets)
    <3>1. Marginal(a, c, chosen) \in SUBSET Targets
      BY DEF Marginal
    <3>2. /\ IsFiniteSet(Marginal(a, c, chosen))
          /\ Cardinality(Marginal(a, c, chosen)) <= Cardinality(Targets)
      BY <3>1, <2>1, FS_Subset
    <3> QED BY <3>2, FS_CardinalityType
  <2>3. Cardinality(Targets) \in Nat
    BY <2>1, FS_CardinalityType
  <2> QED BY <2>2, <2>3
<1> HIDE DEF gain
<1>2. PICK x \in S : \A y \in S : loss[x] <= loss[y]
  <2> HIDE DEF loss
  <2> QED BY <1>1, LeastExists
<1> DEFINE best == {c \in S : gain[c] = gain[x]}
<1>3. PICK y \in best : \A z \in best : Size[y] <= Size[z]
  <2>1. best # {} /\ \A c \in best : Size[c] \in Nat
    BY EvidenceAssumption
  <2> HIDE DEF best
  <2> QED BY <2>1, LeastExists
<1> DEFINE smallest == {c \in best : Size[c] = Size[y]}
<1>4. PICK z \in smallest : \A v \in smallest : Rank[z] <= Rank[v]
  <2>1. smallest # {} /\ \A c \in smallest : Rank[c] \in Nat
    BY <1>3, EvidenceAssumption
  <2> HIDE DEF smallest
  <2> QED BY <2>1, LeastExists
<1>5. ASSUME NEW d \in S
      PROVE  Precedes(a, z, d, chosen)
  <2>1. gain[z] = gain[x] /\ Size[z] = Size[y] /\ z \in S
    BY <1>4
  <2>2. gain[z] >= gain[d]
    BY <1>1, <1>2, <2>1
  <2>3. gain[z] = gain[d] => Size[z] <= Size[d]
    BY <1>3, <2>1
  <2>4. gain[z] = gain[d] /\ Size[z] = Size[d] => Rank[z] <= Rank[d]
    BY <1>4, <2>1
  <2>5. Size[z] \in Nat /\ Size[d] \in Nat /\ gain[z] \in Nat /\ gain[d] \in Nat
    BY <1>1, <2>1, EvidenceAssumption
  <2>6. /\ gain[z] = Cardinality(Marginal(a, z, chosen))
        /\ gain[d] = Cardinality(Marginal(a, d, chosen))
    BY <2>1 DEF gain
  <2> QED BY <2>2, <2>3, <2>4, <2>5, <2>6 DEF Precedes
<1> QED BY <1>4, <1>5

(* An eligible candidate killed a required target.                         *)
LEMMA EligibleKills ==
  ASSUME NEW obs, NEW c \in Candidates
  PROVE  /\ Assess(obs)[c].killed \subseteq Targets
         /\ c \in Eligible(Assess(obs)) => Assess(obs)[c].killed # {}
<1>1. Assess(obs)[c] = [status |-> Status(obs, c), killed |-> KilledTargets(obs, c)]
  BY DEF Assess
<1>2. KilledTargets(obs, c) \subseteq Targets
  BY DEF KilledTargets, KilledWorlds
<1>3. ASSUME c \in Eligible(Assess(obs))
      PROVE  KilledTargets(obs, c) # {}
  <2>1. Status(obs, c) = "ELIGIBLE"
    BY <1>1, <1>3 DEF Eligible
  <2>2. /\ Stable(obs, c) /\ UndiscoveredRuns(obs, c) = {}
        /\ Required \cap Targets \subseteq KilledWorlds(obs, c)
    BY <2>1 DEF Status, TargetPassed
  <2>3. Required \cap Targets # {}
    BY EvidenceAssumption DEF WorldKinds, Targets, WorldsOf
  <2> QED BY <2>2, <2>3 DEF KilledTargets
<1> QED BY <1>1, <1>2, <1>3

(* The selection is empty only when no candidate is eligible.              *)
LEMMA EmptyOnlyIfNoneEligible ==
  ASSUME NEW obs, IsSelection(Assess(obs), <<>>)
  PROVE  Eligible(Assess(obs)) = {}
<1> DEFINE a == Assess(obs)
<1> SUFFICES ASSUME Eligible(a) # {} PROVE FALSE
  OBVIOUS
<1>1. NextChoice(a, {}) = {}
  <2>1. Taken(<<>>, Len(<<>>)) = {}
    BY DEF Taken
  <2> QED BY <2>1 DEF IsSelection
<1>2. Eligible(a) \subseteq Candidates /\ Eligible(a) \ {} = Eligible(a)
  BY DEF Eligible
<1>3. PICK c \in Eligible(a) : \A d \in Eligible(a) : Precedes(a, c, d, {})
  <2>1. \A c \in Eligible(a) : a[c].killed \subseteq Targets
    BY <1>2, EligibleKills
  <2> HIDE DEF a
  <2> QED BY <1>2, <2>1, FirstExists
<1>4. Marginal(a, c, {}) # {}
  <2>1. Marginal(a, c, {}) = a[c].killed
    BY DEF Marginal, Covered
  <2> QED BY <2>1, <1>2, EligibleKills
<1>5. ~(Cardinality({}) >= MaximumSelected)
  BY FS_EmptySet, EvidenceAssumption
<1> QED BY <1>1, <1>2, <1>3, <1>4, <1>5 DEF NextChoice

(* No candidate is called "control": run identifiers tell the jobs apart,  *)
(* so that the core accepts what the loops gathered.                       *)
LEMMA EvidenceAcceptable ==
  ASSUME IInv, ControlNamed = {}
  PROVE  Acceptable(observations)
<1>1. ASSUME NEW o \in observations
      PROVE  o.runId = L!JobOf(o)
  <2>1. PICK j \in L!Jobs : \E r \in ResultsOf(j.candidate, j.world) : o = L!Observation(j, r)
    BY DEF IInv, TypeOK
  <2> QED BY <2>1 DEF L!Jobs, L!Observation, L!RunId, L!JobOf
<1> QED BY <1>1 DEF Acceptable, IInv, GatheredSoFar

(* An eligible candidate is never lost: the campaign is VERIFIED.          *)
THEOREM EligibleSelected == Spec => []EligibleIsSelected
<1>1. IInv => EligibleIsSelected
  <2> SUFFICES ASSUME IInv, Sealed, ControlNamed = {}, ControlsAreValid(observations),
                      Eligible(Assess(observations)) # {}
               PROVE  manifest.status = "VERIFIED"
    BY DEF EligibleIsSelected
  <2>0. Acceptable(observations)
    BY EvidenceAcceptable
  <2>1. PICK s \in CandidateSeqs :
          /\ IsSelection(Assess(observations), s)
          /\ manifest = Conclude(Assess(observations), s)
    BY <2>0 DEF IInv, SealedOnAll, DecisionsFor, DecisionsGiven
  <2>2. s # <<>>
    BY <2>1, EmptyOnlyIfNoneEligible
  <2> QED BY <2>1, <2>2 DEF Conclude
<1> QED BY Invariance, <1>1, PTL
-----------------------------------------------------------------------------
(* A rejection rests on evidence against every candidate.                  *)

(* A run against a candidate: it completed, and it does not support it.    *)
SpeaksAgainst(o) ==
  /\ o.outcome \notin InconclusiveOutcomes
  /\ ~(Supports(o) /\ (Kind[o.world] = "TARGET" => o.outcome = "ASSERTION_FAILURE"))

(* An INVALID candidate has a completed run against it: one without its    *)
(* test, or one that is not green on a reference or neutral world.         *)
LEMMA InvalidHasEvidence ==
  ASSUME NEW obs, NEW c, Status(obs, c) = "INVALID"
  PROVE  \E o \in CandidateRuns(obs, c) : SpeaksAgainst(o)
<1>1. CASE UndiscoveredRuns(obs, c) # {}
  <2>1. PICK o \in UndiscoveredRuns(obs, c) : o.outcome \notin InconclusiveOutcomes
    BY <1>1 DEF Status
  <2>2. o \in CandidateRuns(obs, c) /\ ~Supports(o)
    BY <2>1 DEF UndiscoveredRuns, Supports
  <2> QED BY <2>1, <2>2 DEF SpeaksAgainst
<1>2. CASE UndiscoveredRuns(obs, c) = {}
  <2>1. ~GreenIn(obs, c, "REFERENCE") \/ ~GreenIn(obs, c, "NEUTRAL")
    BY <1>2 DEF Status
  <2>2. PICK w \in Worlds : Kind[w] # "TARGET" /\
          \E o \in RunsFor(obs, c, w) : o.outcome # "PASS"
    BY <2>1 DEF GreenIn, WorldsOf
  <2>3. PICK o \in RunsFor(obs, c, w) : o.outcome # "PASS"
    BY <2>2
  <2>4. o \in CandidateRuns(obs, c) /\ ~Supports(o)
    BY <2>2, <2>3 DEF RunsFor, CandidateRuns, Supports
  <2>5. o.outcome \notin InconclusiveOutcomes
    BY <1>2, <2>4 DEF Status, ExecutionInconclusive
  <2> QED BY <2>4, <2>5 DEF SpeaksAgainst
<1> QED BY <1>1, <1>2

(* There is a target, and each weighs at least 1: so do they all together. *)
LEMMA TargetsWeigh == TotalWeight(Targets) \in Nat \ {0}
<1>1. PICK w \in Targets : Weight[w] >= 1
  BY EvidenceAssumption DEF WorldKinds, Targets, WorldsOf
<1>2. IsFiniteSet(Targets) /\ \A v \in Targets : Weight[v] \in Nat
  BY EvidenceAssumption, FS_Subset DEF Targets, WorldsOf
<1>3. SumFunctionOnSet(Weight, Targets) \in Nat /\ SumFunctionOnSet(Weight, Targets) >= Weight[w]
  BY <1>1, <1>2, SumAtLeast
<1> QED BY <1>1, <1>2, <1>3 DEF TotalWeight

(* A WEAK_ORACLE candidate let some target survive in a completed run.     *)
LEMMA WeakOracleHasEvidence ==
  ASSUME NEW obs, NEW c, Status(obs, c) = "WEAK_ORACLE"
  PROVE  \E o \in CandidateRuns(obs, c) : SpeaksAgainst(o)
<1>1. UndiscoveredRuns(obs, c) = {} /\ ~ExecutionInconclusive(obs, c) /\ ~TargetPassed(obs, c)
  BY DEF Status
<1>2. KilledWorlds(obs, c) # Targets
  <2>1. TotalWeight(Targets) * 1000 >= TotalWeight(Targets) * MinimumPermille
    BY EvidenceAssumption, TargetsWeigh
  <2> QED BY <1>1, <2>1, TargetsWeigh DEF TargetPassed
<1>3. PICK w \in Targets : \E o \in RunsFor(obs, c, w) :
        ~(o.attributed /\ o.outcome = "ASSERTION_FAILURE")
  BY <1>2 DEF KilledWorlds
<1>4. PICK o \in RunsFor(obs, c, w) : ~(o.attributed /\ o.outcome = "ASSERTION_FAILURE")
  BY <1>3
<1>5. o \in CandidateRuns(obs, c) /\ Kind[o.world] = "TARGET"
  BY <1>4 DEF RunsFor, CandidateRuns, Targets, WorldsOf
<1>6. ~(Supports(o) /\ (Kind[o.world] = "TARGET" => o.outcome = "ASSERTION_FAILURE"))
  BY <1>4, <1>5 DEF Supports
<1> QED BY <1>1, <1>5, <1>6 DEF ExecutionInconclusive, SpeaksAgainst

(* REJECTED is a conclusion about every candidate.                         *)
THEOREM RejectedConclusive == Spec => []RejectedIsConclusive
<1>1. IInv => RejectedIsConclusive
  <2> SUFFICES ASSUME IInv, Sealed, manifest.status = "REJECTED", NEW c \in Candidates
               PROVE  \E o \in CandidateRuns(observations, c) : SpeaksAgainst(o)
    BY DEF RejectedIsConclusive, SpeaksAgainst
  <2> DEFINE a == Assess(observations)
  <2>1. PICK s \in CandidateSeqs : IsSelection(a, s) /\ manifest = Conclude(a, s)
    BY DEF IInv, SealedOnAll, DecisionsFor, DecisionsGiven
  <2>2. IsSelection(a, <<>>) /\ ~HasInconclusiveCandidate(a)
    BY <2>1 DEF Conclude
  <2>3. Eligible(a) = {}
    BY <2>2, EmptyOnlyIfNoneEligible
  <2>4. a[c].status = Status(observations, c)
    BY DEF Assess
  <2>5. Status(observations, c) \notin {"ELIGIBLE", "UNSTABLE", "INCONCLUSIVE"}
    BY <2>2, <2>3, <2>4 DEF Eligible, HasInconclusiveCandidate
  <2>6. Status(observations, c) \in {"INVALID", "WEAK_ORACLE"}
    BY <2>5 DEF Status
  <2> QED BY <2>6, InvalidHasEvidence, WeakOracleHasEvidence
<1> QED BY Invariance, <1>1, PTL

-----------------------------------------------------------------------------
(* The order of the executions, and evidence the core accepts.             *)

(* The order of the loops: a candidate's run comes after every control.    *)
THEOREM ControlsComeFirst == Spec => []ControlsFirst
<1>1. IInv => ControlsFirst
  <2> SUFFICES ASSUME IInv, NEW o \in observations, o.candidate # Control,
                      NEW w \in Worlds, NEW n \in Attempts
               PROVE  L!Gathered(observations, [candidate |-> Control, world |-> w, attempt |-> n])
    BY DEF ControlsFirst
  <2> DEFINE j == [candidate |-> Control, world |-> w, attempt |-> n]
  <2>1. PICK k \in Cursors : Before(k, cursor) /\ L!JobOf(o) = JobAt(k)
    BY DEF IInv, GatheredSoFar
  <2>2. k.candidate # 0
    BY <2>1 DEF JobAt, L!JobOf
  <2>3. PICK l \in Cursors : JobAt(l) = j
    <3>1. j \in L!Jobs
      BY DEF L!Jobs, Attempts
    <3> QED BY <3>1, JobAtSurjective
  <2>4. l.candidate = 0
    BY <2>3, CursorFacts, RequestFacts DEF JobAt
  <2>5. Before(l, cursor)
    <3>1. cursor.candidate \in 0 .. NC + 1
      BY DEF IInv, TypeOK
    <3> QED BY <3>1, <2>1, <2>2, <2>4, CursorFacts, RequestFacts DEF Before
  <2> QED BY <2>3, <2>5 DEF IInv, GatheredSoFar
<1> QED BY Invariance, <1>1, PTL

(* The core refuses nothing the engine sealed, when no candidate is called *)
(* "control".                                                              *)
THEOREM NeverEngineError == Spec => []NoEngineError
<1>1. IInv => NoEngineError
  <2> SUFFICES ASSUME IInv, ControlNamed = {}, Sealed
               PROVE  manifest.status # "ENGINE_ERROR"
    BY DEF NoEngineError
  <2>1. Acceptable(observations)
    BY EvidenceAcceptable
  <2>2. manifest \in DecisionsFor(observations)
    BY DEF IInv, SealedOnAll
  <2>3. CASE ~ControlsAreValid(observations)
    BY <2>1, <2>2, <2>3 DEF DecisionsFor, DecisionsGiven
  <2>4. CASE ControlsAreValid(observations)
    BY <2>1, <2>2, <2>4 DEF DecisionsFor, DecisionsGiven, Conclude
  <2> QED BY <2>3, <2>4
<1> QED BY Invariance, <1>1, PTL

(* What a campaign held is released, or its loss reported.                 *)
THEOREM AlwaysReleased == Spec => []ReleasedOrReported
<1>1. IInv => ReleasedOrReported
  BY DEF IInv, TypeOK, HeldInStage, SealedOnAll, ReleasedOrReported, Ended
<1> QED BY Invariance, <1>1, PTL

-----------------------------------------------------------------------------
(* The engine implements the ledger.                                       *)

(* A campaign that starts is a ledger with nothing in it.                  *)
LEMMA InitRefines == Init => L!LedgerInit
BY DEF Init, L!LedgerInit, L!Undecided, CallerVerdict

(* Every action of the engine is an action of the ledger or invisible.     *)
LEMMA StepRefines == IInv /\ [Next]_vars => [L!LedgerNext]_L!ledgerVars
<1> SUFFICES ASSUME IInv, [Next]_vars PROVE [L!LedgerNext]_L!ledgerVars
  OBVIOUS
<1>1. CASE Record
  <2>1. L!Gather(JobAt(cursor))
    BY <1>1, RecordGathersOne DEF Record, L!Gather, L!Undecided, CallerVerdict
  <2> QED BY <2>1, <1>1, RecordGathersOne DEF L!LedgerNext
<1>2. CASE CloseControl /\ ~failed
  <2>1. manifest \in DecisionsFor(observations) /\ LoopsDone
    BY <1>2 DEF CloseControl, IInv, SealedOnAll
  <2>2. ASSUME NEW j \in L!Jobs
        PROVE  L!Gathered(observations, j)
    <3>1. PICK k \in Cursors : JobAt(k) = j
      BY JobAtSurjective
    <3>2. Before(k, cursor)
      <4>1. cursor.candidate \in 0 .. NC + 1
        BY DEF IInv, TypeOK
      <4> QED BY <4>1, <2>1, CursorFacts, RequestFacts DEF LoopsDone, Before
    <3> QED BY <3>1, <3>2 DEF IInv, GatheredSoFar
  <2>3. L!Decide
    BY <1>2, <2>1, <2>2 DEF CloseControl, campaignVars, L!Decide, L!Undecided, CallerVerdict
  <2> QED BY <2>3 DEF L!LedgerNext
<1>3. CASE (CloseControl /\ failed) \/ PrepareBackendFails \/ OpenControlFails
  <2>1. L!Abandon
    BY <1>3 DEF CloseControl, PrepareBackendFails, OpenControlFails, campaignVars,
                L!Abandon, L!Undecided, L!Abandoned, CallerVerdict
  <2> QED BY <2>1 DEF L!LedgerNext
<1>4. CASE PrepareBackend \/ OpenControl \/ UseCli \/ Preflight \/ PreflightFails \/ TakeSnapshot
  BY <1>4 DEF PrepareBackend, OpenControl, UseCli, Preflight, PreflightFails, TakeSnapshot,
              campaignVars, L!ledgerVars, CallerVerdict
<1>5. CASE CreateWorkspace \/ Execute \/ ExecuteThrows \/ Unwind \/ RemoveWorkspaceFails
             \/ LeaveLoops
  BY <1>5 DEF CreateWorkspace, Execute, ExecuteThrows, Unwind, RemoveWorkspaceFails, LeaveLoops,
              campaignVars, L!ledgerVars, CallerVerdict
<1>6. CASE StageFails \/ Seal \/ RemoveRoot \/ RemoveRootFails
  BY <1>6 DEF StageFails, Seal, RemoveRoot, RemoveRootFails, campaignVars, L!ledgerVars,
              CallerVerdict
<1>7. CASE UNCHANGED vars
  BY <1>7 DEF vars, L!ledgerVars, CallerVerdict
<1> QED BY <1>1, <1>2, <1>3, <1>4, <1>5, <1>6, <1>7 DEF Next, Execution

(* Nothing is gathered twice, and what the caller is told is the core's    *)
(* decision on the complete evidence, or that the campaign was abandoned.  *)
THEOREM Implements == Spec => ImplementsLedger
<1>1. Spec => L!LedgerInit
  BY InitRefines, PTL DEF Spec
<1>2. Spec => [][L!LedgerNext]_L!ledgerVars
  BY Invariance, StepRefines, PTL DEF Spec
<1> QED BY <1>1, <1>2, PTL DEF ImplementsLedger, L!LedgerSpec
=============================================================================
