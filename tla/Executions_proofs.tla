-------------------------- MODULE Executions_proofs --------------------------
(***************************************************************************)
(* Theorems about the executions of MCExecutions, for every value of their *)
(* constants: every process, report and adapter of a local execution, every*)
(* daemon, process and peer of a container execution, every limit of a     *)
(* response, every set of workspaces and budget of the archives kept, and  *)
(* every limit of the queue of the trace.                                  *)
(*                                                                         *)
(* A behaviour takes one backend, so each invariant is inductive for the   *)
(* steps of its own backend: LocalInv for the process and its classified   *)
(* report, TraceInv for the trace and its worker, and SessionInv for the   *)
(* requests, the control connection and the archives kept.                 *)
(***************************************************************************)
EXTENDS MCExecutions, FiniteSetTheorems, SequenceTheorems, TLAPS

-----------------------------------------------------------------------------
(* The process of a local execution: what has ended stays ended, and what  *)
(* its promise resolved to.                                                *)
ProcessInv ==
  /\ localChild \in {"running", "exited"} /\ closed \in BOOLEAN /\ timedOut \in BOOLEAN
  /\ closed => localChild = "exited"
  /\ output.total \in Nat /\ output.captured \in Int /\ output.captured <= output.total
  /\ A!Settled => localTimer = "off" /\ grace = "off"
  /\ A!Settled =>
       /\ result.outcome \in {"PASS", "PROCESS_CRASH", "TIMEOUT", "INFRA_ERROR"}
       /\ result.outcome = "PASS" => result.exit = "zero"
       /\ result.outcome = "PROCESS_CRASH" => result.exit # "zero"
       /\ result.timedOut = timedOut
       /\ result.captured = output.captured
       /\ result.truncated = (output.total > output.captured)
  /\ (A!Settled /\ result.outcome \in {"PASS", "PROCESS_CRASH"}) =>
       /\ closed /\ ~spawnError /\ ~timedOut /\ result.exit = exit
       /\ input \in {"none", "delivered"}

LEMMA ProcessInit == A!Init => ProcessInv
<1> HAVE A!Init
<1>1. output.total = 0 /\ output.captured = 0
  BY DEF A!Init
<1>2. ~A!Settled
  BY DEF A!Init, A!Settled
<1>3. closed \in BOOLEAN /\ timedOut \in BOOLEAN /\ ~closed
  BY DEF A!Init
<1>4. localChild \in {"running", "exited"}
  BY DEF A!Init
<1>5. output.total \in Nat /\ output.captured \in Int /\ output.captured <= output.total
  BY <1>1
<1> QED BY <1>2, <1>3, <1>4, <1>5 DEF ProcessInv

LEMMA ProcessStep ==
  ASSUME ProcessInv, [A!Next]_(A!vars)
  PROVE  ProcessInv'
<1> USE DEF A!Settled, A!Unsettled, A!processVars, A!raceVars
<1>1. CASE A!SpawnFails
  BY <1>1 DEF A!SpawnFails, ProcessInv
<1>2. CASE A!ChildExits
  BY <1>2 DEF A!ChildExits, ProcessInv
<1>3. CASE A!DescendantsEnd
  BY <1>3 DEF A!DescendantsEnd, ProcessInv
<1>4. ASSUME NEW size \in Chunks, A!OutputArrives(size)
      PROVE  ProcessInv'
  BY <1>4, SessionAssumption, ExecutionsAssumption DEF A!OutputArrives, A!Kept, ProcessInv
<1>5. CASE A!InputDelivered
  BY <1>5 DEF A!InputDelivered, ProcessInv
<1>6. CASE A!InputFails
  BY <1>6 DEF A!InputFails, ProcessInv
<1>7. CASE A!TimerFires
  BY <1>7 DEF A!TimerFires, ProcessInv
<1>8. CASE A!GraceFires
  BY <1>8 DEF A!GraceFires, A!Finish, A!ResultOf, ProcessInv
<1>9. CASE A!CloseEmitted
  BY <1>9 DEF A!CloseEmitted, A!PipesEnded, A!Finish, A!ResultOf, A!Outcome, ProcessInv
<1>10. CASE A!InputAwaited
  BY <1>10 DEF A!InputAwaited, A!Finish, A!ResultOf, A!Outcome, ProcessInv
<1>11. CASE UNCHANGED A!vars
  BY <1>11 DEF A!vars, ProcessInv
<1> QED BY <1>1, <1>2, <1>3, <1>4, <1>5, <1>6, <1>7, <1>8, <1>9, <1>10, <1>11 DEF A!Next

(* A promise resolves once. *)
LEMMA SettledOnce ==
  ASSUME A!Settled, [A!Next]_(A!vars)
  PROVE  result' = result
BY DEF A!Next, A!vars, A!processVars, A!raceVars, A!SpawnFails, A!ChildExits, A!DescendantsEnd,
       A!OutputArrives, A!InputDelivered, A!InputFails, A!TimerFires, A!GraceFires, A!CloseEmitted,
       A!InputAwaited, A!Finish

-----------------------------------------------------------------------------
(* The classification.                                                     *)

(* A report that was read and not refused belongs to a process that ended  *)
(* by itself and is consistent in itself.                                  *)
LEMMA ReportFacts ==
  ASSUME NEW kind \in A!AdapterKinds, NEW p, NEW file \in A!ReportFiles(kind),
         NEW r, r = A!ReadReport(kind, file, p), r # A!NoReport
  PROVE  /\ p.outcome \notin {"TIMEOUT", "INFRA_ERROR"}
         /\ r = file /\ r.tests \in Nat /\ r.candidateTests \in Nat
         /\ kind = "node-test" =>
              /\ r.candidateFailures \in Nat /\ r.nonCandidateFailures \in Nat
              /\ r.candidateSyntaxFailures \in Nat /\ r.allAssertions \in BOOLEAN
         /\ kind = "structured" =>
              /\ r.attributed => r.candidateTests # 0
              /\ IF r.outcome = "PASS" THEN p.exit = "zero" ELSE p.exit = "nonzero"
<1>1. p.outcome \notin {"TIMEOUT", "INFRA_ERROR"}
  BY DEF A!ReadReport, A!ReportIsRead
<1>2. CASE kind = "node-test"
  <2>1. r = file
    BY <1>1, <1>2 DEF A!ReadReport, A!ReportIsRead, A!ParseNodeTestReport
  <2> QED BY <2>1, <1>1, <1>2, ExecutionsAssumption DEF A!ReportFiles, A!NodeReports
<1>3. CASE kind = "structured"
  <2>1. r = A!ParseStructuredCommandReport(file, p)
    BY <1>1, <1>3 DEF A!ReadReport, A!ReportIsRead
  <2>2. /\ r = file
        /\ r.attributed => r.candidateTests # 0
        /\ IF r.outcome = "PASS" THEN p.exit = "zero" ELSE p.exit = "nonzero"
    BY <2>1 DEF A!ParseStructuredCommandReport
  <2> QED BY <2>2, <1>1, <1>3, ExecutionsAssumption DEF A!ReportFiles, A!StructuredReports
<1> QED BY <1>2, <1>3 DEF A!AdapterKinds

(* Without a report there is no conclusion. *)
LEMMA NothingWithoutReport ==
  ASSUME NEW kind \in A!AdapterKinds, NEW p, NEW candidate
  PROVE  A!Observe(kind, p, A!NoReport, candidate).outcome \in {"TIMEOUT", "INFRA_ERROR"}
BY DEF A!Observe, A!ClassifyNodeTest, A!ClassifyStructured, A!NormalizeRuntimeFacts, A!Verdict

(* What an attributed assertion failure and a pass say of process and      *)
(* report.                                                                 *)
LEMMA ConclusionFacts ==
  ASSUME NEW kind \in A!AdapterKinds, NEW p, NEW file \in A!ReportFiles(kind),
         NEW r, r = A!ReadReport(kind, file, p), r # A!NoReport,
         NEW candidate \in BOOLEAN, NEW o, o = A!Observe(kind, p, r, candidate)
  PROVE  /\ (o.outcome = "ASSERTION_FAILURE" /\ o.attributed) =>
              /\ p.exit # "zero" /\ r.candidateTests >= 1
              /\ kind = "node-test" =>
                   /\ candidate /\ r.candidateFailures > 0
                   /\ r.nonCandidateFailures = 0 /\ r.candidateSyntaxFailures = 0
                   /\ r.allAssertions
         /\ o.outcome = "PASS" =>
              /\ p.exit = "zero"
              /\ kind = "node-test" =>
                   /\ r.candidateFailures = 0 /\ r.nonCandidateFailures = 0
                   /\ ~candidate => ~o.attributed /\ o.candidateTests = 0
<1>0. p.outcome # "TIMEOUT"
  BY ReportFacts
<1>1. CASE kind = "node-test"
  <2>1. /\ o.outcome = A!NormalizeRuntimeFacts(candidate, p.exit = "zero", r).outcome
        /\ o.attributed = A!NormalizeRuntimeFacts(candidate, p.exit = "zero", r).attributed
        /\ o.candidateTests = r.candidateTests
    BY <1>0, <1>1 DEF A!Observe, A!ClassifyNodeTest
  <2>2. CASE A!Contradictory(candidate, p.exit = "zero", r)
    BY <2>1, <2>2 DEF A!NormalizeRuntimeFacts, A!Verdict
  <2>3. CASE ~A!Contradictory(candidate, p.exit = "zero", r)
    <3>1. /\ o.outcome = A!NormalizeAgreeing(candidate, p.exit = "zero", r).outcome
          /\ o.attributed = A!NormalizeAgreeing(candidate, p.exit = "zero", r).attributed
      BY <2>1, <2>3 DEF A!NormalizeRuntimeFacts
    <3> QED BY <3>1, <2>1, <2>3, <1>1, ReportFacts DEF A!NormalizeAgreeing, A!Contradictory, A!Verdict
  <2> QED BY <2>2, <2>3
<1>2. CASE kind = "structured"
  <2>1. o.outcome = r.outcome /\ o.attributed = r.attributed /\ o.candidateTests = r.candidateTests
    BY <1>0, <1>2 DEF A!Observe, A!ClassifyStructured, A!Verdict, A!AdapterKinds
  <2> QED BY <2>1, <1>2, ReportFacts
<1> QED BY <1>1, <1>2 DEF A!AdapterKinds

-----------------------------------------------------------------------------
(* The stages of an execution: what was read is a report of this process,  *)
(* and what was observed is its classification.                            *)
AdapterInv ==
  /\ adapterKind \in A!AdapterKinds \cup {A!NoAdapter} /\ hasCandidate \in BOOLEAN
  /\ stage \in {"process", "read", "classified"}
  /\ stage # "process" =>
       /\ A!Settled /\ adapterKind \in A!AdapterKinds
       /\ \/ report = A!NoReport
          \/ \E file \in A!ReportFiles(adapterKind) : report = A!ReadReport(adapterKind, file, A!Process)
  /\ observation = IF stage = "classified" THEN A!Observe(adapterKind, A!Process, report, hasCandidate)
                                           ELSE A!NoObservation

LocalInv == ProcessInv /\ AdapterInv

LEMMA LocalInit == A!ExecutionInit => LocalInv
BY ProcessInit DEF A!ExecutionInit, LocalInv, AdapterInv

LEMMA LocalStep ==
  ASSUME LocalInv, A!ExecutionNext \/ UNCHANGED localVars
  PROVE  LocalInv'
<1> USE DEF LocalInv
<1>1. CASE A!ProcessStep \/ UNCHANGED localVars
  <2>1. [A!Next]_(A!vars) /\ UNCHANGED A!adapterVars
    BY <1>1 DEF A!ProcessStep, localVars, A!vars, A!processVars, A!raceVars, A!adapterVars
  <2>2. ProcessInv'
    BY <2>1, ProcessStep
  <2>3. A!Settled => A!Settled' /\ A!Process' = A!Process
    BY <2>1, SettledOnce DEF A!Settled, A!Unsettled, A!Process
  <2>4. stage # "process" => A!Process' = A!Process /\ A!Settled'
    BY <2>3 DEF AdapterInv
  <2>5. AdapterInv'
    <3>1. CASE stage = "process"
      BY <3>1, <2>1 DEF AdapterInv, A!adapterVars
    <3>2. CASE stage # "process"
      BY <3>2, <2>1, <2>4 DEF AdapterInv, A!adapterVars
    <3> QED BY <3>1, <3>2
  <2> QED BY <2>2, <2>5
<1>2. CASE A!ReportFound
  <2>1. ProcessInv'
    BY <1>2, ProcessStep DEF A!ReportFound
  <2>2. (A!Settled => A!Settled') /\ A!Process' = A!Process
    BY <1>2 DEF A!ReportFound, A!vars, A!raceVars, A!Settled, A!Unsettled, A!Process
  <2>3. AdapterInv'
    BY <2>2, <1>2 DEF A!ReportFound, AdapterInv
  <2> QED BY <2>1, <2>3
<1>3. CASE A!ReportUnreadable
  <2>1. ProcessInv'
    BY <1>3, ProcessStep DEF A!ReportUnreadable
  <2>2. (A!Settled => A!Settled') /\ A!Process' = A!Process
    BY <1>3 DEF A!ReportUnreadable, A!vars, A!raceVars, A!Settled, A!Unsettled, A!Process
  <2>3. AdapterInv'
    BY <2>2, <1>3 DEF A!ReportUnreadable, AdapterInv
  <2> QED BY <2>1, <2>3
<1>4. CASE A!Classify
  <2>1. ProcessInv'
    BY <1>4, ProcessStep DEF A!Classify
  <2>2. (A!Settled => A!Settled') /\ A!Process' = A!Process
    BY <1>4 DEF A!Classify, A!vars, A!raceVars, A!Settled, A!Unsettled, A!Process
  <2>3. AdapterInv'
    BY <2>2, <1>4 DEF A!Classify, AdapterInv
  <2> QED BY <2>1, <2>3
<1> QED BY <1>1, <1>2, <1>3, <1>4 DEF A!ExecutionNext

LEMMA LocalConclusions == LocalInv => A!CompletionIsReal /\ A!ConclusionIsEarned
<1> HAVE LocalInv
<1>1. A!CompletionIsReal
  BY DEF LocalInv, ProcessInv, A!CompletionIsReal
<1>2. ASSUME A!Observed, observation.outcome \in {"PASS", "ASSERTION_FAILURE"}
      PROVE  /\ stage = "classified" /\ report # A!NoReport
             /\ observation = A!Observe(adapterKind, A!Process, report, hasCandidate)
             /\ adapterKind \in A!AdapterKinds /\ A!Settled
             /\ \E file \in A!ReportFiles(adapterKind) :
                  report = A!ReadReport(adapterKind, file, A!Process)
  BY <1>2, NothingWithoutReport DEF LocalInv, AdapterInv, A!Observed
<1>3. ASSUME A!Observed, observation.outcome \in {"PASS", "ASSERTION_FAILURE"}
      PROVE  A!CompletedWithReport /\ A!Process.exit = exit
  <2>1. PICK file \in A!ReportFiles(adapterKind) : report = A!ReadReport(adapterKind, file, A!Process)
    BY <1>2, <1>3
  <2>2. result.outcome \notin {"TIMEOUT", "INFRA_ERROR"}
    BY <1>2, <1>3, <2>1, ReportFacts DEF A!Process
  <2> QED BY <2>2, <1>2, <1>3 DEF LocalInv, ProcessInv, A!CompletedWithReport, A!Process
<1>4. A!KillIsPureAssertion
  <2> SUFFICES ASSUME A!Observed, observation.outcome = "ASSERTION_FAILURE", observation.attributed
               PROVE  A!KillIsPureAssertion
    BY DEF A!KillIsPureAssertion
  <2> QED BY <1>2, <1>3, ConclusionFacts DEF A!KillIsPureAssertion, LocalInv, AdapterInv
<1>5. A!PassIsGreen
  <2> SUFFICES ASSUME A!Observed, observation.outcome = "PASS"
               PROVE  A!PassIsGreen
    BY DEF A!PassIsGreen
  <2> QED BY <1>2, <1>3, ConclusionFacts DEF A!PassIsGreen, LocalInv, AdapterInv
<1> QED BY <1>1, <1>4, <1>5 DEF A!ConclusionIsEarned

-----------------------------------------------------------------------------
(* The trace.                                                              *)

Records == Nat \ {T!Close}
Messages == {"ready", "written", "closed", "failed"}
Positions(s, values) == {i \in DOMAIN s : s[i] \in values}
Count(s, values) == Cardinality(Positions(s, values))

(* The worker that may still take a step. *)
Alive == thread \in {"starting", "listening"}

TraceTypes ==
  /\ at \in {"called", "opening", "operating", "finishing", "returned"}
  /\ scope \in {"none", "off", "session"}
  /\ thread \in {"none", "starting", "listening", "ended", "stopped"}
  /\ recorded \in Nat /\ waiting \in Nat /\ broken \in BOOLEAN
  /\ accepted \in Seq(Records) /\ toWorker \in Seq(Nat) /\ trace \in Seq(Nat)
  /\ toSession \in Seq(Messages)

(* Where withRuntimeTrace stands, and what it has then. *)
Phases ==
  /\ awaiting = CASE at = "opening" -> "ready" [] at = "finishing" -> "closed" [] OTHER -> "nothing"
  /\ at = "called" => thread = "none" /\ toSession = <<>>
  /\ at \in {"called", "opening"} =>
       scope = "none" /\ ~broken /\ toWorker = <<>> /\ accepted = <<>> /\ trace = <<>>
  /\ at = "finishing" => scope = "session"
  /\ Alive => at = "opening" \/ (scope = "session" /\ at \in {"operating", "finishing"})
  /\ scope # "session" => recorded = 0 /\ accepted = <<>>
  /\ broken => ~Alive /\ warnings # {}

(* The worker says that it failed or closed the file when it ends. *)
Answers ==
  \A i \in DOMAIN toSession :
    /\ toSession[i] \in {"failed", "closed"} => ~Alive
    /\ toSession[i] = "closed" => at \in {"finishing", "returned"} /\ trace = accepted

(* What was accepted is in the file or, as long as the worker lives, on    *)
(* its way there.                                                          *)
File ==
  /\ Alive =>
       /\ Len(accepted) + (IF at = "finishing" THEN 1 ELSE 0) = Len(trace) + Len(toWorker)
       /\ at = "finishing" => Len(toWorker) >= 1
       /\ \A i \in DOMAIN trace : trace[i] # T!Torn
       /\ \A i \in DOMAIN toWorker :
            toWorker[i] = IF at = "finishing" /\ i = Len(toWorker) THEN T!Close
                          ELSE accepted[Len(trace) + i]
  /\ \A i \in DOMAIN trace :
       \/ trace[i] = T!Torn /\ i = Len(trace)
       \/ i \in DOMAIN accepted /\ trace[i] = accepted[i]
  /\ warnings = {} => Len(accepted) = recorded /\ \A i \in 1 .. recorded : accepted[i] = i
  /\ (at = "returned" /\ scope = "session" /\ warnings = {}) => trace = accepted

(* The queue counts what was not acknowledged. *)
Queue == Count(toWorker, Records) + Count(toSession, {"written"}) <= waiting /\ waiting <= QueueLimit

TraceInv == TraceTypes /\ Phases /\ Answers /\ File /\ Queue

(* A sequence that grows at its end and shrinks at its head. *)
LEMMA AppendFacts ==
  ASSUME NEW S, NEW s \in Seq(S), NEW x \in S
  PROVE  /\ Append(s, x) \in Seq(S) /\ Len(s) \in Nat /\ Len(Append(s, x)) = Len(s) + 1
         /\ DOMAIN s = 1 .. Len(s) /\ DOMAIN Append(s, x) = 1 .. Len(s) + 1
         /\ \A i \in 1 .. Len(s) : Append(s, x)[i] = s[i]
         /\ Append(s, x)[Len(s) + 1] = x
<1>1. /\ Len(Append(s, x)) = Len(s) + 1 /\ Append(s, x) \in Seq(S)
      /\ \A i \in 1 .. Len(s) : Append(s, x)[i] = s[i]
      /\ Append(s, x)[Len(s) + 1] = x
  OBVIOUS
<1> QED BY <1>1, LenProperties

LEMMA TailFacts ==
  ASSUME NEW S, NEW s \in Seq(S), s # <<>>
  PROVE  /\ Tail(s) \in Seq(S) /\ Len(s) \in Nat /\ Len(s) >= 1 /\ Len(Tail(s)) = Len(s) - 1
         /\ DOMAIN s = 1 .. Len(s) /\ DOMAIN Tail(s) = 1 .. Len(s) - 1
         /\ \A i \in 1 .. Len(s) - 1 : Tail(s)[i] = s[i + 1]
         /\ Head(s) = s[1] /\ Head(s) \in S
<1>1. /\ Len(s) \in Nat /\ Len(s) >= 1 /\ DOMAIN s = 1 .. Len(s)
      /\ Head(s) = s[1] /\ Head(s) \in S
      /\ Tail(s) \in Seq(S) /\ Len(Tail(s)) = Len(s) - 1
      /\ \A i \in 1 .. Len(s) - 1 : Tail(s)[i] = s[i + 1]
  BY HeadTailProperties, LenProperties, EmptySeq
<1> QED BY <1>1, LenProperties

(* Counting along a sequence that grows at its end and shrinks at its head. *)
LEMMA CountIsNat ==
  ASSUME NEW S, NEW s \in Seq(S), NEW values
  PROVE  IsFiniteSet(Positions(s, values)) /\ Count(s, values) \in Nat
<1>1. Len(s) \in Nat /\ DOMAIN s = 1 .. Len(s)
  BY LenProperties
<1>2. IsFiniteSet(1 .. Len(s))
  BY <1>1, FS_Interval
<1>3. IsFiniteSet(Positions(s, values))
  BY <1>1, <1>2, FS_Subset DEF Positions
<1> QED BY <1>3, FS_CardinalityType DEF Count

LEMMA CountAppend ==
  ASSUME NEW S, NEW s \in Seq(S), NEW x \in S, NEW values
  PROVE  Count(Append(s, x), values) = Count(s, values) + (IF x \in values THEN 1 ELSE 0)
<1>1. /\ Len(Append(s, x)) = Len(s) + 1
      /\ \A i \in 1 .. Len(s) : Append(s, x)[i] = s[i]
      /\ Append(s, x)[Len(s) + 1] = x
  BY AppendFacts
<1>2. Len(s) \in Nat /\ DOMAIN s = 1 .. Len(s) /\ DOMAIN Append(s, x) = 1 .. Len(s) + 1
  BY AppendFacts
<1>3. IsFiniteSet(Positions(s, values)) /\ Count(s, values) \in Nat
  BY CountIsNat
<1>4. CASE x \in values
  <2>1. Positions(Append(s, x), values) = Positions(s, values) \cup {Len(s) + 1}
    BY <1>1, <1>2, <1>4 DEF Positions
  <2>2. Len(s) + 1 \notin Positions(s, values)
    BY <1>2 DEF Positions
  <2> QED BY <2>1, <2>2, <1>3, <1>4, FS_AddElement DEF Count
<1>5. CASE x \notin values
  <2>1. Positions(Append(s, x), values) = Positions(s, values)
    BY <1>1, <1>2, <1>5 DEF Positions
  <2> QED BY <2>1, <1>3, <1>5 DEF Count
<1> QED BY <1>4, <1>5

LEMMA CountTail ==
  ASSUME NEW S, NEW s \in Seq(S), s # <<>>, NEW values
  PROVE  Count(Tail(s), values) = Count(s, values) - (IF Head(s) \in values THEN 1 ELSE 0)
<1> DEFINE P == Positions(s, values) \ {1}
           Q == Positions(Tail(s), values)
           shift == [i \in P |-> i - 1]
<1>1. /\ Len(s) \in Nat /\ Len(s) >= 1 /\ DOMAIN s = 1 .. Len(s)
      /\ Head(s) = s[1] /\ Len(Tail(s)) = Len(s) - 1
      /\ \A i \in 1 .. Len(s) - 1 : Tail(s)[i] = s[i + 1]
  BY TailFacts
<1>2. DOMAIN Tail(s) = 1 .. Len(s) - 1
  BY TailFacts
<1>3. IsFiniteSet(Positions(s, values)) /\ Count(s, values) \in Nat
  BY CountIsNat
<1>4. IsFiniteSet(P) /\ Cardinality(P) = Count(s, values) - (IF Head(s) \in values THEN 1 ELSE 0)
  <2>1. 1 \in Positions(s, values) <=> Head(s) \in values
    BY <1>1 DEF Positions
  <2> QED BY <2>1, <1>3, FS_RemoveElement DEF Count
<1>5. shift \in Bijection(P, Q)
  <2>1. \A i \in P : i \in 2 .. Len(s) /\ s[i] \in values
    BY <1>1 DEF Positions
  <2>2. \A i \in Q : i \in 1 .. Len(s) - 1 /\ s[i + 1] \in values
    BY <1>1, <1>2 DEF Positions
  <2>3. \A i \in P : i - 1 \in Q
    <3> TAKE i \in P
    <3>1. i \in 2 .. Len(s) /\ s[i] \in values
      BY <2>1
    <3>2. i - 1 \in 1 .. Len(s) - 1 /\ Tail(s)[i - 1] = s[i]
      BY <3>1, <1>1
    <3> QED BY <3>1, <3>2, <1>2 DEF Positions
  <2>4. \A i \in Q : i + 1 \in P /\ (i + 1) - 1 = i
    BY <2>2, <1>1 DEF Positions
  <2>5. shift \in Injection(P, Q)
    BY <2>1, <2>3 DEF Injection, IsInjective
  <2>6. shift \in Surjection(P, Q)
    BY <2>3, <2>4 DEF Surjection
  <2> QED BY <2>5, <2>6 DEF Bijection
<1>6. Cardinality(Q) = Cardinality(P)
  <2> HIDE DEF P, Q, shift
  <2> QED BY <1>4, <1>5, FS_Bijection DEF ExistsBijection
<1> QED BY <1>4, <1>6 DEF Count

LEMMA CountEmpty == \A values : Count(<<>>, values) = 0
BY FS_EmptySet DEF Count, Positions

LEMMA TraceInit == T!TraceInit => TraceInv
<1> SUFFICES ASSUME T!TraceInit PROVE TraceInv
  OBVIOUS
<1> USE DEF T!TraceInit
<1>1. TraceTypes
  BY EmptySeq DEF TraceTypes, Records, Messages
<1>2. Phases /\ Answers /\ File
  BY EmptySeq DEF Phases, Answers, File, Alive
<1>3. Queue
  BY CountEmpty, ExecutionsAssumption DEF Queue
<1> QED BY <1>1, <1>2, <1>3 DEF TraceInv

(* The step before the operation. *)
LEMMA TraceOpens ==
  ASSUME TraceInv, T!NotRequested \/ T!UnsafeDestination \/ T!StartWorker \/ T!StartFails
  PROVE  TraceInv'
<1> USE DEF T!NotRequested, T!UnsafeDestination, T!StartWorker, T!StartFails, TraceInv
<1>1. TraceTypes'
  BY DEF TraceTypes
<1>2. Phases'
  BY DEF TraceTypes, Phases, Alive
<1>3. Answers'
  <2>1. toSession' = <<>>
    BY DEF Phases
  <2> QED BY <2>1 DEF Answers
<1>4. File'
  BY DEF TraceTypes, Phases, File, Alive
<1>5. Queue'
  BY DEF Queue, Count, Positions
<1> QED BY <1>1, <1>2, <1>3, <1>4, <1>5

(* A record is taken, or dropped with a warning. *)
LEMMA TraceRecords ==
  ASSUME TraceInv, T!TraceOperation
  PROVE  TraceInv'
<1> USE DEF TraceInv
<1>0. /\ at = "operating" /\ scope = "session" /\ recorded' = recorded + 1 /\ recorded' \in Records
      /\ UNCHANGED <<at, scope, broken, awaiting, toSession, thread, trace>>
  BY DEF T!TraceOperation, TraceTypes, Records, T!Close
<1>1. CASE /\ waiting < QueueLimit /\ waiting' = waiting + 1
           /\ accepted' = Append(accepted, recorded') /\ UNCHANGED warnings
           /\ toWorker' = IF ~broken THEN Append(toWorker, recorded') ELSE toWorker
  <2> DEFINE r == recorded'
  <2>1. /\ accepted' \in Seq(Records) /\ Len(accepted) \in Nat /\ Len(accepted') = Len(accepted) + 1
        /\ DOMAIN accepted = 1 .. Len(accepted) /\ DOMAIN accepted' = 1 .. Len(accepted) + 1
        /\ \A i \in 1 .. Len(accepted) : accepted'[i] = accepted[i]
        /\ accepted'[Len(accepted) + 1] = r
    BY <1>0, <1>1, AppendFacts DEF TraceTypes
  <2>2. r \in Nat /\ toWorker \in Seq(Nat) /\ Len(toWorker) \in Nat /\ DOMAIN toWorker = 1 .. Len(toWorker)
    BY <1>0, LenProperties DEF TraceTypes, Records
  <2>3. ~broken =>
        /\ toWorker' \in Seq(Nat) /\ Len(toWorker') = Len(toWorker) + 1
        /\ DOMAIN toWorker' = 1 .. Len(toWorker) + 1
        /\ \A i \in 1 .. Len(toWorker) : toWorker'[i] = toWorker[i]
        /\ toWorker'[Len(toWorker) + 1] = r
    BY <2>2, <1>1, AppendFacts
  <2>4. TraceTypes'
    BY <1>0, <1>1, <2>1, <2>2, <2>3 DEF TraceTypes
  <2>5. Phases'
    BY <1>0, <1>1 DEF Phases, Alive
  <2>6. Answers'
    BY <1>0 DEF Answers, Alive
  <2>7. File'
    <3>1. Len(trace) \in Nat /\ DOMAIN trace = 1 .. Len(trace)
      BY LenProperties DEF TraceTypes
    <3>2. Alive => ~broken
      BY DEF Phases
    <3>3. Alive' => /\ Len(accepted') = Len(trace) + Len(toWorker')
                    /\ \A i \in DOMAIN trace : trace[i] # T!Torn
                    /\ \A i \in DOMAIN toWorker' : toWorker'[i] = accepted'[Len(trace) + i]
      <4> SUFFICES ASSUME Alive
                   PROVE  /\ Len(accepted') = Len(trace) + Len(toWorker')
                          /\ \A i \in DOMAIN trace : trace[i] # T!Torn
                          /\ \A i \in DOMAIN toWorker' : toWorker'[i] = accepted'[Len(trace) + i]
        BY <1>0 DEF Alive
      <4>1. /\ Len(accepted) = Len(trace) + Len(toWorker)
            /\ \A i \in DOMAIN trace : trace[i] # T!Torn
            /\ \A i \in DOMAIN toWorker : toWorker[i] = accepted[Len(trace) + i]
        BY <1>0, <2>1, <2>2, <3>1 DEF File
      <4>2. \A i \in 1 .. Len(toWorker) : Len(trace) + i \in 1 .. Len(accepted)
        BY <4>1, <3>1, <2>2
      <4>3. Len(trace) + (Len(toWorker) + 1) = Len(accepted) + 1
        BY <4>1, <3>1, <2>2, <2>1
      <4>4. ~broken
        BY <3>2
      <4>5. ASSUME NEW i \in DOMAIN toWorker'
            PROVE  toWorker'[i] = accepted'[Len(trace) + i]
        <5>1. i \in 1 .. Len(toWorker) + 1
          BY <4>4, <4>5, <2>3
        <5>2. CASE i \in 1 .. Len(toWorker)
          BY <5>2, <4>1, <4>2, <4>4, <2>1, <2>2, <2>3
        <5>3. CASE i = Len(toWorker) + 1
          BY <5>3, <4>3, <4>4, <2>1, <2>3
        <5> QED BY <5>1, <5>2, <5>3, <2>2
      <4>6. Len(accepted') = Len(trace) + Len(toWorker')
        <5>1. Len(toWorker') = Len(toWorker) + 1
          BY <4>4, <2>3
        <5> QED BY <5>1, <4>3, <2>1, <2>2, <3>1
      <4> QED BY <4>1, <4>5, <4>6
    <3>4. \A i \in DOMAIN trace :
            \/ trace[i] = T!Torn /\ i = Len(trace)
            \/ i \in DOMAIN accepted' /\ trace[i] = accepted'[i]
      BY <2>1 DEF File
    <3>5. warnings = {} => Len(accepted') = recorded' /\ \A i \in 1 .. recorded' : accepted'[i] = i
      <4> SUFFICES ASSUME warnings = {}
                   PROVE  Len(accepted') = recorded' /\ \A i \in 1 .. recorded' : accepted'[i] = i
        OBVIOUS
      <4>1. Len(accepted) = recorded /\ \A i \in 1 .. recorded : accepted[i] = i
        BY DEF File
      <4> QED BY <4>1, <2>1, <1>0
    <3>6. ~(at' = "finishing") /\ ~(at' = "returned") /\ trace' = trace /\ warnings' = warnings
      BY <1>0, <1>1
    <3> QED BY <3>3, <3>4, <3>5, <3>6 DEF File
  <2>8. Queue'
    <3>1. Count(toWorker, Records) \in Nat /\ Count(toSession, {"written"}) \in Nat
      BY CountIsNat DEF TraceTypes
    <3>2. Count(toWorker', Records) <= Count(toWorker, Records) + 1
      <4>1. CASE broken
        BY <4>1, <1>1, <3>1
      <4>2. CASE ~broken
        <5>1. toWorker' = Append(toWorker, r)
          BY <4>2, <1>1
        <5> HIDE DEF r
        <5> QED BY <5>1, <2>2, <3>1, CountAppend
      <4> QED BY <4>1, <4>2
    <3>3. Count(toWorker', Records) \in Nat /\ Count(toSession, {"written"})' = Count(toSession, {"written"})
      BY <2>4, CountIsNat, <1>0 DEF TraceTypes
    <3> QED BY <3>1, <3>2, <3>3, <1>1, ExecutionsAssumption DEF Queue, TraceTypes
  <2> QED BY <2>4, <2>5, <2>6, <2>7, <2>8
<1>2. CASE UNCHANGED <<waiting, accepted, toWorker>> /\ warnings' = warnings \cup {"DROPPED"}
  <2>1. TraceTypes' /\ Phases' /\ Answers'
    BY <1>0, <1>2 DEF TraceTypes, Phases, Answers, Alive
  <2>2. File' /\ Queue'
    BY <1>0, <1>2 DEF File, Alive, Queue, Count, Positions
  <2> QED BY <2>1, <2>2
<1> QED BY <1>1, <1>2 DEF T!TraceOperation, T!Enqueue

LEMMA TraceReserved ==
  ASSUME TraceInv, T!TraceInReserved
  PROVE  TraceInv'
<1> USE DEF TraceInv, T!TraceInReserved
<1>1. TraceTypes' /\ Phases' /\ Answers'
  BY DEF TraceTypes, Phases, Answers, Alive
<1>2. File' /\ Queue'
  BY DEF File, Alive, Queue, Count, Positions
<1> QED BY <1>1, <1>2

(* The operation ends: the worker is asked to close, or given up. *)
LEMMA TraceEnds ==
  ASSUME TraceInv, T!EndOperation
  PROVE  TraceInv'
<1> USE DEF TraceInv
<1>0. /\ at = "operating"
      /\ UNCHANGED <<scope, recorded, accepted, waiting, broken, toSession, trace, warnings>>
  BY DEF T!EndOperation
<1>1. CASE scope = "session" /\ ~broken
  <2>1. at' = "finishing" /\ awaiting' = "closed" /\ toWorker' = Append(toWorker, 0) /\ thread' = thread
    BY <1>1 DEF T!EndOperation, T!Close
  <2>2. /\ toWorker' \in Seq(Nat) /\ Len(toWorker) \in Nat /\ Len(toWorker') = Len(toWorker) + 1
        /\ DOMAIN toWorker = 1 .. Len(toWorker) /\ DOMAIN toWorker' = 1 .. Len(toWorker) + 1
        /\ \A i \in 1 .. Len(toWorker) : toWorker'[i] = toWorker[i]
        /\ toWorker'[Len(toWorker) + 1] = 0
    BY <2>1, AppendFacts DEF TraceTypes
  <2>3. TraceTypes' /\ Phases' /\ Answers'
    BY <1>0, <1>1, <2>1, <2>2 DEF TraceTypes, Phases, Answers, Alive
  <2>4. File'
    <3>1. Len(trace) \in Nat /\ Len(accepted) \in Nat
      BY LenProperties DEF TraceTypes
    <3>2. ASSUME Alive
          PROVE  /\ Len(accepted) + 1 = Len(trace) + Len(toWorker')
                 /\ Len(toWorker') >= 1
                 /\ \A i \in DOMAIN trace : trace[i] # T!Torn
                 /\ \A i \in DOMAIN toWorker' :
                      toWorker'[i] = IF i = Len(toWorker') THEN T!Close ELSE accepted[Len(trace) + i]
      <4>1. /\ Len(accepted) = Len(trace) + Len(toWorker)
            /\ \A i \in DOMAIN trace : trace[i] # T!Torn
            /\ \A i \in DOMAIN toWorker : toWorker[i] = accepted[Len(trace) + i]
        BY <1>0, <2>2, <3>1, <3>2 DEF File
      <4> QED BY <4>1, <2>2, <3>1 DEF T!Close
    <3>3. Alive' => Alive
      BY <2>1 DEF Alive
    <3> QED BY <3>2, <3>3, <1>0, <2>1 DEF File
  <2>5. Queue'
    <3>1. Count(toWorker', Records) = Count(toWorker, Records)
      <4>1. 0 \notin Records /\ toWorker \in Seq(Nat) /\ Count(toWorker, Records) \in Nat
        BY CountIsNat DEF TraceTypes, Records, T!Close
      <4> QED BY <4>1, <2>1, CountAppend
    <3> QED BY <3>1, <1>0 DEF Queue
  <2> QED BY <2>3, <2>4, <2>5
<1>2. CASE ~(scope = "session" /\ ~broken)
  <2>1. /\ at' = "returned" /\ awaiting' = awaiting /\ toWorker' = toWorker
        /\ thread' = IF scope = "session" THEN "stopped" ELSE thread
    BY <1>2 DEF T!EndOperation
  <2>2. ~Alive'
    BY <1>0, <2>1 DEF Alive, Phases
  <2>3. TraceTypes' /\ Phases' /\ Answers'
    BY <1>0, <1>2, <2>1, <2>2 DEF TraceTypes, Phases, Answers
  <2>4. File'
    BY <1>0, <1>2, <2>1, <2>2 DEF File, Phases
  <2>5. Queue'
    BY <1>0, <2>1 DEF Queue, Count, Positions
  <2> QED BY <2>3, <2>4, <2>5
<1> QED BY <1>1, <1>2

(* What follows when a wait is over. *)
LEMMA TraceContinues ==
  ASSUME TraceInv, NEW answered \in BOOLEAN, NEW b \in BOOLEAN,
         awaiting # "nothing", T!Continue(answered, b),
         b => broken \/ ~answered,
         answered /\ at = "finishing" => trace = accepted,
         UNCHANGED <<recorded, accepted, toWorker, trace>>,
         waiting' \in Nat, toSession' \in Seq(Messages),
         \A i \in DOMAIN toSession' : \E j \in DOMAIN toSession : toSession'[i] = toSession[j]
  PROVE  TraceTypes' /\ Phases' /\ Answers' /\ File'
<1> USE DEF TraceInv
<1>1. at = "opening" \/ at = "finishing"
  BY DEF Phases
<1>2. CASE at = "opening"
  <2>1. /\ at' = "operating" /\ awaiting' = "nothing" /\ broken' = b
        /\ scope' = IF answered THEN "session" ELSE "off"
        /\ thread' = IF answered THEN thread ELSE "stopped"
        /\ warnings' = IF answered THEN warnings ELSE warnings \cup {"WRITE_FAILED"}
    BY <1>2 DEF T!Continue
  <2>2. /\ scope = "none" /\ ~broken /\ toWorker = <<>> /\ accepted = <<>> /\ trace = <<>> /\ recorded = 0
    BY <1>2 DEF Phases
  <2>3. TraceTypes'
    BY <2>1, <2>2 DEF TraceTypes
  <2>4. Phases'
    BY <2>1, <2>2 DEF Phases, Alive
  <2>5. Answers'
    BY <1>2, <2>1 DEF Answers, Alive
  <2>6. File'
    BY <1>2, <2>1, <2>2 DEF File, Alive
  <2> QED BY <2>3, <2>4, <2>5, <2>6
<1>3. CASE at = "finishing"
  <2>1. /\ at' = "returned" /\ awaiting' = "nothing" /\ broken' = (b \/ ~answered)
        /\ scope' = scope /\ thread' = "stopped"
        /\ warnings' = IF answered THEN warnings ELSE warnings \cup {"WRITE_FAILED"}
    BY <1>3 DEF T!Continue
  <2>2. TraceTypes'
    BY <2>1 DEF TraceTypes
  <2>3. Phases'
    BY <1>3, <2>1 DEF Phases, Alive
  <2>4. Answers'
    BY <1>3, <2>1 DEF Answers, Alive
  <2>5. File'
    BY <1>3, <2>1 DEF File, Alive
  <2> QED BY <2>2, <2>3, <2>4, <2>5
<1> QED BY <1>1, <1>2, <1>3

LEMMA TraceWaitElapses ==
  ASSUME TraceInv, T!WaitElapses
  PROVE  TraceInv'
<1> USE DEF TraceInv, T!WaitElapses
<1>1. TraceTypes' /\ Phases' /\ Answers' /\ File'
  <2>1. waiting' \in Nat /\ toSession' \in Seq(Messages) /\ broken \in BOOLEAN
    BY DEF TraceTypes
  <2> QED BY <2>1, TraceContinues
<1>2. Queue'
  BY DEF Queue, Count, Positions
<1> QED BY <1>1, <1>2

(* A message of the worker is handled. *)
LEMMA TraceReceives ==
  ASSUME TraceInv, T!Receive
  PROVE  TraceInv'
<1> USE DEF TraceInv
<1> DEFINE message == Head(toSession)
           b == broken \/ message = "failed"
<1>1. /\ toSession # <<>> /\ toSession' = Tail(toSession)
      /\ waiting' = IF message = "written" /\ waiting > 0 THEN waiting - 1 ELSE waiting
      /\ UNCHANGED <<recorded, accepted, toWorker, trace>>
  BY DEF T!Receive
<1>2. /\ toSession \in Seq(Messages) /\ Len(toSession) >= 1 /\ 1 \in DOMAIN toSession
      /\ message = toSession[1] /\ message \in Messages
      /\ toSession' \in Seq(Messages)
      /\ \A i \in DOMAIN toSession' : \E j \in DOMAIN toSession : toSession'[i] = toSession[j]
  <2>1. toSession \in Seq(Messages)
    BY DEF TraceTypes
  <2> QED BY <2>1, <1>1, TailFacts
<1>3. waiting' \in Nat /\ b \in BOOLEAN
  BY <1>1 DEF TraceTypes
<1>4. message \in {"failed", "closed"} => ~Alive
  BY <1>2 DEF Answers
<1>5. TraceTypes' /\ Phases' /\ Answers' /\ File'
  <2>1. CASE awaiting # "nothing" /\ message \in {awaiting, "failed"}
    <3>1. T!Continue(message = awaiting, b)
      BY <2>1 DEF T!Receive
    <3>2. b => broken \/ ~(message = awaiting)
      BY DEF Phases
    <3>3. (message = awaiting) /\ at = "finishing" => trace = accepted
      BY <1>2 DEF Phases, Answers
    <3>4. (message = awaiting) \in BOOLEAN
      OBVIOUS
    <3> HIDE DEF message, b
    <3> QED BY <3>1, <3>2, <3>3, <3>4, <2>1, <1>1, <1>2, <1>3, TraceContinues
  <2>2. CASE ~(awaiting # "nothing" /\ message \in {awaiting, "failed"})
    <3>1. /\ broken' = b /\ UNCHANGED <<at, scope, awaiting, thread>>
          /\ warnings' = IF b /\ ~broken THEN warnings \cup {"WRITE_FAILED"} ELSE warnings
      BY <2>2 DEF T!Receive
    <3>2. TraceTypes'
      BY <3>1, <1>1, <1>2, <1>3 DEF TraceTypes
    <3>3. at # "called"
      BY <1>1 DEF Phases
    <3>4. at = "opening" => ~b
      BY <2>2 DEF Phases
    <3>5. b => ~Alive /\ warnings' # {}
      BY <3>1, <1>4 DEF Phases
    <3>6. Phases'
      BY <3>1, <3>3, <3>4, <3>5, <1>1 DEF Phases, Alive
    <3>7. Answers' /\ File'
      BY <3>1, <1>1, <1>2 DEF Answers, File, Alive
    <3> QED BY <3>2, <3>6, <3>7
  <2> QED BY <2>1, <2>2
<1>6. Queue'
  <2>1. /\ Count(toSession, {"written"}) \in Nat /\ Count(toSession', {"written"}) \in Nat
        /\ Count(toWorker, Records) \in Nat /\ waiting \in Nat
    BY <1>2, CountIsNat DEF TraceTypes
  <2>2. Count(toSession', {"written"}) =
          Count(toSession, {"written"}) - (IF message \in {"written"} THEN 1 ELSE 0)
    BY <1>1, <1>2, CountTail
  <2> QED BY <2>1, <2>2, <1>1, ExecutionsAssumption DEF Queue
<1> QED BY <1>5, <1>6

(* The worker ends, or opens its file, and says so. *)
LEMMA TraceAnswers ==
  ASSUME TraceInv, Alive, NEW message \in Messages, T!Answer(message),
         UNCHANGED <<at, scope, recorded, accepted, waiting, broken, awaiting, toWorker, trace, warnings>>,
         \/ thread' = "ended" /\ message = "failed"
         \/ thread = "starting" /\ thread' = "listening" /\ message = "ready"
  PROVE  TraceInv'
<1> USE DEF TraceInv
<1>1. /\ toSession' = Append(toSession, message) /\ toSession \in Seq(Messages)
      /\ toSession' \in Seq(Messages) /\ Len(toSession) \in Nat
      /\ DOMAIN toSession = 1 .. Len(toSession) /\ DOMAIN toSession' = 1 .. Len(toSession) + 1
      /\ \A i \in 1 .. Len(toSession) : toSession'[i] = toSession[i]
      /\ toSession'[Len(toSession) + 1] = message
  BY AppendFacts DEF TraceTypes, T!Answer
<1>2. TraceTypes' /\ Phases'
  BY <1>1 DEF TraceTypes, Phases, Alive
<1>3. Answers'
  <2>1. ASSUME NEW i \in DOMAIN toSession'
        PROVE  /\ toSession'[i] \in {"failed", "closed"} => ~Alive'
               /\ toSession'[i] = "closed" => at' \in {"finishing", "returned"} /\ trace' = accepted'
    <3>1. CASE i \in 1 .. Len(toSession)
      BY <3>1, <1>1 DEF Answers
    <3>2. CASE i = Len(toSession) + 1
      BY <3>2, <1>1 DEF Alive
    <3> QED BY <2>1, <3>1, <3>2, <1>1
  <2> QED BY <2>1 DEF Answers
<1>4. File'
  BY DEF File, Alive
<1>5. Queue'
  <2>1. Count(toSession', {"written"}) = Count(toSession, {"written"})
    <3>1. Count(toSession, {"written"}) \in Nat
      BY <1>1, CountIsNat
    <3> QED BY <3>1, <1>1, CountAppend
  <2> QED BY <2>1 DEF Queue
<1> QED BY <1>2, <1>3, <1>4, <1>5

(* The worker takes the first record. *)
LEMMA TraceWrites ==
  ASSUME TraceInv, T!Write \/ T!WriteFails \/ T!CloseFile
  PROVE  TraceInv'
<1> USE DEF TraceInv
<1>0. /\ thread = "listening" /\ toWorker # <<>> /\ toWorker' = Tail(toWorker)
      /\ UNCHANGED <<at, scope, recorded, accepted, waiting, broken, awaiting, warnings>>
  BY DEF T!Write, T!WriteFails, T!CloseFile, T!engineVars
<1>1. /\ toWorker \in Seq(Nat) /\ toWorker' \in Seq(Nat)
      /\ Len(toWorker) \in Nat /\ Len(toWorker) >= 1 /\ Len(toWorker') = Len(toWorker) - 1
      /\ DOMAIN toWorker = 1 .. Len(toWorker) /\ DOMAIN toWorker' = 1 .. Len(toWorker) - 1
      /\ \A i \in 1 .. Len(toWorker) - 1 : toWorker'[i] = toWorker[i + 1]
      /\ Head(toWorker) = toWorker[1] /\ toWorker[1] \in Nat
  BY <1>0, TailFacts DEF TraceTypes
<1>2. /\ trace \in Seq(Nat) /\ Len(trace) \in Nat /\ DOMAIN trace = 1 .. Len(trace)
      /\ accepted \in Seq(Records) /\ Len(accepted) \in Nat /\ DOMAIN accepted = 1 .. Len(accepted)
      /\ toSession \in Seq(Messages) /\ \A i \in 1 .. Len(accepted) : accepted[i] # 0
  BY LenProperties DEF TraceTypes, Records, T!Close
<1>3. PICK message \in {"written", "failed", "closed"} :
        /\ toSession' = Append(toSession, message)
        /\ message = "written" => T!Write
        /\ message = "failed" => T!WriteFails \/ T!CloseFile
        /\ message = "closed" => T!CloseFile
  BY DEF T!Write, T!WriteFails, T!CloseFile, T!Answer
<1>4. /\ toSession' \in Seq(Messages) /\ Len(toSession) \in Nat
      /\ DOMAIN toSession = 1 .. Len(toSession) /\ DOMAIN toSession' = 1 .. Len(toSession) + 1
      /\ \A i \in 1 .. Len(toSession) : toSession'[i] = toSession[i]
      /\ toSession'[Len(toSession) + 1] = message
  <2>1. message \in Messages
    BY DEF Messages
  <2> QED BY <2>1, <1>2, <1>3, AppendFacts
<1>5. /\ Len(accepted) + (IF at = "finishing" THEN 1 ELSE 0) = Len(trace) + Len(toWorker)
      /\ \A i \in 1 .. Len(trace) : i \in 1 .. Len(accepted) /\ trace[i] = accepted[i] /\ trace[i] # 0
      /\ \A i \in 1 .. Len(toWorker) :
           toWorker[i] = IF at = "finishing" /\ i = Len(toWorker) THEN 0 ELSE accepted[Len(trace) + i]
  <2>1. Alive
    BY <1>0 DEF Alive
  <2> QED BY <2>1, <1>1, <1>2 DEF File, T!Close, T!Torn
<1>1a. Len(toWorker) \in Nat /\ Len(toWorker) >= 1 /\ Len(trace) \in Nat /\ Len(accepted) \in Nat
  BY <1>1, <1>2
<1>5a. /\ at = "finishing" => Len(accepted) + 1 = Len(trace) + Len(toWorker)
       /\ at # "finishing" => Len(accepted) = Len(trace) + Len(toWorker)
  <2>1. CASE at = "finishing"
    BY <2>1, <1>5
  <2>2. CASE at # "finishing"
    BY <2>2, <1>5, <1>1a
  <2> QED BY <2>1, <2>2
<1>6. at \in {"operating", "finishing"} /\ scope = "session" /\ ~broken
  BY <1>0 DEF Alive, Phases
<1>7. Phases'
  BY <1>0, <1>6 DEF Phases, Alive, T!Write, T!WriteFails, T!CloseFile
<1>8. \A i \in 1 .. Len(toSession) : toSession[i] \notin {"failed", "closed"}
  BY <1>0, <1>4 DEF Answers, Alive
<1>9. CASE T!Write
  <2>1. /\ thread' = thread /\ toWorker[1] # 0 /\ trace' = Append(trace, toWorker[1])
        /\ toSession' = Append(toSession, "written")
    BY <1>9, <1>1 DEF T!Write, T!Close, T!Answer
  <2>2. /\ trace' \in Seq(Nat) /\ Len(trace') = Len(trace) + 1 /\ DOMAIN trace' = 1 .. Len(trace) + 1
        /\ \A i \in 1 .. Len(trace) : trace'[i] = trace[i]
        /\ trace'[Len(trace) + 1] = toWorker[1]
    BY <2>1, <1>1, <1>2, AppendFacts
  <2>3. TraceTypes'
    BY <1>0, <1>1, <1>2, <1>4, <2>1, <2>2 DEF TraceTypes
  <2>4. ~(at = "finishing" /\ Len(toWorker) = 1) /\ toWorker[1] = accepted[Len(trace) + 1]
    BY <2>1, <1>1, <1>5
  <2>5. Len(trace) + 1 \in 1 .. Len(accepted)
    <3>1. CASE at = "finishing"
      <4>2. Len(toWorker) >= 2
        <5>1. \A n \in Nat : n >= 1 => n = 1 \/ n >= 2
          OBVIOUS
        <5>2. Len(toWorker) = 1 \/ Len(toWorker) >= 2
          BY <5>1, <1>1a
        <5> QED BY <5>2, <3>1, <2>4
      <4>3. Len(trace) + 1 <= Len(accepted)
        BY <3>1, <4>2, <1>5a, <1>1a
      <4> QED BY <4>3, <1>1a
    <3>2. CASE at # "finishing"
      BY <3>2, <1>5a, <1>1a
    <3> QED BY <3>1, <3>2
  <2>6. \A i \in 1 .. Len(trace') : i \in 1 .. Len(accepted) /\ trace'[i] = accepted[i] /\ trace'[i] # 0
    BY <2>1, <2>2, <2>4, <2>5, <1>2, <1>5
  <2>7. \A i \in 1 .. Len(toWorker') :
          toWorker'[i] = IF at = "finishing" /\ i = Len(toWorker') THEN 0 ELSE accepted[Len(trace') + i]
    <3> TAKE i \in 1 .. Len(toWorker')
    <3>1. /\ i + 1 \in 1 .. Len(toWorker) /\ toWorker'[i] = toWorker[i + 1]
          /\ i = Len(toWorker') <=> i + 1 = Len(toWorker)
          /\ Len(trace') + i = Len(trace) + (i + 1)
      BY <1>1, <1>2, <2>2
    <3> QED BY <3>1, <1>5
  <2>8. File'
    <3>1. Len(accepted) + (IF at = "finishing" THEN 1 ELSE 0) = Len(trace') + Len(toWorker')
      BY <1>1, <1>2, <1>5, <2>2
    <3>2. at = "finishing" => Len(toWorker') >= 1
      BY <2>4, <1>1
    <3> QED BY <3>1, <3>2, <2>2, <2>6, <2>7, <1>0, <1>1, <1>2, <1>6 DEF File, T!Torn, T!Close
  <2>9. Answers'
    <3>1. \A i \in 1 .. Len(toSession) + 1 : toSession'[i] \notin {"failed", "closed"}
      BY <1>4, <1>8, <2>1, <1>2, AppendFacts DEF Messages
    <3> QED BY <3>1, <1>4 DEF Answers
  <2>10. Queue'
    <3>1. /\ Count(toWorker, Records) \in Nat /\ Count(toSession, {"written"}) \in Nat
      BY <1>1, <1>2, CountIsNat
    <3>2. Count(toWorker', Records) = Count(toWorker, Records) - 1
      <4>1. Head(toWorker) \in Records
        BY <2>1, <1>1 DEF Records, T!Close
      <4> QED BY <4>1, <3>1, <1>0, <1>1, CountTail
    <3>3. Count(toSession', {"written"}) = Count(toSession, {"written"}) + 1
      <4>1. "written" \in Messages
        BY DEF Messages
      <4> QED BY <4>1, <3>1, <2>1, <1>2, CountAppend
    <3> QED BY <3>1, <3>2, <3>3, <1>0, ExecutionsAssumption DEF Queue
  <2> QED BY <2>3, <1>7, <2>8, <2>9, <2>10
<1>10. ASSUME T!WriteFails \/ T!CloseFile
       PROVE  TraceInv'
  <2>1. /\ thread' = "ended" /\ trace' \in {trace, Append(trace, 0)} /\ message \in {"failed", "closed"}
        /\ message = "closed" => toWorker[1] = 0 /\ trace' = trace
    BY <1>0, <1>1, <1>3, <1>10 DEF T!WriteFails, T!CloseFile, T!Write, T!Torn, T!Close
  <2>2. trace' \in Seq(Nat) /\ Len(trace') \in Nat /\ DOMAIN trace' = 1 .. Len(trace')
    <3>1. CASE trace' = trace
      BY <3>1, <1>2
    <3>2. CASE trace' = Append(trace, 0)
      BY <3>2, <1>2, AppendFacts
    <3> QED BY <2>1, <3>1, <3>2
  <2>3. TraceTypes'
    BY <1>0, <1>1, <1>2, <1>4, <2>1, <2>2 DEF TraceTypes
  <2>4. \A i \in DOMAIN trace' :
          \/ trace'[i] = T!Torn /\ i = Len(trace')
          \/ i \in DOMAIN accepted /\ trace'[i] = accepted[i]
    <3>1. CASE trace' = trace
      BY <3>1, <1>2, <1>5
    <3>2. CASE trace' = Append(trace, 0)
      <4>1. /\ Len(trace') = Len(trace) + 1
            /\ \A i \in 1 .. Len(trace) : trace'[i] = trace[i]
            /\ trace'[Len(trace) + 1] = 0
        BY <3>2, <1>2, AppendFacts
      <4>2. ASSUME NEW i \in DOMAIN trace'
            PROVE  \/ trace'[i] = T!Torn /\ i = Len(trace')
                   \/ i \in DOMAIN accepted /\ trace'[i] = accepted[i]
        <5>1. i \in 1 .. Len(trace) + 1
          BY <4>1, <4>2, <2>2
        <5>2. CASE i \in 1 .. Len(trace)
          BY <5>2, <4>1, <1>2, <1>5
        <5>3. CASE i = Len(trace) + 1
          BY <5>3, <4>1 DEF T!Torn
        <5> QED BY <5>1, <5>2, <5>3, <1>2
      <4> QED BY <4>2
    <3> QED BY <2>1, <3>1, <3>2
  <2>5. File'
    BY <1>0, <1>6, <2>1, <2>4 DEF File, Alive
  <2>6. Answers'
    <3>1. message = "closed" => at = "finishing" /\ trace = accepted
      <4> SUFFICES ASSUME message = "closed"
                   PROVE  at = "finishing" /\ trace = accepted
        OBVIOUS
      <4>1. toWorker[1] = 0
        BY <2>1
      <4>2. at = "finishing" /\ Len(toWorker) = 1
        <5>1. CASE ~(at = "finishing" /\ Len(toWorker) = 1)
          <6>1. Len(trace) + 1 \in 1 .. Len(accepted)
            <7>1. CASE at = "finishing"
              <8>1. Len(toWorker) # 1
                BY <7>1, <5>1
              <8> QED BY <7>1, <8>1, <1>5a, <1>1a
            <7>2. CASE at # "finishing"
              BY <7>2, <1>5a, <1>1a
            <7> QED BY <7>1, <7>2
          <6>2. 1 \in 1 .. Len(toWorker)
            BY <1>1a
          <6>3. toWorker[1] = accepted[Len(trace) + 1]
            BY <5>1, <6>2, <1>5
          <6> QED BY <6>1, <6>3, <4>1, <1>2
        <5> QED BY <5>1
      <4>3. Len(trace) = Len(accepted) /\ \A i \in 1 .. Len(trace) : trace[i] = accepted[i]
        <5>1. Len(trace) = Len(accepted)
          BY <4>2, <1>5a, <1>1a
        <5> QED BY <5>1, <1>5
      <4>4. accepted \in Seq(Nat)
        BY <1>2, SeqMonotonic DEF Records
      <4> QED BY <4>2, <4>3, <4>4, <1>2, SeqEqual
    <3>2. ~Alive'
      BY <2>1 DEF Alive
    <3>3. ASSUME NEW i \in DOMAIN toSession', toSession'[i] = "closed"
          PROVE  at' \in {"finishing", "returned"} /\ trace' = accepted'
      <4>1. i = Len(toSession) + 1
        BY <3>3, <1>4, <1>8
      <4>2. message = "closed"
        BY <4>1, <3>3, <1>4
      <4> QED BY <4>2, <3>1, <2>1, <1>0
    <3> QED BY <3>2, <3>3 DEF Answers
  <2>7. Queue'
    <3>1. /\ Count(toWorker, Records) \in Nat /\ Count(toSession, {"written"}) \in Nat
          /\ Count(toWorker', Records) \in Nat
      BY <1>1, <1>2, CountIsNat
    <3>2. Count(toWorker', Records) <= Count(toWorker, Records)
      BY <3>1, <1>0, <1>1, CountTail
    <3>3. Count(toSession', {"written"}) = Count(toSession, {"written"})
      <4>1. message \in Messages /\ message \notin {"written"}
        BY <2>1 DEF Messages
      <4> QED BY <4>1, <3>1, <1>2, <1>3, CountAppend
    <3>4. waiting \in Nat
      BY DEF TraceTypes
    <3> QED BY <3>1, <3>2, <3>3, <3>4, <1>0, ExecutionsAssumption DEF Queue
  <2> QED BY <2>3, <1>7, <2>5, <2>6, <2>7
<1> QED BY <1>9, <1>10

LEMMA TraceStep ==
  ASSUME TraceInv, [T!TraceNext]_traceVars
  PROVE  TraceInv'
<1>1. CASE T!OpenFile \/ T!OpenFileFails \/ T!ThreadDies
  BY <1>1, TraceAnswers DEF T!OpenFile, T!OpenFileFails, T!ThreadDies, T!engineVars, Alive, Messages
<1>2. CASE UNCHANGED traceVars
  BY <1>2 DEF traceVars, TraceInv, TraceTypes, Phases, Answers, File, Queue, Alive, Count, Positions
<1> QED BY <1>1, <1>2, TraceOpens, TraceRecords, TraceReserved, TraceEnds, TraceReceives,
           TraceWaitElapses, TraceWrites DEF T!TraceNext, T!Thread

LEMMA TraceConcludes == TraceInv => T!TraceIsHonest
<1> SUFFICES ASSUME TraceInv PROVE T!TraceIsHonest
  OBVIOUS
<1> USE DEF TraceInv
<1>1. /\ accepted \in Seq(Records) /\ trace \in Seq(Nat) /\ toWorker \in Seq(Nat) /\ recorded \in Nat
      /\ Len(accepted) \in Nat /\ DOMAIN accepted = 1 .. Len(accepted) /\ accepted \in [1 .. Len(accepted) -> Records]
  BY LenProperties DEF TraceTypes
<1>2. (at = "returned" /\ scope = "session" /\ warnings = {}) => trace = [i \in 1 .. recorded |-> i]
  BY <1>1 DEF File
<1>3. \A i \in DOMAIN trace : trace[i] # T!Torn => i \in DOMAIN accepted /\ trace[i] = accepted[i]
  BY DEF File
<1>4. \A i \in DOMAIN trace : trace[i] = T!Torn => i = Len(trace)
  <2>1. \A i \in DOMAIN accepted : accepted[i] # T!Torn
    BY <1>1 DEF Records, T!Torn, T!Close
  <2> QED BY <2>1 DEF File
<1>5. T!Cardinality({i \in DOMAIN toWorker : toWorker[i] # T!Close}) <= QueueLimit
  <2>1. {i \in DOMAIN toWorker : toWorker[i] # T!Close} = Positions(toWorker, Records)
    BY <1>1, LenProperties, ElementOfSeq DEF Positions, Records
  <2>2. Count(toWorker, Records) \in Nat /\ Count(toSession, {"written"}) \in Nat
    BY CountIsNat DEF TraceTypes
  <2>3. waiting \in Nat /\ QueueLimit \in Nat
    BY ExecutionsAssumption DEF TraceTypes
  <2>4. Count(toWorker, Records) <= QueueLimit
    BY <2>2, <2>3 DEF Queue
  <2>5. \A S : T!Cardinality(S) = Cardinality(S)
    BY DEF T!Cardinality, Cardinality
  <2> QED BY <2>1, <2>4, <2>5 DEF Count
<1> QED
  <2> HIDE DEF TraceInv
  <2> QED BY <1>2, <1>3, <1>4, <1>5 DEF T!TraceIsHonest

-----------------------------------------------------------------------------
(* The requests of a container execution.                                  *)

States == {"absent", "created", "running", "exited", "removed"}
Containers == [state : States, code : Nat, whole : BOOLEAN]
Calls == [op : Requests, via : {"cli", "stdio"}, sent : BOOLEAN, applied : BOOLEAN,
          seen : [state : States, code : Nat, report : {"complete", "partial", "none"}]]
Results == [outcome : {"PASS", "PROCESS_CRASH", "TIMEOUT", "INFRA_ERROR"}, exit : Int,
            report : {"complete", "partial", "none"}]

ContainerTypes ==
  /\ control \in {"none", "alive", "poisoned"} /\ poisonedBefore \in BOOLEAN
  /\ pc \in Requests \cup {"returned", "threw"}
  /\ call = NoCall \/ (call \in Calls /\ call.op = pc)
  /\ late \subseteq Requests /\ container \in Containers
  /\ created \in BOOLEAN /\ failed \in BOOLEAN
  /\ run \in Attached \cup {NoRun} /\ outcome \in Results \cup {NoOutcome}

Applied(op) == call # NoCall /\ call.op = op /\ call.applied

(* What a request that was carried out has done or seen. *)
Carried ==
  /\ Applied("upload") => container.whole
  /\ (Applied("inspect") /\ call.seen.state = "exited") =>
       container.state \in {"exited", "removed"} /\ container.code = call.seen.code
  /\ Applied("download") => call.seen.report # "partial"
  /\ Applied("rm") => container.state = "removed"

(* What the steps of an execution rest on when they are reached. *)
Reached ==
  /\ (pc = "start" \/ run # NoRun) => container.whole
  /\ pc \in {"inspect", "download"} => run # NoRun
  /\ pc = "download" => outcome.outcome \in {"PASS", "PROCESS_CRASH"}
  /\ pc \in {"create", "upload", "start"} => late = {}
  /\ (pc = "create" /\ ~Applied("create")) => container = NoContainer
  /\ (pc = "create" \/ (pc = "upload" /\ ~Applied("upload"))) => ~container.whole

(* A connection that was poisoned before sends nothing; what is left is a  *)
(* removal by the command line that finds no container.                    *)
Refused ==
  poisonedBefore =>
    /\ control = "poisoned" /\ container = NoContainer /\ late \subseteq {"rm"}
    /\ pc \in {"create", "rm", "returned", "threw"}
    /\ call # NoCall =>
         /\ ~call.applied
         /\ call.op = "create" => ~call.sent /\ call.via = "stdio"
    /\ pc \in {"rm", "returned"} => outcome.outcome = "INFRA_ERROR"

ContainerInv == ContainerTypes /\ Carried /\ Reached /\ Refused /\ ResultIsGenuine /\ RemovedOrReported

LEMMA ContainerInit == Init => ContainerInv
<1> SUFFICES ASSUME Init PROVE ContainerInv
  OBVIOUS
<1> USE DEF Init
<1>1. ContainerTypes
  BY DEF ContainerTypes, Requests, NoContainer, Containers, States
<1>2. Carried /\ Reached /\ Refused
  BY DEF Carried, Reached, Refused, Applied, NoContainer
<1>3. ResultIsGenuine /\ RemovedOrReported
  BY DEF ResultIsGenuine, RemovedOrReported, NoOutcome
<1> QED BY <1>1, <1>2, <1>3 DEF ContainerInv

(* What a request does to the container. *)
LEMMA EffectFacts ==
  ASSUME container \in Containers, NEW op \in Requests
  PROVE  /\ Effect(op) \in Containers
         /\ Effect(op).whole = (container.whole \/ (op = "upload" /\ container.state = "created"))
         /\ container.state \in {"exited", "removed"} =>
              Effect(op).state \in {"exited", "removed"} /\ Effect(op).code = container.code
         /\ container.state = "removed" => Effect(op).state = "removed"
         /\ (op = "rm" /\ Possible("rm")) => Effect(op).state = "removed"
         /\ (container = NoContainer /\ op # "create") => Effect(op) = NoContainer
<1>1. /\ container = [state |-> container.state, code |-> container.code, whole |-> container.whole]
      /\ container.state \in States /\ container.code \in Nat /\ container.whole \in BOOLEAN
  BY DEF Containers
<1>2. /\ op = "create" /\ container.state = "absent" => Effect(op) = [container EXCEPT !.state = "created"]
      /\ op = "upload" /\ container.state = "created" => Effect(op) = [container EXCEPT !.whole = TRUE]
      /\ op = "start" /\ container.state = "created" => Effect(op) = [container EXCEPT !.state = "running"]
      /\ op = "kill" /\ container.state = "running" =>
           Effect(op) = [container EXCEPT !.state = "exited", !.code = Killed]
      /\ op = "rm" /\ container.state \in {"created", "running", "exited"} =>
           Effect(op) = [container EXCEPT !.state = "removed"]
  BY DEF Effect
<1>3. CASE op = "create" /\ container.state = "absent"
  <2>1. Effect(op) = [state |-> "created", code |-> container.code, whole |-> container.whole]
    BY <1>1, <1>2, <1>3
  <2> QED BY <1>1, <1>3, <2>1 DEF Containers, States
<1>4. CASE op = "upload" /\ container.state = "created"
  <2>1. Effect(op) = [state |-> container.state, code |-> container.code, whole |-> TRUE]
    BY <1>1, <1>2, <1>4
  <2>2. container # NoContainer
    BY <1>4 DEF NoContainer
  <2>3. Effect(op) \in Containers /\ Effect(op).whole
    BY <1>1, <2>1 DEF Containers
  <2>4. Effect(op).whole = (container.whole \/ (op = "upload" /\ container.state = "created"))
    <3>1. Effect(op).whole = TRUE
      BY <2>1
    <3> QED BY <3>1, <1>4
  <2> QED BY <1>4, <2>2, <2>3, <2>4
<1>5. CASE op = "start" /\ container.state = "created"
  <2>1. Effect(op) = [state |-> "running", code |-> container.code, whole |-> container.whole]
    BY <1>1, <1>2, <1>5
  <2> QED BY <1>1, <1>5, <2>1 DEF Containers, States, NoContainer
<1>6. CASE op = "kill" /\ container.state = "running"
  <2>1. Effect(op) = [state |-> "exited", code |-> Killed, whole |-> container.whole]
    BY <1>1, <1>2, <1>6
  <2>2. container # NoContainer
    BY <1>6 DEF NoContainer
  <2>3. Killed \in Nat
    BY ContainerAssumption
  <2>4. Effect(op) \in Containers
    BY <1>1, <2>1, <2>3 DEF Containers, States
  <2>5. Effect(op).whole = (container.whole \/ (op = "upload" /\ container.state = "created"))
    BY <1>1, <1>6, <2>1
  <2> QED BY <1>6, <2>2, <2>4, <2>5
<1>7. CASE op = "rm" /\ container.state \in {"created", "running", "exited"}
  <2>1. Effect(op) = [state |-> "removed", code |-> container.code, whole |-> container.whole]
    BY <1>1, <1>2, <1>7
  <2> QED BY <1>1, <1>7, <2>1 DEF Containers, States, NoContainer
<1>8. CASE /\ ~(op = "create" /\ container.state = "absent")
           /\ ~(op = "upload" /\ container.state = "created")
           /\ ~(op = "start" /\ container.state = "created")
           /\ ~(op = "kill" /\ container.state = "running")
           /\ ~(op = "rm" /\ container.state \in {"created", "running", "exited"})
  <2>1. Effect(op) = container
    BY <1>8 DEF Effect
  <2> QED BY <1>1, <1>8, <2>1 DEF Possible
<1> QED BY <1>3, <1>4, <1>5, <1>6, <1>7, <1>8

(* The daemon carries out a request, now or late, and the process ends. *)
LEMMA CarriesOut ==
  ASSUME ContainerInv, CarryOut
  PROVE  ContainerInv'
<1> USE DEF ContainerInv
<1>1. /\ call # NoCall /\ call.sent /\ ~call.applied /\ Possible(call.op)
      /\ container' = Effect(call.op)
      /\ UNCHANGED <<control, poisonedBefore, pc, late, created, run, outcome, failed>>
      /\ call \in Calls /\ call.op = pc /\ pc \in Requests /\ container \in Containers
  BY DEF CarryOut, ContainerTypes, Calls
<1>2. PICK seen \in Seen : call' = [call EXCEPT !.applied = TRUE, !.seen = seen]
  BY DEF CarryOut
<1>3. /\ seen.state = container.state /\ seen.code = container.code
      /\ seen.report \in {"complete", "partial", "none"}
      /\ container.state = "exited" => seen.report # "partial"
      /\ seen \in [state : States, code : Nat, report : {"complete", "partial", "none"}]
  BY <1>1 DEF Seen, Containers
<1>4. /\ call' \in Calls /\ call'.op = pc /\ call'.applied /\ call'.seen = seen
      /\ call'.sent = call.sent /\ call'.via = call.via /\ call' # NoCall
  <2>1. call' \in Calls /\ call'.op = call.op /\ call'.applied /\ call'.seen = seen
        /\ call'.sent = call.sent /\ call'.via = call.via
    BY <1>1, <1>2, <1>3 DEF Calls
  <2> QED BY <2>1, <1>1 DEF NoCall, Requests
<1>5. /\ container' \in Containers
      /\ container'.whole = (container.whole \/ (pc = "upload" /\ container.state = "created"))
      /\ container.state \in {"exited", "removed"} =>
           container'.state \in {"exited", "removed"} /\ container'.code = container.code
      /\ container.state = "removed" => container'.state = "removed"
      /\ pc = "rm" => container'.state = "removed"
      /\ (container = NoContainer /\ pc # "create") => container' = NoContainer
  BY <1>1, EffectFacts
<1>6. ContainerTypes'
  BY <1>1, <1>4, <1>5 DEF ContainerTypes
<1>7. Carried'
  <2>1. pc = "upload" => container'.whole
    BY <1>1, <1>5 DEF Possible
  <2>2. (pc = "inspect" /\ seen.state = "exited") =>
          container'.state \in {"exited", "removed"} /\ container'.code = seen.code
    BY <1>3, <1>5
  <2>3. pc = "download" => seen.report # "partial"
    <3> SUFFICES ASSUME pc = "download" PROVE container.state = "exited"
      BY <1>3
    <3>1. container.state \in {"exited", "removed"}
      BY DEF Reached, ResultIsGenuine
    <3> QED BY <3>1, <1>1 DEF Possible
  <2> QED BY <2>1, <2>2, <2>3, <1>4, <1>5 DEF Carried, Applied
<1>8. Reached'
  BY <1>1, <1>4, <1>5 DEF Reached, Applied
<1>9. Refused'
  <2>1. ~poisonedBefore
    <3> SUFFICES ASSUME poisonedBefore PROVE FALSE
      OBVIOUS
    <3>1. container.state = "absent" /\ pc \in {"create", "rm"} /\ (call.op = "create" => ~call.sent)
      BY <1>1 DEF Refused, NoContainer, Requests
    <3> QED BY <3>1, <1>1 DEF Possible
  <2> QED BY <2>1, <1>1 DEF Refused
<1>10. ResultIsGenuine' /\ RemovedOrReported'
  BY <1>1, <1>5 DEF ResultIsGenuine, RemovedOrReported
<1> QED BY <1>6, <1>7, <1>8, <1>9, <1>10

(* What the container does by itself disturbs nothing. *)
LEMMA ContainerMoves ==
  ASSUME ContainerInv,
         UNCHANGED <<control, poisonedBefore, pc, call, created, run, outcome, failed>>,
         late' \subseteq late, container' \in Containers,
         container.whole => container'.whole,
         container'.whole => container.whole,
         container.state \in {"exited", "removed"} =>
           container'.state \in {"exited", "removed"} /\ container'.code = container.code,
         container.state = "removed" => container'.state = "removed",
         late = {} /\ container = NoContainer => container' = NoContainer,
         late \subseteq {"rm"} /\ container = NoContainer => container' = NoContainer
  PROVE  ContainerInv'
<1> USE DEF ContainerInv
<1>1. ContainerTypes'
  BY DEF ContainerTypes
<1>2. Carried'
  BY DEF Carried, Applied
<1>3. Reached'
  BY DEF Reached, Applied
<1>4. Refused'
  BY DEF Refused
<1>5. ResultIsGenuine' /\ RemovedOrReported'
  BY DEF ResultIsGenuine, RemovedOrReported
<1> QED BY <1>1, <1>2, <1>3, <1>4, <1>5

LEMMA CarriesOutLate ==
  ASSUME ContainerInv, NEW op \in Requests, CarryOutLate(op)
  PROVE  ContainerInv'
<1> USE DEF ContainerInv
<1>1. container \in Containers /\ op \in late
  BY DEF ContainerTypes, CarryOutLate
<1>2. CASE op # "upload"
  BY <1>1, <1>2, EffectFacts, ContainerMoves DEF CarryOutLate, Containers
<1>3. CASE op = "upload"
  <2>1. PICK w \in BOOLEAN : /\ container' \in Containers /\ container'.whole = (container.whole \/ w)
                             /\ container'.state = container.state /\ container'.code = container.code
    BY <1>3, <1>1 DEF CarryOutLate, Effect, Containers
  <2>2. /\ UNCHANGED <<control, poisonedBefore, pc, call, created, run, outcome, failed>>
        /\ late' \subseteq late
    BY DEF CarryOutLate
  <2>3. ~(pc \in {"create", "upload", "start"}) /\ ~poisonedBefore
    BY <1>1, <1>3 DEF Reached, Refused
  <2>4. ContainerTypes' /\ Carried'
    BY <2>1, <2>2 DEF ContainerTypes, Carried, Applied, Containers
  <2>5. Reached' /\ Refused'
    BY <2>1, <2>2, <2>3 DEF Reached, Refused, Applied, Containers
  <2>6. ResultIsGenuine' /\ RemovedOrReported'
    BY <2>1, <2>2 DEF ResultIsGenuine, RemovedOrReported, Containers
  <2> QED BY <2>4, <2>5, <2>6
<1> QED BY <1>2, <1>3

LEMMA ProcessEnded ==
  ASSUME ContainerInv, NEW code \in Codes, ProcessEnds(code)
  PROVE  ContainerInv'
<1>1. container \in Containers /\ code \in Nat
  BY ContainerAssumption DEF ContainerInv, ContainerTypes
<1>2. container # NoContainer
  BY DEF ProcessEnds, NoContainer
<1> QED BY <1>1, <1>2, ContainerMoves DEF ProcessEnds, Containers, States

(* The answers. *)
LEMMA Answering ==
  ASSUME ContainerInv, call # NoCall, NEW ok \in BOOLEAN, Answered(ok)
  PROVE  /\ control' \in {"none", "alive", "poisoned"} /\ (control = "poisoned" => control' = "poisoned")
         /\ late' \subseteq late \cup {call.op} /\ late' \subseteq Requests
         /\ ok => late' = late /\ call.applied
         /\ ~call.sent => late' = late
         /\ call \in Calls /\ call.op = pc /\ pc \in Requests
BY DEF ContainerInv, ContainerTypes, Answered, Calls

LEMMA CreateIsAnswered ==
  ASSUME ContainerInv, NEW ok \in BOOLEAN, CreateAnswered(ok)
  PROVE  ContainerInv'
<1> USE DEF ContainerInv
<1>1. /\ call # NoCall /\ call.op = "create" /\ Answered(ok)
      /\ call' = NoCall /\ created' = ok
      /\ pc' = IF ok THEN "upload" ELSE "rm"
      /\ outcome' = IF ok THEN outcome ELSE InfrastructureFailure
      /\ UNCHANGED <<poisonedBefore, container, run, failed>>
  BY DEF CreateAnswered, Waiting
<1>2. /\ control' \in {"none", "alive", "poisoned"} /\ (control = "poisoned" => control' = "poisoned")
      /\ late' \subseteq late \cup {call.op} /\ late' \subseteq Requests
      /\ ok => late' = late /\ call.applied
      /\ ~call.sent => late' = late
      /\ pc = "create"
  BY <1>1, Answering
<1>3. ContainerTypes'
  BY <1>1, <1>2 DEF ContainerTypes, InfrastructureFailure, Results, NoCode, Requests
<1>4. Carried' /\ Reached'
  BY <1>1, <1>2 DEF Carried, Reached, Applied
<1>5. Refused'
  BY <1>1, <1>2 DEF Refused, InfrastructureFailure
<1>6. ResultIsGenuine' /\ RemovedOrReported'
  BY <1>1, <1>2 DEF ResultIsGenuine, RemovedOrReported, InfrastructureFailure
<1> QED BY <1>3, <1>4, <1>5, <1>6

LEMMA UploadIsAnswered ==
  ASSUME ContainerInv, NEW ok \in BOOLEAN, UploadAnswered(ok)
  PROVE  ContainerInv'
<1> USE DEF ContainerInv
<1>1. /\ call # NoCall /\ call.op = "upload" /\ Answered(ok)
      /\ call' = NoCall
      /\ pc' = IF ok THEN "start" ELSE "rm"
      /\ outcome' = IF ok THEN outcome ELSE InfrastructureFailure
      /\ UNCHANGED <<poisonedBefore, container, created, run, failed>>
  BY DEF UploadAnswered, Waiting
<1>2. /\ control' \in {"none", "alive", "poisoned"}
      /\ late' \subseteq Requests
      /\ ok => late' = late /\ call.applied
      /\ pc = "upload" /\ ~poisonedBefore
  BY <1>1, Answering DEF Refused
<1>2a. outcome' \in Results \cup {NoOutcome}
  BY <1>1 DEF ContainerTypes, InfrastructureFailure, Results, NoCode
<1>2b. pc' \in Requests /\ pc' \in {"start", "rm"} /\ (pc' = "start" => ok)
  BY <1>1 DEF Requests
<1>3. ContainerTypes'
  BY <1>1, <1>2, <1>2a, <1>2b DEF ContainerTypes
<1>3a. Carried'
  BY <1>1 DEF Carried, Applied
<1>4. Reached'
  <2>1. (container.whole /\ late = {}) \/ ~ok
    BY <1>1, <1>2 DEF Carried, Applied, Reached
  <2>2. run # NoRun => container.whole
    BY DEF Reached
  <2> QED BY <1>1, <1>2, <1>2b, <2>1, <2>2 DEF Reached
<1>5. Refused'
  BY <1>1, <1>2 DEF Refused
<1>6. ResultIsGenuine' /\ RemovedOrReported'
  BY <1>1, <1>2 DEF ResultIsGenuine, RemovedOrReported, InfrastructureFailure
<1> QED BY <1>3, <1>3a, <1>4, <1>5, <1>6

LEMMA StartHasEnded ==
  ASSUME ContainerInv, NEW last \in Attached, StartEnds(last)
  PROVE  ContainerInv'
<1> USE DEF ContainerInv
<1>1. /\ call # NoCall /\ call.op = "start" /\ Answered(FALSE)
      /\ call' = NoCall /\ run' = last
      /\ UNCHANGED <<poisonedBefore, container, created, failed>>
      /\ \/ pc' = "kill" /\ outcome' = [outcome |-> "TIMEOUT", exit |-> NoCode, report |-> "none"]
         \/ pc' = "inspect" /\ outcome' = outcome
  BY DEF StartEnds, Waiting
<1>2. /\ control' \in {"none", "alive", "poisoned"} /\ late' \subseteq Requests
      /\ pc = "start" /\ ~poisonedBefore /\ container.whole
  BY <1>1, Answering DEF Refused, Reached
<1>3. ContainerTypes'
  BY <1>1, <1>2 DEF ContainerTypes, Results, NoCode, Requests
<1>3a. Carried'
  BY <1>1 DEF Carried, Applied
<1>4. Reached'
  <2>1. last # NoRun
    BY DEF Attached, NoRun
  <2> QED BY <1>1, <1>2, <2>1 DEF Reached
<1>5. Refused'
  BY <1>1, <1>2 DEF Refused
<1>6. ResultIsGenuine' /\ RemovedOrReported'
  BY <1>1, <1>2 DEF ResultIsGenuine, RemovedOrReported
<1> QED BY <1>3, <1>3a, <1>4, <1>5, <1>6

LEMMA InspectIsAnswered ==
  ASSUME ContainerInv, NEW ok \in BOOLEAN, NEW wanted \in BOOLEAN, InspectAnswered(ok, wanted)
  PROVE  ContainerInv'
<1> USE DEF ContainerInv
<1>1. /\ call # NoCall /\ call.op = "inspect" /\ Answered(ok) /\ call' = NoCall
      /\ UNCHANGED <<poisonedBefore, container, created, run, failed>>
  BY DEF InspectAnswered, Waiting
<1>2. /\ control' \in {"none", "alive", "poisoned"} /\ late' \subseteq Requests
      /\ ok => call.applied
      /\ pc = "inspect" /\ ~poisonedBefore /\ run # NoRun /\ container.whole
  BY <1>1, Answering DEF Refused, Reached
<1>3. CASE ok /\ Agrees(call.seen)
  <2>1. /\ outcome' = [outcome |-> IF call.seen.code = 0 THEN "PASS" ELSE "PROCESS_CRASH",
                        exit |-> call.seen.code, report |-> "none"]
        /\ pc' \in {"download", "rm"}
    BY <1>3 DEF InspectAnswered
  <2>2. container.state \in {"exited", "removed"} /\ container.code = call.seen.code
    BY <1>1, <1>2, <1>3 DEF Carried, Applied, Agrees
  <2>3. call.seen.code \in Int
    BY <1>1 DEF ContainerTypes, Calls
  <2>3a. /\ outcome' \in Results /\ outcome'.outcome \in {"PASS", "PROCESS_CRASH"}
         /\ outcome'.exit = call.seen.code /\ outcome'.report = "none"
    BY <2>1, <2>3 DEF Results
  <2>4. ContainerTypes'
    BY <1>1, <1>2, <2>1, <2>3a DEF ContainerTypes, Requests
  <2>5. Carried' /\ Reached'
    <3>1. Carried'
      BY <1>1 DEF Carried, Applied
    <3>2. Reached'
      BY <1>1, <1>2, <2>1, <2>3a DEF Reached
    <3> QED BY <3>1, <3>2
  <2>6. Refused'
    BY <1>1, <1>2 DEF Refused
  <2>7. ResultIsGenuine' /\ RemovedOrReported'
    BY <1>1, <1>2, <2>1, <2>2, <2>3a DEF ResultIsGenuine, RemovedOrReported
  <2> QED BY <2>4, <2>5, <2>6, <2>7
<1>4. CASE ~(ok /\ Agrees(call.seen))
  <2>1. outcome' = InfrastructureFailure /\ pc' \in {"kill", "rm"}
    BY <1>4 DEF InspectAnswered
  <2>2. ContainerTypes'
    BY <1>1, <1>2, <2>1 DEF ContainerTypes, InfrastructureFailure, NoCode, Results, Requests
  <2>3. Carried' /\ Reached'
    <3>1. Carried'
      BY <1>1 DEF Carried, Applied
    <3>2. Reached'
      BY <1>1, <1>2, <2>1 DEF Reached
    <3> QED BY <3>1, <3>2
  <2>4. Refused'
    BY <1>1, <1>2 DEF Refused
  <2>5. ResultIsGenuine' /\ RemovedOrReported'
    BY <1>1, <1>2, <2>1 DEF ResultIsGenuine, RemovedOrReported, InfrastructureFailure
  <2> QED BY <2>2, <2>3, <2>4, <2>5
<1> QED BY <1>3, <1>4

LEMMA KillIsAnswered ==
  ASSUME ContainerInv, NEW ok \in BOOLEAN, KillAnswered(ok)
  PROVE  ContainerInv'
<1> USE DEF ContainerInv
<1>1. /\ call # NoCall /\ call.op = "kill" /\ Answered(ok) /\ call' = NoCall /\ pc' = "rm"
      /\ UNCHANGED <<poisonedBefore, container, created, run, outcome, failed>>
  BY DEF KillAnswered, Waiting
<1>2. /\ control' \in {"none", "alive", "poisoned"} /\ late' \subseteq Requests
      /\ pc = "kill" /\ ~poisonedBefore
  BY <1>1, Answering DEF Refused
<1>3. ContainerTypes'
  BY <1>1, <1>2 DEF ContainerTypes, Requests
<1>4. Carried' /\ Refused'
  BY <1>1, <1>2 DEF Carried, Refused, Applied
<1>5. Reached'
  BY <1>1, <1>2 DEF Reached
<1>6. ResultIsGenuine' /\ RemovedOrReported'
  BY <1>1, <1>2 DEF ResultIsGenuine, RemovedOrReported
<1> QED BY <1>3, <1>4, <1>5, <1>6

LEMMA DownloadIsAnswered ==
  ASSUME ContainerInv, NEW ok \in BOOLEAN, DownloadAnswered(ok)
  PROVE  ContainerInv'
<1> USE DEF ContainerInv
<1>1. /\ call # NoCall /\ call.op = "download" /\ Answered(ok) /\ call' = NoCall /\ pc' = "rm"
      /\ outcome' = IF ok THEN [outcome EXCEPT !.report = call.seen.report] ELSE outcome
      /\ UNCHANGED <<poisonedBefore, container, created, run, failed>>
  BY DEF DownloadAnswered, Waiting
<1>2. /\ control' \in {"none", "alive", "poisoned"} /\ late' \subseteq Requests
      /\ ok => call.applied
      /\ pc = "download" /\ ~poisonedBefore /\ outcome.outcome \in {"PASS", "PROCESS_CRASH"}
      /\ call \in Calls
  BY <1>1, Answering DEF Refused, Reached
<1>3. /\ outcome' \in Results /\ outcome'.outcome = outcome.outcome /\ outcome'.exit = outcome.exit
      /\ outcome'.report # "partial"
  <2>1. outcome \in Results /\ outcome.report # "partial"
    BY <1>2 DEF ContainerTypes, NoOutcome, ResultIsGenuine
  <2>2. ok => call.seen.report \in {"complete", "none"}
    BY <1>1, <1>2 DEF Carried, Applied, Calls
  <2> QED BY <2>1, <2>2, <1>1 DEF Results
<1>4. ContainerTypes'
  BY <1>1, <1>2, <1>3 DEF ContainerTypes, Requests
<1>5. Carried' /\ Refused'
  BY <1>1, <1>2 DEF Carried, Refused, Applied
<1>6. Reached'
  BY <1>1, <1>2 DEF Reached
<1>7. ResultIsGenuine' /\ RemovedOrReported'
  BY <1>1, <1>2, <1>3 DEF ResultIsGenuine, RemovedOrReported
<1> QED BY <1>4, <1>5, <1>6, <1>7

LEMMA RmIsAnswered ==
  ASSUME ContainerInv, NEW ok \in BOOLEAN, RmAnswered(ok)
  PROVE  ContainerInv'
<1> USE DEF ContainerInv
<1>1. /\ call # NoCall /\ call.op = "rm" /\ Answered(ok) /\ call' = NoCall
      /\ pc' = IF failed \/ (~ok /\ created) THEN "threw" ELSE "returned"
      /\ UNCHANGED <<poisonedBefore, container, created, run, outcome, failed>>
  BY DEF RmAnswered, Waiting
<1>2. /\ control' \in {"none", "alive", "poisoned"} /\ (control = "poisoned" => control' = "poisoned")
      /\ late' \subseteq late \cup {call.op} /\ late' \subseteq Requests
      /\ ok => call.applied
      /\ pc = "rm"
  BY <1>1, Answering
<1>3. ContainerTypes'
  BY <1>1, <1>2 DEF ContainerTypes
<1>4. Carried' /\ Reached'
  BY <1>1, <1>2 DEF Carried, Reached, Applied
<1>5. Refused'
  BY <1>1, <1>2 DEF Refused
<1>6. ResultIsGenuine'
  BY <1>1 DEF ResultIsGenuine
<1>7. RemovedOrReported'
  <2> SUFFICES ASSUME pc' = "returned", created' PROVE container'.state = "removed"
    BY DEF RemovedOrReported
  <2>1. ok
    BY <1>1
  <2> QED BY <2>1, <1>1, <1>2 DEF Carried, Applied
<1> QED BY <1>3, <1>4, <1>5, <1>6, <1>7

(* The steps of the engine that are no answers. *)
LEMMA RequestSent ==
  ASSUME ContainerInv, Send
  PROVE  ContainerInv'
<1> USE DEF ContainerInv
<1>1. /\ call = NoCall /\ pc \in Requests
      /\ UNCHANGED <<control, poisonedBefore, pc, late, container, created, run, outcome, failed>>
      /\ call' = Request(pc, Connection(pc))
  BY DEF Send
<1>2. call' \in Calls /\ call'.op = pc /\ ~call'.applied
  BY <1>1 DEF Request, Connection, Calls, States
<1>3. control = "poisoned" /\ pc = "create" => ~call'.sent /\ call'.via = "stdio"
  BY <1>1 DEF Request, Connection
<1>4. ContainerTypes'
  BY <1>1, <1>2 DEF ContainerTypes
<1>5. Carried' /\ Refused'
  BY <1>1, <1>2, <1>3 DEF Carried, Applied, Refused
<1>6. Reached'
  BY <1>1, <1>2 DEF Reached, Applied
<1>7. ResultIsGenuine' /\ RemovedOrReported'
  BY <1>1 DEF ResultIsGenuine, RemovedOrReported
<1> QED BY <1>4, <1>5, <1>6, <1>7

LEMMA RequestRetried ==
  ASSUME ContainerInv, Retry
  PROVE  ContainerInv'
<1> USE DEF ContainerInv
<1>1. /\ call # NoCall /\ call.op \in {"kill", "rm"} /\ Answered(FALSE)
      /\ UNCHANGED <<poisonedBefore, pc, container, created, run, outcome, failed>>
      /\ call' = Request(call.op, "cli")
  BY DEF Retry, Retried
<1>2. /\ control' \in {"none", "alive", "poisoned"} /\ (control = "poisoned" => control' = "poisoned")
      /\ late' \subseteq late \cup {call.op} /\ late' \subseteq Requests
      /\ call.op = pc /\ pc \in Requests
  BY <1>1, Answering
<1>3. call' \in Calls /\ call'.op = pc /\ ~call'.applied
  BY <1>1, <1>2 DEF Request, Calls, States
<1>4. ContainerTypes'
  BY <1>1, <1>2, <1>3 DEF ContainerTypes
<1>5. Carried' /\ Refused'
  BY <1>1, <1>2, <1>3 DEF Carried, Applied, Refused
<1>6. Reached'
  BY <1>1, <1>2, <1>3 DEF Reached, Applied
<1>7. ResultIsGenuine' /\ RemovedOrReported'
  BY <1>1 DEF ResultIsGenuine, RemovedOrReported
<1> QED BY <1>4, <1>5, <1>6, <1>7

LEMMA RequestThrows ==
  ASSUME ContainerInv, RuntimeThrows
  PROVE  ContainerInv'
<1> USE DEF ContainerInv
<1>1. /\ call # NoCall /\ call.via = "cli" /\ call' = NoCall /\ failed' = TRUE
      /\ pc' = IF call.op = "rm" THEN "threw" ELSE "rm"
      /\ UNCHANGED <<control, poisonedBefore, late, container, created, run, outcome>>
      /\ call \in Calls /\ call.op = pc
  BY DEF RuntimeThrows, ContainerTypes
<1>2. ContainerTypes'
  BY <1>1 DEF ContainerTypes, Requests
<1>3. Carried'
  BY <1>1 DEF Carried, Applied
<1>4. Reached'
  BY <1>1 DEF Reached
<1>5. Refused'
  <2>1. poisonedBefore => pc = "rm"
    <3> SUFFICES ASSUME poisonedBefore PROVE pc = "rm"
      OBVIOUS
    <3>1. pc \in Requests /\ pc \in {"create", "rm", "returned", "threw"}
      BY <1>1 DEF Refused, Calls
    <3>2. pc # "create"
      BY <1>1 DEF Refused
    <3> QED BY <3>1, <3>2 DEF Requests
  <2> QED BY <1>1, <2>1 DEF Refused
<1>6. ResultIsGenuine' /\ RemovedOrReported'
  BY <1>1 DEF ResultIsGenuine, RemovedOrReported
<1> QED BY <1>2, <1>3, <1>4, <1>5, <1>6

(* The connection gets in doubt, and nothing else happens. *)
LEMMA ConnectionLost ==
  ASSUME ContainerInv, control' \in {control, "poisoned"},
         UNCHANGED <<poisonedBefore, pc, call, late, container, created, run, outcome, failed>>
  PROVE  ContainerInv'
<1> USE DEF ContainerInv
<1>1. ContainerTypes'
  BY DEF ContainerTypes
<1>2. Carried' /\ Reached'
  BY DEF Carried, Reached, Applied
<1>3. Refused'
  BY DEF Refused
<1>4. ResultIsGenuine' /\ RemovedOrReported'
  BY DEF ResultIsGenuine, RemovedOrReported
<1> QED BY <1>1, <1>2, <1>3, <1>4

LEMMA ExecutionContinues ==
  ASSUME ContainerInv, NextExecution
  PROVE  ContainerInv'
<1> USE DEF ContainerInv
<1>1. /\ pc = "returned" /\ poisonedBefore' = (control = "poisoned")
      /\ pc' = "create" /\ late' = {} /\ container' = NoContainer
      /\ created' = FALSE /\ run' = NoRun /\ outcome' = NoOutcome /\ failed' = FALSE
      /\ UNCHANGED <<control, call>>
  BY DEF NextExecution
<1>2. call = NoCall
  BY <1>1 DEF ContainerTypes, Calls, Requests
<1>3. ContainerTypes'
  BY <1>1, <1>2 DEF ContainerTypes, NoContainer, Containers, States, Requests
<1>4. Carried'
  BY <1>1, <1>2 DEF Carried, Applied
<1>5. Reached'
  BY <1>1, <1>2 DEF Reached, NoContainer
<1>6. Refused'
  BY <1>1, <1>2 DEF Refused
<1>7. ResultIsGenuine' /\ RemovedOrReported'
  BY <1>1 DEF ResultIsGenuine, RemovedOrReported, NoOutcome
<1> QED BY <1>3, <1>4, <1>5, <1>6, <1>7

(* Every step of a session is, for the requests, a step of                 *)
(* ContainerExecution, or the closing of the connection, or none.          *)
LEMMA SessionRefines ==
  ASSUME [SessionNext]_sessionVars
  PROVE  \/ Next
         \/ /\ control' = "poisoned"
            /\ UNCHANGED <<poisonedBefore, pc, call, late, container, created, run, outcome, failed>>
         \/ UNCHANGED vars
<1>1. ASSUME NEW ok \in BOOLEAN, Reply(ok) PROVE Next
  BY <1>1 DEF Next, Engine
<1>2. CASE SendRequest
  BY <1>2 DEF SendRequest, Next, Engine
<1>3. CASE ReadChunk \/ CliSent \/ StreamSent \/ CloseTimer \/ StoredDamage
  BY <1>3 DEF ReadChunk, CliSent, StreamSent, CloseTimer, StoredDamage
<1>4. CASE CliAnswers
  BY <1>4, <1>1 DEF CliAnswers, Next, Engine
<1>5. ASSUME Settle PROVE Next \/ UNCHANGED vars
  BY <1>5, <1>1 DEF Settle
<1>6. CASE ResponseArrives \/ ExchangeTimesOut \/ ExchangeContinues
  BY <1>5, <1>6 DEF ResponseArrives, ExchangeTimesOut, ExchangeContinues
<1>7. CASE LinkAtRest
  BY <1>7 DEF LinkAtRest, Next
<1>8. CASE CloseLink
  BY <1>8 DEF CloseLink
<1>9. CASE Daemon \/ Continue
  BY <1>9 DEF Daemon, Continue, Next
<1>10. CASE UNCHANGED sessionVars
  BY <1>10 DEF sessionVars
<1> QED BY <1>2, <1>3, <1>4, <1>6, <1>7, <1>8, <1>9, <1>10 DEF SessionNext

LEMMA ContainerStep ==
  ASSUME ContainerInv, [SessionNext]_sessionVars
  PROVE  ContainerInv'
<1>1. ASSUME NEW ok \in BOOLEAN, Reply(ok) PROVE ContainerInv'
  BY <1>1, CreateIsAnswered, UploadIsAnswered, InspectIsAnswered, KillIsAnswered, DownloadIsAnswered,
     RmIsAnswered, RequestRetried DEF Reply
<1>2. CASE Next
  <2>1. CASE Engine
    BY <2>1, <1>1, RequestSent, RequestThrows, StartHasEnded DEF Engine
  <2>2. CASE ConnectionBreaks
    BY <2>2, ConnectionLost DEF ConnectionBreaks
  <2> QED BY <1>2, <2>1, <2>2, CarriesOut, CarriesOutLate, ProcessEnded, ExecutionContinues DEF Next
<1>3. CASE /\ control' = "poisoned"
           /\ UNCHANGED <<poisonedBefore, pc, call, late, container, created, run, outcome, failed>>
  BY <1>3, ConnectionLost
<1>4. CASE UNCHANGED vars
  BY <1>4, ConnectionLost DEF vars
<1> QED BY <1>2, <1>3, <1>4, SessionRefines

(* The control connection. *)
LinkInv ==
  /\ response \in [length : Nat, part : {"none", "partial", "whole", "refused"}]
  /\ alive => response.length <= ResponseLimit /\ state # "failed"
  /\ completed => response.part = "whole"
  /\ state \in {"idle", "open", "succeeded", "failed"}
  /\ state = "succeeded" => body = "flushed" /\ delivered /\ completed

Linked ==
  \/ \E stream \in BOOLEAN : Link!Begin(stream)
  \/ Link!StreamEnds \/ Link!StreamFails \/ Link!RequestFlushed
  \/ Link!ResponseData \/ \E part \in {"whole", "refused"} : Link!ResponseEnds(part)
  \/ Link!TimerFires \/ Link!ConnectionBreaks \/ Link!ChildCloses
  \/ Link!Close \/ Link!CloseTimerFires

LEMMA LinkRefines ==
  ASSUME [SessionNext]_sessionVars
  PROVE  Linked \/ UNCHANGED linkVars
<1>1. CASE SendRequest
  BY <1>1 DEF SendRequest, Linked
<1>2. CASE ReadChunk \/ CliSent \/ CliAnswers \/ Daemon \/ Continue \/ StoredDamage
  BY <1>2 DEF ReadChunk, CliSent, CliAnswers, Daemon, Continue, StoredDamage
<1>3. CASE StreamSent \/ ResponseArrives \/ ExchangeTimesOut \/ ExchangeContinues
  BY <1>3 DEF StreamSent, ResponseArrives, ExchangeTimesOut, ExchangeContinues, Linked
<1>4. CASE LinkAtRest \/ CloseLink \/ CloseTimer
  BY <1>4 DEF LinkAtRest, CloseLink, CloseTimer, Linked
<1>5. CASE UNCHANGED sessionVars
  BY <1>5 DEF sessionVars
<1> QED BY <1>1, <1>2, <1>3, <1>4, <1>5 DEF SessionNext

LEMMA LinkInit == Link!Init => LinkInv
BY SessionAssumption DEF Link!Init, Link!NoResponse, LinkInv

LEMMA LinkStep ==
  ASSUME LinkInv, Linked \/ UNCHANGED linkVars
  PROVE  LinkInv'
<1> USE SessionAssumption DEF LinkInv
<1>1. ASSUME NEW stream \in BOOLEAN, Link!Begin(stream) PROVE LinkInv'
  BY <1>1 DEF Link!Begin, Link!NoResponse, Link!connectionVars
<1>2. CASE Link!StreamEnds
  BY <1>2 DEF Link!StreamEnds, Link!Open, Link!Succeed, Link!connectionVars
<1>3. CASE Link!StreamFails
  BY <1>3 DEF Link!StreamFails, Link!Fail, Link!Poison
<1>4. CASE Link!RequestFlushed
  BY <1>4 DEF Link!RequestFlushed, Link!Open, Link!Succeed, Link!connectionVars
<1>5. CASE Link!ResponseData
  <2>1. /\ response' = [length |-> response.length + 1, part |-> "partial"]
        /\ state = "open" /\ response.part # "whole"
        /\ UNCHANGED <<body, delivered, completed, closing>>
    BY <1>5 DEF Link!ResponseData, Link!Open
  <2>2. CASE response.length + 1 > ResponseLimit
    <3>1. state' = "failed" /\ ~alive'
      BY <1>5, <2>2 DEF Link!ResponseData, Link!TooLong, Link!Fail, Link!Poison
    <3> QED BY <2>1, <3>1
  <2>3. CASE ~(response.length + 1 > ResponseLimit)
    <3>1. UNCHANGED <<state, alive>>
      BY <1>5, <2>3 DEF Link!ResponseData, Link!TooLong, Link!connectionVars
    <3> QED BY <2>1, <2>3, <3>1
  <2> QED BY <2>2, <2>3
<1>6. ASSUME NEW part \in {"whole", "refused"}, Link!ResponseEnds(part) PROVE LinkInv'
  <2>1. /\ response' \in [length : Nat, part : {"none", "partial", "whole", "refused"}]
        /\ response'.length = response.length /\ response'.part = part
        /\ state = "open" /\ response.part # "whole"
        /\ UNCHANGED <<body, delivered, closing>>
    BY <1>6 DEF Link!ResponseEnds, Link!Open
  <2>2. CASE part = "whole"
    BY <1>6, <2>1, <2>2 DEF Link!ResponseEnds, Link!Succeed, Link!connectionVars
  <2>3. CASE part # "whole"
    BY <1>6, <2>1, <2>3 DEF Link!ResponseEnds, Link!Fail, Link!Poison
  <2> QED BY <2>2, <2>3
<1>7. CASE Link!TimerFires
  BY <1>7 DEF Link!TimerFires, Link!Fail, Link!Poison, Link!connectionVars
<1>8. CASE Link!ConnectionBreaks
  BY <1>8 DEF Link!ConnectionBreaks, Link!Fail, Link!Poison
<1>9. CASE Link!ChildCloses
  BY <1>9 DEF Link!ChildCloses
<1>10. CASE Link!Close \/ Link!CloseTimerFires
  BY <1>10 DEF Link!Close, Link!CloseTimerFires, Link!Poison, Link!connectionVars, Link!exchangeVars
<1>11. CASE UNCHANGED linkVars
  BY <1>11 DEF linkVars
<1> QED BY <1>1, <1>2, <1>3, <1>4, <1>5, <1>6, <1>7, <1>8, <1>9, <1>10, <1>11 DEF Linked

LEMMA LinkConcludes == LinkInv => Link!NoCrossTalk
BY DEF LinkInv, Link!NoCrossTalk

(* The archives kept: the sizes add up to what is accounted for. *)
Accounted ==
  \E total \in [SUBSET DOMAIN entries -> 0 .. bytes] :
    Store!AddsUp(total) /\ total[DOMAIN entries] = bytes

Uploads == [key : Keys, reused : BOOLEAN, length : Nat, retain : BOOLEAN, intact : BOOLEAN, whole : Nat]

StoreInv ==
  /\ bytes \in Nat /\ bytes <= StoreLimit
  /\ DOMAIN entries \subseteq Keys
  /\ entries \in [DOMAIN entries -> [size : Nat, intact : BOOLEAN]]
  /\ \A k \in DOMAIN entries : entries[k].size = SizeOf[k]
  /\ upload # Store!NoUpload =>
       upload \in Uploads /\ upload.intact /\ upload.whole = SizeOf[upload.key]
  /\ Accounted

LEMMA StoreConcludes == StoreInv => Store!OnlyWhole
BY DEF StoreInv, Accounted, Store!OnlyWhole

LEMMA StoreInit == Store!Init => StoreInv
<1> SUFFICES ASSUME Store!Init PROVE StoreInv
  OBVIOUS
<1>1. DOMAIN entries = {} /\ bytes = 0 /\ upload = Store!NoUpload
  BY DEF Store!Init, Store!NoEntries
<1>2. entries \in [DOMAIN entries -> [size : Nat, intact : BOOLEAN]]
  BY DEF Store!Init, Store!NoEntries
<1>3. Accounted
  <2> DEFINE total == [S \in SUBSET DOMAIN entries |-> 0]
  <2>1. total \in [SUBSET DOMAIN entries -> 0 .. bytes]
    BY <1>1
  <2>2. total[{}] = 0 /\ total[DOMAIN entries] = bytes
    BY <1>1
  <2>3. \A kept \in SUBSET DOMAIN entries : kept = {}
    BY <1>1
  <2> HIDE DEF total
  <2>4. Store!AddsUp(total)
    BY <2>2, <2>3 DEF Store!AddsUp
  <2> QED BY <2>1, <2>2, <2>4 DEF Accounted
<1> QED BY <1>1, <1>2, <1>3, SessionAssumption DEF StoreInv

(* The account only depends on the sizes. *)
LEMMA SameAccount ==
  ASSUME Accounted, bytes' = bytes, DOMAIN entries' = DOMAIN entries,
         \A k \in DOMAIN entries : entries'[k].size = entries[k].size
  PROVE  Accounted'
<1>1. PICK total \in [SUBSET DOMAIN entries -> 0 .. bytes] :
        Store!AddsUp(total) /\ total[DOMAIN entries] = bytes
  BY DEF Accounted
<1>2. Store!AddsUp(total)'
  BY <1>1 DEF Store!AddsUp
<1> QED BY <1>1, <1>2 DEF Accounted

(* A kept archive adds its size to every set it is in. *)
LEMMA KeptAccount ==
  ASSUME Accounted, bytes \in Nat, NEW key, key \notin DOMAIN entries, NEW size \in Nat,
         DOMAIN entries' = DOMAIN entries \cup {key}, bytes' = bytes + size,
         entries'[key].size = size,
         \A k \in DOMAIN entries : entries'[k].size = entries[k].size /\ entries[k].size \in Nat
  PROVE  Accounted'
<1>1. PICK total \in [SUBSET DOMAIN entries -> 0 .. bytes] :
        Store!AddsUp(total) /\ total[DOMAIN entries] = bytes
  BY DEF Accounted
<1>1a. PICK more : more = [S \in SUBSET DOMAIN entries' |->
                             IF key \in S THEN total[S \ {key}] + size ELSE total[S]]
  OBVIOUS
<1>2. \A S \in SUBSET DOMAIN entries' : S \ {key} \in SUBSET DOMAIN entries
  OBVIOUS
<1>3. \A S \in SUBSET DOMAIN entries : total[S] \in Nat /\ total[S] <= bytes
  BY <1>1
<1>4. ASSUME NEW S \in SUBSET DOMAIN entries', key \in S
      PROVE  more[S] = total[S \ {key}] + size
  BY <1>1a, <1>4
<1>5. ASSUME NEW S \in SUBSET DOMAIN entries', key \notin S
      PROVE  more[S] = total[S] /\ S \in SUBSET DOMAIN entries
  BY <1>1a, <1>5
<1>6. more = [S \in SUBSET DOMAIN entries' |-> more[S]]
  BY <1>1a
<1>7. more \in [SUBSET DOMAIN entries' -> 0 .. bytes']
  <2>1. ASSUME NEW S \in SUBSET DOMAIN entries' PROVE more[S] \in 0 .. bytes'
    <3>1. CASE key \in S
      <4>1. more[S] = total[S \ {key}] + size
        BY <3>1, <1>4
      <4>2. total[S \ {key}] \in Nat /\ total[S \ {key}] <= bytes
        BY <1>2, <1>3
      <4> QED BY <4>1, <4>2
    <3>2. CASE key \notin S
      BY <3>2, <1>3, <1>5
    <3> QED BY <3>1, <3>2
  <2> QED BY <2>1, <1>6
<1>8. more[DOMAIN entries'] = bytes'
  <2>1. DOMAIN entries' \ {key} = DOMAIN entries
    OBVIOUS
  <2> QED BY <2>1, <1>1, <1>4
<1>9. Store!AddsUp(more)'
  <2>1. more[{}] = 0
    <3>1. {} \in SUBSET DOMAIN entries' /\ key \notin {}
      OBVIOUS
    <3>2. more[{}] = total[{}]
      BY <3>1, <1>5
    <3> QED BY <3>2, <1>1 DEF Store!AddsUp
  <2>2. ASSUME NEW S \in SUBSET DOMAIN entries', NEW k \in S
        PROVE  more[S] = more[S \ {k}] + entries'[k].size
    <3>0. S \ {k} \in SUBSET DOMAIN entries'
      OBVIOUS
    <3>1. CASE k = key
      <4>1. more[S \ {k}] = total[S \ {k}]
        BY <3>0, <3>1, <1>5
      <4> QED BY <4>1, <3>1, <1>4
    <3>2. CASE k # key /\ key \in S
      <4>1. more[S] = total[S \ {key}] + size
        BY <3>2, <1>4
      <4>2. more[S \ {k}] = total[(S \ {k}) \ {key}] + size
        BY <3>0, <3>2, <1>4
      <4>3. (S \ {k}) \ {key} = (S \ {key}) \ {k}
        OBVIOUS
      <4>4. S \ {key} \in SUBSET DOMAIN entries /\ k \in S \ {key}
        BY <3>2, <1>2
      <4>5. total[S \ {key}] = total[(S \ {key}) \ {k}] + entries[k].size
        BY <4>4, <1>1 DEF Store!AddsUp
      <4>6. entries'[k].size = entries[k].size /\ entries[k].size \in Nat
        BY <4>4
      <4>7. total[(S \ {key}) \ {k}] \in Nat
        BY <4>4, <1>3
      <4>8. more[S \ {k}] = total[(S \ {key}) \ {k}] + size
        BY <4>2, <4>3
      <4> QED BY <4>1, <4>8, <4>5, <4>6, <4>7
    <3>3. CASE key \notin S
      <4>1. more[S] = total[S] /\ S \in SUBSET DOMAIN entries
        BY <3>3, <1>5
      <4>2. more[S \ {k}] = total[S \ {k}]
        BY <3>0, <3>3, <1>5
      <4>3. total[S] = total[S \ {k}] + entries[k].size
        BY <4>1, <1>1 DEF Store!AddsUp
      <4> QED BY <4>1, <4>2, <4>3
    <3> QED BY <3>1, <3>2, <3>3
  <2> QED BY <2>1, <2>2 DEF Store!AddsUp
<1> QED BY <1>7, <1>8, <1>9 DEF Accounted

(* An evicted archive gives its size back to the budget. *)
LEMMA EvictedAccount ==
  ASSUME Accounted, bytes \in Nat, NEW key \in DOMAIN entries, entries[key].size \in Nat,
         DOMAIN entries' = DOMAIN entries \ {key},
         bytes' = IF bytes - entries[key].size >= 0 THEN bytes - entries[key].size ELSE 0,
         \A k \in DOMAIN entries' : entries'[k] = entries[k]
  PROVE  Accounted' /\ bytes' \in Nat /\ bytes' <= bytes
<1>1. PICK total \in [SUBSET DOMAIN entries -> 0 .. bytes] :
        Store!AddsUp(total) /\ total[DOMAIN entries] = bytes
  BY DEF Accounted
<1>2. \A S \in SUBSET DOMAIN entries : total[S] \in Nat /\ total[S] <= bytes
  BY <1>1
<1>3. bytes = total[DOMAIN entries'] + entries[key].size
  BY <1>1 DEF Store!AddsUp
<1>4. bytes' = total[DOMAIN entries'] /\ bytes' = bytes - entries[key].size
  <2>1. total[DOMAIN entries'] \in Nat
    BY <1>2
  <2> QED BY <2>1, <1>3
<1>4a. PICK less : less = [S \in SUBSET DOMAIN entries' |-> total[S]]
  OBVIOUS
<1>5. less \in [SUBSET DOMAIN entries' -> 0 .. bytes']
  <2>1. ASSUME NEW S \in SUBSET DOMAIN entries' PROVE total[S] \in 0 .. bytes'
    <3>1. S \cup {key} \in SUBSET DOMAIN entries /\ (S \cup {key}) \ {key} = S /\ S \in SUBSET DOMAIN entries
      OBVIOUS
    <3>2. total[S \cup {key}] = total[(S \cup {key}) \ {key}] + entries[key].size
      BY <3>1, <1>1 DEF Store!AddsUp
    <3>3. total[S \cup {key}] = total[S] + entries[key].size
      BY <3>1, <3>2
    <3>4. total[S] \in Nat /\ total[S \cup {key}] \in Nat /\ total[S \cup {key}] <= bytes
      BY <3>1, <1>2
    <3> QED BY <3>3, <3>4, <1>4
  <2> QED BY <2>1, <1>4a
<1>6. \A S \in SUBSET DOMAIN entries' : less[S] = total[S]
  BY <1>4a
<1>7. Store!AddsUp(less)'
  <2>1. less[{}] = 0
    BY <1>1, <1>6 DEF Store!AddsUp
  <2>2. ASSUME NEW S \in SUBSET DOMAIN entries', NEW k \in S
        PROVE  less[S] = less[S \ {k}] + entries'[k].size
    <3>1. S \in SUBSET DOMAIN entries /\ S \ {k} \in SUBSET DOMAIN entries' /\ k \in DOMAIN entries'
      OBVIOUS
    <3>2. total[S] = total[S \ {k}] + entries[k].size
      BY <3>1, <1>1 DEF Store!AddsUp
    <3> QED BY <3>1, <3>2, <1>6
  <2> QED BY <2>1, <2>2 DEF Store!AddsUp
<1>8. less[DOMAIN entries'] = bytes'
  BY <1>4, <1>6
<1> QED BY <1>4, <1>5, <1>7, <1>8, <1>2 DEF Accounted

Stored ==
  \/ \E key \in Keys : Store!Reuse(key) \/ Store!Produce(key) \/ Store!Damage(key)
  \/ \E chunk \in Chunks : Store!Deliver(chunk)
  \/ Store!Complete \/ Store!Abandon

LEMMA StoreRefines ==
  ASSUME [SessionNext]_sessionVars
  PROVE  Stored \/ UNCHANGED storeVars
<1>1. CASE SendRequest
  BY <1>1 DEF SendRequest, Stored
<1>2. CASE ReadChunk \/ CliSent \/ StreamSent \/ StoredDamage
  BY <1>2 DEF ReadChunk, CliSent, StreamSent, StoredDamage, Stored
<1>3. CASE CliAnswers
  BY <1>3 DEF CliAnswers, AbandonUpload, Stored
<1>4. ASSUME Settle PROVE Stored \/ UNCHANGED storeVars
  BY <1>4 DEF Settle, AbandonUpload, Stored
<1>5. CASE ResponseArrives \/ ExchangeTimesOut \/ ExchangeContinues
  BY <1>4, <1>5 DEF ResponseArrives, ExchangeTimesOut, ExchangeContinues
<1>6. CASE LinkAtRest \/ CloseLink \/ CloseTimer \/ Daemon \/ Continue
  BY <1>6 DEF LinkAtRest, CloseLink, CloseTimer, Daemon, Continue
<1>7. CASE UNCHANGED sessionVars
  BY <1>7 DEF sessionVars
<1> QED BY <1>1, <1>2, <1>3, <1>5, <1>6, <1>7 DEF SessionNext

(* The uploads that leave the archives kept as they are. *)
LEMMA UploadMoves ==
  ASSUME StoreInv, UNCHANGED <<entries, bytes>>,
         upload' # Store!NoUpload =>
           upload' \in Uploads /\ upload'.intact /\ upload'.whole = SizeOf[upload'.key]
  PROVE  StoreInv'
BY SameAccount DEF StoreInv

LEMMA ArchiveProduced ==
  ASSUME StoreInv, NEW key \in Keys, Store!Produce(key)
  PROVE  StoreInv'
<1> USE DEF StoreInv
<1>1. /\ entries' = [k \in DOMAIN entries \ {key} |-> entries[k]]
      /\ upload' = [key |-> key, reused |-> FALSE, length |-> 0, retain |-> TRUE,
                    intact |-> TRUE, whole |-> SizeOf[key]]
  BY DEF Store!Produce, Store!Without, Store!Restrict
<1>2. /\ DOMAIN entries' = DOMAIN entries \ {key}
      /\ \A k \in DOMAIN entries' : entries'[k] = entries[k]
      /\ entries' \in [DOMAIN entries' -> [size : Nat, intact : BOOLEAN]]
  BY <1>1
<1>3. upload' \in Uploads /\ upload'.intact /\ upload'.whole = SizeOf[upload'.key]
  BY <1>1, SessionAssumption DEF Uploads
<1>4. CASE key \in DOMAIN entries
  <2>1. entries[key].size \in Nat
    BY <1>4
  <2>2. bytes' = Store!Max({0, bytes - entries[key].size})
    BY <1>4 DEF Store!Produce
  <2>3. bytes - entries[key].size \in Int
    BY <2>1
  <2>4. bytes' = IF bytes - entries[key].size >= 0 THEN bytes - entries[key].size ELSE 0
    BY <2>2, <2>3 DEF Store!Max
  <2>5. Accounted' /\ bytes' \in Nat /\ bytes' <= bytes
    BY <1>2, <1>4, <2>1, <2>4, EvictedAccount
  <2>6. bytes' <= StoreLimit
    BY <2>5, SessionAssumption
  <2> QED BY <1>2, <1>3, <2>5, <2>6
<1>5. CASE key \notin DOMAIN entries
  <2>1. DOMAIN entries' = DOMAIN entries /\ bytes' = bytes
    BY <1>2, <1>5 DEF Store!Produce
  <2>2. Accounted'
    BY <1>2, <2>1, SameAccount
  <2> QED BY <1>2, <1>3, <2>1, <2>2
<1> QED BY <1>4, <1>5

LEMMA ArchiveComplete ==
  ASSUME StoreInv, Store!Complete
  PROVE  StoreInv'
<1> USE DEF StoreInv
<1>1. /\ upload # Store!NoUpload /\ upload.length = upload.whole /\ upload' = Store!NoUpload
      /\ upload \in Uploads /\ upload.intact /\ upload.whole = SizeOf[upload.key]
  BY DEF Store!Complete
<1>2. CASE upload.retain /\ upload.key \notin DOMAIN entries /\ upload.length <= StoreLimit - bytes
  <2>1. /\ entries' = [k \in DOMAIN entries \cup {upload.key} |->
                         IF k = upload.key THEN [size |-> upload.length, intact |-> upload.intact]
                         ELSE entries[k]]
        /\ bytes' = bytes + upload.length
    BY <1>2 DEF Store!Complete, Store!With
  <2>2. upload.key \in Keys /\ upload.length \in Nat /\ upload.intact \in BOOLEAN
    BY <1>1 DEF Uploads
  <2>3. /\ DOMAIN entries' = DOMAIN entries \cup {upload.key}
        /\ entries'[upload.key] = [size |-> upload.length, intact |-> upload.intact]
        /\ \A k \in DOMAIN entries : entries'[k] = entries[k]
    BY <1>2, <2>1
  <2>4. entries' \in [DOMAIN entries' -> [size : Nat, intact : BOOLEAN]]
    BY <2>1, <2>2
  <2>5. \A k \in DOMAIN entries : entries[k].size \in Nat /\ entries'[k].size = entries[k].size
    BY <2>3
  <2>6. entries'[upload.key].size = upload.length
    BY <2>3
  <2>7. Accounted'
    BY <1>2, <2>1, <2>2, <2>3, <2>5, <2>6, KeptAccount
  <2>8. bytes' \in Nat /\ bytes' <= StoreLimit
    BY <1>2, <2>1, <2>2, SessionAssumption
  <2> QED BY <1>1, <2>2, <2>3, <2>4, <2>6, <2>7, <2>8
<1>3. CASE ~(upload.retain /\ upload.key \notin DOMAIN entries /\ upload.length <= StoreLimit - bytes)
  BY <1>1, <1>3, UploadMoves DEF Store!Complete
<1> QED BY <1>2, <1>3

LEMMA ArchiveDamaged ==
  ASSUME StoreInv, NEW key \in Keys, Store!Damage(key)
  PROVE  StoreInv'
<1> USE DEF StoreInv
<1>1. /\ entries' = [entries EXCEPT ![key].intact = FALSE]
      /\ UNCHANGED <<bytes, upload>> /\ key \in DOMAIN entries
  BY DEF Store!Damage
<1>2. /\ DOMAIN entries' = DOMAIN entries
      /\ entries' \in [DOMAIN entries -> [size : Nat, intact : BOOLEAN]]
      /\ \A k \in DOMAIN entries : entries'[k].size = entries[k].size
  BY <1>1
<1>3. Accounted'
  BY <1>1, <1>2, SameAccount
<1> QED BY <1>1, <1>2, <1>3

LEMMA StoreStep ==
  ASSUME StoreInv, Stored \/ UNCHANGED storeVars
  PROVE  StoreInv'
<1>1. ASSUME NEW key \in Keys, Store!Reuse(key) PROVE StoreInv'
  <2>1. key \in DOMAIN entries /\ entries[key].intact /\ UNCHANGED <<entries, bytes>>
    BY <1>1 DEF Store!Reuse, Store!Usable
  <2>2. upload' = [key |-> key, reused |-> TRUE, length |-> 0, retain |-> FALSE,
                   intact |-> entries[key].intact, whole |-> entries[key].size]
    BY <1>1 DEF Store!Reuse
  <2>3. entries[key].size \in Nat /\ entries[key].intact \in BOOLEAN /\ entries[key].size = SizeOf[key]
    BY <2>1 DEF StoreInv
  <2> QED BY <2>1, <2>2, <2>3, UploadMoves DEF Uploads
<1>2. ASSUME NEW chunk \in Chunks, Store!Deliver(chunk) PROVE StoreInv'
  <2>1. /\ upload \in Uploads /\ upload.intact /\ upload.whole = SizeOf[upload.key]
        /\ upload' = [upload EXCEPT !.length = @ + chunk, !.retain = Store!StillRetained(chunk)]
        /\ UNCHANGED <<entries, bytes>>
    BY <1>2 DEF Store!Deliver, StoreInv
  <2>2. chunk \in Nat /\ Store!StillRetained(chunk) \in BOOLEAN
    BY <2>1, SessionAssumption DEF Store!StillRetained, Uploads
  <2>3. upload.length + chunk \in Nat
    BY <2>1, <2>2 DEF Uploads
  <2>4. upload' = [upload EXCEPT !.length = upload.length + chunk, !.retain = Store!StillRetained(chunk)]
    BY <2>1
  <2>5. upload' \in Uploads
    BY <2>1, <2>2, <2>3, <2>4 DEF Uploads
  <2>6. upload'.intact = upload.intact /\ upload'.whole = upload.whole /\ upload'.key = upload.key
    BY <2>1, <2>4 DEF Uploads
  <2> QED BY <2>1, <2>5, <2>6, UploadMoves
<1>3. CASE Store!Abandon
  BY <1>3, UploadMoves DEF Store!Abandon
<1>4. CASE UNCHANGED storeVars
  BY <1>4, UploadMoves DEF storeVars, StoreInv
<1> QED BY <1>1, <1>2, <1>3, <1>4, ArchiveProduced, ArchiveComplete, ArchiveDamaged DEF Stored

-----------------------------------------------------------------------------
(* The executions: each step is one of the backend that was taken.         *)

ExecutionsNext == Locally(A!ExecutionNext) \/ InContainers(SessionNext) \/ Tracing(T!TraceNext)

LEMMA OneBackend ==
  ASSUME [ExecutionsNext]_allVars
  PROVE  /\ A!ExecutionNext \/ UNCHANGED localVars
         /\ [SessionNext]_sessionVars
         /\ [T!TraceNext]_traceVars
BY DEF ExecutionsNext, Locally, InContainers, Tracing, allVars

(* For every process, every report and every adapter: what a local         *)
(* execution returns as completed, the process itself answered.            *)
THEOREM CompletedIsReal == ExecutionsSpec => []CompletionIsReal
<1>1. ExecutionsInit => LocalInv
  BY LocalInit DEF ExecutionsInit
<1>2. LocalInv /\ [ExecutionsNext]_allVars => LocalInv'
  BY OneBackend, LocalStep
<1>3. LocalInv => CompletionIsReal
  BY LocalConclusions DEF CompletionIsReal
<1> QED BY <1>1, <1>2, <1>3, PTL DEF ExecutionsSpec, ExecutionsNext

(* For every process, every report and every adapter: a kill and a green   *)
(* run are earned.                                                         *)
THEOREM ConclusionEarned == ExecutionsSpec => []ConclusionIsEarned
<1>1. ExecutionsInit => LocalInv
  BY LocalInit DEF ExecutionsInit
<1>2. LocalInv /\ [ExecutionsNext]_allVars => LocalInv'
  BY OneBackend, LocalStep
<1>3. LocalInv => ConclusionIsEarned
  BY LocalConclusions DEF ConclusionIsEarned
<1> QED BY <1>1, <1>2, <1>3, PTL DEF ExecutionsSpec, ExecutionsNext

(* For every limit of the queue and any number of operations: a trace      *)
(* without a warning is complete, and one with a warning still begins with *)
(* whole records in their order.                                           *)
THEOREM TraceHonest == ExecutionsSpec => []TraceIsHonest
<1>1. ExecutionsInit => TraceInv
  BY TraceInit DEF ExecutionsInit
<1>2. TraceInv /\ [ExecutionsNext]_allVars => TraceInv'
  BY OneBackend, TraceStep
<1>3. TraceInv => TraceIsHonest
  BY TraceConcludes DEF TraceIsHonest
<1> QED BY <1>1, <1>2, <1>3, PTL DEF ExecutionsSpec, ExecutionsNext

(* For every daemon, process and peer, and for every budget: what holds of *)
(* the requests, the control connection and the archives kept.             *)
SessionInv == ContainerInv /\ LinkInv /\ StoreInv

LEMMA SessionInvariant == ExecutionsSpec => []SessionInv
<1>1. ExecutionsInit => SessionInv
  BY ContainerInit, LinkInit, StoreInit DEF ExecutionsInit, SessionInit, SessionInv
<1>2. SessionInv /\ [ExecutionsNext]_allVars => SessionInv'
  BY OneBackend, ContainerStep, LinkRefines, LinkStep, StoreRefines, StoreStep DEF SessionInv
<1> QED BY <1>1, <1>2, PTL DEF ExecutionsSpec, ExecutionsNext

(* A result is what the process did on the whole workspace, whatever is    *)
(* lost, refused or carried out late; and for any workspaces, sizes and    *)
(* budget the archives kept are whole and accounted for.                   *)
THEOREM WholeAndGenuine == ExecutionsSpec => []GenuineOnWhole
<1>1. SessionInv => GenuineOnWhole
  BY StoreConcludes DEF SessionInv, ContainerInv, GenuineOnWhole
<1> QED BY <1>1, SessionInvariant, PTL

(* An execution that returns has removed the container it knows of.        *)
THEOREM Removed == ExecutionsSpec => []RemovedOrReported
<1>1. SessionInv => RemovedOrReported
  BY DEF SessionInv, ContainerInv
<1> QED BY <1>1, SessionInvariant, PTL

(* A connection that can be used carries nothing of an earlier request, for*)
(* any limit of a response; and after one in doubt nothing is created.     *)
THEOREM DoubtEndsIt == ExecutionsSpec => []DoubtIsFinal
<1>1. ContainerInv => NothingAfterPoison
  <2> SUFFICES ASSUME ContainerInv PROVE NothingAfterPoison
    OBVIOUS
  <2> QED BY DEF ContainerInv, Refused, NothingAfterPoison
<1>2. SessionInv => DoubtIsFinal
  BY <1>1, LinkConcludes DEF SessionInv, DoubtIsFinal
<1> QED BY <1>2, SessionInvariant, PTL

(* What is in doubt is not repeated: a request that creates, fills or      *)
(* starts a container is sent only while none is out, none is late, and    *)
(* what it does has not been done.                                         *)
FreshRequest ==
  \A op \in {"create", "upload", "start"} :
    (call' \notin {call, NoCall} /\ call'.op = op /\ ~call'.applied) =>
      /\ call = NoCall
      /\ op \notin late
      /\ op = "create" => container.state = "absent"
      /\ op = "upload" => ~container.whole

LEMMA SentFresh ==
  ASSUME ContainerInv, [SessionNext]_sessionVars
  PROVE  [FreshRequest]_vars
<1> SUFFICES ASSUME call' # call, call' # NoCall, ~call'.applied, NEW op \in {"create", "upload", "start"},
                    call'.op = op
             PROVE  /\ call = NoCall /\ op \notin late
                    /\ op = "create" => container.state = "absent"
                    /\ op = "upload" => ~container.whole
  BY DEF FreshRequest
<1>1. ASSUME NEW ok \in BOOLEAN, Reply(ok) PROVE FALSE
  <2>1. Retry
    BY <1>1 DEF Reply, CreateAnswered, UploadAnswered, KillAnswered, DownloadAnswered, RmAnswered,
                InspectAnswered
  <2>2. call.op \in {"kill", "rm"} /\ call' = Request(call.op, "cli")
    BY <2>1 DEF Retry, Retried
  <2> QED BY <2>2 DEF Request
<1>2. ~RuntimeThrows /\ ~NextExecution /\ ~ConnectionBreaks
  BY DEF RuntimeThrows, NextExecution, ConnectionBreaks
<1>3. ASSUME NEW last \in Attached, StartEnds(last) PROVE FALSE
  BY <1>3 DEF StartEnds
<1>4. ~CarryOut
  <2> SUFFICES ASSUME CarryOut PROVE FALSE
    OBVIOUS
  <2>1. call # NoCall /\ call \in Calls
    BY DEF CarryOut, ContainerInv, ContainerTypes
  <2>2. call'.applied
    BY <2>1 DEF CarryOut, Calls
  <2> QED BY <2>2
<1>5. ASSUME NEW late1 \in Requests, CarryOutLate(late1) PROVE FALSE
  BY <1>5 DEF CarryOutLate
<1>6. ASSUME NEW code \in Codes, ProcessEnds(code) PROVE FALSE
  BY <1>6 DEF ProcessEnds
<1>7. Send
  BY <1>1, <1>2, <1>3, <1>4, <1>5, <1>6, SessionRefines DEF Next, Engine, vars
<1>8. call = NoCall /\ pc = op
  BY <1>7 DEF Send, Request
<1> QED BY <1>8 DEF ContainerInv, Reached, Applied, NoContainer

THEOREM NothingRepeated == ExecutionsSpec => NotRepeated
<1>1. SessionInv /\ [ExecutionsNext]_allVars => [FreshRequest]_vars
  BY OneBackend, SentFresh DEF SessionInv
<1> QED BY <1>1, SessionInvariant, PTL DEF ExecutionsSpec, ExecutionsNext, NotRepeated, FreshRequest

=============================================================================
