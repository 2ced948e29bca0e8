# AssertLedger: verification project

AssertLedger runs one candidate test against several versions ("worlds") of a repository, controls
included, and turns the observations into a verdict and a replayable manifest. Around that core it plans
proof work for changes, qualifies test orchestrations, profiles and benchmarks tests, and evaluates corpora.
This directory holds TLA+ modules translated from `src/src`, the TLC configurations that check them, and
TLAPS proofs about the core. Paths below are relative to the repository root; line numbers are those of the
modelled commit. `PROJECT.json` maps every definition to the lines it models.

## 1. Inventory

| Component | State it keeps | Operations | Talks to | Module |
| --- | --- | --- | --- | --- |
| **Decision core** `core/index.ts` 560–1060 | none: a function of the evidence | `decideEvidence`, `assessCandidate`, `selectCandidates` | engine, replay | Evidence, Selection, Conclusions |
| **Campaign engine** `engine/index.ts` 6700–7329 | campaign root, workspace, control connection, observations | `verifyCampaign`, `executeObservation` | snapshot, container, processes, core | Campaign, Ledger |
| **Campaign snapshot** `engine/index.ts` 669–1128, 5881–6017 | the temporary copy, what the walks collected, the index shared by the copy workers | `walkFiles`, `planCampaignSnapshot`, `copyRepository`, `copyPlannedTree`, `snapshotTreeDigest` | the repository, which others edit | Snapshot |
| **Test closure** `engine/test-closure.ts` | files and links kept, the queue of files to scan | `computeTestClosure`, `assessRepositoryLinks` | snapshot | TestClosure |
| **Adapters** `engine/index.ts` 4900–5043, 5861–5879 | one process result and one report | report readers, `classifyNodeTest`, `normalizeRuntimeFacts` | bounded process, container | Adapter |
| **Bounded process** `engine/index.ts` 362–604 | child, two timers, output accumulator, the promise | `runBoundedProcess`, `terminateProcessTree` | the operating system | BoundedProcess, AdapterExecution |
| **Container backend** `engine/container.ts` | the container of an execution, the upload cache | `runContainerExecution`, `startAndCollect` | the daemon | ContainerExecution, UploadCache |
| **Docker control connection** `engine/docker-stdio.ts` | the subprocess, the open exchange, its timer | `exchange`, `run`, `close` | the daemon | StdioExchange, ContainerSession |
| **Runtime trace** `engine/runtime-trace.ts` | a bounded queue, a worker thread, a file | `withRuntimeTrace`, `traceOperation` | every execution | RuntimeTrace |
| **Git regression publisher** `engine/git-regression.ts` | output directory, files owned, disposable snapshot | `qualify`, `writeEvidence`, `cleanupReservedOutput` | engine, other publishers | GitEvidence |
| **Witness import** `engine/witness-import.ts` | output directory | `witnessVerificationRequest`, `importWitness` | engine, the repository | WitnessImport |
| **Initialization, setup, connection** `engine/setup.ts`, `engine/connection.ts`, `engine/index.ts` 2722–3488 | managed files, what this run created | `setupRepository`, `connectClient`, `disconnectClient` | the file system, which others edit | Setup |
| **Orchestration qualification** `engine/qualification.ts`, `core/qualification.ts` | workspace of each action, the receipt | `qualifyOrchestration`, `createQualificationReceipt`, replay, CI admission | bounded process | Receipt, Qualification |
| **Proof planner** `proof-planner/` | none; its caller keeps plans and evidence | `planAssurance`, `parseAssurancePolicy`, `carryOverEvidence` | its caller | AssurancePolicy, ProofPlanner, ChangePlanning |
| **Manifests, profiles, export** `core/index.ts` 1029–2104 | documents | `sealManifestArtifact`, `createAgenticProfile`, `createEvidenceExport` and their replays | core, consumers | Manifest, Benchmark, Artifacts |
| **Benchmark acquisition** `engine/index.ts` 7331–7844, `core/index.ts` 2105–2900 | cache directories, measurements | `acquireAgenticBenchmark`, `createAgenticBenchmark`, `createAgenticProfileV2` and their replays | engine, processes | Benchmark, Acquisition, Artifacts |
| **Agentic corpus** `core/index.ts` 2900–4000, `evaluation/agentic-corpus.ts` | documents of several principals | sidecars, commitment, reveal, allocation, experiment plan, artifact, replay | – | CorpusProvenance, CorpusExperiment, CorpusStudy, Conclusions |
| **Runtime doctor, admission of a runtime** `engine/runtime-doctor.ts`, `engine/index.ts` 3501–3660, 5045–5515, 6253–6670 | what the probes established, temporary directories | `probeRepositoryRuntime`, the identity probes, the synthetic preflights | process, container, campaign | RuntimeProbes, Conclusions |
| **CLI, MCP, SDK** `cli.ts`, `mcp/`, `sdk/` | none | parsing, exit codes, delegation | everything | – |
| **Contracts** `contracts/` | none | schemas and refinements | everything | in the modules that use a document |
| **Diagnostics, integrations, scripts, site** | none | wording, the Bun drivers, build tools | – | – |

What is hard, and what makes each part correct:

* **Core.** The order of the gates decides between "disproved" and "not known"; ties and the early break
  of the selection decide whether a verdict depends on the order of a request. Correct: `VERIFIED` and
  `REJECTED` are true of the raw observations, and the decision is unique.
* **Engine.** Every stage may throw with something to release; the release may fail too. Correct: a
  manifest is returned only when nothing is left behind, controls come first, nothing runs twice.
* **Snapshot and closure.** The repository changes while it is walked and copied, and links, mappings and
  workspaces decide what a test loads. Correct: what is executed is what the digest binds, within the
  budgets, and a test finds in the copy what it finds in the repository.
* **Process, connection, container, trace.** Callbacks race; answers get lost or come late; requests that were
  given up are carried out. Correct: one result per call, never a made-up one; nothing in doubt is repeated;
  a trace without a warning is complete.
* **Runtime.** An executable is asked several times, and may be another one each time. Correct: it is admitted
  only if a probe showed what it credits as a failure; the doctor blames what is wrong, first things first.
* **Publisher, importer, setup.** Killed between two file operations, and other programs write in the same
  place. Correct: published means complete; a rollback touches only what the run made, and reports the rest.
* **Planner.** A long life of small changes, each harmless. Correct: reused evidence still holds, plans only
  escalate, what a plan leaves out stays unneeded.
* **Documents and corpora.** Stored, edited, sealed again. Correct: replay accepts what was issued and refuses
  whatever changes a conclusion, as far as the document binds it.

`PROJECT.json` lists the hazards one by one, at their lines, with the properties that cover them.

## 2. Modules

```
  Evidence ------+---- Selection                     the decision core
     |           |
     |  Adapter -+---- Campaign ---- Campaign_proofs the engine, and what it promises: Ledger
     |     |                :
     |     |                :  the stages of a campaign, each with a module of its own
     |     +---- AdapterExecution ---- BoundedProcess    a local execution: its process, its report
     |           ContainerSession                        all executions in containers, composed of
     |              ContainerExecution                     the requests to the daemon,
     |              StdioExchange                          the connection that carries them,
     |              UploadCache                            the archives they upload
     |           RuntimeTrace                            the diagnostics beside an execution
     |           Snapshot, TestClosure                   what is executed
     |
     |           MCExecutions ---- Executions_proofs     all of these but the last line, proved about
     |
     +---- Manifest ---- Benchmark ---- Acquisition
                         Artifacts (all of them)         documents, edits and replay
                         Artifacts_proofs ---- Sums_proofs

  RuntimeProbes                                          what may execute
  GitEvidence, WitnessImport, Setup                      publication on disk
     RepositoryFiles ---- RepositoryFiles_proofs         these and Snapshot, one per behaviour
  Receipt ---- Qualification                             an orchestration plan, its receipt
               Qualification_proofs
  AssurancePolicy - ProofPlanner - ChangePlanning        a change and its plans
                                   ChangePlanning_proofs
  CorpusProvenance - CorpusExperiment - CorpusStudy      a corpus and its study
     Conclusions ---- Conclusions_proofs                 this, Qualification, Selection and
                                                           RuntimeProbes, one per behaviour
```

**Evidence** holds the core as operators on a set of observations: `Acceptable` (what `parseInput`
refuses), the gates of `assessCandidate` in their order (`Complete`, `Stable`, discovery, execution,
`GreenIn`, `TargetPassed`), `ControlsAreValid`, and `DecisionsFor`. The selection is given by what its
result satisfies (`IsSelection`), so that Evidence has no recursion and can be used in proofs.
**Selection** is the `while` loop of `selectCandidates`, one round per step; `ComputesSelection` says
that it ends with the only sequence `IsSelection` admits.

**Adapter** is the pure classification of a (process result, report) pair; **AdapterExecution** takes
the steps of one execution. What a campaign's executions may end in is a constant, `ResultsOf(candidate,
world)`, which `CampaignAssumption` bounds by `Adapter!Observable`: a campaign only meets observations that
a real execution can produce.

**Campaign** has one action per awaited stage of `verifyCampaign`, each with the failure that makes the
stage throw: `PrepareBackend`, `OpenControl`/`UseCli`, `Preflight`, `TakeSnapshot`, then
`CreateWorkspace`–`Execute`–`Record` for each execution, `Seal`, `RemoveRoot`, `CloseControl`. `cursor`
is the triple of loop variables, `pending` the value `executeObservation` holds while its `finally`
clause runs, `failed` the error that propagates. **Ledger** is the abstract promise: each job once, in
any order, then one decision on the complete evidence, or none at all. Campaign implements it with
`evidence <- observations` and `verdict <- CallerVerdict`.

**Snapshot** models one directory of files and links. Up to version 4 of the request the tree is listed
again and copied as found (`Relist`, `Filter`, `CopyEntry`); in version 5 workers share `next` and copy
the planned files (`Take`, `EnsureParent`, `CopyFile`), then the links are made. `Edit` changes any entry
between any two steps. A content is told apart by its size.

**BoundedProcess**: each action is one callback of `runBoundedProcess` or one step of the processes
outside; `descendants` holds "close" back. **AdapterExecution** extends it and Adapter: once the promise has
settled, the report is read or refused and the pair classified (`ReportFound`, `ReportUnreadable`,
`Classify`), while callbacks of the process may still come in.

**ContainerExecution**: `call` is the request that is out, `late` the requests given up that the daemon may
still carry out. **StdioExchange** has one action per callback of an exchange on the control connection.
**UploadCache** is the archive store; an archive is read chunk by chunk and may be abandoned at any.
**ContainerSession** composes the three. A request over the control connection is an exchange, and the step
that settles the exchange (`Settle`) answers the request, because the promise resumes the engine in the same
turn of the event loop. The stream of an upload is the archive being read, so `StreamSent` ends both, and a
request that fails abandons the archive (`AbandonUpload`). The number of executions is not bounded.

**RuntimeTrace**: the session, its queue, the thread and the messages between them, each message and each
end of the thread a step of its own; `trace` is the file, of which the last record may be torn.

**RuntimeProbes** is the admission of an executable, by a campaign or by the doctor. An executable is a record of
what it answers (version, whether it loads the runner, the one probe it gets wrong and how); `contents` says which
one each file holds, a wrapper starts the other file, and `Replace` changes one at any moment. `check` is the
doctor's check or the part of it that comes next; `passed`, the number of those that passed, is what its result is
made of, which is parsed by the contract before it is returned. `stale` marks the window that the code leaves open.

**GitEvidence**: publishers with the same output directory; `pc` is the next file operation of each,
`owned` its `ownedFiles`. **WitnessImport**: importers of recorded witnesses with the same output directory.
Each compares its targets with the repository one by one while the files are edited, builds the campaign
(`WitnessVerificationRequest`), has it admitted by the contract and by the engine (`ParseRequest`), then
reserves, writes and publishes; its clean-up removes three names, whoever wrote them. **Setup**: `disk` holds
for each managed file what it contains and who wrote it last; `installed`, `regenerated` and `created` are the
lists the code rolls back.

**TestClosure**: `walk` is the state of the closure (files, links, directories, the queue), and each step
takes one file off the queue: it is scanned, configured by its tsconfig, and its specifiers are resolved through
aliases, mappings, workspace packages, `node_modules` and links. Then the links are assessed and the files
planned. Its properties compare the *loads* of the tests in the repository with those in the copy; the loads
are defined without the closure, by what the runtime does.

**Receipt** says how one action becomes an observation: a *run* is everything its processes did and left
(exits, output, report, trace, tests), `ExecuteAction` a function of it, one branch per adapter. It also
holds the gates: `NoIssues` (`observationIssues`), `Status` of an obligation, `Decision`, `CreateReceipt`,
`Replay`, `VerifyCi`. **Qualification** takes the steps of `qualifyOrchestration`: the subject is compared
(`SnapshotInputs`, `ProbeTools`), each slot executed, the subject read again (`RecheckInputs`,
`RecheckEngine`, `RecheckToolsAndCreate`), the domains removed; then the receipt is a file that is damaged,
replayed or extended by a pipeline's statement. `happened` keeps the runs, so that the properties can ask
whether a decision was earned without trusting the observations.

**AssurancePolicy** holds the default policy as data and the minimum a caller's policy must reach.
**ProofPlanner** is `planCore` and what is derived from a plan (partition, escalations, doubts) as operators
on an input. **ChangePlanning** says which evidence of one plan the next may reuse (`Reusable`, which is
`carryOverEvidence`), and is the life of a change: commits, rebases, reports, lessons and policies, each
followed by a new plan and the carry-over.
`EvidenceStillHolds` states what reuse must respect independently of `carry-over.ts`: evidence on another
runtime tree holds only if it is about nothing but documentation and its surface was, and is, documentation; `ExemptionsHold` and
`DoubtsAreAnswered` compare what a plan says it need not do, or leaves open, with what it asks for.

**Manifest** is the document with its two digests, its replay and its export; a digest is the value it is taken of.
**Benchmark** is what is computed from a manifest: the first profile, and the benchmark with its second profile. **Acquisition** is the
measuring engine: a fresh campaign on a snapshot, then every warm-up and measurement with its cache directory,
while the snapshot, the reporter and the caches may be edited; a campaign or a measurement that throws ends it
without a document. **Artifacts** lets a document be made, changed in
one place, its digests recomputed, and replayed.

**CorpusProvenance** (who may vouch for a case) and **CorpusExperiment** (shares, commitment, the seed and the
split; plan, artifact, replay from the bytes of the evidence) are operators on documents; a signature is the pair of its key and its message. **CorpusStudy** takes the principals through the
study, with at most one mishap on the way.

Modules named MC… give the constants their values. MCExecutions, MCFiles and MCEvidence each hold several
components, of which one runs in each behaviour: the others stay in an initial state. They do not interact in
the code either; they share a run because they answer one question. **RepositoryFiles** composes Snapshot,
Setup, GitEvidence and WitnessImport in this way, without values, so that theorems can be stated of all four;
MCFiles extends it with the values and with the repositories of TestClosure. **Conclusions** does the same for
Qualification, CorpusStudy, Selection and RuntimeProbes, and MCEvidence gives its values. `Mutant` definitions are
variations of a definition with a plausible mistake, used only to show that a property can fail.

## 3. Runs

| Run | Question | Bounds, and why they are enough |
| --- | --- | --- |
| `campaign` | Are the verdicts true of the observations? Is an eligible candidate lost? Does a lack of evidence ever reject one? | One world of each kind and a second, optional target; two candidates and two attempts, which may differ. What an execution may end in depends on candidate and world (`ResultsOf`), so that every gate decides somewhere: both may let a target survive; `c1` may also fail on the neutral world, or on the optional target by a failure that is not its own; `c2` may time out on the reference world and on no other; the control of the neutral world may be broken in any attempt. Every combination of these occurs, one candidate eligible beside an unstable, inconclusive or invalid other one among them. |
| `campaign_modes` | Does a campaign end, release everything and implement the ledger, whatever fails? | One candidate and attempt, three kinds of control, four outcomes that differ at every gate; every isolation and transport, a failure at every stage and at every release. |
| `campaign_control_name` | (violation) finding 1 | The candidate is called `control`. |
| `executions` | Does each execution settle? Is anything but a clean success green, or anything but a pure assertion failure a kill? Is a container's result genuine, what was created removed or reported, anything in doubt repeated? Is a trace honest, and does it hold nobody up? | Local: output up to 5 in chunks of 1–2 around a limit of 3 (below, at, over, within a chunk); counts 0 and 1, as the classifier compares counts with each other and with zero only. Containers: exit codes 0, 1 and the kill code; a response limit of 1; two archives that each fit the budget, not together; any number of executions. Trace: four operations and a queue of two, so that it fills and overflows. |
| `container_leak` | (violation) finding 2 | Exit codes 0, 1 and the kill code. |
| `files` | Does a test find its files in the snapshot? Does the executed tree match its digest and budgets? What is left after a publisher, an importer or a setup that failed or was killed? | Closure: 4,780 repositories and requests: ten sets of links against fifteen imports, with aliases, mappings, workspaces, preloads and overlays one at a time; chains of links up to the hop limit. Snapshot: three entries, two workers (one more file than workers), two edits, one for growth and one for a replaced link. Setup: two runs in sequence, every mixture of present, stale and foreign files. Two publishers, two importers: a third meets the same directory as the second. Witnesses: each reason of a refusal once, and the limits of the numbers. |
| `closure_workspace` | (violation) finding 4 | A repository of `files` with an installed package that depends on a workspace package, which a second test imports; both orders of the tests. |
| `setup_edit` | (violation) finding 3 | One run, two edits. |
| `evidence` | Is `QUALIFIED` earned by the runs themselves, by one subject, and does a replay accept exactly what was issued? Is a corpus verdict genuine? Is an executable admitted that it should not be? Does the loop compute the selection? | Qualification: four plans over every adapter but `ci-config`, one world of each kind and two attempts, two to four runs per action (among them a failure in a file of another suite, and a report that contradicts the exit), one edit; a receipt is damaged only if it still claims `QUALIFIED`, as no other damage could mislead. Runtime: eleven executables (two right ones, so that a replacement need not show, a later version, an unsupported one, one without the runner, six that get one probe wrong, among them each respect that is compared), a wrapper, the campaign's three adapters on the host and in a container, the doctor in every condition of the repository, one replacement, one trouble. Corpus: two sources of two cases (both sides of a split), two keys of one person, fourteen mishaps. Selection: every assessment of three candidates over three targets, at most two selected: the maximum, the break and every tie-break occur. |
| `planner` | Does evidence that was carried over still hold? Do plans only escalate, do later plans do what earlier ones foretold, and does a plan ask for the evidence its doubts name? | Wide: one or two surfaces of every role, five analyses, four claims, every kind of signal, twelve policies, one step. Deep: one product surface with its test and its document, two contents each (so that a revert restores a digest), four steps: change, observe, correct, revert. |
| `planner_signal` | (violation) finding 5 | The inputs of `planner`. |
| `artifacts` | Is what was measured what the result says? Does any document claim more than was observed? Does replay refuse every edit that changes a conclusion? | Two candidates of ten behaviours, three targets with a weight threshold between two and three of them, two attempts; two lanes that times separate; five acquisition requests, one measurement that ends otherwise; one edit, of any field that a digest or a semantic check covers. |

`CHECK_DEADLOCK FALSE` is set where the modelled program ends: a campaign, a process, a publisher or importer
that is done, a qualification that threw, a document that was replayed, a change after its last step.

**Bounds in guards.** `MaximumReplacements` (of executables), `MaximumTotal` (output produced), `MaximumRecords` (operations traced), `MaximumEdits`
(edits of files), `MaximumRuns` (setups), `steps` of a study of the planner, and `MaxIrregular` (measurements
that end otherwise) limit how often the environment acts; all other constants are values of the code or of a
request.

### Fairness

* *Campaign* `WF(Next)`: every stage is a file operation or bounded by a process timeout (that is what
  `ExecutionsEnd` shows of them), and the engine awaits nothing else.
* *AdapterExecution*: an armed timer fires, "close" is emitted once the process and its pipes are gone, and a
  settled input is noticed. Nothing is assumed of the process, of its descendants or of who reads the input.
* *ContainerSession*: a request is sent when it is due; a command is answered, at the latest by its timeout;
  the timers of an exchange and of `close` fire. The daemon, the process in the container and the peer of
  the connection owe nothing.
* *RuntimeTrace*: a worker is created or fails to be, a traced operation ends, and the two timers of the session
  fire. The worker thread owes nothing: it may never answer.

### Findings

1. **A candidate named `control`** (`campaign_control_name`). Run identifiers are
   `` `${candidate?.id ?? "control"}:…` `` (`engine/index.ts` 6164), and `control` is a legal candidate
   identifier. Its runs collide with the control runs, and after the whole campaign has been executed the
   core refuses the evidence: `ENGINE_ERROR`, where `docs/proof-model.md` 91 promises `INCONCLUSIVE`.
   The theorem `NeverEngineError` proves that no other name does this.
2. **A container that is not removed** (`container_leak`). When `create` is given up but carried out, and
   the removal fails or comes too early, the container stays and the execution returns an ordinary
   `INFRA_ERROR` (`engine/container.ts` 796), where the comment at 707 says "always removes that container".
3. **An edit removed by a rollback** (`setup_edit`). `rollbackCreated` (`engine/connection.ts` 378) removes
   an artifact even when its inspection says that it was changed; `docs/developer-experience.md` 25 says that
   a changed file is preserved.
4. **A workspace package that is kept but not scanned** (`closure_workspace`). `includePackage`
   (`engine/test-closure.ts` 371) keeps the files of a workspace package when an installed package depends on
   it; a later import of the package finds them present and does not scan them, where the comment at 463 says
   "keep every file of it and scan them". In the other order of the same imports they are scanned.
5. **A signal that takes a requirement back** (`planner_signal`). An `UNKNOWN_DEPENDENCY` makes the impact
   unbounded, so that a job's failure is no longer attributed to the infrastructure and the plan drops
   `AFFECTED_JOB_RERUN` (`proof-planner/plan.ts` 403); the title of the test at
   `tests/proof-planner.test.ts` 1071 says that no requirement is dropped. `SignalsOnlyEscalate` shows that this is the only
   one, and that level and status never fall.

Smaller observations, which no document of the repository contradicts and no run states:

* A witness whose provenance and neutral reason together exceed 1,021 characters is a valid import request, but the
  provenance of its neutral world (`engine/witness-import.ts` 203) is then longer than `WorldSchema` admits
  (`contracts/index.ts` 45), and the campaign is refused with `REQUEST_SCHEMA_INVALID` before anything ran.
* The importer compares the targets with the repository before the snapshot is taken: a target edited in
  between goes unnoticed, as the overlay replaces it in the target world but not in the reference.
* The closure differs from the runtime in a few repositories, which the instances leave out: a link `a` to a
  directory beside a file `a.ts`, or to `lib` beside `lib.ts`, keeps another file than the one loaded;
  without followed links a mapping in somebody else's tsconfig hides an installed package; a `tsconfig.json`
  that is a link is read only if its target is discovered; the preloads of a `bunfig.toml` that is a link are
  not followed.
* A benchmark whose source was not verified (`SOURCE_NOT_VERIFIED`) never replays as valid, as
  `docs/agentic-benchmark.md` 44–48 says. The reason `TARGET_STRENGTH_INSUFFICIENT` is unreachable.
* A change of which everything is transitive and documentation, with unknowns that are localized, is bounded
  uncertain, and its plan states a doubt that names `TARGETED_REGRESSION` (`plan.ts` 1602); but the fact
  `impact:localized-unknowns` is said of the subjects of direct or run-time surfaces (1075), of which there are none,
  and the plan neither requires nor recommends it. `DoubtsAreAnswered` sets this case apart.
* An accepted policy may add triggers to facts that more evidence takes away (`product:refactor`,
  `impact:localized-unknowns`); what a plan exempts or foretells under such a policy need not hold. `ExemptionsHold`,
  `SignalsOnlyEscalate` and `EscalationsForetell` are properties of the triggers of the default policy.
* A plan of an experiment may replay as valid although the command of a `REQUIRED_SUITE` entry is another subject's.
* For a Bun repository in conflict after the adapter was detected, the initial plan has no files (`engine/index.ts`
  2817–2833), and the doctor throws `BUN_TEST_CONFIG_MISSING` (3544) before `runBunRuntimeDoctorChecks` could return
  its `RUNTIME_CONFIGURATION_BLOCKED` (`engine/runtime-doctor.ts` 89–103). RuntimeProbes has this behaviour.
* When a copy worker of version 5 fails, the others go on (`engine/index.ts` 5935) and may make the removed
  campaign root again. Snapshot has these behaviours.

## 4. Proofs

Eight modules prove theorems for every value of the constants; TLC shows the same formulas on the instances
above. Thirty-eight theorems are listed in `PROJECT.json`.

### `Campaign_proofs`: the engine and its core

For every number of worlds, candidates and attempts, every order of the request, every adapter and mode, and
every failure:

| Theorem | Says |
| --- | --- |
| `TypeCorrect` | every observation is of a job of the campaign, with a result its adapter can produce |
| `VerifiedEarned` | `VerifiedIsEarned`: complete green control, and for each selected candidate green references and neutrals and a kill of every required target, in every attempt |
| `RejectedConclusive` | `RejectedIsConclusive`: against every candidate there is a completed run that speaks against it |
| `EligibleSelected` | `EligibleIsSelected`: an eligible candidate on valid controls makes the campaign `VERIFIED`, unless a candidate is named `control`; in particular the core accepts the evidence |
| `ControlsComeFirst`, `NeverEngineError`, `AlwaysReleased` | `ControlsFirst`, `ReleasedOrReported`, and that the core accepts the gathered evidence unless a candidate is called `control` |
| `Implements` | Campaign refines Ledger, step by step |
| `Invariance` | the inductive invariant they all rest on |

None of these properties is inductive: a state whose manifest was sealed says nothing of what the loops had
done. `IInv` is `TypeOK` and four parts: `GatheredSoFar` (the observations are exactly the jobs the cursor has
passed), `PendingInLoops` (a result is pending, or a workspace held, only inside the loops), `SealedOnAll` (a
manifest exists only when the cursor is at the end, and it is a decision on the observations), and
`HeldInStage` (what is held in which phase). With them each action preserves `IInv`, and each property follows
from `IInv` and from lemmas about Evidence that do not mention the campaign.

### `Executions_proofs`: one execution, and what is beside it

| Theorem | States | For every |
| --- | --- | --- |
| `CompletedIsReal` | `CompletionIsReal` | process, descendants, input, limit and chunks of output |
| `ConclusionEarned` | `ConclusionIsEarned` | adapter, process and report with any counts |
| `TraceHonest` | `TraceIsHonest` | limit of the queue and number of records |
| `WholeAndGenuine` | `GenuineOnWhole` | daemon, process and peer; archives, sizes and budget |
| `Removed` | `RemovedOrReported` | daemon that answers, loses or carries out late whatever it likes |
| `DoubtEndsIt` | `DoubtIsFinal` | limit of a response and number of requests |
| `NothingRepeated` | `NotRepeated` (an action property) | as above |

* *A local execution* (`LocalInv`). A settled promise keeps its result while callbacks still come in, and what it
  holds agrees with the process as it is now: that needs that an ended process and a fired timer stay so, and
  that no timer is armed any more. A conclusion is then the classification of this process and of one report it
  could have written; what a classification admits is a lemma about Adapter alone (`ConclusionFacts`).
* *The trace* (`TraceInv`). The records accepted, those in the two message queues and those in the file are
  related position by position, in every phase of the session: a prefix is in the file, the rest is on its
  way, and whoever loses one warns. The bound of the queue is the invariant `Queue`, which counts what is
  under way in both directions.
* *Containers* (`ContainerInv`). `Reached` says for every next request what the daemon can have done by then,
  also by requests given up earlier; `Refused` says what a poisoned connection still admits. From both follow
  that an exit code is the process's own and that a request that creates, fills or starts is never sent twice.
* *The control connection* (`LinkInv`): a connection in use has consumed the whole answer of every
  exchange before.
* *The archives* (`StoreInv`). The bytes accounted for are the sum of the sizes. A sum over an arbitrary finite
  set is a fold, which the provers cannot unfold; the property (`Store!AddsUp`) therefore says that *some*
  function on the sets of keys adds up as a sum does and gives the bytes for all of them, and the proof carries
  that function along, key by key.

The theorems are about the whole composition: that every step of ContainerSession is a step of
ContainerExecution, of StdioExchange and of UploadCache, or leaves it alone, is proved first
(`SessionRefines`, `LinkRefines`, `StoreRefines`), and each component's invariant is proved of its own steps.

### `RepositoryFiles_proofs`: what is on disk

| Theorem | States | For every |
| --- | --- | --- |
| `CompletionMarked` | `ManifestMarksCompletion` | set of publishers and of importers that race, fail or are killed |
| `DirectoryGivenBack` | `FailureGivesBack` | as above |
| `DigestExecuted` | `DigestIsExecuted` | tree, order, number of copy workers and edits |
| `WithinBudgets` | `ExecutedWithinBudget` | as above, with any limits; every witness |
| `InitWhole` | `InitFilesWhole` | number of runs, kills and edits |
| `SetupAccounts` | `Accounted` | as above |
| `ChangesItsOwn` | `OnlyItsOwn` (an action property) | as above |
| `FilesInvariant` | `FilesInv`, the inductive invariant of all of them | |

* *Publishers and importers* (`PublisherInv`, `ImporterInv`). Whoever is between reservation and end holds the
  directory, and every file in it is the holder's; how many files are whole depends on where the holder is;
  a manifest is there only when its writer is done. The order of the clean-up matters: what
  remains of the list of names is a suffix of it, and the names already passed are gone.
* *The snapshot* (`SnapshotInv`). The copying is over only when every worker is idle; afterwards nothing changes
  the copy, and the digest is taken of what it then is. The budgets are sums over the copy and over the overlays of a
  witness: `MeasuredInv` says of the walk over the finished copy that the files and bytes it has counted are those of
  the entries it has visited, which `Sums_proofs` lets grow entry by entry; the campaign built for a witness gets its budgets from the same
  sums (`WitnessWithinBudgets`).
* *The setup* (`SetupInv`). It relates each file on the disk to the books (`installed`, `regenerated`, `created`) at
  every place the run can be at: which files of its own may exist, which one is half written, and which of
  them is not yet in a list. `InitBooked`, `ArtifactsBooked` and `TakenBack` are that relation before, during
  and after a rollback; `LockIsLast` and `TempFits` say what the temporary file may be.

### `ChangePlanning_proofs`: a change and its plans

| Theorem | States | For every |
| --- | --- | --- |
| `StillHolds` | `EvidenceStillHolds` | number of surfaces, signals, policies, contents and steps |
| `NeverLooser` | `StricterNeverWeaker` (an action property) | change, claims, signals and accepted policy |
| `DoubtsAnswered` | `DoubtsAreAnswered` | as above |

*Carried evidence.* A carry-over compares two successive plans, the property compares the present input with the one the
evidence was produced on, any number of plans ago. Four facts connect them. A step keeps the ids and roles of
the surfaces and, unless they are tests, what they exercise, and the runtime tree changes only with the
revision (`Keeps`, proved of every action). Ids stay unique and the observations of every plan are on record
(`PlanInv`, inductive because planning rejects repeated ids). A surface has the role it had when the evidence was
produced (`RolesThen`), so that what ignores the runtime tree was about documentation then as well. And whatever bears on a scope concerns it in the
sense of `carry-over.ts` (`BearsConcerns`), also for a test whose list changes: it bears on the scope after a
step only if it did before, or reuse was refused because the exercising tests differ (`BearsBefore`). Then
evidence that held and is reusable holds (`ReusedHolds`). The model of the author's steps has no action that adds
or removes a surface, and the theorem says nothing about such a step.

*A stricter policy.* `assertPolicyMinimum` compares a policy with the default one piece by piece; the theorem is about
the plans they make. What a plan asks for depends only on which fact is said of which subject, not on the surfaces and
references a fact has gathered: `CoreKinds` says so of the required and recommended kinds, `FloorIsGreatest` of the
levels. The other policy sees the same change, so all facts before the failed jobs are the same (`GivenSame`). It may
explain fewer of those failures, and what was an infrastructure failure is then an unattributed one (`JobKept`): the
facts are those of before, except what an explained job had said. The default policy has no floor for these
(`FloorsOfOthers`), asks only for the rerun of the job and for the attribution of its failure (`JobTriggers`, read off the
table), and an unattributed failure asks for the attribution too. Everything else an accepted policy asks for at
least at the same level, so that levels, status, required and recommended evidence stay (`LevelsKept`, `StatusKept`,
`RequiredKept`, `RecommendedKept`). `PolicyInv` says that the core is the plan of an input that was accepted.

*The doubts of a plan.* `ResidualUncertainty` is computed beside the evidence, from other conditions. `DoubtCases` lists what each
doubt stands on; one lemma per condition then finds the fact behind it and the trigger of the default policy, or the
floor and the baseline, that asks for the named evidence (`AskedIsAnswer`, `FlooredIsAnswer`), which every accepted policy
keeps. One doubt has no fact behind it; it is set apart (see the smaller observations).

### `Qualification_proofs`: a receipt and the runs behind it

| Theorem | States | For every |
| --- | --- | --- |
| `QualificationEarned` | `QualifiedIsEarned` | plan, whatever its runs do, are edited or damaged, any number of worlds, attempts and actions |
| `ReplayExact` | `ReplayIsExact` | as above, and every damage to the stored file |
| `QualificationInvariant` | `IInv`, on which both rest | |

The property speaks of the runs, the code decides on the observations it made of them, so the argument goes from
one to the other. *What is noted is true* (`ExecuteGenuine`, one lemma per adapter before it): a completed
observation comes of a run that ended by itself, and each of its facts, the nonces apart, is what that run shows;
a fact that is absent says nothing. *What is asked is a fact* (`NonceNeverAsked`): no check of an obligation can be
met by a nonce. *What is covered was earned* (`Earned`): if `observationIssues` finds nothing, every slot has exactly one
observation, and then an obligation that is not contradicted and whose faults are detected passed in
every reference and neutral world and failed in every fault world, in every attempt. `IInv` carries this along:
the observations are the collected runs, slot by slot (`Recorded`), they are of one subject at every stage of the
rechecks (`OneSubject`), and the receipt is computed from them, while a file that differs from it is refused by
`Replay` (`OneReceipt`). For a replay, `DamageSpoils` proves of each damage that no file it makes is accepted: a lost,
repeated or exchanged observation leaves a slot with the wrong one, and a decision that was replaced is not the one
computed anew.

### `Conclusions_proofs`: the selection, the study and evaluation of a corpus, the admission of an executable

| Theorem | States | For every |
| --- | --- | --- |
| `SelectedRightly` | `SelectsRightly` | worlds, candidates, weights, requirements, budget and assessments |
| `EvaluatedVouched` | `EvaluatedIsVouched` | corpus and policy |
| `VerdictGenuine` | `VerdictIsGenuine` | corpus, scores, shares, trusted policy, suites and any one mishap |
| `AdmissionEarned` | `AdmissionIsEarned` | executables, replacements at any moment, trouble at any one check |
| `ConclusionsInvariant` | `ConclusionsInv`, on which the four rest | |

* *The selection* (`SelectionInv`). What the loop has selected is the choice of its round each, what is covered and
  what remains follow from it, and once the loop has ended there is no further choice. A round sorts and takes the
  first, the property speaks of a best candidate: that the first of the order precedes all others is `FirstPrecedes`.
  A round has one choice at most (`OneChoice`, because ranks differ); that the whole sequence is then unique
  would be an induction over its length, and is proved instead by the least position at which another selection
  differs (`SelectionsAgree`), which exists as the order of the naturals is well-founded (`LeastNumber`).
* *The evaluation* (`EvaluationInv`). The answer is the evaluation of one corpus. `LoadedIsVouched` gets from the
  loading of a sidecar that two different subjects of the policy, an author and a reviewer of this source, have
  signed the digest of this case; `AggregateCounts` that support, opposition and the rest are
  a partition of the cases, each counted once.
* *The study* (`StudyInv`). Every document is a function of the shares, of what the suites do and of the mishap: the
  commitment of the shares, the allocation of what was revealed, the plan of the holdout, the receipts of the schedule.
  `Genuine` is what the replay of them concludes: it fails no rail exactly if nothing went wrong. *Soundness* takes each rail
  of an artifact that replays and says what it excludes (`Anchored`: another share, allocation or policy; `EvidenceKept`:
  lost receipts and outputs; and so on, one lemma per group of rails), until no mishap is left. *Completeness*
  follows what each constructor makes (`ArtifactMade`, `ReceiptOfIs`, `PayloadDerived`, `ProvenancePasses`) through every rail
  (`UndisturbedValid`). That needs the order of the cases: `Arranged` is the one sequence that is sorted by score, which
  is shown to exist by a minimal set without one (`OrderExists`); from it `SeedSplits` gets
  the split a seed makes, and `VerdictGenuine` states it of the committed shares.
* *The admission* (`ProbesInv`). `Where` ties the number of checks that passed to the place the doctor is at, and to what
  those checks have shown of the request. `Known` says when the identity is that of one executable: the window between the
  second probe and the digest is the flag `stale`, nothing else. `Fits` says what is known of the requested executable
  as long as nothing was replaced: it is the one that was identified, it is supported, it loads the runner,
  and every probe so far was answered as expected. `Clean` says which directories there are. With these
  each step that blocks does so at the first check at which something is wrong (`EndsBlocked`), and each that admits
  has seen every probe (`EndsAdmitted`). An executable that answers every probe as expected is credited with the
  genuine failures and no others (`CreditsGenuine`), for each of the three lists of probes; and it answers one
  unexpectedly exactly if it is odd in it (`OddDoesNotQualify`), which is what the doctor then blames.

### `Artifacts_proofs`: measurements and documents

| Theorem | States | For every |
| --- | --- | --- |
| `Isolated` | `MeasuredInIsolation` | request, campaign, behaviour of the measured processes, and edits while they run |
| `Detected` | `DetectionIsObserved` | campaign, and change by hand whose digests were made to fit |
| `Separates` | `ReplaySeparates` | as above, for all five kinds of document |

* *The acquisition* (`AcquisitionInv`). The position in the order of the plan is a number, from which the subject and the turn
  are a quotient and a remainder; `PlacesApart` says that no two measurements share both, so that the processes of a
  candidate are as many as planned. `InOrder` ties the runs to what was around them, `CachesFit` says what each cache
  can hold at the present position: nothing before a cold run, one candidate's earlier warm runs before a warm one.
* *Detection* (`DocumentInv`). The sums of the weights are those of the model, the property speaks of the runs. A manifest
  that replays is the decision on its observations; an export that replays is made of such a manifest, and a change
  by hand either spoils it or leaves its source (`ChangedKeepsSource`). So nothing has to be known of who made it.
* *Replay* (`SourceInv`, `HistoryInv`). In one direction, each constructor is shown to make what its replay accepts: for
  an acquisition that needs that the manifest replayed when the measuring began (`SourceInv`) and that its result is
  computed from the same parts as the replay computes it. In the other, each change is followed through the digests:
  `ChangedWell` is what it can have left of a document that still replays.

### `Sums_proofs`: sums over finite sets

Weights and sizes are added up by `SumFunctionOnSet` of the community modules, a fold in the order `CHOOSE` gives. No
induction theorem of the library can be instantiated here, so each lemma looks at a minimal subset for which it would
fail (`LeastSubset`, from the well-founded order of the naturals): that the table the fold is read from exists and is unique, that
any element may come first, and then that a sum is a natural number, is positive where a summand is, and grows
with its summands; that a sum is that of two parts, and the same where the summands are. With them `RejectedConclusive` needs no hypothesis about the weights, and
`WithinBudgets` and `Detected` can speak of sums at all.

### Assumptions

`EvidenceAssumption` and `CampaignAssumption` are what `parseInput` and the request schema admit.
`ExecutionsAssumption`, `SessionAssumption` and `ContainerAssumption` give limits and counts their numeric types, and say
that the codes of an exit include that of success and of a kill. `FilesAssumption` says that "no one" is no publisher, `EntriesAssumption`
that the directories are finite and walked in some order that meets every entry, `WitnessAssumption` that the contents of a witness's
overlays are finitely many numbers of bytes and its attempts a number.
`QualificationAssumption` says what `QualificationPlanSchema` admits (at least two attempts, a reference and a neutral
world, discriminants in fault worlds alone, at least one action, test files only of test adapters) and what is known
of any run (`IsRun`): the values its parts may have, and that the Bun driver reports no outcome of the named tests
when one was skipped (`integrations/bun-native/driver.mjs` 168–177). `StudiesAssumption` gives the inputs of a study the fields of `ChangeImpactSchema`, with numbered revisions, and says
that the planner does not reject them and that the levels of every policy supplied are P0 to P5, as its schema does; `FactsAssumption` says that the name of a fact about a boundary,
which is put together from parts, is not one of the two names that explained jobs give. `RequestsAssumption` gives the plan of an acquisition
its numbers, `EvidencesAssumption` says that a document's observations are finitely many and of worlds and candidates of the request. `ConclusionsAssumption` says that worlds, candidates, keys, sources and corpora are
finite, that sizes and ranks are numbers, that ranks differ, and that at least one candidate may be selected. `CorpusAssumption` says what is held
of a corpus: finitely many cases of their own for every source, with scores that are numbers, an author and a reviewer who differ,
shares and suites that can differ (a mishap that changes nothing is none), and that both keys of the author are one person's. `StudyAssumption` says
that nothing else stands in the way of a study, as an undisturbed one could not replay otherwise: the policy parses and is the trusted one, its principals
may author and review for every source, every source has cases for both sides of the split, and every arm has a test. TLC evaluates each on every run that uses it.

### Only model-checked

* Liveness (`Terminates`, `ExecutionsEnd`, `AlwaysRemoved`), which needs fairness.
* `ProfileIsEarned`: it speaks of what percentiles and recursive selections compute (the times of a run, the frontier, the
  portfolios), which needs induction over the data they fold. Sums and sorted sequences were within reach because a minimal
  counterexample is enough for them.
* `TestsFindTheirFiles`: TestClosure follows imports with RECURSIVE operators.
* `ExemptionsHold`, `SignalsOnlyEscalate` and `EscalationsForetell`. They do not hold for every accepted policy (see the smaller
  observations), and for the default one they say that each row of its tables is monotonous in the facts: a comparison of
  every fact a worse input loses with every row, which TLC does row by row.

Adapter, Evidence, Campaign and all other modules the proofs use declare no RECURSIVE operator. `UNION` with an operator
behind its operand is always in parentheses: SANY reads `UNION A \cup B` as `(UNION A) \cup B`, tlapm as `UNION (A \cup B)`, and
what is proved must be what is checked.

## 5. Not modelled

* Power loss in GitEvidence, WitnessImport and Setup: a process is killed, but what it wrote stays (the code
  calls no fsync).
* An operator who deletes the output directory of a running publication, or edits files in the two windows
  that `setup.ts` 83 and `connection.ts` 557 name as accepted.
* Facts of the repository that change within one setup run; versions of it are compared by the code.
* In Snapshot: subdirectories of the source (a directory is only there as the parent of a copy), the file
  that replaces a directory, and the separate excludes of the version 1–3 digest.
* In TestClosure: the scanner that finds specifiers in a text (the specifiers are given), `jsconfig.json`, runner
  modules, the folding of letters in paths, `LINK_DISCOVERY_ENTRY_LIMIT`; a mapping whose target is outside the
  repository ends the resolution; the hop limit is 4 (40 in the code).
* In ContainerSession: an answer of the daemon that is complete but not the expected one; it is refused and
  poisons the connection exactly as an incomplete one does.
* In RuntimeTrace: the JSON of a record, and messages of a worker after it was told to stop, which change nothing.
* In WitnessImport: letters that fold together in paths, and a parent directory that is replaced meanwhile.
* In Qualification: an edit that is undone before the recheck (no digest can show it); tool versions, adapter
  versions and the agreement of the terminal's runtime with a probed tool; more than one test in a file; how
  a trace, a Turbo summary and a CI configuration are parsed. Facts that are edited in place and resealed are
  not detectable: a replay says `producerAuthenticated: false` itself.
* In Acquisition: an edit of the snapshot that is undone between two checks, and an executable that is replaced
  after it was hashed; neither is detected by the code. A removal of its root that fails, which throws away the
  finished document too. The ratio of the version 1 portfolio is a floating-point
  number and left out, and so is the report of an input that failed.
* In the corpus: receipts are not signed, so that one who makes up all the bytes of the evidence is believed; the
  digest of the request and the limitations are not bound on replay.
* Bytes: a content is a size or an opaque value, a digest the value it is taken of, an archive a length and
  whether it is intact.
* In RuntimeProbes: the JSON of the reports and the sources of the probes; an executable that is replaced between
  the second probe and the reading of its digest, or replaced and put back, neither of which the code detects (the
  properties say so); a prober that is killed, which leaves its temporary directory.
* The surfaces (parsing and delegation), diagnostics, the Bun
  drivers (they run inside the test process; every report they can write is possible in Adapter), repository
  audits and initial proposals (`engine/index.ts` 1140–4440: read-only analysis that renders texts), scripts and
  site: marked `not_modelled` in `PROJECT.json`, each with its reason.

## 6. Plan

The model covers the parts of the code that keep state or decide something. What is left is proof:

1. ProofPlanner under the default policy: which facts a worse input or another signal loses, towards `SignalsOnlyEscalate` and
   `ExemptionsHold`. The lemmas on what a plan asks for (`CoreKinds`, `FloorIsGreatest`, `CoreSays`) are there.
2. Benchmark: what is said of sorted times in `ProfileIsEarned`, in the manner of `Arranged`.
3. TestClosure with its saturation as a least fixed point instead of RECURSIVE operators.
