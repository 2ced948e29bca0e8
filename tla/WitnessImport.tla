---------------------------- MODULE WitnessImport ----------------------------
(***************************************************************************)
(* importWitness of src/engine/witness-import.ts: a recorded red/green     *)
(* witness becomes a campaign, whose manifest is saved in a new directory. *)
(* Several importers were given the same directory; the repository is      *)
(* edited meanwhile; a file operation may fail, a write half-way, and an   *)
(* importer may be killed at any moment.                                   *)
(*                                                                         *)
(* A content is the number of its bytes, a text the number of its          *)
(* characters.  Different paths have different portable spellings; those   *)
(* outside DOMAIN AtFirst are not safe relative paths.                        *)
(***************************************************************************)
EXTENDS Integers, FiniteSetsExt, SequencesExt

CONSTANTS
  Importers,
  NoOne,             \* not an importer
  None,              \* null
  Imports,           \* the witness and the backend of each importer: a set of functions
  AtFirst,           \* what each path holds at first: a content, or None for no regular file
  Host,              \* process.platform
  MaximumEdits       \* bound on the edits of the repository

VARIABLES
  given,       \* the witness and the backend of each importer
  repository,  \* what each path holds now
  edits,
  pc,          \* what each importer does next, or how it ended
  unchecked,   \* the targets whose base it has not compared yet
  request,     \* the campaign it has built
  remaining,   \* the names its clean-up has still to remove
  dir,         \* who made the output directory; NoOne: it does not exist
  files        \* the files in it

vars == <<given, repository, edits, pc, unchecked, request, remaining, dir, files>>

Names == {"manifest.json", "executed-request.json", "summary.md", ".manifest.tmp"}
Absent == [by |-> NoOne, whole |-> FALSE]
Whole(p) == [by |-> p, whole |-> TRUE]
Part(p) == [by |-> p, whole |-> FALSE]

Ends == {"done", "failed", "kept", "crashed"}

(* The file of each step of writing, and what follows. *)
FileOf == [request |-> "executed-request.json", summary |-> "summary.md", pending |-> ".manifest.tmp"]
After == [request |-> "summary", summary |-> "pending", pending |-> "rename"]
Writing == DOMAIN FileOf

-----------------------------------------------------------------------------
(* Requests.  A witness is [version, provenance, targets, neutral,         *)
(* attempts, timeout, testTimeout, test, repository]: targets are          *)
(* sequences of [path, base, content], overlays of [path, content].        *)

Bytes(overlays) == SumFunction([i \in DOMAIN overlays |-> overlays[i].content])

TestTimeoutFits(testTimeout, timeout) == testTimeout # None => testTimeout < timeout

IncludeFits(repo) ==
  /\ repo.include # <<>> => repo.snapshot = "test-closure"
  /\ IsInjective(repo.include)

WitnessSchemaHolds(w) ==
  /\ w.provenance \in 1..512
  /\ Len(w.targets) \in 1..100
  /\ w.neutral # None => w.neutral.reason \in 1..1024 /\ Len(w.neutral.files) \in 1..100
  /\ w.attempts \in 2..10
  /\ w.timeout \in 1000..3600000

ParsesAsWitness(w) ==
  /\ WitnessSchemaHolds(w)
  /\ TestTimeoutFits(w.testTimeout, w.timeout)
  /\ w.version = 2 => IncludeFits(w.repository)

(* The length of the provenance of each world is that of the witness with  *)
(* " | " and a text: a fixed one, or the operator's reason.                *)
World(id, kind, weight, provenance, overlays) ==
  [id |-> id, kind |-> kind, required |-> TRUE, weight |-> weight,
   provenance |-> provenance, files |-> overlays]

NeutralFiles(w) == IF w.neutral = None THEN <<>> ELSE w.neutral.files

(* Mutant: the executions of the control are not budgeted. *)
CandidateBudgets(w) ==
  [candidates |-> 1, worlds |-> 3, executions |-> 3 * w.attempts,
   overlayBytes |-> Max({1, Bytes(w.targets) + Bytes(NeutralFiles(w))}),
   candidateBytes |-> 1, totalCandidateBytes |-> 1, timeout |-> w.timeout]

Budgets(w) ==
  [candidates |-> 1, worlds |-> 3, executions |-> 3 * w.attempts * 2,
   overlayBytes |-> Max({1, Bytes(w.targets) + Bytes(NeutralFiles(w))}),
   candidateBytes |-> 1, totalCandidateBytes |-> 1, timeout |-> w.timeout]

WitnessVerificationRequest(w, isolation) ==
  [version |-> IF w.version = 2 THEN 5 ELSE 4,
   repository |-> IF w.version = 2 THEN w.repository
                  ELSE [w.repository EXCEPT !.snapshot = "repository", !.include = <<>>],
   testTimeout |-> w.testTimeout,
   isolation |-> isolation,
   attempts |-> w.attempts,
   budgets |-> Budgets(w),
   worlds |-> <<World("reference", "REFERENCE", 0, w.provenance + 22, <<>>),
                World("mutant", "TARGET", 1, w.provenance + 27,
                      [i \in DOMAIN w.targets |->
                         [path |-> w.targets[i].path, content |-> w.targets[i].content]]),
                World("neutral", "NEUTRAL", 0,
                      w.provenance + (IF w.neutral = None THEN 52 ELSE 3 + w.neutral.reason),
                      NeutralFiles(w))>>,
   candidates |-> <<[id |-> "witness", test |-> w.test, files |-> <<>>]>>]

-----------------------------------------------------------------------------
(* What verifyCampaign checks of a request before it executes anything:    *)
(* the contract, then parseRequest of the engine.                          *)

SchemaHolds(r) ==
  /\ \A i \in DOMAIN r.worlds : r.worlds[i].provenance \in 1..1024 /\ Len(r.worlds[i].files) <= 1000
  /\ r.budgets.worlds \in 3..1000
  /\ r.budgets.executions \in 1..1000000
  /\ r.budgets.timeout \in 10..86400000
  /\ r.attempts \in 1..1000

UniqueIdentifiers(items) == \A i, j \in DOMAIN items : items[i].id = items[j].id => i = j

WorldKindsHold(worlds) ==
  /\ \A kind \in {"REFERENCE", "TARGET", "NEUTRAL"} :
        \E i \in DOMAIN worlds : worlds[i].kind = kind /\ worlds[i].required
  /\ \A i \in DOMAIN worlds : IF worlds[i].kind = "TARGET" THEN worlds[i].weight >= 1
                              ELSE worlds[i].weight = 0

(* Every world is executed with no candidate and with each of them. *)
PlannedExecutions(r) == Len(r.worlds) * r.attempts * (Len(r.candidates) + 1)

TotalBytes(items) == SumFunction([i \in DOMAIN items |-> Bytes(items[i].files)])

WithinBudgets(r) ==
  /\ Len(r.candidates) <= r.budgets.candidates
  /\ Len(r.worlds) <= r.budgets.worlds
  /\ PlannedExecutions(r) <= r.budgets.executions
  /\ TotalBytes(r.worlds) <= r.budgets.overlayBytes
  /\ \A i \in DOMAIN r.candidates : Bytes(r.candidates[i].files) <= r.budgets.candidateBytes
  /\ TotalBytes(r.candidates) <= r.budgets.totalCandidateBytes

DesignatedCampaign(r) ==
  /\ UniqueIdentifiers(r.worlds) /\ UniqueIdentifiers(r.candidates)
  /\ WorldKindsHold(r.worlds)
  /\ WithinBudgets(r)
  /\ TestTimeoutFits(r.testTimeout, r.budgets.timeout)
  /\ r.version = 5 => IncludeFits(r.repository)

OverlaidPaths(world) == [k \in DOMAIN world.files |-> world.files[k].path]

(* Safe and portable paths, one overlay per path. *)
OverlaysApply(r) ==
  \A i \in DOMAIN r.worlds : /\ ToSet(OverlaidPaths(r.worlds[i])) \subseteq DOMAIN AtFirst
                             /\ IsInjective(OverlaidPaths(r.worlds[i]))

(* A designated test runs with the same bytes in every world. *)
TestIsNotOverlaid(r) ==
  \A i \in DOMAIN r.worlds, c \in DOMAIN r.candidates :
     r.candidates[c].test \notin ToSet(OverlaidPaths(r.worlds[i]))

RepositoryFits(repo) ==
  /\ repo.dependencies => "node_modules" \notin repo.exclude
  /\ ToSet(repo.include) \subseteq DOMAIN AtFirst

ParseRequest(r) ==
  /\ SchemaHolds(r) /\ DesignatedCampaign(r)
  /\ r.isolation = "windows-native" => Host = "win32"
  /\ OverlaysApply(r)
  /\ \A c \in DOMAIN r.candidates : r.candidates[c].test \in DOMAIN AtFirst
  /\ TestIsNotOverlaid(r)
  /\ RepositoryFits(r.repository)

-----------------------------------------------------------------------------
Init ==
  /\ given \in Imports
  /\ repository = AtFirst
  /\ edits = 0
  /\ pc = [p \in Importers |-> "parse"]
  /\ unchecked = [p \in Importers |-> <<>>]
  /\ request = [p \in Importers |-> None]
  /\ remaining = [p \in Importers |-> <<>>]
  /\ dir = NoOne
  /\ files = [n \in Names |-> Absent]

Goes(p, step) == pc' = [pc EXCEPT ![p] = step]

importing == <<given, repository, edits>>
output == <<dir, files>>

(* Somebody edits a file, removes it or makes a link of it. *)
Edit ==
  /\ edits < MaximumEdits
  /\ edits' = edits + 1
  /\ \E path \in DOMAIN AtFirst, held \in {None, 1, 2} :
        held # repository[path] /\ repository' = [repository EXCEPT ![path] = held]
  /\ UNCHANGED <<given, pc, unchecked, request, remaining, output>>

Parse(p) ==
  /\ pc[p] = "parse"
  /\ IF ParsesAsWitness(given[p].witness)
     THEN Goes(p, "compare") /\ unchecked' = [unchecked EXCEPT ![p] = given[p].witness.targets]
     ELSE Goes(p, "failed") /\ UNCHANGED unchecked
  /\ UNCHANGED <<importing, request, remaining, output>>

(* The target is a regular file with the recorded bytes, and would change. *)
CompareTarget(p) ==
  /\ pc[p] = "compare" /\ unchecked[p] # <<>>
  /\ LET target == Head(unchecked[p])
     IN IF /\ target.path \in DOMAIN AtFirst
           /\ repository[target.path] = target.base
           /\ target.content # target.base
        THEN unchecked' = [unchecked EXCEPT ![p] = Tail(@)] /\ UNCHANGED pc
        ELSE Goes(p, "failed") /\ UNCHANGED unchecked
  /\ UNCHANGED <<importing, request, remaining, output>>

Build(p) ==
  /\ pc[p] = "compare" /\ unchecked[p] = <<>>
  /\ request' = [request EXCEPT
       ![p] = WitnessVerificationRequest(given[p].witness, given[p].isolation)]
  /\ Goes(p, "look")
  /\ UNCHANGED <<importing, unchecked, remaining, output>>

(* The directory lies inside the repository, has no parent, or exists. *)
LookUp(p) ==
  /\ pc[p] = "look"
  /\ \/ Goes(p, IF dir = NoOne THEN "verify" ELSE "failed")
     \/ Goes(p, "failed")
  /\ UNCHANGED <<importing, unchecked, request, remaining, output>>

(* verifyCampaign returns a manifest, which is sealed again, or throws. *)
Verify(p) ==
  /\ pc[p] = "verify"
  /\ \/ ParseRequest(request[p]) /\ Goes(p, "reserve")
     \/ Goes(p, "failed")
  /\ UNCHANGED <<importing, unchecked, request, remaining, output>>

(* Mutant: a directory that exists is as good as a new one. *)
ReserveShared(p) ==
  /\ pc[p] = "reserve"
  /\ dir' = IF dir = NoOne THEN p ELSE dir
  /\ Goes(p, "request")
  /\ UNCHANGED <<importing, unchecked, request, remaining, files>>

Reserve(p) ==
  /\ pc[p] = "reserve"
  /\ IF dir = NoOne THEN dir' = p /\ Goes(p, "request") ELSE UNCHANGED dir /\ Goes(p, "failed")
  /\ UNCHANGED <<importing, unchecked, request, remaining, files>>

-----------------------------------------------------------------------------
(* A file is created, never overwritten. *)
Write(p, step) ==
  /\ pc[p] = step
  /\ dir # NoOne /\ files[FileOf[step]] = Absent
  /\ files' = [files EXCEPT ![FileOf[step]] = Whole(p)]
  /\ Goes(p, After[step])
  /\ UNCHANGED <<importing, unchecked, request, remaining, dir>>

PartWritten(p, step) ==
  IF dir = NoOne \/ files[FileOf[step]] # Absent THEN {files}
  ELSE {files, [files EXCEPT ![FileOf[step]] = Part(p)]}

(* Mutant: the names it removes lack the one that it writes last. *)
CleanUpWritten(p) ==
  /\ remaining' = [remaining EXCEPT ![p] = <<"summary.md", "executed-request.json">>]
  /\ Goes(p, "clean")

CleanUp(p) ==
  /\ remaining' = [remaining EXCEPT ![p] = <<".manifest.tmp", "summary.md", "executed-request.json">>]
  /\ Goes(p, "clean")

WriteFails(p, step) ==
  /\ pc[p] = step
  /\ files' \in PartWritten(p, step)
  /\ CleanUp(p)
  /\ UNCHANGED <<importing, unchecked, request, dir>>

Publish(p) ==
  /\ pc[p] = "rename" /\ files[".manifest.tmp"] # Absent
  /\ files' = [files EXCEPT !["manifest.json"] = files[".manifest.tmp"], ![".manifest.tmp"] = Absent]
  /\ Goes(p, "done")
  /\ UNCHANGED <<importing, unchecked, request, remaining, dir>>

PublishFails(p) ==
  /\ pc[p] = "rename"
  /\ CleanUp(p)
  /\ UNCHANGED <<importing, unchecked, request, output>>

(* The names are removed whoever wrote them; then the directory, if it is  *)
(* empty: otherwise that fails, and nobody hears of it.                    *)
RemoveName(p) ==
  /\ pc[p] = "clean" /\ remaining[p] # <<>>
  /\ files' = [files EXCEPT ![Head(remaining[p])] = Absent]
  /\ remaining' = [remaining EXCEPT ![p] = Tail(@)]
  /\ UNCHANGED <<importing, pc, unchecked, request, dir>>

RemoveDirectory(p) ==
  /\ pc[p] = "clean" /\ remaining[p] = <<>>
  /\ dir' = IF \A n \in Names : files[n] = Absent THEN NoOne ELSE dir
  /\ Goes(p, "failed")
  /\ UNCHANGED <<importing, unchecked, request, remaining, files>>

(* A removal fails for another reason, and what is left stays. *)
RemovalFails(p) ==
  /\ pc[p] = "clean"
  /\ Goes(p, "kept")
  /\ UNCHANGED <<importing, unchecked, request, remaining, output>>

Crash(p) ==
  /\ pc[p] \notin Ends
  /\ files' \in IF pc[p] \in Writing THEN PartWritten(p, pc[p]) ELSE {files}
  /\ Goes(p, "crashed")
  /\ UNCHANGED <<importing, unchecked, request, remaining, dir>>

Next ==
  \/ Edit
  \/ \E p \in Importers :
       \/ Parse(p) \/ CompareTarget(p) \/ Build(p) \/ LookUp(p) \/ Verify(p) \/ Reserve(p)
       \/ \E step \in Writing : Write(p, step) \/ WriteFails(p, step)
       \/ Publish(p) \/ PublishFails(p)
       \/ RemoveName(p) \/ RemoveDirectory(p) \/ RemovalFails(p) \/ Crash(p)

Spec == Init /\ [][Next]_vars

-----------------------------------------------------------------------------
(* docs/witness-import.md:79: the directory "receives executed-request.json, *)
(* summary.md and, written last, manifest.json".  Whatever failed or was     *)
(* killed, and whoever else was given the directory: a manifest is whole and *)
(* lies beside the whole request and summary of the same importer.           *)
ManifestMarksCompletion ==
  files["manifest.json"] # Absent =>
    \E p \in Importers :
      \A n \in {"manifest.json", "executed-request.json", "summary.md"} : files[n] = Whole(p)

(* A failed importer leaves no directory, unless a removal failed too. *)
FailureGivesBack == \A p \in Importers : pc[p] = "failed" => dir # p

(* The campaign of a witness stays within the budgets that it is given, so  *)
(* that no witness is refused for a budget its author cannot set            *)
(* (witness-import.ts:162, contracts/index.ts:2516, engine/index.ts:4683).  *)
CampaignWithinBudgets == \A p \in Importers : request[p] # None => WithinBudgets(request[p])
=============================================================================
