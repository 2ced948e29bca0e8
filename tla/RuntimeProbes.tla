--------------------------- MODULE RuntimeProbes ---------------------------
(***************************************************************************)
(* What is asked of an executable before it may run tests: the identity    *)
(* probes and the synthetic preflight of src/engine/index.ts and           *)
(* src/engine/adapters/node-test-runtime.ts, which a campaign makes before *)
(* it takes its snapshot, and the runtime doctor                           *)
(* (src/engine/runtime-doctor.ts), which makes them between checks of its  *)
(* own.  Every probe starts a process anew, and on this machine, unlike in *)
(* an image, the executable may be replaced between any two of them.       *)
(*                                                                         *)
(* A failure of a process, a directory or a report that is not the         *)
(* executable's doing is a trouble, of which a behaviour has one at most.  *)
(***************************************************************************)
EXTENDS Naturals, Sequences, FiniteSets

CONSTANTS
  Builds,               \* the executables there are: records with the fields of Missing
  Others,               \* those that the other one may be
  MaximumReplacements   \* how often one is replaced meanwhile: a bound of a model

VARIABLES
  asked,       \* who asks for which adapter, and what the doctor is given
  contents,    \* what the requested executable and the other one are
  check,       \* the check, or the part of it, that comes next
  passed,      \* how many checks of the doctor passed
  first,       \* what the first identity probe said
  identity,    \* what the probes established
  qualified,   \* how many synthetic probes were answered as expected
  failing,     \* the preflight failed, and its root is yet to be removed
  leftovers,   \* the temporary directories there are
  admission,   \* the doctor's result, or the campaign's admission
  trouble,     \* the number of the check in which the trouble was, or 0
  replaced,    \* how often an executable was replaced, and
  stale        \* whether it was after the last identity probe

vars == <<asked, contents, check, passed, first, identity, qualified, failing, leftovers, admission,
          trouble, replaced, stale>>

Checks == <<"authorization", "configuration", "adapter", "executable", "dependencies",
            "temporary-workspace", "synthetic-preflight">>

Files == {"requested", "other"}
Missing == [version |-> "none", id |-> 0, loads |-> FALSE, odd |-> "none", says |-> "none"]
(* A script that starts the other executable, which then reports its own path. *)
Wrapper == [Missing EXCEPT !.id = 1]

NotProbed == [file |-> "none", version |-> "none"]
NotIdentified == [file |-> "none", version |-> "none", answered |-> Missing, digest |-> Missing]
Pending == [status |-> "PENDING", reason |-> "NONE", executed |-> 0, adapter |-> FALSE, version |-> FALSE]

-----------------------------------------------------------------------------
(* The synthetic probes: the name, and the outcome, the attribution and the *)
(* counts of tests that are expected of each.                               *)

Expect(name, outcome, tests, candidates) ==
  [name |-> name, outcome |-> outcome, attributed |-> outcome = "ASSERTION_FAILURE",
   tests |-> tests, candidates |-> candidates]

(* A test file and a control beside it; a hook that fails counts nothing. *)
Beside(name, outcome, candidates) ==
  Expect(name, outcome, IF candidates = 0 THEN 0 ELSE candidates + 1, candidates)

NodeProbes == <<Beside("assertion", "ASSERTION_FAILURE", 1), Beside("generic-throw", "PROCESS_CRASH", 1)>>

BunProbes ==
  <<Beside("assertion", "ASSERTION_FAILURE", 1), Beside("generic-throw", "PROCESS_CRASH", 1),
    Beside("caught-assertion", "PROCESS_CRASH", 1), Beside("replayed-assertion", "PROCESS_CRASH", 1),
    Beside("replayed-row", "PROCESS_CRASH", 2), Beside("async-cross-test", "PROCESS_CRASH", 2),
    Beside("multi-assertion-rows", "ASSERTION_FAILURE", 2), Beside("operand-throw", "PROCESS_CRASH", 1),
    Beside("native-expect", "PROCESS_CRASH", 1), Beside("hook-failure", "INFRA_ERROR", 0)>>

(* One test of a file. *)
Run(name, outcome) ==
  LET count == IF outcome \in {"NO_TEST_DISCOVERED", "INFRA_ERROR"} THEN 0 ELSE 1 IN
  [Expect(name, outcome, count, count) EXCEPT !.attributed = @ \/ outcome = "PASS"]

DesignatedProbes ==
  <<Run("expect-assertion", "ASSERTION_FAILURE"), Run("expected-line", "ASSERTION_FAILURE"),
    Run("other-line", "PROCESS_CRASH"), Run("assert-same", "ASSERTION_FAILURE"),
    Run("async-matcher", "ASSERTION_FAILURE"), Run("forged-message", "PROCESS_CRASH"),
    Run("caught-expect", "PROCESS_CRASH"), Run("replayed-expect", "PROCESS_CRASH"),
    Run("matcher-usage", "PROCESS_CRASH"), Run("custom-matcher", "PROCESS_CRASH"),
    Run("replaced-built-in", "PROCESS_CRASH"), Run("preload-replaced-built-in", "PROCESS_CRASH"),
    Run("preload-custom-matcher", "PROCESS_CRASH"), Run("trusted-matcher", "ASSERTION_FAILURE"),
    Run("trusted-matcher-other-name", "PROCESS_CRASH"), Run("passing", "PASS"),
    Run("absent", "NO_TEST_DISCOVERED"), Run("hook-failure", "INFRA_ERROR"),
    Run("late-after-timeout", "INFRA_ERROR"), Expect("load", "PASS", 2, 0),
    Expect("load-failure", "INFRA_ERROR", 0, 0), Expect("isolated-load", "PASS", 2, 0),
    Run("isolated-run", "ASSERTION_FAILURE")>>

IsNode == asked.adapter = "node-test"
Probes ==
  CASE asked.adapter = "node-test" -> NodeProbes
    [] asked.adapter = "bun-test" -> BunProbes
    [] asked.adapter = "bun-test-designated" -> DesignatedProbes
    [] OTHER -> <<>>

(* What a build leaves for a probe: one whose odd probe it is says         *)
(* something else in one respect, or leaves no report at all.              *)
Report(b, p) ==
  CASE b.odd # p.name -> p
    [] b.odd = p.name /\ b.says = "outcome" -> [p EXCEPT !.outcome = "TIMEOUT"]
    [] b.odd = p.name /\ b.says = "attribution" -> [p EXCEPT !.attributed = ~@]
    [] b.odd = p.name /\ b.says = "tests" -> [p EXCEPT !.tests = @ + 1]
    [] b.odd = p.name /\ b.says = "candidates" -> [p EXCEPT !.candidates = @ + 1]
    [] OTHER -> Expect("none", "NONE", 0, 0)

(* Mutant: the attribution is not compared. *)
QualifiesUnattributed(report, p) ==
  report.outcome = p.outcome /\ report.tests = p.tests /\ report.candidates = p.candidates

Qualifies(report, p) ==
  /\ report.outcome = p.outcome /\ report.attributed = p.attributed
  /\ report.tests = p.tests /\ report.candidates = p.candidates

(* node:test from 22.15 on; of Bun the one qualified version and revision. *)
Supported(b) == b.version \in (IF IsNode THEN {"qualified", "later"} ELSE {"qualified"})

(* The executable that runs when a file is started. *)
Runs(file) == IF contents[file] = Wrapper THEN "other" ELSE file
Started(file) == contents[Runs(file)]

-----------------------------------------------------------------------------
(* How it ends.                                                            *)

(* parseRuntimeDoctorResult and its second version, which throw otherwise. *)
ResultParses(r) ==
  /\ r.executed \in 1..Len(Checks)
  /\ r.status = "READY" => r.executed = Len(Checks) /\ r.reason = "NONE"
  /\ r.status = "BLOCKED" => r.reason # "NONE"
  /\ r.adapter <=> r.executed >= 4
  /\ r.version <=> r.executed >= 5

Finish(status, reason, adapter, version) ==
  LET r == [status |-> status, reason |-> reason, executed |-> passed + 1,
            adapter |-> adapter, version |-> version]
  IN /\ admission' =
          IF asked.by = "doctor" /\ ~ResultParses(r) THEN [r EXCEPT !.status = "THROWN"] ELSE r
     /\ check' = "ended"

Block(reason, adapter, version) == Finish("BLOCKED", reason, adapter, version)
Admit == Finish("READY", "NONE", TRUE, TRUE)
Throw == admission' = [Pending EXCEPT !.status = "THROWN"] /\ check' = "ended"

Continue(next) == check' = next /\ UNCHANGED admission
Pass(next) == Continue(next) /\ passed' = passed + 1

InTrouble(number) == trouble = 0 /\ trouble' = number

-----------------------------------------------------------------------------
(* The repository may be in any condition.  One whose adapter cannot be    *)
(* told, or that has two frameworks, is a conflict and never current.      *)
Requests ==
  {r \in [by : {"doctor"}, adapter : {"node-test", "bun-test", "operator-supplied", "unavailable"},
          host : {TRUE}, authorized : BOOLEAN,
          configuration : {"UNCHANGED", "WOULD_CREATE", "CONFLICT", "FAILS"}] :
     r.adapter = "unavailable" => r.configuration \in {"CONFLICT", "FAILS"}}
  \cup [by : {"campaign"}, adapter : {"node-test", "bun-test", "bun-test-designated"},
        host : BOOLEAN, authorized : {TRUE}, configuration : {"UNCHANGED"}]

Init ==
  /\ asked \in Requests
  /\ contents \in [Files -> Builds \cup {Missing, Wrapper}] /\ contents["other"] \in Others \cup {Missing}
  /\ check = IF asked.by = "doctor" THEN "authorization" ELSE "executable"
  /\ passed = 0 /\ first = NotProbed /\ identity = NotIdentified /\ qualified = 0 /\ failing = FALSE
  /\ leftovers = {} /\ admission = Pending /\ trouble = 0 /\ replaced = 0 /\ stale = FALSE

(* On the machine: an upgrade, a version manager, an uninstallation. *)
Replace(file, b) ==
  /\ asked.host /\ check # "ended" /\ replaced < MaximumReplacements
  /\ b # contents[file] /\ (file = "other" => b \in Others \cup {Missing})
  /\ contents' = [contents EXCEPT ![file] = b]
  /\ replaced' = replaced + 1 /\ stale' = TRUE
  /\ UNCHANGED <<asked, check, passed, first, identity, qualified, failing, leftovers, admission, trouble>>

-----------------------------------------------------------------------------
(* The doctor, before it starts anything.                                  *)

Authorize ==
  /\ check = "authorization"
  /\ \/ asked.authorized /\ Pass("configuration")
     \/ ~asked.authorized /\ Block("EXECUTION_NOT_AUTHORIZED", FALSE, FALSE) /\ UNCHANGED passed
  /\ UNCHANGED <<asked, contents, first, identity, qualified, failing, leftovers, trouble, replaced, stale>>

(* The plan of the repository: when none can be made, the error passes     *)
(* through, and so does the one that the plan of a Bun repository in       *)
(* conflict has no configuration to read the executable from.              *)
InspectConfiguration ==
  /\ check = "configuration"
  /\ \/ asked.configuration = "UNCHANGED" /\ Pass("adapter")
     \/ /\ asked.configuration = "WOULD_CREATE"
        /\ Block("CONFIGURATION_STALE", FALSE, FALSE) /\ UNCHANGED passed
     \/ /\ asked.configuration = "CONFLICT" /\ asked.adapter # "bun-test"
        /\ Block("CONFIGURATION_BLOCKED", FALSE, FALSE) /\ UNCHANGED passed
     \/ /\ \/ asked.configuration = "FAILS"
           \/ asked.configuration = "CONFLICT" /\ asked.adapter = "bun-test"
        /\ Throw /\ UNCHANGED passed
  /\ UNCHANGED <<asked, contents, first, identity, qualified, failing, leftovers, trouble, replaced, stale>>

InspectAdapter ==
  /\ check = "adapter"
  /\ \/ asked.adapter \in {"node-test", "bun-test"} /\ Pass("executable")
     \/ /\ asked.adapter \notin {"node-test", "bun-test"}
        /\ Block("ADAPTER_UNSUPPORTED", FALSE, FALSE) /\ UNCHANGED passed
  /\ UNCHANGED <<asked, contents, first, identity, qualified, failing, leftovers, trouble, replaced, stale>>

-----------------------------------------------------------------------------
(* The identity.                                                           *)

Unidentified(reason) == Block(reason, TRUE, FALSE) /\ UNCHANGED passed

(* Why a probe of this build is refused on its own. *)
RefusedAlone(b) ==
  \/ b = Missing /\ Unidentified("EXECUTABLE_UNAVAILABLE")
  \/ b # Missing /\ ~Supported(b) /\ Unidentified("VERSION_UNSUPPORTED")

PreflightStart == IF IsNode THEN "opening" ELSE "probing"
Identified ==
  IF asked.by = "doctor" THEN Pass("dependencies") ELSE Continue(PreflightStart) /\ UNCHANGED passed

FirstProbe ==
  /\ check = "executable" /\ asked.host
  /\ LET b == Started("requested") IN
     \/ RefusedAlone(b) /\ UNCHANGED first
     \/ /\ Supported(b) /\ Continue("resolve") /\ UNCHANGED passed
        /\ first' = [file |-> Runs("requested"), version |-> b.version]
  /\ UNCHANGED <<asked, contents, identity, qualified, failing, leftovers, trouble, replaced, stale>>

(* The reported path must be a file's. *)
ResolvePath ==
  /\ check = "resolve"
  /\ \/ contents[first.file] = Missing /\ Unidentified("EXECUTABLE_UNAVAILABLE")
     \/ contents[first.file] # Missing /\ Continue("second") /\ UNCHANGED passed
  /\ UNCHANGED <<asked, contents, first, identity, qualified, failing, leftovers, trouble, replaced, stale>>

(* Mutant: it is the requested name that is started again. *)
SecondProbeOfName ==
  /\ check = "second"
  /\ LET b == Started("requested") IN
     \/ RefusedAlone(b) /\ UNCHANGED <<identity, stale>>
     \/ /\ Supported(b) /\ b.version = first.version
        /\ Continue("digest") /\ UNCHANGED passed /\ stale' = FALSE
        /\ identity' = [identity EXCEPT !.file = first.file, !.version = b.version, !.answered = b]
  /\ UNCHANGED <<asked, contents, first, qualified, failing, leftovers, trouble, replaced>>

(* The resolved executable must report itself, and the same version. *)
SecondProbe ==
  /\ check = "second"
  /\ LET b == Started(first.file)
         agrees == Runs(first.file) = first.file /\ b.version = first.version
     IN \/ RefusedAlone(b) /\ UNCHANGED <<identity, stale>>
        \/ /\ Supported(b) /\ ~agrees
           /\ Unidentified("EXECUTABLE_UNAVAILABLE") /\ UNCHANGED <<identity, stale>>
        \/ /\ Supported(b) /\ agrees
           /\ Continue("digest") /\ UNCHANGED passed /\ stale' = FALSE
           /\ identity' = [identity EXCEPT !.file = first.file, !.version = b.version, !.answered = b]
  /\ UNCHANGED <<asked, contents, first, qualified, failing, leftovers, trouble, replaced>>

ReadDigest ==
  /\ check = "digest"
  /\ LET bytes == contents[identity.file] IN
     \/ bytes = Missing /\ Unidentified("EXECUTABLE_UNAVAILABLE") /\ UNCHANGED identity
     \/ bytes # Missing /\ Identified /\ identity' = [identity EXCEPT !.digest = bytes]
  /\ UNCHANGED <<asked, contents, first, qualified, failing, leftovers, trouble, replaced, stale>>

(* In a container each probe takes the digest itself, and the two are      *)
(* compared; the image is the same for both.                               *)
IdentifyInContainer ==
  /\ check = "executable" /\ ~asked.host
  /\ LET file == Runs("requested")
         b == contents[file]
     IN \/ RefusedAlone(b) /\ UNCHANGED identity
        \/ /\ Supported(b) /\ Identified
           /\ identity' = [file |-> file, version |-> b.version, answered |-> b, digest |-> b]
  /\ UNCHANGED <<asked, contents, first, qualified, failing, leftovers, trouble, replaced, stale>>

(* A probe whose process times out or fails or says too much; in a         *)
(* container also a workspace that is not resolved or not removed.         *)
IdentityTrouble(what) ==
  /\ check \in {"executable", "second"} /\ InTrouble(4)
  /\ what # "execution" => ~asked.host
  /\ Unidentified("EXECUTABLE_UNAVAILABLE")
  /\ leftovers' = IF what = "execution" THEN leftovers ELSE leftovers \cup {"identity"}
  /\ UNCHANGED <<asked, contents, first, identity, qualified, failing, replaced, stale>>

-----------------------------------------------------------------------------
(* The doctor's checks of its own.                                         *)

(* Mutant: the version is not passed on. *)
LoadRunnerForgettingVersion ==
  /\ check = "dependencies"
  /\ \/ Started(identity.file).loads /\ Pass("temporary-workspace")
     \/ /\ ~Started(identity.file).loads
        /\ Block("DEPENDENCY_UNAVAILABLE", TRUE, FALSE) /\ UNCHANGED passed
  /\ UNCHANGED <<asked, contents, first, identity, qualified, failing, leftovers, trouble, replaced, stale>>

LoadRunner ==
  /\ check = "dependencies"
  /\ \/ Started(identity.file).loads /\ Pass("temporary-workspace") /\ UNCHANGED trouble
     \/ /\ \/ ~Started(identity.file).loads /\ UNCHANGED trouble
           \/ InTrouble(5)
        /\ Block("DEPENDENCY_UNAVAILABLE", TRUE, TRUE) /\ UNCHANGED passed
  /\ UNCHANGED <<asked, contents, first, identity, qualified, failing, leftovers, replaced, stale>>

(* What becomes of the workspace the doctor makes, writes to and removes:  *)
(* not made, made but not resolved, not written, not removed, or removed   *)
(* and still there.                                                        *)
WorkspaceTroubles == {"mkdtemp", "realpath", "write", "removal", "remains"}

(* Mutant: nobody looks whether it is gone. *)
TryWorkspaceUnseen ==
  /\ check = "temporary-workspace"
  /\ \/ Pass(PreflightStart) /\ UNCHANGED <<leftovers, trouble>>
     \/ /\ InTrouble(6) /\ Pass(PreflightStart)
        /\ leftovers' = leftovers \cup {"workspace"}
  /\ UNCHANGED <<asked, contents, first, identity, qualified, failing, replaced, stale>>

TryWorkspace ==
  /\ check = "temporary-workspace"
  /\ \/ Pass(PreflightStart) /\ UNCHANGED <<leftovers, trouble>>
     \/ /\ InTrouble(6)
        /\ Block("TEMPORARY_WORKSPACE_UNAVAILABLE", TRUE, TRUE) /\ UNCHANGED passed
        /\ \E what \in WorkspaceTroubles :
             leftovers' = IF what \in {"mkdtemp", "write"} THEN leftovers ELSE leftovers \cup {"workspace"}
  /\ UNCHANGED <<asked, contents, first, identity, qualified, failing, replaced, stale>>

-----------------------------------------------------------------------------
(* The synthetic preflight.                                                *)

Unqualified == Block("PREFLIGHT_FAILED", TRUE, TRUE)

(* node:test: a root with the reporter and the control; what was made of   *)
(* it is removed at the end, whatever happens.                             *)
OpenRoot ==
  /\ check = "opening" /\ Continue("probing")
  /\ leftovers' = leftovers \cup {"root"}
  /\ UNCHANGED <<asked, contents, passed, first, identity, qualified, failing, trouble, replaced, stale>>

OpenRootTrouble(what) ==
  /\ check = "opening" /\ InTrouble(7)
  /\ IF what = "write" THEN Continue("closing") /\ failing' = TRUE ELSE Unqualified /\ UNCHANGED failing
  /\ leftovers' = IF what = "mkdtemp" THEN leftovers ELSE leftovers \cup {"root"}
  /\ UNCHANGED <<asked, contents, passed, first, identity, qualified, replaced, stale>>

FailPreflight ==
  IF IsNode THEN Continue("closing") /\ failing' = TRUE ELSE Unqualified /\ UNCHANGED failing

Probe ==
  /\ check = "probing" /\ qualified < Len(Probes)
  /\ LET expected == Probes[qualified + 1]
         b == Started(identity.file)
         answered == b # Missing /\ Qualifies(Report(b, expected), expected)
     IN \/ /\ answered /\ qualified' = qualified + 1
           /\ UNCHANGED <<check, admission, failing>>
        \/ ~answered /\ FailPreflight /\ UNCHANGED qualified
  /\ UNCHANGED <<asked, contents, passed, first, identity, leftovers, trouble, replaced, stale>>

(* Every probe of Bun, and of node:test in a container, has a workspace of *)
(* its own.                                                                *)
ProbeTrouble(what) ==
  /\ check = "probing" /\ qualified < Len(Probes) /\ InTrouble(7)
  /\ what # "execution" => ~IsNode \/ ~asked.host
  /\ FailPreflight
  /\ leftovers' = IF what = "execution" THEN leftovers ELSE leftovers \cup {"probe"}
  /\ UNCHANGED <<asked, contents, passed, first, identity, qualified, replaced, stale>>

AllQualify ==
  /\ check = "probing" /\ qualified = Len(Probes)
  /\ IF IsNode THEN Continue("closing") ELSE Admit
  /\ UNCHANGED <<asked, contents, passed, first, identity, qualified, failing, leftovers, trouble,
                 replaced, stale>>

CloseRoot ==
  /\ check = "closing"
  /\ \/ /\ leftovers' = leftovers \ {"root"} /\ UNCHANGED trouble
        /\ IF failing THEN Unqualified ELSE Admit
     \/ InTrouble(7) /\ Unqualified /\ UNCHANGED leftovers
  /\ UNCHANGED <<asked, contents, passed, first, identity, qualified, failing, replaced, stale>>

-----------------------------------------------------------------------------
Next ==
  \/ \E file \in Files, b \in Builds \cup {Missing, Wrapper} : Replace(file, b)
  \/ Authorize \/ InspectConfiguration \/ InspectAdapter
  \/ FirstProbe \/ ResolvePath \/ SecondProbe \/ ReadDigest \/ IdentifyInContainer
  \/ \E what \in {"execution", "realpath", "removal"} : IdentityTrouble(what)
  \/ LoadRunner \/ TryWorkspace
  \/ OpenRoot
  \/ \E what \in {"mkdtemp", "realpath", "write"} : OpenRootTrouble(what)
  \/ Probe
  \/ \E what \in {"execution", "realpath", "removal"} : ProbeTrouble(what)
  \/ AllQualify \/ CloseRoot

-----------------------------------------------------------------------------
(* The failures that are a verdict about the tested code: those of an      *)
(* assertion or a matcher of the tested file itself, in the test, the only *)
(* ones that may count as a kill.                                          *)
Genuine ==
  CASE asked.adapter = "node-test" -> {"assertion"}
    [] asked.adapter = "bun-test" -> {"assertion", "multi-assertion-rows"}
    [] asked.adapter = "bun-test-designated" ->
         {"expect-assertion", "expected-line", "assert-same", "async-matcher", "trusted-matcher",
          "isolated-run"}

Credits(b) ==
  {Probes[n].name : n \in {m \in 1..Len(Probes) :
                             LET r == Report(b, Probes[m]) IN
                             r.outcome = "ASSERTION_FAILURE" /\ r.attributed}}

(* An executable is admitted only if nothing is left of the probes, and,   *)
(* unless it was replaced meanwhile, only if it is a supported one that    *)
(* credits exactly the genuine assertion failures.                         *)
AdmittedIsFit ==
  admission.status = "READY" =>
    /\ leftovers = {}
    /\ replaced = 0 =>
         LET b == Started("requested") IN
         Supported(b) /\ Credits(b) = Genuine /\ (asked.by = "doctor" => b.loads)

(* The version and the digest that an evidence will name are of the one    *)
(* executable that answered under the path, unless it was replaced in the  *)
(* moment between the second probe and the digest, or later; in a          *)
(* container without exception.                                            *)
IdentityIsOfOne ==
  identity.digest # Missing /\ ~stale =>
    identity.digest = identity.answered /\ identity.version = identity.answered.version

(* What is wrong with what the doctor was asked about, by check. *)
Unfit ==
  LET b == Started("requested")
      wrong(c) ==
        CASE c = "authorization" -> ~asked.authorized
          [] c = "configuration" -> asked.configuration # "UNCHANGED"
          [] c = "adapter" -> asked.adapter \notin {"node-test", "bun-test"}
          [] c = "executable" -> ~Supported(b)
          [] c = "dependencies" -> ~b.loads
          [] c = "temporary-workspace" -> FALSE
          [] c = "synthetic-preflight" -> \E n \in 1..Len(Probes) : b.odd = Probes[n].name
  IN {n \in 1..Len(Checks) : wrong(Checks[n])} \cup ({trouble} \ {0})

(* The doctor blames the first check at which something is wrong, and none *)
(* when nothing is: never what comes after it, or before, and never with a *)
(* result its own contract refuses.                                        *)
BlamesTheFirst ==
  asked.by = "doctor" /\ check = "ended" /\ replaced = 0 =>
    LET wrong == Unfit IN
    \/ admission.status = "READY" /\ wrong = {}
    \/ /\ admission.status = "BLOCKED"
       /\ admission.executed \in wrong /\ \A n \in wrong : n >= admission.executed
    \/ admission.status = "THROWN" /\ asked.authorized /\ asked.configuration \in {"CONFLICT", "FAILS"}

(* The three together: what is concluded about an executable is earned.    *)
VerdictIsEarned == AdmittedIsFit /\ IdentityIsOfOne /\ BlamesTheFirst
=============================================================================
