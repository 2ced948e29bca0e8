--------------------------- MODULE RepositoryFiles ---------------------------
(***************************************************************************)
(* What reads and writes the files of a repository, one component per      *)
(* behaviour: a campaign that takes its snapshot; a setup or a             *)
(* disconnection, and more of them after it or after it was killed; the    *)
(* publishers of a Git regression with one output directory; the importers *)
(* of witnesses with one output directory.                                 *)
(***************************************************************************)
EXTENDS Naturals, Sequences, FiniteSets

CONSTANTS
  Entries, Order, ParentOf, Workers, MaximumFiles, MaximumBytes, MaximumEdits,  \* of Snapshot
  MaximumRuns,                                        \* of setup
  Publishers, NoOne,
  Importers, None, GivenImports, AtFirst, Host, MaximumImportEdits   \* of WitnessImport
ASSUME FilesAssumption == NoOne \notin Publishers \cup Importers

(* The directories are finite, and walked in some order.                   *)
ASSUME EntriesAssumption ==
  IsFiniteSet(Entries) /\ Order \in Seq(Entries) /\ \A p \in Entries : \E i \in 1 .. Len(Order) : Order[i] = p

(* Contents are numbers of bytes, whatever else is wrong with a witness.   *)
ASSUME WitnessAssumption ==
  \A g \in GivenImports, p \in Importers :
    LET w == g[p].witness
        hasSizes(overlays) ==
          IsFiniteSet(DOMAIN overlays) /\ \A i \in DOMAIN overlays : overlays[i].content \in Nat
    IN w.attempts \in Nat /\ hasSizes(w.targets) /\ (w.neutral # None => hasSizes(w.neutral.files))

VARIABLES
  component,
  version, source, edits, pc, rest, files, links, bytes, planned, omitted,
  next, todo, worker, made, there, snapshot, digest,
  disk, setupPc, setupTodo, installed, regenerated, created, outcome, setupEdits, runs,
  publisherPc, reserved, published, owned, temporary,
  given, repository, importEdits, importPc, unchecked, request, remaining, target, saved

N == INSTANCE Snapshot WITH Paths <- Entries
S == INSTANCE Setup WITH pc <- setupPc, todo <- setupTodo, edits <- setupEdits
G == INSTANCE GitEvidence
       WITH pc <- publisherPc, dir <- reserved, files <- published, snapshot <- temporary
W == INSTANCE WitnessImport
       WITH Imports <- GivenImports, MaximumEdits <- MaximumImportEdits,
            edits <- importEdits, pc <- importPc, dir <- target, files <- saved

snapshotVars == <<version, source, edits, pc, rest, files, links, bytes, planned, omitted,
                  next, todo, worker, made, there, snapshot, digest>>
setupVars == <<disk, setupPc, setupTodo, installed, regenerated, created, outcome, setupEdits, runs>>
publisherVars == <<publisherPc, reserved, published, owned, temporary>>
importVars == <<given, repository, importEdits, importPc, unchecked, request, remaining, target, saved>>
filesVars == <<component, snapshotVars, setupVars, publisherVars, importVars>>

(* The components that do not run stay in one of their initial states. *)
NothingDone == N!Init /\ S!Init /\ G!Init /\ W!Init
FilesInit == NothingDone /\ component \in {"snapshot", "setup", "publisher", "import"}

FilesNext ==
  \/ component = "snapshot" /\ N!Next /\ UNCHANGED <<component, setupVars, publisherVars, importVars>>
  \/ component = "setup" /\ S!Next /\ UNCHANGED <<component, snapshotVars, publisherVars, importVars>>
  \/ component = "publisher" /\ G!Next /\ UNCHANGED <<component, snapshotVars, setupVars, importVars>>
  \/ component = "import" /\ W!Next /\ UNCHANGED <<component, snapshotVars, setupVars, publisherVars>>

FilesSpec == FilesInit /\ [][FilesNext]_filesVars

-----------------------------------------------------------------------------
(* The properties of Snapshot, Setup, GitEvidence and WitnessImport, under *)
(* their names.                                                            *)
(* See Snapshot: the executed copy is what its digest says. *)
DigestIsExecuted == N!DigestIsExecuted
(* See Snapshot and WitnessImport: what is executed is within the budgets  *)
(* of the request, and the campaign of a witness within those it is given. *)
ExecutedWithinBudget == N!ExecutedWithinBudget /\ W!CampaignWithinBudgets
(* See Setup: an init file is whole or not there at every moment. *)
InitFilesWhole == S!InitFilesWhole
(* See Setup: a run changes only what it wrote, or may replace or remove. *)
OnlyItsOwn == S!OnlyItsOwn
(* See Setup: a setup that did not succeed reports what is left of it. *)
Accounted == S!Accounted
(* See Setup: an edited file is preserved. *)
EditsKept == S!EditsKept
(* See GitEvidence and WitnessImport: a manifest marks a complete result. *)
ManifestMarksCompletion == G!ManifestMarksCompletion /\ W!ManifestMarksCompletion
(* See GitEvidence and WitnessImport: a failed publisher or importer gives *)
(* the directory back.                                                     *)
FailureGivesBack == G!FailureGivesBack /\ W!FailureGivesBack
=============================================================================
