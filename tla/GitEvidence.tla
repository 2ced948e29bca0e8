---------------------------- MODULE GitEvidence ----------------------------
(***************************************************************************)
(* How qualify of src/engine/git-regression.ts publishes the evidence of a *)
(* Git regression: several publishers that were given the same output      *)
(* directory, each with a disposable snapshot of its own, on a file system *)
(* whose operations are atomic one by one.  A file operation may fail, a   *)
(* failed write may leave a part of its file, and a publisher may be       *)
(* killed between any two operations and in the middle of a write.         *)
(***************************************************************************)
EXTENDS Naturals, SequencesExt

CONSTANTS
  Publishers,
  NoOne   \* not a publisher

VARIABLES
  pc,       \* what each publisher does next, or how it ended
  dir,      \* who reserved the output directory; NoOne: it does not exist
  files,    \* the files in the directory
  owned,    \* ownedFiles: what each publisher wrote, in order
  snapshot  \* the temporary root of each: "absent" | "present" | "leaked"

vars == <<pc, dir, files, owned, snapshot>>

Pending(p) == <<"manifest-tmp", p>>
Names == {<<"request">>, <<"summary">>, <<"manifest">>} \cup {Pending(p) : p \in Publishers}

Absent == [by |-> NoOne, whole |-> FALSE]
Whole(p) == [by |-> p, whole |-> TRUE]
Part(p) == [by |-> p, whole |-> FALSE]

Ends == {"done", "failed", "cleanupFailed", "crashed"}

(* The files in the order they are written, before the last is renamed. *)
FileOf(p, step) ==
  CASE step = "request" -> <<"request">>
    [] step = "summary" -> <<"summary">>
    [] step = "pending" -> Pending(p)

After(step) ==
  CASE step = "request" -> "summary" [] step = "summary" -> "pending" [] step = "pending" -> "rename"

Writing == {"request", "summary", "pending"}

Init ==
  /\ pc = [p \in Publishers |-> "check"]
  /\ dir = NoOne
  /\ files = [n \in Names |-> Absent]
  /\ owned = [p \in Publishers |-> <<>>]
  /\ snapshot = [p \in Publishers |-> "absent"]

Goes(p, step) == pc' = [pc EXCEPT ![p] = step]

-----------------------------------------------------------------------------
(* reserveOutputTarget: the options and revisions are valid, the target is *)
(* looked up, then created exclusively.                                    *)

Check(p) ==
  /\ pc[p] = "check"
  /\ \/ Goes(p, IF dir = NoOne THEN "reserve" ELSE "failed")
     \/ Goes(p, "failed")
  /\ UNCHANGED <<dir, files, owned, snapshot>>

Reserve(p) ==
  /\ pc[p] = "reserve"
  /\ IF dir = NoOne
     THEN dir' = p /\ Goes(p, "snapshot")
     ELSE UNCHANGED dir /\ Goes(p, "failed")
  /\ UNCHANGED <<files, owned, snapshot>>

-----------------------------------------------------------------------------
(* The qualification proper.                                               *)

TakeSnapshot(p) ==
  /\ pc[p] = "snapshot"
  /\ snapshot' = [snapshot EXCEPT ![p] = "present"]
  /\ Goes(p, "campaign")
  /\ UNCHANGED <<dir, files, owned>>

(* verifyCampaign returned a manifest whose controls discovered their tests. *)
Qualify(p) ==
  /\ pc[p] = "campaign"
  /\ Goes(p, "removeSnapshot")
  /\ UNCHANGED <<dir, files, owned, snapshot>>

RemoveSnapshot(p) ==
  /\ pc[p] = "removeSnapshot"
  /\ snapshot' = [snapshot EXCEPT ![p] = "absent"]
  /\ Goes(p, "request")
  /\ UNCHANGED <<dir, files, owned>>

(* Any of these stages throws, the creation of the snapshot half-way. *)
StageFails(p) ==
  /\ pc[p] \in {"snapshot", "campaign", "removeSnapshot"}
  /\ snapshot' \in IF pc[p] = "snapshot" THEN {snapshot, [snapshot EXCEPT ![p] = "present"]}
                   ELSE {snapshot}
  /\ Goes(p, "cleanup")
  /\ UNCHANGED <<dir, files, owned>>

-----------------------------------------------------------------------------
(* writeEvidence *)

(* A file is created, never overwritten, and then belongs to its writer. *)
Write(p, step) ==
  /\ pc[p] = step
  /\ dir # NoOne /\ files[FileOf(p, step)] = Absent
  /\ files' = [files EXCEPT ![FileOf(p, step)] = Whole(p)]
  /\ owned' = [owned EXCEPT ![p] = Append(@, FileOf(p, step))]
  /\ Goes(p, After(step))
  /\ UNCHANGED <<dir, snapshot>>

(* A part of the file may have been written: it is not owned. *)
PartWritten(p, step) ==
  IF dir = NoOne \/ files[FileOf(p, step)] # Absent THEN {files}
  ELSE {files, [files EXCEPT ![FileOf(p, step)] = Part(p)]}

WriteFails(p, step) ==
  /\ pc[p] = step
  /\ files' \in PartWritten(p, step)
  /\ Goes(p, "unwrite")
  /\ UNCHANGED <<dir, owned, snapshot>>

(* Mutant: the manifest is written in place. *)
PublishInPlace(p) ==
  /\ pc[p] = "rename"
  /\ \/ /\ files' = [files EXCEPT ![<<"manifest">>] = Whole(p)]
        /\ Goes(p, "done")
     \/ files' = [files EXCEPT ![<<"manifest">>] = Part(p)] /\ Goes(p, "unwrite")
  /\ UNCHANGED <<dir, owned, snapshot>>

(* The manifest appears whole, by a rename. *)
Publish(p) ==
  /\ pc[p] = "rename"
  /\ files' = [files EXCEPT ![<<"manifest">>] = files[Pending(p)], ![Pending(p)] = Absent]
  /\ Goes(p, "done")
  /\ UNCHANGED <<dir, owned, snapshot>>

PublishFails(p) ==
  /\ pc[p] = "rename"
  /\ Goes(p, "unwrite")
  /\ UNCHANGED <<dir, files, owned, snapshot>>

(* The owned files are removed, the last one first. *)
Unwrite(p) ==
  /\ pc[p] = "unwrite"
  /\ IF owned[p] = <<>> THEN Goes(p, "cleanup") /\ UNCHANGED <<files, owned>>
     ELSE /\ files' = [files EXCEPT ![Last(owned[p])] = Absent]
          /\ owned' = [owned EXCEPT ![p] = Front(@)]
          /\ UNCHANGED pc
  /\ UNCHANGED <<dir, snapshot>>

UnwriteFails(p) ==
  /\ pc[p] = "unwrite" /\ owned[p] # <<>>
  /\ Goes(p, "cleanup")
  /\ UNCHANGED <<dir, files, owned, snapshot>>

-----------------------------------------------------------------------------
(* The finally clauses: the snapshot, then the directory if it is empty.   *)

(* Mutant: a snapshot that stays keeps the directory from being given back. *)
CleanupInOrder(p) ==
  /\ pc[p] = "cleanup"
  /\ \E s \in IF snapshot[p] = "present" THEN {"absent", "leaked"} ELSE {snapshot[p]} :
       /\ snapshot' = [snapshot EXCEPT ![p] = s]
       /\ dir' = IF s # "leaked" /\ \A n \in Names : files[n] = Absent THEN NoOne ELSE dir
  /\ Goes(p, "failed")
  /\ UNCHANGED <<files, owned>>

Cleanup(p) ==
  /\ pc[p] = "cleanup"
  /\ snapshot' \in {[snapshot EXCEPT ![p] = s] :
                      s \in IF snapshot[p] = "present" THEN {"absent", "leaked"} ELSE {snapshot[p]}}
  /\ dir' = IF \A n \in Names : files[n] = Absent THEN NoOne ELSE dir
  /\ Goes(p, "failed")
  /\ UNCHANGED <<files, owned>>

(* The directory cannot be removed for another reason. *)
CleanupFails(p) ==
  /\ pc[p] = "cleanup"
  /\ snapshot' \in {[snapshot EXCEPT ![p] = s] :
                      s \in IF snapshot[p] = "present" THEN {"absent", "leaked"} ELSE {snapshot[p]}}
  /\ Goes(p, "cleanupFailed")
  /\ UNCHANGED <<dir, files, owned>>

Crash(p) ==
  /\ pc[p] \notin Ends
  /\ files' \in IF pc[p] \in Writing THEN PartWritten(p, pc[p]) ELSE {files}
  /\ Goes(p, "crashed")
  /\ UNCHANGED <<dir, owned, snapshot>>

Next ==
  \E p \in Publishers :
    \/ Check(p) \/ Reserve(p)
    \/ TakeSnapshot(p) \/ Qualify(p) \/ RemoveSnapshot(p) \/ StageFails(p)
    \/ \E step \in Writing : Write(p, step) \/ WriteFails(p, step)
    \/ Publish(p) \/ PublishFails(p) \/ Unwrite(p) \/ UnwriteFails(p)
    \/ Cleanup(p) \/ CleanupFails(p) \/ Crash(p)

Spec == Init /\ [][Next]_vars

-----------------------------------------------------------------------------
(* README.md:202: "`manifest.json` is published last; its presence marks a *)
(* complete result."  Whatever was written, failed or killed before, and   *)
(* by whom: a manifest is whole and lies beside the whole request and the  *)
(* whole summary of the same publisher.                                    *)
ManifestMarksCompletion ==
  files[<<"manifest">>] # Absent =>
    LET p == files[<<"manifest">>].by
    IN files[<<"manifest">>] = Whole(p) /\ files[<<"request">>] = Whole(p)
         /\ files[<<"summary">>] = Whole(p)

(* A failed publisher does not keep the output directory to itself: it is  *)
(* gone, unless a part of a file or a file that could not be removed is    *)
(* still in it.                                                            *)
FailureGivesBack ==
  \A p \in Publishers : (pc[p] = "failed" /\ dir = p) => \E n \in Names : files[n].by = p

=============================================================================
