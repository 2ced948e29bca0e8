------------------------------- MODULE Setup -------------------------------
(***************************************************************************)
(* setup --write and disconnect --write: setupRepository of setup.ts, the  *)
(* writing end of initializeRepository (index.ts) and connectClient and    *)
(* disconnectClient of connection.ts, over the managed files of one        *)
(* repository.  Each file operation is one step and may fail, the process  *)
(* may be killed between two steps, and other programs edit the files.     *)
(*                                                                         *)
(* The preview of a run is one step: it writes nothing and every phase     *)
(* reads the files again.  What the repository says about itself does not  *)
(* change within a run.                                                    *)
(***************************************************************************)
EXTENDS Naturals, SequencesExt

CONSTANTS MaximumEdits, MaximumRuns   \* bounds of a model

VARIABLES
  disk,        \* what each path holds, and who wrote it
  pc,          \* the next step of the run
  todo,        \* the files still to write, to remove or to restore
  installed,   \* the init files this run created
  regenerated, \* the init files this run replaced
  created,     \* the client artifacts this run created, in order
  outcome,     \* status and rollback of the run
  edits, runs  \* how many edits and runs there have been

run == <<pc, todo, installed, regenerated, created, outcome>>
vars == <<disk, run, edits, runs>>

InitFiles == {"config", "lock"}
Artifacts == {"client", "skill"}
Managed == InitFiles \cup Artifacts
Paths == Managed \cup {"temp"}

(* The contents of a path.  "ours": the planned bytes; "stale": a valid    *)
(* lock of the same config; "part": a beginning of the planned bytes;      *)
(* "other": any other bytes; "unsafe": not a regular file.                 *)
Absent == [is |-> "absent", by |-> "other"]
File(content, writer) == [is |-> content, by |-> writer]
Put(p, content) == disk' = [disk EXCEPT ![p] = File(content, "run")]
Unlinked(p) == disk' = [disk EXCEPT ![p] = Absent]
Exists(p) == disk[p].is # "absent"

NoOutcome == [status |-> "none", removed |-> {}, unresolved |-> {}]

Init ==
  /\ \E config \in {"absent", "ours", "other", "unsafe"},
        lock \in {"absent", "ours", "stale", "other"},
        client, skill \in {"absent", "ours", "other"} :
       disk = [p \in Paths |->
                 CASE p = "config" -> File(config, "other")
                   [] p = "lock" -> File(lock, "other")
                   [] p = "client" -> File(client, "other")
                   [] p = "skill" -> File(skill, "other")
                   [] p = "temp" -> Absent]
  /\ pc = "idle" /\ todo = <<>> /\ installed = {} /\ regenerated = {} /\ created = <<>>
  /\ outcome = NoOutcome /\ edits = 0 /\ runs = 0

-----------------------------------------------------------------------------
(* What a plan reads from the files. *)

(* The chosen ones of two paths, sorted. *)
InOrder(first, second, chosen) ==
  (IF first \in chosen THEN <<first>> ELSE <<>>) \o (IF second \in chosen THEN <<second>> ELSE <<>>)

InitConflict ==
  disk["config"].is \notin {"absent", "ours"} \/ disk["lock"].is \notin {"absent", "ours", "stale"}
(* Sorted by path: the config before the lock. *)
InitActions == InOrder("config", "lock", {f \in InitFiles : disk[f].is # "ours"})
Regenerates(f) == f = "lock" /\ disk[f].is = "stale"

ConnectionConflict == \E a \in Artifacts : disk[a].is \notin {"absent", "ours"}
Missing == InOrder("client", "skill", {a \in Artifacts : ~Exists(a)})

Ends(status, removed, unresolved) ==
  /\ pc' = "done" /\ todo' = <<>>
  /\ outcome' = [status |-> status, removed |-> removed, unresolved |-> unresolved]
  /\ UNCHANGED <<installed, regenerated, created>>
Goes(step, files) == pc' = step /\ todo' = files
Same == UNCHANGED <<edits, runs>>

(* setup: the whole operation is refused before its first write. *)
Preview ==
  /\ pc = "idle" /\ runs < MaximumRuns /\ runs' = runs + 1
  /\ \/ (InitConflict \/ ConnectionConflict) /\ Ends("CONFLICT", {}, {})
     \/ \E refused \in {"CONFLICT", "BLOCKED"} : Ends(refused, {}, {})
     \/ /\ ~InitConflict /\ ~ConnectionConflict
        /\ \/ Goes("apply", <<>>)
              /\ UNCHANGED <<installed, regenerated, created, outcome>>
           \/ Ends(IF InitActions \o Missing = <<>> THEN "UNCHANGED" ELSE "WOULD_CREATE", {}, {})
  /\ UNCHANGED <<disk, edits>>

(* initializeRepository reads the repository again; it may also throw      *)
(* before it writes anything.                                              *)
ApplyInit ==
  /\ pc = "apply"
  /\ \/ InitConflict /\ Ends("CONFLICT", {}, {})
     \/ \E refused \in {"CONFLICT", "BLOCKED", "PARTIAL_FAILURE"} : Ends(refused, {}, {})
     \/ /\ ~InitConflict
        /\ IF InitActions = <<>> THEN Goes("connect", <<>>) ELSE Goes("open", InitActions)
        /\ regenerated' = {f \in InitFiles : Regenerates(f)}
        /\ UNCHANGED <<installed, created, outcome>>
  /\ UNCHANGED disk /\ Same

(* atomicInitWrite: a temporary file of its own name, written and closed. *)
OpenTemp ==
  /\ pc = "open" /\ ~Exists("temp") /\ Put("temp", "part") /\ pc' = "write"
  /\ UNCHANGED <<todo, installed, regenerated, created, outcome>> /\ Same

(* Mutant: the write is not awaited. *)
WriteTempUnawaited ==
  /\ pc = "write" /\ pc' = "install"
  /\ UNCHANGED <<disk, todo, installed, regenerated, created, outcome>> /\ Same

WriteTemp ==
  /\ pc = "write" /\ Put("temp", "ours") /\ pc' = "install"
  /\ UNCHANGED <<todo, installed, regenerated, created, outcome>> /\ Same

(* A new file is linked, which does not replace one. *)
LinkTemp ==
  /\ pc = "install" /\ Head(todo) \notin regenerated /\ ~Exists(Head(todo))
  /\ Put(Head(todo), disk["temp"].is) /\ installed' = installed \cup {Head(todo)}
  /\ pc' = "removeTemp" /\ UNCHANGED <<todo, regenerated, created, outcome>> /\ Same

NextFile ==
  /\ IF Len(todo) = 1 THEN Goes("connect", <<>>) ELSE Goes("open", Tail(todo))
  /\ UNCHANGED <<installed, regenerated, created, outcome>>

RemoveTemp == pc = "removeTemp" /\ Unlinked("temp") /\ NextFile /\ Same

(* An old lock is replaced at once. *)
RenameTemp ==
  /\ pc = "install" /\ Head(todo) \in regenerated
  /\ disk' = [disk EXCEPT ![Head(todo)] = disk["temp"], !["temp"] = Absent]
  /\ NextFile /\ Same

(* An operation on the temporary file or the link fails: the temporary     *)
(* file is removed, if it was opened, and the files installed so far are   *)
(* rolled back.  A failed write leaves any part of the file.               *)
InitFails ==
  /\ pc \in {"open", "write", "install", "removeTemp"}
  /\ \E cleaned \in BOOLEAN :
       /\ pc = "open" => cleaned
       /\ IF pc # "open" /\ cleaned THEN Unlinked("temp") ELSE UNCHANGED disk
       /\ outcome' =
            [status |-> "PARTIAL_FAILURE",
             removed |-> IF pc # "open" /\ cleaned THEN {"temp"} ELSE {},
             unresolved |-> IF IF pc = "open" THEN Exists("temp") ELSE ~cleaned THEN {"temp"} ELSE {}]
  /\ Goes("rollback", InOrder("config", "lock", installed))
  /\ UNCHANGED <<installed, regenerated, created>> /\ Same

(* Mutant: what this run created is removed unread. *)
RollBackUnread ==
  LET f == Head(todo) IN
  /\ pc = "rollback" /\ todo # <<>>
  /\ Unlinked(f) /\ outcome' = [outcome EXCEPT !.removed = @ \cup {f}]
  /\ todo' = Tail(todo)
  /\ UNCHANGED <<pc, installed, regenerated, created>> /\ Same

(* rollbackCreatedInitFiles: the bytes are compared and the file removed,  *)
(* with nothing of others in between, or the file is left and reported.    *)
RollBack ==
  LET f == Head(todo) IN
  /\ pc = "rollback" /\ todo # <<>>
  /\ \/ /\ disk[f].is \in {"ours", "absent"}
        /\ Unlinked(f) /\ outcome' = [outcome EXCEPT !.removed = @ \cup {f}]
     \/ /\ Exists(f) /\ UNCHANGED disk
        /\ outcome' = [outcome EXCEPT !.unresolved = @ \cup {f}]
  /\ todo' = Tail(todo)
  /\ UNCHANGED <<pc, installed, regenerated, created>> /\ Same

RolledBack ==
  /\ pc = "rollback" /\ todo = <<>>
  /\ Ends(IF outcome.unresolved = {} THEN outcome.status ELSE "PARTIAL_FAILURE",
          outcome.removed, outcome.unresolved)
  /\ UNCHANGED disk /\ Same

-----------------------------------------------------------------------------
(* connectClient: the artifacts are inspected again.                       *)

(* Mutant: the lock that was replaced is not reported. *)
BackOutOfCreated(status, removed, unresolved) ==
  /\ Goes("rollback", InOrder("config", "lock", installed))
  /\ outcome' = [status |-> status, removed |-> removed, unresolved |-> unresolved]

(* setup takes back its init files; a replaced lock cannot be restored. *)
BackOut(status, removed, unresolved) ==
  /\ Goes("rollback", InOrder("config", "lock", installed))
  /\ outcome' = [status |-> status, removed |-> removed, unresolved |-> unresolved \cup regenerated]

Connect ==
  /\ pc = "connect"
  /\ \/ ConnectionConflict /\ BackOut("CONFLICT", {}, {})
     \/ BackOut("PARTIAL_FAILURE", {}, {})
     \/ /\ ~ConnectionConflict /\ Missing = <<>>
        /\ pc' = "connected" /\ UNCHANGED <<todo, outcome>>
     \/ /\ ~ConnectionConflict /\ Missing # <<>>
        /\ Goes("openArtifact", Missing) /\ UNCHANGED outcome
  /\ UNCHANGED <<disk, installed, regenerated, created>> /\ Same

OpenArtifact ==
  /\ pc = "openArtifact" /\ ~Exists(Head(todo))
  /\ Put(Head(todo), "part") /\ created' = Append(created, Head(todo))
  /\ pc' = "writeArtifact"
  /\ UNCHANGED <<todo, installed, regenerated, outcome>> /\ Same

(* The handle is the run's own: a file that replaced it is not written. *)
WriteArtifact ==
  /\ pc = "writeArtifact"
  /\ IF disk[Head(todo)].by = "run" THEN Put(Head(todo), "ours") ELSE UNCHANGED disk
  /\ IF Len(todo) = 1 THEN Goes("connected", <<>>) ELSE Goes("openArtifact", Tail(todo))
  /\ UNCHANGED <<installed, regenerated, created, outcome>> /\ Same

(* The exclusive open fails, because the artifact appeared or otherwise,   *)
(* or the write does: what was created is removed, the last one first.     *)
ConnectFails ==
  /\ pc \in {"openArtifact", "writeArtifact"}
  /\ Goes("unconnect", Reverse(created) \o (IF pc = "openArtifact" THEN <<Head(todo)>> ELSE <<>>))
  /\ UNCHANGED <<disk, installed, regenerated, created, outcome>> /\ Same

(* rollbackCreated: whatever the regular file holds, it is removed. *)
Unconnect ==
  LET a == Head(todo) IN
  /\ pc = "unconnect" /\ todo # <<>> /\ a \in ToSet(created)
  /\ \/ ~Exists(a) /\ UNCHANGED <<disk, outcome>>
     \/ /\ Exists(a) /\ disk[a].is # "unsafe"
        /\ Unlinked(a) /\ outcome' = [outcome EXCEPT !.removed = @ \cup {a}]
     \/ /\ Exists(a) /\ UNCHANGED disk
        /\ outcome' = [outcome EXCEPT !.unresolved = @ \cup {a}]
  /\ todo' = Tail(todo)
  /\ UNCHANGED <<pc, installed, regenerated, created>> /\ Same

(* An artifact that could not be opened and is there belongs to another.   *)
Unreserved ==
  LET a == Head(todo) IN
  /\ pc = "unconnect" /\ todo # <<>> /\ a \notin ToSet(created)
  /\ IF Exists(a) THEN outcome' = [outcome EXCEPT !.unresolved = @ \cup {a}] ELSE UNCHANGED outcome
  /\ todo' = Tail(todo)
  /\ UNCHANGED <<disk, pc, installed, regenerated, created>> /\ Same

Unconnected ==
  /\ pc = "unconnect" /\ todo = <<>>
  /\ BackOut("PARTIAL_FAILURE", outcome.removed, outcome.unresolved)
  /\ UNCHANGED <<disk, installed, regenerated, created>> /\ Same

Connected ==
  /\ pc = "connected"
  /\ Ends(IF installed = {} /\ regenerated = {} /\ created = <<>> THEN "UNCHANGED" ELSE "CREATED", {}, {})
  /\ UNCHANGED disk /\ Same

-----------------------------------------------------------------------------
(* disconnect --write: nothing is removed unless every artifact that is    *)
(* there has the planned bytes.                                            *)
Disconnect ==
  /\ pc = "idle" /\ runs < MaximumRuns /\ runs' = runs + 1
  /\ \/ (\E a \in Artifacts : disk[a].is = "unsafe") /\ Ends("failed", {}, {})
     \/ (\A a \in Artifacts : disk[a].is # "unsafe") /\ ConnectionConflict /\ Ends("CONFLICT", {}, {})
     \/ ~ConnectionConflict /\ Ends("EMITTED", {}, {})
     \/ /\ ~ConnectionConflict
        /\ LET present == InOrder("client", "skill", {a \in Artifacts : Exists(a)}) IN
           IF present = <<>>
           THEN Ends("ABSENT", {}, {})
           ELSE Goes("unlink", present) /\ UNCHANGED <<installed, regenerated, created, outcome>>
  /\ UNCHANGED <<disk, edits>>

Unlink ==
  LET a == Head(todo) IN
  /\ pc = "unlink" /\ Exists(a) /\ Unlinked(a)
  /\ IF Len(todo) = 1
     THEN Ends("REMOVED", outcome.removed \cup {a}, {})
     ELSE /\ Goes("unlink", Tail(todo))
          /\ outcome' = [outcome EXCEPT !.removed = @ \cup {a}]
          /\ UNCHANGED <<installed, regenerated, created>>
  /\ Same

(* The removed artifacts are written back, where nothing took their place. *)
UnlinkFails ==
  /\ pc = "unlink"
  /\ \/ disk' = [a \in Paths |->
                   IF a \in outcome.removed /\ ~Exists(a) THEN File("ours", "other") ELSE disk[a]]
     \/ outcome.removed # {} /\ UNCHANGED disk
  /\ Ends("failed", outcome.removed, {}) /\ Same

-----------------------------------------------------------------------------
(* Other programs, outside the window that the setup documentation gives   *)
(* them no right to: a lock that is to be replaced.                        *)
Edit ==
  /\ edits < MaximumEdits /\ edits' = edits + 1
  /\ \E p \in Managed \cup {"temp"}, content \in {"absent", "ours", "other", "unsafe"} :
       /\ disk[p].is # content
       /\ p = "temp" => ~Exists(p) /\ content = "other"
       /\ p \notin regenerated \/ pc \notin {"open", "write", "install", "removeTemp"}
       /\ pc = "unlink" => p \notin Artifacts
       /\ disk' = [disk EXCEPT ![p] = File(content, "other")]
  /\ UNCHANGED <<run, runs>>

(* A run is over or is killed; the temporary file of the next one has      *)
(* another name.                                                           *)
EndOfRun ==
  /\ pc # "idle"
  /\ disk' = [p \in Paths |-> IF p = "temp" THEN Absent ELSE File(disk[p].is, "other")]
  /\ pc' = "idle" /\ todo' = <<>> /\ installed' = {} /\ regenerated' = {} /\ created' = <<>>
  /\ outcome' = NoOutcome /\ Same

Next ==
  \/ Preview \/ ApplyInit \/ OpenTemp \/ WriteTemp \/ LinkTemp \/ RemoveTemp \/ RenameTemp
  \/ InitFails \/ RollBack \/ RolledBack
  \/ Connect \/ OpenArtifact \/ WriteArtifact \/ ConnectFails \/ Unconnect \/ Unreserved \/ Unconnected \/ Connected
  \/ Disconnect \/ Unlink \/ UnlinkFails
  \/ Edit \/ EndOfRun

Spec == Init /\ [][Next]_vars

-----------------------------------------------------------------------------
(* The values of the variables. *)
(* An init file is whole or not there at every moment, killed runs         *)
(* included, so that the next run resumes an interrupted initialization.   *)
InitFilesWhole == \A f \in InitFiles : disk[f].is # "part"

Touched(p) == disk'[p].is # disk[p].is
OfThisRun == edits' = edits /\ pc # "idle" /\ pc' # "idle"

(* A run changes a path that it did not write itself only by creating it   *)
(* where there was none, or by replacing an old lock of the same config;   *)
(* disconnect removes artifacts with the planned bytes only.               *)
OnlyItsOwn ==
  [][OfThisRun => \A p \in Paths :
       Touched(p) => \/ disk[p].by = "run" \/ ~Exists(p)
                     \/ p \in regenerated /\ disk[p].is = "stale"
                     \/ p \in installed /\ disk[p].is = "ours"
                     \/ p \in ToSet(created)
                     \/ pc = "unlink" /\ disk[p].is = "ours"]_vars

Edited(f) == disk[f].by = "other" /\ disk[f].is \in {"other", "unsafe"}

(* docs/developer-experience.md:25: "A changed or regenerated file is       *)
(* preserved and yields PARTIAL_FAILURE".  rollbackCreated of              *)
(* connection.ts removes an edited artifact all the same.                  *)
EditsKept == [][OfThisRun => \A f \in Managed : Edited(f) => ~Touched(f)]_vars

(* A setup that did not succeed reports as unresolved every file of its    *)
(* own that is still there, reports as removed none that is, and claims a  *)
(* clean refusal only when nothing of it is left.                          *)
Accounted ==
  pc = "done" /\ outcome.status \notin {"CREATED", "UNCHANGED", "REMOVED", "failed"} =>
    /\ \A p \in Paths : disk[p].by = "run" /\ Exists(p) => p \in outcome.unresolved
    /\ \A p \in outcome.removed : disk[p].by # "run"
    /\ outcome.unresolved # {} => outcome.status = "PARTIAL_FAILURE"
=============================================================================
