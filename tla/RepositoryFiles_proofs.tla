----------------------- MODULE RepositoryFiles_proofs -----------------------
(***************************************************************************)
(* Theorems about the files of a repository, for every value of the        *)
(* constants of RepositoryFiles: every tree, order and number of copy      *)
(* workers of a snapshot, every number of edits and of runs of a setup,    *)
(* every set of publishers and of importers, and every witness.            *)
(*                                                                         *)
(* Each component has an inductive invariant: who holds the output         *)
(* directory and how far its files are written (PublisherInv,              *)
(* ImporterInv); that the campaign of a witness is the one built from it   *)
(* (BuiltInv); that every worker is idle once the copying is over          *)
(* (SnapshotInv), and that the walk of the snapshot has counted and added  *)
(* up exactly what it has passed (MeasuredInv); and what a setup has       *)
(* written against its books, step by step (SetupInv).                     *)
(***************************************************************************)
EXTENDS RepositoryFiles, SequenceTheorems, Sums_proofs

-----------------------------------------------------------------------------
(* The publishers of a Git regression. *)

Early == {"check", "reserve"}
Holding == {"snapshot", "campaign", "removeSnapshot", "request", "summary", "pending",
            "rename", "unwrite", "cleanup"}

PublisherTypes ==
  /\ publisherPc \in [Publishers -> Early \cup Holding \cup G!Ends]
  /\ reserved \in Publishers \cup {NoOne}
  /\ published \in [G!Names -> [by : Publishers \cup {NoOne}, whole : BOOLEAN]]
  /\ owned \in [Publishers -> Seq(G!Names)]

(* Who holds the directory, and whose files are in it. *)
OneHolder ==
  \A p \in Publishers : /\ publisherPc[p] \in Holding => reserved = p
                        /\ publisherPc[p] \in Early => reserved # p
FilesOfHolder ==
  \A n \in G!Names : published[n] # G!Absent => reserved # NoOne /\ published[n].by = reserved

(* What is written is whole, in its order; the manifest is there only when *)
(* its publisher is done.                                                  *)
WrittenInOrder ==
  \A p \in Publishers :
    /\ publisherPc[p] \in {"summary", "pending", "rename"} => published[<<"request">>] = G!Whole(p)
    /\ publisherPc[p] \in {"pending", "rename"} => published[<<"summary">>] = G!Whole(p)
    /\ publisherPc[p] = "rename" => published[G!Pending(p)] = G!Whole(p)
ManifestLast ==
  published[<<"manifest">>] # G!Absent =>
    /\ publisherPc[reserved] = "done"
    /\ \A n \in {<<"manifest">>, <<"request">>, <<"summary">>} : published[n] = G!Whole(reserved)
GivenBack ==
  \A p \in Publishers :
    publisherPc[p] = "failed" /\ reserved = p => \E n \in G!Names : published[n] # G!Absent

PublisherInv ==
  PublisherTypes /\ OneHolder /\ FilesOfHolder /\ WrittenInOrder /\ ManifestLast /\ GivenBack

(* The importers of witnesses. *)

ImportEarly == {"parse", "compare", "look", "verify", "reserve"}
ImportHolding == {"request", "summary", "pending", "rename", "clean"}

ImporterTypes ==
  /\ importPc \in [Importers -> ImportEarly \cup ImportHolding \cup W!Ends]
  /\ target \in Importers \cup {NoOne}
  /\ saved \in [W!Names -> [by : Importers \cup {NoOne}, whole : BOOLEAN]]
  /\ DOMAIN remaining = Importers

OneImporter ==
  \A p \in Importers : /\ importPc[p] \in ImportHolding => target = p
                       /\ importPc[p] \in ImportEarly => target # p
SavedByHolder ==
  \A n \in W!Names : saved[n] # W!Absent => target # NoOne /\ saved[n].by = target
SavedInOrder ==
  \A p \in Importers :
    /\ importPc[p] \in {"summary", "pending", "rename"} => saved["executed-request.json"] = W!Whole(p)
    /\ importPc[p] \in {"pending", "rename"} => saved["summary.md"] = W!Whole(p)
    /\ importPc[p] = "rename" => saved[".manifest.tmp"] = W!Whole(p)
SavedManifestLast ==
  saved["manifest.json"] # W!Absent =>
    /\ importPc[target] = "done"
    /\ \A n \in {"manifest.json", "executed-request.json", "summary.md"} : saved[n] = W!Whole(target)

(* The clean-up goes through its names, and what it has passed is gone. *)
CleansAll ==
  \A p \in Importers : importPc[p] = "clean" =>
    \/ remaining[p] = <<".manifest.tmp", "summary.md", "executed-request.json">>
    \/ /\ remaining[p] = <<"summary.md", "executed-request.json">>
       /\ saved[".manifest.tmp"] = W!Absent
    \/ /\ remaining[p] = <<"executed-request.json">>
       /\ saved[".manifest.tmp"] = W!Absent /\ saved["summary.md"] = W!Absent
    \/ /\ remaining[p] = <<>>
       /\ \A n \in W!Names \ {"manifest.json"} : saved[n] = W!Absent
NotKept == \A p \in Importers : importPc[p] = "failed" => target # p

ImporterInv ==
  /\ ImporterTypes /\ OneImporter /\ SavedByHolder /\ SavedInOrder
  /\ SavedManifestLast /\ CleansAll /\ NotKept

(* The snapshot of a campaign. *)

CopyingEnds ==
  pc \notin {"copy", "removing", "threw", "returned"} => \A w \in Workers : worker[w] = N!Idle
SnapshotInv ==
  /\ DOMAIN worker = Workers
  /\ CopyingEnds
  /\ N!DigestIsExecuted

(* The setup of a repository. *)

InitTodo == {<<"config">>, <<"lock">>, <<"config", "lock">>}
ArtifactTodo == {<<"client">>, <<"skill">>, <<"client", "skill">>}
Installing == {"open", "write", "install", "removeTemp"}
Connecting == {"openArtifact", "writeArtifact"}
Unwritten == {"idle", "apply", "unlink"}
Steps == Installing \cup Connecting \cup Unwritten
           \cup {"rollback", "connect", "unconnect", "connected", "done"}
Contents == {"absent", "ours", "stale", "part", "other", "unsafe"}

Created == S!ToSet(created)
Todo == S!ToSet(setupTodo)

SetupTypes ==
  /\ disk \in [S!Paths -> [is : Contents, by : {"run", "other"}]]
  /\ \A p \in S!Paths : disk[p].is = "absent" => disk[p].by = "other"
  /\ setupPc \in Steps
  /\ installed \subseteq S!InitFiles /\ regenerated \subseteq {"lock"}
  /\ created \in Seq(S!Artifacts)
  /\ setupTodo \in Seq(S!Managed)
  /\ outcome.removed \subseteq S!Paths
  /\ outcome = [status |-> outcome.status, removed |-> outcome.removed, unresolved |-> outcome.unresolved]

(* What is left to do. *)
TodoFits ==
  /\ setupPc \in Installing => setupTodo \in InitTodo
  /\ setupPc \in Connecting \cup {"unlink"} => setupTodo \in ArtifactTodo
  /\ setupPc = "rollback" => Todo \subseteq installed
  /\ setupPc = "unconnect" => Todo \subseteq S!Artifacts
  /\ setupPc = "writeArtifact" => Head(setupTodo) \in Created

(* The temporary file: whose it is, and that it is linked whole. *)
TempFits ==
  /\ setupPc \in {"write", "install", "removeTemp"} => disk["temp"].by = "run"
  /\ setupPc = "install" => disk["temp"].is = "ours"
  /\ setupPc \notin {"write", "install", "removeTemp", "done", "rollback"} => disk["temp"].by = "other"

(* A lock that is to be replaced is still the old one, and the last file.  *)
LockIsLast ==
  (setupPc \in Installing /\ "lock" \in regenerated) =>
    /\ setupTodo \in {<<"lock">>, <<"config", "lock">>}
    /\ disk["lock"].is = "stale"

(* Before it writes. *)
NothingWritten ==
  /\ setupPc \in Unwritten => \A p \in S!Paths : disk[p].by = "other"
  /\ setupPc \in {"idle", "apply"} => installed = {} /\ created = <<>>
  /\ setupPc = "idle" => regenerated = {}
  /\ setupPc \in Installing \cup {"connect"} => created = <<>>
  /\ setupPc \in Installing \cup Connecting \cup {"idle", "apply", "connect"} =>
       outcome.removed = {} /\ outcome.unresolved = {}
  /\ setupPc = "unlink" => \A a \in Todo : disk[a].is = "ours"

(* While it writes, what it has written is in its books. *)
InitBooked ==
  /\ setupPc \in Installing => (disk["lock"].by = "run" => "lock" \in installed)
  /\ setupPc \in Installing \cup Connecting \cup {"connect", "unconnect"} =>
       \A f \in S!InitFiles : disk[f].by = "run" => f \in installed \cup regenerated
ArtifactsBooked ==
  /\ setupPc \in Installing \cup Connecting \cup {"connect"} =>
       \A a \in S!Artifacts : disk[a].by = "run" => a \in Created
  /\ setupPc = "unconnect" =>
       \A a \in S!Artifacts :
         disk[a].by = "run" => a \in outcome.unresolved \/ (a \in Created /\ a \in Todo)

(* While it takes back, what is left is still to be taken back or reported. *)
TakenBack ==
  /\ setupPc = "rollback" =>
       /\ \A p \in S!Paths : disk[p].by = "run" => p \in outcome.unresolved \cup Todo
       /\ outcome.status \notin {"CREATED", "UNCHANGED", "REMOVED", "failed"}
  /\ setupPc \in {"unconnect", "rollback"} => \A p \in outcome.removed : disk[p].by = "other"

SetupInv ==
  /\ SetupTypes /\ TodoFits /\ TempFits /\ LockIsLast /\ NothingWritten
  /\ InitBooked /\ ArtifactsBooked /\ TakenBack
  /\ S!InitFilesWhole /\ S!Accounted

-----------------------------------------------------------------------------
(* The files of the output directory of a regression have names of their   *)
(* own, a pending manifest one per publisher.                              *)
LEMMA NamesApart ==
  /\ \A p \in Publishers :
       /\ G!Pending(p) \in G!Names
       /\ G!Pending(p) # <<"request">>
       /\ G!Pending(p) # <<"summary">>
       /\ G!Pending(p) # <<"manifest">>
       /\ \A q \in Publishers : q # p => G!Pending(q) # G!Pending(p)
  /\ <<"request">> \in G!Names /\ <<"summary">> \in G!Names /\ <<"manifest">> \in G!Names
  /\ <<"request">> # <<"summary">> /\ <<"request">> # <<"manifest">> /\ <<"summary">> # <<"manifest">>
BY DEF G!Names, G!Pending

(* What a publisher wrote, whole or cut short, is told from no file, and   *)
(* says who wrote it.                                                      *)
LEMMA EntriesApart ==
  ASSUME NEW p \in Publishers
  PROVE /\ G!Whole(p).by = p /\ G!Part(p).by = p /\ G!Absent.by = NoOne
        /\ G!Whole(p) \in [by : Publishers \cup {NoOne}, whole : BOOLEAN]
        /\ G!Part(p) \in [by : Publishers \cup {NoOne}, whole : BOOLEAN]
        /\ G!Absent \in [by : Publishers \cup {NoOne}, whole : BOOLEAN]
        /\ G!Whole(p) # G!Absent /\ G!Part(p) # G!Absent
BY FilesAssumption DEF G!Whole, G!Part, G!Absent

(* A step that leaves the files as they are. *)
LEMMA PublisherMoves ==
  ASSUME PublisherInv, NEW p \in Publishers,
         G!Check(p) \/ G!Reserve(p) \/ G!TakeSnapshot(p) \/ G!Qualify(p) \/ G!RemoveSnapshot(p)
           \/ G!StageFails(p) \/ G!PublishFails(p) \/ G!UnwriteFails(p) \/ G!CleanupFails(p)
  PROVE PublisherInv'
<1> USE DEF PublisherInv
<1>1. published' = published /\ owned' = owned
  BY DEF G!Check, G!Reserve, G!TakeSnapshot, G!Qualify, G!RemoveSnapshot, G!StageFails, G!PublishFails,
         G!UnwriteFails, G!CleanupFails
<1>2. \/ /\ publisherPc[p] = "check" /\ reserved' = reserved
         /\ publisherPc' = [publisherPc EXCEPT ![p] = "reserve"] \/ publisherPc' = [publisherPc EXCEPT ![p] = "failed"]
      \/ /\ publisherPc[p] = "reserve" /\ reserved = NoOne /\ reserved' = p
         /\ publisherPc' = [publisherPc EXCEPT ![p] = "snapshot"]
      \/ /\ publisherPc[p] = "reserve" /\ reserved' = reserved
         /\ publisherPc' = [publisherPc EXCEPT ![p] = "failed"]
      \/ /\ publisherPc[p] \in Holding /\ reserved' = reserved
         /\ \E step \in {"campaign", "removeSnapshot", "request", "unwrite", "cleanup", "cleanupFailed"} :
               publisherPc' = [publisherPc EXCEPT ![p] = step]
  BY DEF G!Check, G!Reserve, G!TakeSnapshot, G!Qualify, G!RemoveSnapshot, G!StageFails, G!PublishFails,
         G!UnwriteFails, G!CleanupFails, G!Goes, Holding
<1>3. PublisherTypes'
  BY <1>1, <1>2 DEF PublisherTypes, Early, Holding, G!Ends
<1>4. OneHolder'
  BY <1>2, FilesAssumption DEF PublisherTypes, OneHolder, Early, Holding
<1>5. FilesOfHolder'
  BY <1>1, <1>2, FilesAssumption DEF FilesOfHolder
<1>6. WrittenInOrder'
  BY <1>1, <1>2 DEF WrittenInOrder, PublisherTypes
<1>7. ManifestLast'
  BY <1>1, <1>2, NamesApart, FilesAssumption DEF ManifestLast, PublisherTypes, FilesOfHolder, OneHolder, Holding, Early
<1>8. GivenBack'
  BY <1>1, <1>2 DEF GivenBack, OneHolder, PublisherTypes, Early, Holding
<1> QED BY <1>3, <1>4, <1>5, <1>6, <1>7, <1>8

(* A file is written. *)
LEMMA PublisherWrites ==
  ASSUME PublisherInv, NEW p \in Publishers, NEW step \in G!Writing, G!Write(p, step)
  PROVE PublisherInv'
<1> USE DEF PublisherInv
<1> DEFINE file == G!FileOf(p, step)
<1>1. /\ file \in G!Names /\ file # <<"manifest">>
      /\ step = "request" => file = <<"request">>
      /\ step = "summary" => file = <<"summary">>
      /\ step = "pending" => file = G!Pending(p)
  BY NamesApart DEF G!FileOf, G!Writing
<1> HIDE DEF file
<1>2. /\ publisherPc[p] = step /\ step \in Holding /\ reserved = p /\ reserved' = reserved
      /\ published[file] = G!Absent
      /\ published' = [published EXCEPT ![file] = G!Whole(p)]
      /\ owned' = [owned EXCEPT ![p] = Append(@, file)]
      /\ publisherPc' = [publisherPc EXCEPT ![p] = G!After(step)]
  BY DEF G!Write, G!Goes, file, G!Writing, Holding, OneHolder
<1>3. /\ step = "request" => G!After(step) = "summary"
      /\ step = "summary" => G!After(step) = "pending"
      /\ step = "pending" => G!After(step) = "rename"
      /\ step \in {"request", "summary", "pending"}
  BY DEF G!After, G!Writing
<1>4. PublisherTypes'
  BY <1>1, <1>2, <1>3, EntriesApart DEF PublisherTypes, Holding
<1>5. OneHolder'
  BY <1>2, <1>3 DEF PublisherTypes, OneHolder, Early, Holding
<1>6. FilesOfHolder'
  BY <1>1, <1>2, EntriesApart, FilesAssumption DEF FilesOfHolder, PublisherTypes
<1>7. WrittenInOrder'
  <2>1. \A q \in Publishers : publisherPc[q] \in Holding => q = p
    BY <1>2 DEF OneHolder
  <2>2. \A q \in Publishers \ {p} : publisherPc'[q] \notin Holding
    BY <1>2, <2>1 DEF PublisherTypes
  <2>3. ASSUME step = "request" PROVE WrittenInOrder'
    BY <1>1, <1>2, <1>3, <2>2, <2>3, NamesApart DEF WrittenInOrder, PublisherTypes, Holding
  <2>4. ASSUME step = "summary" PROVE WrittenInOrder'
    BY <1>1, <1>2, <1>3, <2>2, <2>4, NamesApart DEF WrittenInOrder, PublisherTypes, Holding
  <2>5. ASSUME step = "pending" PROVE WrittenInOrder'
    BY <1>1, <1>2, <1>3, <2>2, <2>5, NamesApart DEF WrittenInOrder, PublisherTypes, Holding
  <2> QED BY <1>3, <2>3, <2>4, <2>5
<1>8. ManifestLast'
  BY <1>1, <1>2, <1>3, NamesApart DEF ManifestLast, PublisherTypes, Holding
<1>9. GivenBack'
  BY <1>2, <1>3 DEF GivenBack, PublisherTypes
<1> QED BY <1>4, <1>5, <1>6, <1>7, <1>8, <1>9

(* A write fails or is cut short: a part of the file may be there. *)
LEMMA PublisherBreaks ==
  ASSUME PublisherInv, NEW p \in Publishers,
         G!Crash(p) \/ \E step \in G!Writing : G!WriteFails(p, step)
  PROVE PublisherInv'
<1> USE DEF PublisherInv
<1>1. /\ reserved' = reserved /\ owned' = owned
      /\ publisherPc[p] \in Early \cup Holding
      /\ \/ publisherPc' = [publisherPc EXCEPT ![p] = "crashed"]
         \/ publisherPc' = [publisherPc EXCEPT ![p] = "unwrite"] /\ publisherPc[p] \in Holding
      /\ \/ published' = published
         \/ \E n \in G!Names \ {<<"manifest">>} :
              /\ publisherPc[p] \in Holding /\ published[n] = G!Absent
              /\ published' = [published EXCEPT ![n] = G!Part(p)]
  <2>1. PICK step \in {"none"} \cup G!Writing :
          /\ published' \in IF step = "none" THEN {published} ELSE G!PartWritten(p, step)
          /\ step # "none" => publisherPc[p] = step
          /\ \/ publisherPc' = [publisherPc EXCEPT ![p] = "crashed"]
             \/ publisherPc' = [publisherPc EXCEPT ![p] = "unwrite"] /\ publisherPc[p] = step
    BY DEF G!Crash, G!WriteFails, G!Goes, G!Writing
  <2>2. reserved' = reserved /\ owned' = owned /\ publisherPc[p] \in Early \cup Holding
    BY DEF G!Crash, G!WriteFails, G!Goes, G!Writing, G!Ends, PublisherTypes, Holding
  <2>3. step # "none" => G!FileOf(p, step) \in G!Names \ {<<"manifest">>} /\ publisherPc[p] \in Holding
    BY <2>1, NamesApart DEF G!FileOf, G!Writing, Holding
  <2>4. step # "none" => \/ published' = published
                         \/ /\ published[G!FileOf(p, step)] = G!Absent
                            /\ published' = [published EXCEPT ![G!FileOf(p, step)] = G!Part(p)]
    BY <2>1 DEF G!PartWritten
  <2>5. CASE step = "none"
    BY <2>1, <2>2, <2>5 DEF Early, Holding
  <2>6. CASE step # "none"
    <3>1. publisherPc' = [publisherPc EXCEPT ![p] = "unwrite"] => publisherPc[p] \in Holding
      BY <2>3, <2>6
    <3>2. published' = published \/ \E n \in G!Names \ {<<"manifest">>} :
            /\ publisherPc[p] \in Holding /\ published[n] = G!Absent
            /\ published' = [published EXCEPT ![n] = G!Part(p)]
      BY <2>3, <2>4, <2>6
    <3> QED BY <2>1, <2>2, <3>1, <3>2
  <2> QED BY <2>5, <2>6
<1>2. publisherPc[p] \in Holding => reserved = p
  BY DEF OneHolder
<1>3. publisherPc' \in [Publishers -> Early \cup Holding \cup G!Ends] /\ publisherPc'[p] \in {"crashed", "unwrite"}
  BY <1>1 DEF PublisherTypes, G!Ends, Holding
<1>4. PublisherTypes'
  BY <1>1, <1>3, EntriesApart DEF PublisherTypes
<1>5. OneHolder'
  BY <1>1, <1>2, <1>3 DEF PublisherTypes, OneHolder, Early, Holding
<1>6. FilesOfHolder'
  BY <1>1, <1>2, EntriesApart, FilesAssumption DEF FilesOfHolder, PublisherTypes
<1>7. WrittenInOrder'
  <2>1. \A q \in Publishers : publisherPc'[q] \in {"summary", "pending", "rename"} =>
          q # p /\ publisherPc[q] = publisherPc'[q] /\ reserved = q
    BY <1>1, <1>3 DEF PublisherTypes, OneHolder, Holding
  <2>2. \A q \in Publishers : publisherPc'[q] \in {"summary", "pending", "rename"} => published' = published
    BY <2>1, <1>1, <1>2
  <2> QED BY <2>1, <2>2 DEF WrittenInOrder
<1>8. ManifestLast'
  <2>1. SUFFICES ASSUME published'[<<"manifest">>] # G!Absent PROVE ManifestLast'
    BY DEF ManifestLast
  <2>2. published[<<"manifest">>] # G!Absent
    BY <1>1, <2>1, NamesApart DEF PublisherTypes
  <2>3. reserved # p /\ publisherPc[reserved] = "done" /\ reserved \in Publishers
    BY <2>2, <1>1, NamesApart DEF ManifestLast, Early, Holding, FilesOfHolder, PublisherTypes
  <2>4. published' = published /\ publisherPc'[reserved] = "done"
    BY <1>1, <1>2, <2>3 DEF PublisherTypes
  <2> QED BY <1>1, <2>2, <2>4 DEF ManifestLast
<1>9. GivenBack'
  BY <1>1, <1>3, EntriesApart DEF GivenBack, PublisherTypes
<1> QED BY <1>4, <1>5, <1>6, <1>7, <1>8, <1>9

(* The manifest appears. *)
LEMMA PublisherPublishes ==
  ASSUME PublisherInv, NEW p \in Publishers, G!Publish(p)
  PROVE PublisherInv'
<1> USE DEF PublisherInv
<1>1. /\ publisherPc[p] = "rename" /\ reserved = p /\ reserved' = reserved /\ owned' = owned
      /\ published' = [published EXCEPT ![<<"manifest">>] = published[G!Pending(p)], ![G!Pending(p)] = G!Absent]
      /\ publisherPc' = [publisherPc EXCEPT ![p] = "done"]
  BY DEF G!Publish, G!Goes, OneHolder, Holding
<1>2. /\ published[G!Pending(p)] = G!Whole(p)
      /\ published[<<"request">>] = G!Whole(p) /\ published[<<"summary">>] = G!Whole(p)
  BY <1>1 DEF WrittenInOrder
<1>3. /\ published' \in [G!Names -> [by : Publishers \cup {NoOne}, whole : BOOLEAN]]
      /\ published'[<<"manifest">>] = G!Whole(p)
      /\ published'[<<"request">>] = G!Whole(p) /\ published'[<<"summary">>] = G!Whole(p)
      /\ \A n \in G!Names \ {<<"manifest">>, G!Pending(p)} : published'[n] = published[n]
      /\ published'[G!Pending(p)] = G!Absent
  BY <1>1, <1>2, NamesApart, EntriesApart DEF PublisherTypes
<1>4. PublisherTypes'
  BY <1>1, <1>3 DEF PublisherTypes, G!Ends
<1>5. OneHolder'
  BY <1>1 DEF PublisherTypes, OneHolder, Early, Holding
<1>6. FilesOfHolder'
  BY <1>1, <1>3, NamesApart, EntriesApart, FilesAssumption DEF FilesOfHolder
<1>7. WrittenInOrder'
  BY <1>1 DEF WrittenInOrder, PublisherTypes, OneHolder, Holding
<1>8. ManifestLast'
  BY <1>1, <1>3 DEF ManifestLast, PublisherTypes
<1>9. GivenBack'
  BY <1>1 DEF GivenBack, PublisherTypes
<1> QED BY <1>4, <1>5, <1>6, <1>7, <1>8, <1>9

(* What it has written is removed, the last file first. *)
LEMMA PublisherUnwrites ==
  ASSUME PublisherInv, NEW p \in Publishers, G!Unwrite(p)
  PROVE PublisherInv'
<1> USE DEF PublisherInv
<1>1. /\ publisherPc[p] = "unwrite" /\ reserved = p /\ reserved' = reserved
      /\ \/ published' = published /\ owned' = owned /\ publisherPc' = [publisherPc EXCEPT ![p] = "cleanup"]
         \/ /\ owned[p] # <<>>
            /\ published' = [published EXCEPT ![G!Last(owned[p])] = G!Absent]
            /\ owned' = [owned EXCEPT ![p] = G!Front(@)]
            /\ publisherPc' = publisherPc
  BY DEF G!Unwrite, G!Goes, OneHolder, Holding, G!Last, G!Front
<1>2. owned' \in [Publishers -> Seq(G!Names)]
  <2>1. owned[p] # <<>> => G!Front(owned[p]) \in Seq(G!Names)
    BY DEF PublisherTypes, G!Front
  <2> QED BY <1>1, <2>1 DEF PublisherTypes
<1>3. /\ published' \in [G!Names -> [by : Publishers \cup {NoOne}, whole : BOOLEAN]]
      /\ \A n \in G!Names : published'[n] \in {published[n], G!Absent}
  BY <1>1, EntriesApart DEF PublisherTypes
<1>4. PublisherTypes'
  BY <1>1, <1>2, <1>3 DEF PublisherTypes, Holding
<1>5. OneHolder'
  BY <1>1 DEF PublisherTypes, OneHolder, Early, Holding
<1>6. FilesOfHolder'
  BY <1>1, <1>3 DEF FilesOfHolder
<1>7. \A q \in Publishers : publisherPc[q] \in Holding => q = p
  BY <1>1 DEF OneHolder
<1>8. WrittenInOrder'
  BY <1>1, <1>7 DEF WrittenInOrder, PublisherTypes, Holding
<1>9. ManifestLast'
  BY <1>1, <1>3, NamesApart DEF ManifestLast, PublisherTypes
<1>10. GivenBack'
  BY <1>1 DEF GivenBack, PublisherTypes
<1> QED BY <1>4, <1>5, <1>6, <1>8, <1>9, <1>10

(* The directory is given back if it is empty. *)
LEMMA PublisherCleansUp ==
  ASSUME PublisherInv, NEW p \in Publishers, G!Cleanup(p)
  PROVE PublisherInv'
<1> USE DEF PublisherInv
<1>1. /\ publisherPc[p] = "cleanup" /\ reserved = p /\ published' = published /\ owned' = owned
      /\ reserved' = IF \A n \in G!Names : published[n] = G!Absent THEN NoOne ELSE reserved
      /\ publisherPc' = [publisherPc EXCEPT ![p] = "failed"]
  BY DEF G!Cleanup, G!Goes, OneHolder, Holding
<1>2. \A q \in Publishers : publisherPc'[q] \notin Holding
  BY <1>1 DEF OneHolder, PublisherTypes, Holding
<1>3. PublisherTypes'
  BY <1>1 DEF PublisherTypes, G!Ends
<1>4. OneHolder'
  BY <1>1, <1>2, FilesAssumption DEF OneHolder, PublisherTypes, Early
<1>5. FilesOfHolder'
  BY <1>1 DEF FilesOfHolder
<1>6. WrittenInOrder'
  BY <1>2 DEF WrittenInOrder, Holding
<1>7. ManifestLast'
  BY <1>1, NamesApart DEF ManifestLast
<1>8. GivenBack'
  BY <1>1, FilesAssumption DEF GivenBack, PublisherTypes
<1> QED BY <1>3, <1>4, <1>5, <1>6, <1>7, <1>8

(* Every step of the publishers of publishGitRegression keeps the          *)
(* invariant.                                                              *)
LEMMA PublisherStep == PublisherInv /\ [G!Next]_publisherVars => PublisherInv'
<1> SUFFICES ASSUME PublisherInv, [G!Next]_publisherVars PROVE PublisherInv'
  OBVIOUS
<1>1. CASE UNCHANGED publisherVars
  BY <1>1 DEF publisherVars, PublisherInv, PublisherTypes, OneHolder, FilesOfHolder, WrittenInOrder,
              ManifestLast, GivenBack
<1>2. CASE G!Next
  BY <1>2, PublisherMoves, PublisherWrites, PublisherBreaks, PublisherPublishes, PublisherUnwrites,
     PublisherCleansUp DEF G!Next
<1> QED BY <1>1, <1>2

(* The invariant holds while the directory is not made. *)
LEMMA PublisherStart == G!Init => PublisherInv
<1> SUFFICES ASSUME G!Init PROVE PublisherInv
  OBVIOUS
<1>1. G!Absent \in [by : Publishers \cup {NoOne}, whole : BOOLEAN]
  BY DEF G!Absent
<1>2. PublisherTypes
  BY <1>1 DEF G!Init, PublisherTypes, Early
<1>3. OneHolder
  BY FilesAssumption DEF G!Init, OneHolder, Early, Holding
<1>4. FilesOfHolder
  BY DEF G!Init, FilesOfHolder
<1>5. WrittenInOrder
  BY DEF G!Init, WrittenInOrder
<1>6. ManifestLast
  BY NamesApart DEF G!Init, ManifestLast
<1>7. GivenBack
  BY DEF G!Init, GivenBack
<1> QED BY <1>2, <1>3, <1>4, <1>5, <1>6, <1>7 DEF PublisherInv

(* The invariant is at least as strong as the two properties of            *)
(* GitEvidence.                                                            *)
LEMMA PublisherHolds == PublisherInv => G!ManifestMarksCompletion /\ G!FailureGivesBack
<1> SUFFICES ASSUME PublisherInv PROVE G!ManifestMarksCompletion /\ G!FailureGivesBack
  OBVIOUS
<1>1. G!ManifestMarksCompletion
  <2>1. SUFFICES ASSUME published[<<"manifest">>] # G!Absent PROVE G!ManifestMarksCompletion
    BY DEF G!ManifestMarksCompletion
  <2>2. published[<<"manifest">>].by = reserved
    BY <2>1, NamesApart DEF PublisherInv, FilesOfHolder
  <2> QED BY <2>1, <2>2 DEF PublisherInv, ManifestLast, G!ManifestMarksCompletion
<1>2. G!FailureGivesBack
  BY DEF PublisherInv, GivenBack, FilesOfHolder, G!FailureGivesBack
<1> QED BY <1>1, <1>2

-----------------------------------------------------------------------------
(* What an importer wrote, whole or cut short, is told from no file, and   *)
(* says who wrote it.                                                      *)
LEMMA ImportsApart ==
  ASSUME NEW p \in Importers
  PROVE /\ W!Whole(p).by = p /\ W!Part(p).by = p /\ W!Absent.by = NoOne
        /\ W!Whole(p) \in [by : Importers \cup {NoOne}, whole : BOOLEAN]
        /\ W!Part(p) \in [by : Importers \cup {NoOne}, whole : BOOLEAN]
        /\ W!Absent \in [by : Importers \cup {NoOne}, whole : BOOLEAN]
        /\ W!Whole(p) # W!Absent /\ W!Part(p) # W!Absent
BY FilesAssumption DEF W!Whole, W!Part, W!Absent

(* The steps before the directory is made, and the one that makes it. *)
LEMMA ImporterMoves ==
  ASSUME ImporterInv, NEW p \in Importers,
         W!Parse(p) \/ W!CompareTarget(p) \/ W!Build(p) \/ W!LookUp(p) \/ W!Verify(p) \/ W!Reserve(p)
  PROVE ImporterInv'
<1> USE DEF ImporterInv
<1>1. /\ saved' = saved /\ remaining' = remaining /\ importPc[p] \in ImportEarly
      /\ \/ /\ target' = target
            /\ \E step \in {"compare", "look", "verify", "reserve", "failed"} :
                  importPc' = [importPc EXCEPT ![p] = step]
         \/ /\ target = NoOne /\ target' = p /\ importPc' = [importPc EXCEPT ![p] = "request"]
  <2>1. CASE W!Parse(p)
    BY <2>1 DEF W!Parse, W!Goes, W!output, ImportEarly
  <2>2. CASE W!CompareTarget(p)
    <3>1. importPc' \in {importPc, [importPc EXCEPT ![p] = "failed"]} /\ importPc[p] = "compare"
      BY <2>2 DEF W!CompareTarget, W!Goes
    <3>2. importPc = [importPc EXCEPT ![p] = "compare"]
      BY <3>1 DEF ImporterTypes
    <3> QED BY <2>2, <3>1, <3>2 DEF W!CompareTarget, W!output, ImportEarly
  <2>3. CASE W!Build(p) \/ W!LookUp(p) \/ W!Verify(p)
    BY <2>3 DEF W!Build, W!LookUp, W!Verify, W!Goes, W!output, ImportEarly
  <2>4. CASE W!Reserve(p)
    BY <2>4 DEF W!Reserve, W!Goes, ImportEarly
  <2> QED BY <2>1, <2>2, <2>3, <2>4
<1>2. importPc' \in [Importers -> ImportEarly \cup ImportHolding \cup W!Ends]
  BY <1>1 DEF ImporterTypes, ImportEarly, ImportHolding, W!Ends
<1>3. ImporterTypes'
  BY <1>1, <1>2 DEF ImporterTypes
<1>4. OneImporter'
  BY <1>1, FilesAssumption DEF ImporterTypes, OneImporter, ImportEarly, ImportHolding
<1>5. SavedByHolder'
  BY <1>1 DEF SavedByHolder
<1>6. SavedInOrder'
  BY <1>1 DEF SavedInOrder, ImporterTypes
<1>7. SavedManifestLast'
  <2>1. SUFFICES ASSUME saved["manifest.json"] # W!Absent PROVE SavedManifestLast'
    BY <1>1 DEF SavedManifestLast
  <2>2. importPc[target] = "done" /\ target # NoOne
    BY <2>1 DEF SavedManifestLast, SavedByHolder, W!Names
  <2>3. target # p /\ target \in Importers
    BY <1>1, <2>2 DEF ImportEarly, ImporterTypes
  <2>4. target' = target /\ importPc'[target] = "done"
    BY <1>1, <2>2, <2>3 DEF ImporterTypes
  <2> QED BY <1>1, <2>1, <2>4 DEF SavedManifestLast
<1>8. CleansAll'
  BY <1>1 DEF CleansAll, ImporterTypes
<1>9. NotKept'
  BY <1>1, FilesAssumption DEF NotKept, OneImporter, ImporterTypes
<1> QED BY <1>3, <1>4, <1>5, <1>6, <1>7, <1>8, <1>9

(* A file is written. *)
LEMMA ImporterWrites ==
  ASSUME ImporterInv, NEW p \in Importers, NEW step \in W!Writing, W!Write(p, step)
  PROVE ImporterInv'
<1> USE DEF ImporterInv
<1>1. \/ step = "request" /\ W!FileOf[step] = "executed-request.json" /\ W!After[step] = "summary"
      \/ step = "summary" /\ W!FileOf[step] = "summary.md" /\ W!After[step] = "pending"
      \/ step = "pending" /\ W!FileOf[step] = ".manifest.tmp" /\ W!After[step] = "rename"
  BY DEF W!Writing, W!FileOf, W!After
<1>2. PICK file \in {"executed-request.json", "summary.md", ".manifest.tmp"} :
        /\ step = "request" => file = "executed-request.json"
        /\ step = "summary" => file = "summary.md"
        /\ step = "pending" => file = ".manifest.tmp"
        /\ W!FileOf[step] = file
  BY <1>1
<1>3. PICK after \in {"summary", "pending", "rename"} :
        /\ step = "request" => after = "summary"
        /\ step = "summary" => after = "pending"
        /\ step = "pending" => after = "rename"
        /\ W!After[step] = after
  BY <1>1
<1>4. /\ importPc[p] = step /\ step \in {"request", "summary", "pending"} /\ target = p /\ target' = target
      /\ saved[file] = W!Absent /\ saved' = [saved EXCEPT ![file] = W!Whole(p)]
      /\ importPc' = [importPc EXCEPT ![p] = after]
      /\ remaining' = remaining
  BY <1>1, <1>2, <1>3 DEF W!Write, W!Goes, OneImporter, ImportHolding
<1>5. ImporterTypes'
  BY <1>4, ImportsApart DEF ImporterTypes, ImportHolding
<1>6. OneImporter'
  BY <1>4 DEF ImporterTypes, OneImporter, ImportEarly, ImportHolding
<1>7. SavedByHolder'
  BY <1>4, ImportsApart, FilesAssumption DEF SavedByHolder, ImporterTypes
<1>8. \A q \in Importers \ {p} : importPc'[q] \notin ImportHolding
  BY <1>4 DEF ImporterTypes, OneImporter, ImportHolding
<1>9. SavedInOrder'
  <2>1. \A q \in Importers : importPc'[q] \in {"summary", "pending", "rename"} => q = p
    BY <1>8 DEF ImportHolding
  <2>2. importPc'[p] = after
    BY <1>4 DEF ImporterTypes
  <2>3. after = "summary" => saved'["executed-request.json"] = W!Whole(p)
    BY <1>2, <1>3, <1>4 DEF ImporterTypes, W!Names
  <2>4. after = "pending" => /\ saved'["executed-request.json"] = W!Whole(p)
                             /\ saved'["summary.md"] = W!Whole(p)
    BY <1>2, <1>3, <1>4 DEF ImporterTypes, W!Names, SavedInOrder
  <2>5. after = "rename" => /\ saved'["executed-request.json"] = W!Whole(p)
                            /\ saved'["summary.md"] = W!Whole(p)
                            /\ saved'[".manifest.tmp"] = W!Whole(p)
    BY <1>2, <1>3, <1>4 DEF ImporterTypes, W!Names, SavedInOrder
  <2> QED BY <2>1, <2>2, <2>3, <2>4, <2>5 DEF SavedInOrder
<1>10. SavedManifestLast'
  BY <1>2, <1>4 DEF SavedManifestLast, ImporterTypes
<1>11. CleansAll'
  BY <1>8, <1>4 DEF CleansAll, ImporterTypes, ImportHolding
<1>12. NotKept'
  BY <1>4 DEF NotKept, ImporterTypes
<1> QED BY <1>5, <1>6, <1>7, <1>9, <1>10, <1>11, <1>12

(* A write fails or is cut short, or the manifest cannot be renamed. *)
LEMMA ImporterBreaks ==
  ASSUME ImporterInv, NEW p \in Importers,
         W!Crash(p) \/ W!PublishFails(p) \/ \E step \in W!Writing : W!WriteFails(p, step)
  PROVE ImporterInv'
<1> USE DEF ImporterInv
<1> DEFINE Cleans == /\ importPc[p] \in ImportHolding
                     /\ importPc' = [importPc EXCEPT ![p] = "clean"]
                     /\ remaining' = [remaining EXCEPT ![p] =
                          <<".manifest.tmp", "summary.md", "executed-request.json">>]
           Breaks == \E n \in W!Names \ {"manifest.json"} :
                       /\ importPc[p] \in ImportHolding /\ saved[n] = W!Absent
                       /\ saved' = [saved EXCEPT ![n] = W!Part(p)]
<1>1. /\ target' = target
      /\ importPc[p] \in ImportEarly \cup ImportHolding
      /\ Cleans \/ (importPc' = [importPc EXCEPT ![p] = "crashed"] /\ remaining' = remaining)
      /\ saved' = saved \/ Breaks
  <2>1. ASSUME NEW step \in W!Writing, importPc[p] = step, saved' \in W!PartWritten(p, step)
        PROVE saved' = saved \/ Breaks
    <3>1. W!FileOf[step] \in W!Names \ {"manifest.json"} /\ importPc[p] \in ImportHolding
      BY <2>1 DEF W!FileOf, W!Writing, W!Names, ImportHolding
    <3> QED BY <2>1, <3>1 DEF W!PartWritten
  <2>2. CASE W!Crash(p)
    <3>1. importPc[p] \in ImportEarly \cup ImportHolding
      BY <2>2 DEF W!Crash, ImporterTypes
    <3> QED BY <2>1, <2>2, <3>1 DEF W!Crash, W!Goes
  <2>3. CASE W!PublishFails(p)
    BY <2>3 DEF W!PublishFails, W!CleanUp, W!Goes, W!output, ImportHolding
  <2>4. ASSUME NEW step \in W!Writing, W!WriteFails(p, step)
        PROVE <1>1!:
    BY <2>1, <2>4 DEF W!WriteFails, W!CleanUp, W!Goes, W!Writing, W!FileOf, ImportHolding
  <2> QED BY <2>2, <2>3, <2>4
<1>2. importPc[p] \in ImportHolding => target = p
  BY DEF OneImporter
<1>3. /\ importPc' \in [Importers -> ImportEarly \cup ImportHolding \cup W!Ends]
      /\ importPc'[p] \in {"crashed", "clean"}
      /\ \A q \in Importers \ {p} : importPc'[q] = importPc[q] /\ remaining'[q] = remaining[q]
      /\ importPc'[p] = "clean" =>
           remaining'[p] = <<".manifest.tmp", "summary.md", "executed-request.json">>
  BY <1>1 DEF ImporterTypes, W!Ends, ImportHolding
<1>4. ImporterTypes'
  BY <1>1, <1>3, ImportsApart DEF ImporterTypes
<1>5. OneImporter'
  BY <1>1, <1>2, <1>3 DEF OneImporter, ImportEarly, ImportHolding
<1>6. SavedByHolder'
  BY <1>1, <1>2, ImportsApart, FilesAssumption DEF SavedByHolder, ImporterTypes
<1>7. \A q \in Importers \ {p} : importPc[q] \in ImportHolding => saved' = saved
  BY <1>1, <1>2 DEF OneImporter
<1>8. SavedInOrder'
  BY <1>3, <1>7 DEF SavedInOrder, ImportHolding
<1>9. SavedManifestLast'
  <2>1. SUFFICES ASSUME saved'["manifest.json"] # W!Absent PROVE SavedManifestLast'
    BY DEF SavedManifestLast
  <2>2. saved["manifest.json"] # W!Absent
    BY <1>1, <2>1 DEF ImporterTypes, W!Names
  <2>3. target # p /\ importPc[target] = "done" /\ target \in Importers
    BY <2>2, <1>1 DEF SavedManifestLast, ImportEarly, ImportHolding, SavedByHolder, ImporterTypes, W!Names
  <2>4. saved' = saved /\ importPc'[target] = "done"
    BY <1>1, <1>2, <1>3, <2>3
  <2> QED BY <1>1, <2>2, <2>4 DEF SavedManifestLast
<1>10. CleansAll'
  BY <1>3, <1>7 DEF CleansAll, ImportHolding
<1>11. NotKept'
  BY <1>1, <1>3 DEF NotKept
<1> QED BY <1>4, <1>5, <1>6, <1>8, <1>9, <1>10, <1>11

(* The manifest appears. *)
LEMMA ImporterPublishes ==
  ASSUME ImporterInv, NEW p \in Importers, W!Publish(p)
  PROVE ImporterInv'
<1> USE DEF ImporterInv
<1>1. /\ importPc[p] = "rename" /\ target = p /\ target' = target /\ remaining' = remaining
      /\ saved' = [saved EXCEPT !["manifest.json"] = saved[".manifest.tmp"], ![".manifest.tmp"] = W!Absent]
      /\ importPc' = [importPc EXCEPT ![p] = "done"]
  BY DEF W!Publish, W!Goes, OneImporter, ImportHolding
<1>2. /\ saved' \in [W!Names -> [by : Importers \cup {NoOne}, whole : BOOLEAN]]
      /\ \A n \in {"manifest.json", "executed-request.json", "summary.md"} : saved'[n] = W!Whole(p)
      /\ saved'[".manifest.tmp"] = W!Absent
  BY <1>1, ImportsApart DEF ImporterTypes, SavedInOrder, W!Names
<1>3. \A q \in Importers : importPc'[q] \notin ImportHolding
  BY <1>1 DEF OneImporter, ImporterTypes, ImportHolding
<1>4. ImporterTypes'
  BY <1>1, <1>2 DEF ImporterTypes, W!Ends
<1>5. OneImporter'
  BY <1>1, <1>3 DEF OneImporter, ImporterTypes, ImportEarly
<1>6. SavedByHolder'
  BY <1>1, <1>2, ImportsApart, FilesAssumption DEF SavedByHolder, W!Names
<1>7. SavedInOrder'
  BY <1>3 DEF SavedInOrder, ImportHolding
<1>8. SavedManifestLast'
  BY <1>1, <1>2 DEF SavedManifestLast, ImporterTypes
<1>9. CleansAll'
  BY <1>3 DEF CleansAll, ImportHolding
<1>10. NotKept'
  BY <1>1 DEF NotKept, ImporterTypes
<1> QED BY <1>4, <1>5, <1>6, <1>7, <1>8, <1>9, <1>10

(* One name is removed, whoever wrote it. *)
LEMMA ImporterRemoves ==
  ASSUME ImporterInv, NEW p \in Importers, W!RemoveName(p)
  PROVE ImporterInv'
<1> USE DEF ImporterInv
<1> DEFINE R3 == <<".manifest.tmp", "summary.md", "executed-request.json">>
           R2 == <<"summary.md", "executed-request.json">>
           R1 == <<"executed-request.json">>
<1>1. /\ importPc[p] = "clean" /\ target = p /\ target' = target /\ importPc' = importPc
      /\ remaining[p] # <<>>
      /\ saved' = [saved EXCEPT ![Head(remaining[p])] = W!Absent]
      /\ remaining' = [remaining EXCEPT ![p] = Tail(remaining[p])]
  BY DEF W!RemoveName, OneImporter, ImportHolding
<1>2. /\ Head(R3) = ".manifest.tmp" /\ Tail(R3) = R2
      /\ Head(R2) = "summary.md" /\ Tail(R2) = R1
      /\ Head(R1) = "executed-request.json" /\ Tail(R1) = <<>>
  OBVIOUS
<1>3. \/ /\ remaining[p] = R3
         /\ saved' = [saved EXCEPT ![".manifest.tmp"] = W!Absent]
         /\ remaining' = [remaining EXCEPT ![p] = R2]
      \/ /\ remaining[p] = R2 /\ saved[".manifest.tmp"] = W!Absent
         /\ saved' = [saved EXCEPT !["summary.md"] = W!Absent]
         /\ remaining' = [remaining EXCEPT ![p] = R1]
      \/ /\ remaining[p] = R1 /\ saved[".manifest.tmp"] = W!Absent /\ saved["summary.md"] = W!Absent
         /\ saved' = [saved EXCEPT !["executed-request.json"] = W!Absent]
         /\ remaining' = [remaining EXCEPT ![p] = <<>>]
  BY <1>1, <1>2 DEF CleansAll
<1>4. /\ saved' \in [W!Names -> [by : Importers \cup {NoOne}, whole : BOOLEAN]]
      /\ \A n \in W!Names : saved'[n] \in {saved[n], W!Absent}
  BY <1>3, ImportsApart DEF ImporterTypes, W!Names
<1>5. \A q \in Importers : importPc[q] \in ImportHolding => q = p
  BY <1>1 DEF OneImporter
<1>6. ImporterTypes'
  BY <1>1, <1>4 DEF ImporterTypes
<1>7. OneImporter'
  BY <1>1 DEF OneImporter
<1>8. SavedByHolder'
  BY <1>1, <1>4 DEF SavedByHolder
<1>9. SavedInOrder'
  BY <1>1, <1>5 DEF SavedInOrder, ImportHolding
<1>10. SavedManifestLast'
  BY <1>1, <1>4 DEF SavedManifestLast, W!Names
<1>11. CleansAll'
  <2>1. SUFFICES CleansAll!(p)'
    BY <1>1, <1>5 DEF CleansAll, ImportHolding
  <2> QED BY <1>3 DEF ImporterTypes, W!Names
<1>12. NotKept'
  BY <1>1 DEF NotKept
<1> QED BY <1>6, <1>7, <1>8, <1>9, <1>10, <1>11, <1>12

(* The directory is removed if it is empty, or what is left stays. *)
LEMMA ImporterGoes ==
  ASSUME ImporterInv, NEW p \in Importers, W!RemoveDirectory(p) \/ W!RemovalFails(p)
  PROVE ImporterInv'
<1> USE DEF ImporterInv
<1>1. /\ importPc[p] = "clean" /\ target = p /\ saved' = saved /\ remaining' = remaining
      /\ \/ target' = target /\ importPc' = [importPc EXCEPT ![p] = "kept"]
         \/ /\ remaining[p] = <<>> /\ importPc' = [importPc EXCEPT ![p] = "failed"]
            /\ target' = IF \A n \in W!Names : saved[n] = W!Absent THEN NoOne ELSE target
  BY DEF W!RemoveDirectory, W!RemovalFails, W!Goes, W!output, OneImporter, ImportHolding
<1>2. saved["manifest.json"] = W!Absent
  BY <1>1 DEF SavedManifestLast
<1>3. remaining[p] = <<>> => \A n \in W!Names : saved[n] = W!Absent
  <2>1. SUFFICES ASSUME remaining[p] = <<>> PROVE \A n \in W!Names : saved[n] = W!Absent
    OBVIOUS
  <2>2. \A n \in W!Names \ {"manifest.json"} : saved[n] = W!Absent
    BY <1>1, <2>1 DEF CleansAll
  <2> QED BY <1>2, <2>2
<1>4. \A q \in Importers : importPc'[q] \notin ImportHolding
  BY <1>1 DEF OneImporter, ImporterTypes, ImportHolding
<1>5. ImporterTypes'
  BY <1>1 DEF ImporterTypes, W!Ends
<1>6. OneImporter'
  BY <1>1, <1>4, FilesAssumption DEF OneImporter, ImporterTypes, ImportEarly
<1>7. SavedByHolder'
  BY <1>1 DEF SavedByHolder
<1>8. SavedInOrder'
  BY <1>4 DEF SavedInOrder, ImportHolding
<1>9. SavedManifestLast'
  BY <1>1, <1>2 DEF SavedManifestLast
<1>10. CleansAll'
  BY <1>4 DEF CleansAll, ImportHolding
<1>11. NotKept'
  BY <1>1, <1>3, FilesAssumption DEF NotKept, ImporterTypes
<1> QED BY <1>5, <1>6, <1>7, <1>8, <1>9, <1>10, <1>11

(* Every step of the importers of importWitness keeps the invariant. *)
LEMMA ImporterStep == ImporterInv /\ [W!Next]_importVars => ImporterInv'
<1> SUFFICES ASSUME ImporterInv, [W!Next]_importVars PROVE ImporterInv'
  OBVIOUS
<1>1. CASE UNCHANGED importVars \/ W!Edit
  <2>1. UNCHANGED <<importPc, target, saved, remaining>>
    BY <1>1 DEF importVars, W!Edit, W!output
  <2> QED BY <2>1 DEF ImporterInv, ImporterTypes, OneImporter, SavedByHolder, SavedInOrder,
                      SavedManifestLast, CleansAll, NotKept
<1>2. CASE \E p \in Importers :
             \/ W!Parse(p) \/ W!CompareTarget(p) \/ W!Build(p) \/ W!LookUp(p) \/ W!Verify(p) \/ W!Reserve(p)
             \/ \E step \in W!Writing : W!Write(p, step) \/ W!WriteFails(p, step)
             \/ W!Publish(p) \/ W!PublishFails(p)
             \/ W!RemoveName(p) \/ W!RemoveDirectory(p) \/ W!RemovalFails(p) \/ W!Crash(p)
  BY <1>2, ImporterMoves, ImporterWrites, ImporterBreaks, ImporterPublishes, ImporterRemoves, ImporterGoes
<1> QED BY <1>1, <1>2 DEF W!Next

(* The invariant holds while the directory is not made. *)
LEMMA ImporterStart == W!Init => ImporterInv
<1> SUFFICES ASSUME W!Init PROVE ImporterInv
  OBVIOUS
<1>1. W!Absent \in [by : Importers \cup {NoOne}, whole : BOOLEAN]
  BY DEF W!Absent
<1>2. ImporterTypes
  BY <1>1 DEF W!Init, ImporterTypes, ImportEarly
<1>3. OneImporter
  BY FilesAssumption DEF W!Init, OneImporter, ImportEarly, ImportHolding
<1>4. SavedByHolder
  BY DEF W!Init, SavedByHolder
<1>5. SavedInOrder
  BY DEF W!Init, SavedInOrder
<1>6. SavedManifestLast
  BY DEF W!Init, SavedManifestLast, W!Names
<1>7. CleansAll /\ NotKept
  BY DEF W!Init, CleansAll, NotKept
<1> QED BY <1>2, <1>3, <1>4, <1>5, <1>6, <1>7 DEF ImporterInv

(* The invariant is at least as strong as the two properties of            *)
(* WitnessImport.                                                          *)
LEMMA ImporterHolds == ImporterInv => W!ManifestMarksCompletion /\ W!FailureGivesBack
<1> SUFFICES ASSUME ImporterInv PROVE W!ManifestMarksCompletion /\ W!FailureGivesBack
  OBVIOUS
<1>1. W!ManifestMarksCompletion
  <2>1. SUFFICES ASSUME saved["manifest.json"] # W!Absent PROVE W!ManifestMarksCompletion
    BY DEF W!ManifestMarksCompletion
  <2>2. target \in Importers
    BY <2>1 DEF ImporterInv, SavedByHolder, ImporterTypes, W!Names
  <2> QED BY <2>1, <2>2 DEF ImporterInv, SavedManifestLast, W!ManifestMarksCompletion
<1>2. W!FailureGivesBack
  BY DEF ImporterInv, NotKept, W!FailureGivesBack
<1> QED BY <1>1, <1>2

-----------------------------------------------------------------------------
(* A step of a worker while no worker copies any more: there is none. *)
LEMMA NobodyCopies ==
  ASSUME NEW w \in Workers, worker[w] = N!Idle
  PROVE ~ (N!Take(w) \/ N!EnsureParent(w) \/ N!CopyFile(w) \/ N!CopyFileFails(w))
BY DEF N!Idle, N!Take, N!EnsureParent, N!CopyFile, N!CopyFileFails

(* A worker moves: the campaign goes on copying or fails. *)
LEMMA WorkerSteps ==
  ASSUME SnapshotInv, NEW w \in Workers,
         N!Take(w) \/ N!EnsureParent(w) \/ N!CopyFile(w) \/ N!CopyFileFails(w)
  PROVE SnapshotInv'
<1>1. pc \in {"copy", "removing", "threw", "returned"}
  BY NobodyCopies DEF SnapshotInv, CopyingEnds
<1>2. pc' \in {"copy", "removing", "threw", "returned"}
  BY <1>1 DEF N!Take, N!EnsureParent, N!CopyFile, N!CopyFileFails, N!Same, N!Throws
<1>3. DOMAIN worker' = Workers
  BY DEF SnapshotInv, N!Take, N!EnsureParent, N!CopyFile, N!CopyFileFails, N!Becomes
<1> QED BY <1>2, <1>3 DEF SnapshotInv, CopyingEnds, N!DigestIsExecuted, N!Accepted

(* A step of the campaign itself. *)
LEMMA CampaignSteps ==
  ASSUME SnapshotInv,
         \/ N!ListSource \/ N!VisitSource \/ N!Plan
         \/ N!Relist \/ N!Filter \/ N!CopyEntry \/ N!EntriesCopied
         \/ N!FilesCopied \/ N!ListSnapshot \/ N!VisitSnapshot \/ N!Accept \/ N!AcceptFails \/ N!RemoveRoot
         \/ N!Edit
  PROVE SnapshotInv'
<1> USE DEF SnapshotInv, CopyingEnds, N!DigestIsExecuted, N!Accepted
<1>1. CASE N!ListSource
  BY <1>1 DEF N!ListSource, N!List, N!Same, N!workVars
<1>2. CASE N!VisitSource
  BY <1>2 DEF N!VisitSource, N!Visit, N!Throws, N!Same, N!workVars
<1>3. CASE N!Plan
  BY <1>3 DEF N!Plan, N!Same
<1>4. CASE N!Relist
  BY <1>4 DEF N!Relist, N!Same, N!workVars
<1>5. CASE N!Filter
  BY <1>5 DEF N!Filter, N!Throws, N!Same, N!workVars
<1>6. CASE N!CopyEntry
  BY <1>6 DEF N!CopyEntry, N!Throws, N!Same, N!workVars
<1>7. CASE N!EntriesCopied
  BY <1>7 DEF N!EntriesCopied, N!Same, N!workVars
<1>8. CASE N!FilesCopied
  BY <1>8 DEF N!FilesCopied, N!Same, N!workVars
<1>9. CASE N!ListSnapshot
  BY <1>9 DEF N!ListSnapshot, N!List, N!Same, N!workVars
<1>10. CASE N!VisitSnapshot
  BY <1>10 DEF N!VisitSnapshot, N!Visit, N!Throws, N!Same, N!workVars
<1>11. CASE N!Accept
  BY <1>11 DEF N!Accept, N!Throws, N!Same, N!workVars
<1>12. CASE N!AcceptFails
  BY <1>12 DEF N!AcceptFails, N!Throws, N!Same, N!workVars
<1>13. CASE N!RemoveRoot
  BY <1>13 DEF N!RemoveRoot, N!Same, N!workVars
<1>14. CASE N!Edit
  BY <1>14 DEF N!Edit, N!workVars
<1> QED BY <1>1, <1>2, <1>3, <1>4, <1>5, <1>6, <1>7, <1>8, <1>9, <1>10, <1>11, <1>12, <1>13, <1>14

(* Every step of the snapshot keeps the invariant. *)
LEMMA SnapshotStep == SnapshotInv /\ [N!Next]_snapshotVars => SnapshotInv'
<1> SUFFICES ASSUME SnapshotInv, [N!Next]_snapshotVars PROVE SnapshotInv'
  OBVIOUS
<1>1. CASE UNCHANGED snapshotVars
  BY <1>1 DEF snapshotVars, SnapshotInv, CopyingEnds, N!DigestIsExecuted, N!Accepted
<1>2. CASE N!Next
  BY <1>2, WorkerSteps, CampaignSteps DEF N!Next
<1> QED BY <1>1, <1>2

(* The invariant holds before the plan: no worker copies, and there is no  *)
(* digest.                                                                 *)
LEMMA SnapshotStart == N!Init => SnapshotInv
BY DEF N!Init, SnapshotInv, CopyingEnds, N!DigestIsExecuted, N!Accepted

-----------------------------------------------------------------------------
(* The budgets of a snapshot. *)

(* What each entry of the snapshot weighs. *)
SizeAt == [p \in Entries |-> snapshot[p].size]

(* What the second walk has measured: the entries it has visited, and what *)
(* they hold; the budgets hold of what was accepted.                       *)
Measured ==
  pc = "rewalk" =>
    /\ rest \subseteq Entries
    /\ files = {p \in Entries \ rest : snapshot[p].kind = "file"}
    /\ bytes = SumFunctionOnSet(SizeAt, Entries \ rest)

MeasuredInv ==
  /\ snapshot \in [Entries -> N!Nodes] /\ source \in [Entries -> N!Nodes]
  /\ Measured
  /\ N!ExecutedWithinBudget

(* An entry that is still to visit is visited next. *)
LEMMA FirstIsNext ==
  ASSUME NEW entries \in SUBSET Entries, entries # {}
  PROVE  N!First(entries) \in entries
<1> DEFINE places == {i \in 1 .. Len(Order) : Order[i] \in entries}
<1>1. places \subseteq Nat /\ places # {}
  BY EntriesAssumption
<1>2. PICK i \in places : \A j \in places : i <= j
  BY <1>1, LeastNatural
<1>3. \A j \in 1 .. i - 1 : j \in 1 .. Len(Order) /\ ~(i <= j)
  <2>1. i \in Nat /\ Len(Order) \in Nat /\ i <= Len(Order)
    BY EntriesAssumption
  <2> QED BY <2>1
<1>4. \A j \in 1 .. i - 1 : Order[j] \notin entries
  BY <1>2, <1>3
<1>5. i \in DOMAIN Order /\ Order[i] \in entries
  BY EntriesAssumption
<1> QED BY <1>4, <1>5 DEF N!First

(* The sums of the snapshot are those of the library. *)
LEMMA SumsAgree ==
  ASSUME NEW f, NEW D
  PROVE  N!SumFunctionOnSet(f, D) = SumFunctionOnSet(f, D)
BY DEF N!SumFunctionOnSet, SumFunctionOnSet, N!FoldFunctionOnSet, FoldFunctionOnSet, N!MapThenFoldSet, MapThenFoldSet

LEMMA SizesAreNatural == snapshot \in [Entries -> N!Nodes] => \A p \in Entries : SizeAt[p] \in Nat
BY DEF SizeAt, N!Nodes, N!Absent, N!Link, N!File, N!Sizes

(* A step of a copy worker is taken while the campaign copies or is over.  *)
LEMMA WorkersMeasureNothing ==
  ASSUME SnapshotInv, MeasuredInv, NEW w \in Workers,
         N!Take(w) \/ N!EnsureParent(w) \/ N!CopyFile(w) \/ N!CopyFileFails(w)
  PROVE  MeasuredInv'
<1>1. pc \in {"copy", "removing", "threw", "returned"}
  BY NobodyCopies DEF SnapshotInv, CopyingEnds
<1>2. pc' \in {"copy", "removing", "threw", "returned"} /\ source' = source
  BY <1>1 DEF N!Take, N!EnsureParent, N!CopyFile, N!CopyFileFails, N!Same, N!Throws
<1>3. snapshot' \in [Entries -> N!Nodes]
  <2>1. snapshot' = snapshot \/ \E size \in N!Sizes : snapshot' = [snapshot EXCEPT ![worker[w].file] = N!File(size)]
    BY DEF N!Take, N!EnsureParent, N!CopyFile, N!CopyFileFails, N!Same
  <2> QED BY <2>1 DEF MeasuredInv, N!Nodes
<1> QED BY <1>2, <1>3 DEF MeasuredInv, Measured, N!ExecutedWithinBudget, N!Accepted

(* The walk over the snapshot adds what it visits. *)
LEMMA VisitMeasures ==
  ASSUME SnapshotInv, MeasuredInv, N!VisitSnapshot
  PROVE  MeasuredInv'
<1> DEFINE p == N!First(rest)
<1>1. /\ pc = "rewalk" /\ rest # {} /\ rest \subseteq Entries
      /\ files = {q \in Entries \ rest : snapshot[q].kind = "file"}
      /\ bytes = SumFunctionOnSet(SizeAt, Entries \ rest)
  BY DEF MeasuredInv, Measured, N!VisitSnapshot, N!Visit
<1>2. p \in rest
  BY <1>1, FirstIsNext
<1>3. rest' = rest \ {p} /\ snapshot' = snapshot /\ source' = source /\ worker' = worker
  BY DEF N!VisitSnapshot, N!Visit, N!Same, N!workVars
<1>4. SizeAt' = SizeAt
  BY <1>3 DEF SizeAt
<1>5. pc' = "rewalk" =>
        \/ snapshot[p].kind = "file" /\ files' = files \cup {p} /\ bytes' = bytes + SizeAt[p]
        \/ snapshot[p].kind \in {"inside", "outside"} /\ files' = files /\ bytes' = bytes
  BY <1>1, <1>2 DEF N!VisitSnapshot, N!Visit, N!Throws, N!IsLink, SizeAt
<1>6. pc' \in {"rewalk", "threw", "removing"}
  BY <1>1 DEF N!VisitSnapshot, N!Visit, N!Throws
<1>7. snapshot \in [Entries -> N!Nodes]
  BY DEF MeasuredInv
<1>8. snapshot[p].kind \in {"inside", "outside"} => SizeAt[p] = 0
  BY <1>1, <1>2, <1>7 DEF N!Nodes, N!Absent, N!Link, N!File, SizeAt
<1> HIDE DEF p
<1>9. SumFunctionOnSet(SizeAt, Entries \ (rest \ {p})) = SizeAt[p] + SumFunctionOnSet(SizeAt, Entries \ rest)
  <2>1. IsFiniteSet(Entries \ rest) /\ p \notin Entries \ rest
    BY <1>2, EntriesAssumption, FS_Subset
  <2>2. Entries \ (rest \ {p}) = (Entries \ rest) \cup {p}
    BY <1>1, <1>2
  <2>3. \A q \in (Entries \ rest) \cup {p} : SizeAt[q] \in Int
    BY <1>1, <1>2, <1>7, SizesAreNatural
  <2> QED BY <2>1, <2>2, <2>3, SumWith
<1>10. SizeAt[p] \in Nat /\ bytes \in Int
  <2>1. IsFiniteSet(Entries \ rest) /\ \A q \in Entries \ rest : SizeAt[q] \in Int
    BY <1>7, EntriesAssumption, FS_Subset, SizesAreNatural
  <2> QED BY <2>1, <1>1, <1>2, <1>7, SizesAreNatural, SumIsInteger
<1>11. Measured'
  <2> SUFFICES ASSUME pc' = "rewalk"
               PROVE  /\ rest' \subseteq Entries
                      /\ files' = {q \in Entries \ rest' : snapshot'[q].kind = "file"}
                      /\ bytes' = SumFunctionOnSet(SizeAt', Entries \ rest')
    BY DEF Measured
  <2>1. rest' \subseteq Entries
    BY <1>1, <1>3
  <2>2. files' = {q \in Entries \ rest' : snapshot'[q].kind = "file"}
    BY <1>1, <1>2, <1>3, <1>5
  <2>3. bytes' = SumFunctionOnSet(SizeAt, Entries \ (rest \ {p}))
    BY <1>1, <1>5, <1>8, <1>9, <1>10
  <2>4. bytes' = SumFunctionOnSet(SizeAt', Entries \ rest')
    BY <2>3, <1>3, <1>4
  <2> QED BY <2>1, <2>2, <2>4
<1> QED BY <1>1, <1>3, <1>6, <1>11 DEF MeasuredInv, N!ExecutedWithinBudget, N!Accepted

(* It begins with what is not there. *)
LEMMA ListMeasures ==
  ASSUME SnapshotInv, MeasuredInv, N!ListSnapshot
  PROVE  MeasuredInv'
<1>1. /\ pc = "check" /\ pc' = "rewalk" /\ rest' = N!Present(snapshot) /\ files' = {} /\ bytes' = 0
      /\ snapshot' = snapshot /\ source' = source /\ worker' = worker
  BY DEF N!ListSnapshot, N!List, N!Same, N!workVars
<1>2. snapshot \in [Entries -> N!Nodes]
  BY DEF MeasuredInv
<1>3. \A p \in Entries \ N!Present(snapshot) : snapshot[p].kind # "file" /\ SizeAt[p] = 0
  BY DEF N!Present, N!Absent, SizeAt
<1>4. N!Present(snapshot) \subseteq Entries /\ IsFiniteSet(Entries \ N!Present(snapshot))
  BY EntriesAssumption, FS_Subset DEF N!Present
<1>5. SumFunctionOnSet(SizeAt, Entries \ N!Present(snapshot)) = 0
  BY <1>3, <1>4, SumOfZeros
<1>6. SizeAt' = SizeAt
  BY <1>1 DEF SizeAt
<1>7. Measured'
  BY <1>1, <1>3, <1>4, <1>5, <1>6 DEF Measured
<1> QED BY <1>1, <1>7 DEF MeasuredInv, N!ExecutedWithinBudget, N!Accepted

(* It ends with everything, and the budgets hold of what is accepted. *)
LEMMA AcceptMeasures ==
  ASSUME SnapshotInv, MeasuredInv, N!Accept
  PROVE  MeasuredInv'
<1>1. /\ pc = "rewalk" /\ rest = {} /\ snapshot' = snapshot /\ source' = source /\ worker' = worker
      /\ pc' \in {"accepted", "threw", "removing"}
      /\ pc' = "accepted" => N!Cardinality(files) <= MaximumFiles /\ bytes <= MaximumBytes
  BY DEF N!Accept, N!Same, N!workVars, N!Throws, N!WithinBudget
<1>2. files = {p \in Entries : snapshot[p].kind = "file"} /\ bytes = SumFunctionOnSet(SizeAt, Entries)
  <2>1. Entries \ rest = Entries
    BY <1>1
  <2> QED BY <1>1, <2>1 DEF MeasuredInv, Measured
<1>3. N!SumFunction([p \in Entries |-> snapshot[p].size]) = bytes
  BY <1>2, SumsAgree DEF N!SumFunction, SizeAt
<1>4. N!ExecutedWithinBudget'
  BY <1>1, <1>2, <1>3 DEF N!ExecutedWithinBudget, N!Accepted
<1> QED BY <1>1, <1>4 DEF MeasuredInv, Measured

(* Every other step leaves what was measured, or is taken at another time. *)
LEMMA OthersMeasureNothing ==
  ASSUME SnapshotInv, MeasuredInv,
         \/ N!ListSource \/ N!VisitSource \/ N!Plan
         \/ N!Relist \/ N!Filter \/ N!CopyEntry \/ N!EntriesCopied
         \/ N!FilesCopied \/ N!AcceptFails \/ N!RemoveRoot
         \/ N!Edit
  PROVE  MeasuredInv'
<1> USE DEF MeasuredInv, Measured, N!ExecutedWithinBudget, N!Accepted
<1>1. CASE N!ListSource
  BY <1>1 DEF N!ListSource, N!List, N!Same, N!workVars
<1>2. CASE N!VisitSource
  BY <1>2 DEF N!VisitSource, N!Visit, N!Throws, N!Same, N!workVars
<1>3. CASE N!Plan
  BY <1>3 DEF N!Plan, N!Same
<1>4. CASE N!Relist
  BY <1>4 DEF N!Relist, N!Same, N!workVars
<1>5. CASE N!Filter
  BY <1>5 DEF N!Filter, N!Throws, N!Same, N!workVars
<1>6. CASE N!CopyEntry
  BY <1>6 DEF N!CopyEntry, N!Throws, N!Same, N!workVars
<1>7. CASE N!EntriesCopied
  BY <1>7 DEF N!EntriesCopied, N!Same, N!workVars
<1>8. CASE N!FilesCopied
  BY <1>8 DEF N!FilesCopied, N!Same, N!workVars, N!Nodes
<1>9. CASE N!AcceptFails
  BY <1>9 DEF N!AcceptFails, N!Throws, N!Same, N!workVars
<1>10. CASE N!RemoveRoot
  BY <1>10 DEF N!RemoveRoot, N!Same, N!workVars, N!Nodes
<1>11. CASE N!Edit
  BY <1>11 DEF N!Edit, N!walkVars, N!workVars, SizeAt
<1> QED BY <1>1, <1>2, <1>3, <1>4, <1>5, <1>6, <1>7, <1>8, <1>9, <1>10, <1>11

(* What is measured stays so, *)
LEMMA MeasuredStep == SnapshotInv /\ MeasuredInv /\ [N!Next]_snapshotVars => MeasuredInv'
<1> SUFFICES ASSUME SnapshotInv, MeasuredInv, [N!Next]_snapshotVars PROVE MeasuredInv'
  OBVIOUS
<1>1. CASE UNCHANGED snapshotVars
  BY <1>1 DEF snapshotVars, MeasuredInv, Measured, SizeAt, N!ExecutedWithinBudget, N!Accepted
<1>2. CASE N!Next
  BY <1>2, WorkersMeasureNothing, VisitMeasures, ListMeasures, AcceptMeasures, OthersMeasureNothing DEF N!Next
<1> QED BY <1>1, <1>2

(* from the first state on. *)
LEMMA MeasuredStart == N!Init => MeasuredInv
BY DEF N!Init, MeasuredInv, Measured, N!ExecutedWithinBudget, N!Accepted, N!Nodes, N!Sizes

-----------------------------------------------------------------------------
(* The budgets of the campaign of a witness. *)

(* The sums of the import are those of the library. *)
LEMMA ImportSumsAgree ==
  ASSUME NEW f
  PROVE  W!SumFunction(f) = SumFunctionOnSet(f, DOMAIN f)
BY DEF W!SumFunction, W!SumFunctionOnSet, SumFunctionOnSet, W!FoldFunctionOnSet, FoldFunctionOnSet,
       W!MapThenFoldSet, MapThenFoldSet

(* No overlay has no bytes, *)
LEMMA NoBytes == W!Bytes(<<>>) = 0
<1>1. W!Bytes(<<>>) = SumFunctionOnSet([i \in {} |-> <<>>[i].content], {})
  BY ImportSumsAgree DEF W!Bytes
<1> QED BY <1>1, SumOfNone

(* and some have a number of them. *)
LEMMA BytesAreNatural ==
  ASSUME NEW overlays, IsFiniteSet(DOMAIN overlays), \A i \in DOMAIN overlays : overlays[i].content \in Nat
  PROVE  W!Bytes(overlays) \in Nat
<1> DEFINE f == [i \in DOMAIN overlays |-> overlays[i].content]
<1>1. W!Bytes(overlays) = SumFunctionOnSet(f, DOMAIN overlays)
  BY ImportSumsAgree DEF W!Bytes
<1>2. \A i \in DOMAIN overlays : f[i] \in Nat
  OBVIOUS
<1> HIDE DEF f
<1> QED BY <1>1, <1>2, SumIsNatural

(* The bytes of three worlds, *)
LEMMA BytesOfThree ==
  ASSUME NEW items, DOMAIN items = {1, 2, 3}, \A i \in {1, 2, 3} : W!Bytes(items[i].files) \in Nat
  PROVE  W!TotalBytes(items) =
           W!Bytes(items[1].files) + W!Bytes(items[2].files) + W!Bytes(items[3].files)
<1> DEFINE f == [i \in DOMAIN items |-> W!Bytes(items[i].files)]
<1>1. W!TotalBytes(items) = SumFunctionOnSet(f, DOMAIN items)
  BY ImportSumsAgree DEF W!TotalBytes
<1>2. f[1] = W!Bytes(items[1].files) /\ f[2] = W!Bytes(items[2].files) /\ f[3] = W!Bytes(items[3].files)
  OBVIOUS
<1> HIDE DEF f
<1>3. /\ {} \cup {3} = {3} /\ {3} \cup {2} = {2, 3} /\ {2, 3} \cup {1} = {1, 2, 3}
      /\ f[1] \in Int /\ f[2] \in Int /\ f[3] \in Int
      /\ IsFiniteSet({}) /\ IsFiniteSet({3}) /\ IsFiniteSet({2, 3})
  <2>1. {} \cup {3} = {3} /\ {3} \cup {2} = {2, 3} /\ {2, 3} \cup {1} = {1, 2, 3}
    OBVIOUS
  <2>2. IsFiniteSet({}) /\ IsFiniteSet({} \cup {3}) /\ IsFiniteSet(({} \cup {3}) \cup {2})
    BY FS_EmptySet, FS_AddElement
  <2> QED BY <2>1, <2>2, <1>2
<1>4. SumFunctionOnSet(f, {3}) = f[3] + SumFunctionOnSet(f, {})
  BY <1>3, SumWith
<1>5. SumFunctionOnSet(f, {2, 3}) = f[2] + SumFunctionOnSet(f, {3})
  <2>1. 2 \notin {3} /\ \A i \in {3} \cup {2} : f[i] \in Int
    BY <1>3
  <2> QED BY <1>3, <2>1, SumWith
<1>6. SumFunctionOnSet(f, {1, 2, 3}) = f[1] + SumFunctionOnSet(f, {2, 3})
  <2>1. 1 \notin {2, 3} /\ \A i \in {2, 3} \cup {1} : f[i] \in Int
    BY <1>3
  <2> QED BY <1>3, <2>1, SumWith
<1> QED BY <1>1, <1>2, <1>3, <1>4, <1>5, <1>6, SumOfNone

(* and of one candidate without files. *)
LEMMA BytesOfOne ==
  ASSUME NEW items, DOMAIN items = {1}, items[1].files = <<>>
  PROVE  W!TotalBytes(items) = 0
<1> DEFINE f == [i \in DOMAIN items |-> W!Bytes(items[i].files)]
<1>1. W!TotalBytes(items) = SumFunctionOnSet(f, DOMAIN items)
  BY ImportSumsAgree DEF W!TotalBytes
<1>2. IsFiniteSet({1}) /\ \A i \in {1} : f[i] = 0
  BY NoBytes, FS_EmptySet, FS_AddElement
<1> HIDE DEF f
<1> QED BY <1>1, <1>2, SumOfZeros

(* A budget of at least 1 and of what is needed is enough. *)
LEMMA EnoughForIt ==
  ASSUME NEW n \in Nat
  PROVE  n <= W!Max({1, n})
<1>1. \E x \in {1, n} : \A y \in {1, n} : x >= y
  OBVIOUS
<1> QED BY <1>1 DEF W!Max

(* The campaign of a witness is within the budgets it is given. *)
LEMMA WitnessWithinBudgets ==
  ASSUME NEW g \in GivenImports, NEW p \in Importers, NEW isolation
  PROVE  W!WithinBudgets(W!WitnessVerificationRequest(g[p].witness, isolation))
<1> DEFINE w == g[p].witness
           r == W!WitnessVerificationRequest(w, isolation)
           neutral == W!NeutralFiles(w)
           targets == [i \in DOMAIN w.targets |-> [path |-> w.targets[i].path, content |-> w.targets[i].content]]
<1>1. /\ w.attempts \in Nat
      /\ IsFiniteSet(DOMAIN w.targets) /\ \A i \in DOMAIN w.targets : w.targets[i].content \in Nat
      /\ IsFiniteSet(DOMAIN neutral) /\ \A i \in DOMAIN neutral : neutral[i].content \in Nat
  BY WitnessAssumption, FS_EmptySet DEF W!NeutralFiles
<1>2. W!Bytes(targets) = W!Bytes(w.targets)
  BY DEF W!Bytes
<1>3. W!Bytes(w.targets) \in Nat /\ W!Bytes(neutral) \in Nat
  BY <1>1, BytesAreNatural
<1>4. /\ DOMAIN r.worlds = {1, 2, 3} /\ Len(r.worlds) = 3
      /\ r.worlds[1].files = <<>> /\ r.worlds[2].files = targets /\ r.worlds[3].files = neutral
  BY DEF W!WitnessVerificationRequest, W!World
<1>5. DOMAIN r.candidates = {1} /\ Len(r.candidates) = 1 /\ r.candidates[1].files = <<>>
  BY DEF W!WitnessVerificationRequest
<1>6. /\ r.attempts = w.attempts /\ r.budgets.candidates = 1 /\ r.budgets.worlds = 3
      /\ r.budgets.executions = 3 * w.attempts * 2
      /\ r.budgets.overlayBytes = W!Max({1, W!Bytes(w.targets) + W!Bytes(neutral)})
      /\ r.budgets.candidateBytes = 1 /\ r.budgets.totalCandidateBytes = 1
  BY DEF W!WitnessVerificationRequest, W!Budgets
<1> HIDE DEF w, r, neutral, targets
<1>7. W!TotalBytes(r.worlds) = W!Bytes(w.targets) + W!Bytes(neutral)
  <2>1. \A i \in {1, 2, 3} : W!Bytes(r.worlds[i].files) \in Nat
    BY <1>2, <1>3, <1>4, NoBytes
  <2> QED BY <2>1, <1>2, <1>3, <1>4, BytesOfThree, NoBytes
<1>8. W!TotalBytes(r.worlds) <= r.budgets.overlayBytes
  BY <1>3, <1>6, <1>7, EnoughForIt
<1>9. W!TotalBytes(r.candidates) <= r.budgets.totalCandidateBytes
  BY <1>5, <1>6, BytesOfOne
<1>10. \A i \in DOMAIN r.candidates : W!Bytes(r.candidates[i].files) <= r.budgets.candidateBytes
  BY <1>5, <1>6, NoBytes
<1>11. W!PlannedExecutions(r) <= r.budgets.executions
  BY <1>1, <1>4, <1>5, <1>6 DEF W!PlannedExecutions
<1>12. W!WithinBudgets(r)
  BY <1>4, <1>5, <1>6, <1>8, <1>9, <1>10, <1>11 DEF W!WithinBudgets
<1> QED BY <1>12 DEF r, w

(* What each importer has built is the campaign of its witness. *)
BuiltInv ==
  /\ given \in GivenImports /\ DOMAIN request = Importers
  /\ \A p \in Importers : request[p] # None =>
       request[p] = W!WitnessVerificationRequest(given[p].witness, given[p].isolation)

(* Nobody replaces it. *)
LEMMA BuiltStep == BuiltInv /\ [W!Next]_importVars => BuiltInv'
<1> SUFFICES ASSUME BuiltInv, [W!Next]_importVars PROVE BuiltInv'
  OBVIOUS
<1>1. CASE \E p \in Importers : W!Build(p)
  <2>1. PICK p \in Importers : W!Build(p)
    BY <1>1
  <2>2. /\ given' = given
        /\ request' = [request EXCEPT ![p] = W!WitnessVerificationRequest(given[p].witness, given[p].isolation)]
    BY <2>1 DEF W!Build, W!importing
  <2> HIDE DEF W!WitnessVerificationRequest
  <2> QED BY <2>2 DEF BuiltInv
<1>2. CASE ~ \E p \in Importers : W!Build(p)
  <2>1. given' = given /\ request' = request
    BY <1>2 DEF W!Next, importVars, W!importing, W!Edit, W!Parse, W!CompareTarget, W!LookUp, W!Verify, W!Reserve,
       W!Write, W!WriteFails, W!Publish, W!PublishFails, W!RemoveName, W!RemoveDirectory, W!RemovalFails, W!Crash
  <2> QED BY <2>1 DEF BuiltInv
<1> QED BY <1>1, <1>2

(* At first nothing is built. *)
LEMMA BuiltStart == W!Init => BuiltInv
BY DEF W!Init, BuiltInv

(* So what was built is within its budgets. *)
LEMMA BuiltWithinBudgets == BuiltInv => W!CampaignWithinBudgets
<1> SUFFICES ASSUME BuiltInv, NEW p \in Importers, request[p] # None
             PROVE  W!WithinBudgets(request[p])
  BY DEF W!CampaignWithinBudgets
<1> QED BY WitnessWithinBudgets DEF BuiltInv

-----------------------------------------------------------------------------

-----------------------------------------------------------------------------
(* What is chosen of two paths, in order. *)
LEMMA InOrderOf ==
  ASSUME NEW first, NEW second, first # second, NEW chosen
  PROVE LET s == S!InOrder(first, second, chosen) IN
        /\ S!ToSet(s) = chosen \cap {first, second}
        /\ s = <<>> => chosen \cap {first, second} = {}
        /\ s # <<>> => s \in {<<first>>, <<second>>, <<first, second>>}
        /\ second \in chosen => s \in {<<second>>, <<first, second>>}
<1> DEFINE s == S!InOrder(first, second, chosen)
<1>1. CASE first \in chosen /\ second \in chosen
  <2>1. <<first>> \o <<second>> = <<first, second>>
    <3> DEFINE all == {first, second}
               c == <<first>> \o <<second>>
    <3>1. <<first>> \in Seq(all) /\ <<second>> \in Seq(all) /\ <<first, second>> \in Seq(all)
      OBVIOUS
    <3>2. Len(<<first>>) = 1 /\ Len(<<second>>) = 1
      OBVIOUS
    <3>3. c \in Seq(all) /\ Len(c) = 2
      BY <3>1, <3>2, ConcatProperties
    <3>4. c[1] = first /\ c[2] = second
      BY <3>1, <3>2
    <3>5. Len(<<first, second>>) = 2
      OBVIOUS
    <3> HIDE DEF c
    <3>6. \A i \in 1..Len(c) : c[i] = <<first, second>>[i]
      BY <3>3, <3>4
    <3>7. c = <<first, second>>
      BY <3>1, <3>3, <3>5, <3>6, SeqEqual
    <3> QED BY <3>7 DEF c
  <2>2. s = <<first, second>>
    BY <1>1, <2>1 DEF S!InOrder
  <2> QED BY <1>1, <2>2 DEF S!ToSet
<1>2. CASE first \in chosen /\ second \notin chosen
  <2>1. s = <<first>>
    BY <1>2 DEF S!InOrder
  <2> QED BY <1>2, <2>1 DEF S!ToSet
<1>3. CASE first \notin chosen /\ second \in chosen
  <2>1. s = <<second>>
    BY <1>3 DEF S!InOrder
  <2> QED BY <1>3, <2>1 DEF S!ToSet
<1>4. CASE first \notin chosen /\ second \notin chosen
  <2>1. s = <<>>
    BY <1>4 DEF S!InOrder
  <2> QED BY <1>4, <2>1 DEF S!ToSet
<1> QED BY <1>1, <1>2, <1>3, <1>4

(* The elements of a list are its first one and those of the rest. *)
LEMMA TailSet ==
  ASSUME NEW A, NEW s \in Seq(A), s # <<>>
  PROVE /\ Head(s) \in A /\ Tail(s) \in Seq(A)
        /\ S!ToSet(s) = {Head(s)} \cup S!ToSet(Tail(s))
<1>1. Head(s) \in A /\ Tail(s) \in Seq(A)
  OBVIOUS
<1>2. S!ToSet(s) \subseteq {Head(s)} \cup S!ToSet(Tail(s))
  <2>1. SUFFICES ASSUME NEW i \in DOMAIN s, i # 1 PROVE s[i] \in S!ToSet(Tail(s))
    BY DEF S!ToSet
  <2>2. i - 1 \in DOMAIN Tail(s) /\ Tail(s)[i - 1] = s[i]
    BY <2>1
  <2> QED BY <2>2 DEF S!ToSet
<1>3. {Head(s)} \cup S!ToSet(Tail(s)) \subseteq S!ToSet(s)
  <2>1. 1 \in DOMAIN s /\ Head(s) = s[1]
    OBVIOUS
  <2>2. ASSUME NEW i \in DOMAIN Tail(s) PROVE Tail(s)[i] = s[i + 1] /\ i + 1 \in DOMAIN s
    OBVIOUS
  <2> QED BY <2>1, <2>2 DEF S!ToSet
<1> QED BY <1>1, <1>2, <1>3

(* Appending adds one element. *)
LEMMA AppendSet ==
  ASSUME NEW A, NEW s \in Seq(A), NEW x \in A
  PROVE Append(s, x) \in Seq(A) /\ S!ToSet(Append(s, x)) = S!ToSet(s) \cup {x}
<1>1. ASSUME NEW i \in DOMAIN Append(s, x) PROVE Append(s, x)[i] \in S!ToSet(s) \cup {x}
  BY DEF S!ToSet
<1>2. ASSUME NEW i \in DOMAIN s PROVE i \in DOMAIN Append(s, x) /\ Append(s, x)[i] = s[i]
  OBVIOUS
<1>3. Len(s) + 1 \in DOMAIN Append(s, x) /\ Append(s, x)[Len(s) + 1] = x
  OBVIOUS
<1> QED BY <1>1, <1>2, <1>3 DEF S!ToSet

(* Concatenation has the elements of both lists. *)
LEMMA ConcatSet ==
  ASSUME NEW A, NEW s \in Seq(A), NEW t \in Seq(A)
  PROVE s \o t \in Seq(A) /\ S!ToSet(s \o t) = S!ToSet(s) \cup S!ToSet(t)
<1>1. ASSUME NEW i \in DOMAIN (s \o t) PROVE (s \o t)[i] \in S!ToSet(s) \cup S!ToSet(t)
  <2>1. CASE i \in 1..Len(s)
    BY <2>1 DEF S!ToSet
  <2>2. CASE i \notin 1..Len(s)
    <3>1. i - Len(s) \in DOMAIN t /\ (s \o t)[i] = t[i - Len(s)]
      BY <2>2
    <3> QED BY <3>1 DEF S!ToSet
  <2> QED BY <2>1, <2>2
<1>2. ASSUME NEW i \in DOMAIN s PROVE i \in DOMAIN (s \o t) /\ (s \o t)[i] = s[i]
  OBVIOUS
<1>3. ASSUME NEW i \in DOMAIN t PROVE Len(s) + i \in DOMAIN (s \o t) /\ (s \o t)[Len(s) + i] = t[i]
  OBVIOUS
<1>4. S!ToSet(s \o t) \subseteq S!ToSet(s) \cup S!ToSet(t)
  BY <1>1 DEF S!ToSet
<1>5. S!ToSet(s) \subseteq S!ToSet(s \o t) /\ S!ToSet(t) \subseteq S!ToSet(s \o t)
  BY <1>2, <1>3 DEF S!ToSet
<1>6. s \o t \in Seq(A)
  OBVIOUS
<1> QED BY <1>4, <1>5, <1>6

(* A reversed list has the same elements. *)
LEMMA ReverseSet ==
  ASSUME NEW A, NEW s \in Seq(A)
  PROVE S!Reverse(s) \in Seq(A) /\ S!ToSet(S!Reverse(s)) = S!ToSet(s)
<1>1. /\ Len(s) \in Nat /\ DOMAIN s = 1..Len(s) /\ \A i \in 1..Len(s) : s[i] \in A
      /\ S!Reverse(s) = [i \in 1..Len(s) |-> s[(Len(s) - i) + 1]]
  BY DEF S!Reverse
<1>2. \A i \in 1..Len(s) : (Len(s) - i) + 1 \in 1..Len(s) /\ (Len(s) - ((Len(s) - i) + 1)) + 1 = i
  BY <1>1
<1>3. S!Reverse(s) \in Seq(A) /\ DOMAIN S!Reverse(s) = 1..Len(s)
  BY <1>1, <1>2
<1>4. \A i \in 1..Len(s) : S!Reverse(s)[i] = s[(Len(s) - i) + 1] /\ s[i] = S!Reverse(s)[(Len(s) - i) + 1]
  BY <1>1, <1>2
<1> DEFINE r == S!Reverse(s)
<1>5. DOMAIN r = 1..Len(s) /\ \A i \in DOMAIN r : r[i] \in S!ToSet(s)
  BY <1>1, <1>2, <1>3, <1>4 DEF S!ToSet
<1>6. \A i \in DOMAIN s : s[i] \in S!ToSet(r)
  BY <1>1, <1>2, <1>3, <1>4 DEF S!ToSet
<1>7. S!ToSet(r) \subseteq S!ToSet(s)
  <2> HIDE DEF r
  <2> QED BY <1>5 DEF S!ToSet
<1>8. S!ToSet(s) \subseteq S!ToSet(r)
  <2> HIDE DEF r
  <2> QED BY <1>6 DEF S!ToSet
<1> QED BY <1>3, <1>7, <1>8

(* The lists of the init files and of the artifacts. *)
LEMMA InitLists ==
  ASSUME NEW t \in InitTodo
  PROVE /\ t \in Seq(S!Managed) /\ t # <<>> /\ Head(t) \in S!InitFiles
        /\ Len(t) # 1 => Tail(t) = <<"lock">> /\ Head(t) = "config" /\ t = <<"config", "lock">>
        /\ t \in {<<"lock">>, <<"config", "lock">>} /\ Len(t) = 1 => Head(t) = "lock"
        /\ Head(t) = "lock" => t = <<"lock">> /\ Len(t) = 1
<1>1. "config" \in S!Managed /\ "lock" \in S!Managed
  BY DEF S!InitFiles, S!Managed
<1>2. CASE t = <<"config">>
  <2>1. t \in Seq(S!Managed) /\ Len(t) = 1 /\ Head(t) = "config"
    BY <1>1, <1>2
  <2>2. t # <<"lock">> /\ t # <<"config", "lock">>
    BY <1>2
  <2> QED BY <2>1, <2>2 DEF S!InitFiles
<1>3. CASE t = <<"lock">>
  <2>1. t \in Seq(S!Managed) /\ Len(t) = 1 /\ Head(t) = "lock"
    BY <1>1, <1>3
  <2> QED BY <1>3, <2>1 DEF S!InitFiles
<1>4. CASE t = <<"config", "lock">>
  <2>1. t \in Seq(S!Managed) /\ Len(t) = 2 /\ Head(t) = "config" /\ Tail(t) = <<"lock">>
    BY <1>1, <1>4
  <2> QED BY <1>4, <2>1 DEF S!InitFiles
<1> QED BY <1>2, <1>3, <1>4 DEF InitTodo

(* What one step takes from a list of artifacts is an artifact, and the    *)
(* rest is such a list.                                                    *)
LEMMA ArtifactLists ==
  ASSUME NEW t \in ArtifactTodo
  PROVE /\ t \in Seq(S!Managed) /\ t # <<>> /\ Head(t) \in S!Artifacts
        /\ Len(t) # 1 => Tail(t) \in ArtifactTodo
        /\ S!ToSet(t) \subseteq S!Artifacts
        /\ Head(t) \in S!ToSet(t) /\ S!ToSet(Tail(t)) \subseteq S!ToSet(t)
<1>1. /\ t \in Seq(S!Managed) /\ t # <<>> /\ Head(t) \in S!Artifacts /\ t \in Seq(S!Artifacts)
      /\ Len(t) # 1 => Tail(t) = <<"skill">>
  <2>1. {"client", "skill"} = S!Artifacts /\ S!Artifacts \subseteq S!Managed
    BY DEF S!Artifacts, S!Managed
  <2>2. ASSUME NEW a \in S!Artifacts, t = <<a>> PROVE <1>1!:
    <3>1. t \in Seq(S!Artifacts) /\ t \in Seq(S!Managed) /\ Head(t) = a /\ Len(t) = 1
      BY <2>1, <2>2
    <3> QED BY <2>2, <3>1
  <2>3. ASSUME t = <<"client", "skill">> PROVE <1>1!:
    <3>1. /\ t \in Seq(S!Artifacts) /\ t \in Seq(S!Managed) /\ Head(t) = "client"
          /\ Tail(t) = <<"skill">>
      BY <2>1, <2>3
    <3> QED BY <2>1, <2>3, <3>1
  <2> QED BY <2>1, <2>2, <2>3 DEF ArtifactTodo
<1>2. S!ToSet(t) \subseteq S!Artifacts
  BY <1>1 DEF S!ToSet
<1>3. S!ToSet(t) = {Head(t)} \cup S!ToSet(Tail(t))
  BY <1>1, TailSet
<1> QED BY <1>1, <1>2, <1>3 DEF ArtifactTodo

-----------------------------------------------------------------------------
(* What a path holds, and who wrote it. *)
LEMMA Files ==
  ASSUME NEW is \in Contents, NEW by \in {"run", "other"}
  PROVE /\ S!File(is, by).is = is /\ S!File(is, by).by = by
        /\ S!File(is, by) \in [is : Contents, by : {"run", "other"}]
        /\ S!Absent = S!File("absent", "other")
BY DEF S!File, S!Absent, Contents

(* The paths by their names. *)
LEMMA PathsApart ==
  /\ S!InitFiles = {"config", "lock"} /\ S!Artifacts = {"client", "skill"}
  /\ S!Managed = {"config", "lock", "client", "skill"}
  /\ S!Paths = {"config", "lock", "client", "skill", "temp"}
BY DEF S!InitFiles, S!Artifacts, S!Managed, S!Paths

(* The empty list. *)
LEMMA NoList == <<>> \in Seq(S!Managed) /\ <<>> \in Seq(S!Artifacts) /\ S!ToSet(<<>>) = {}
BY DEF S!ToSet

(* One path is given other bytes. *)
LEMMA OneChanged ==
  ASSUME SetupTypes, NEW p \in S!Paths, NEW is \in Contents, NEW by \in {"run", "other"},
         is = "absent" => by = "other",
         disk' = [disk EXCEPT ![p] = S!File(is, by)]
  PROVE /\ disk' \in [S!Paths -> [is : Contents, by : {"run", "other"}]]
        /\ \A q \in S!Paths : disk'[q].is = "absent" => disk'[q].by = "other"
        /\ disk'[p].is = is /\ disk'[p].by = by
        /\ \A q \in S!Paths \ {p} : disk'[q] = disk[q]
BY Files DEF SetupTypes

(* One path is removed. *)
LEMMA OneRemoved ==
  ASSUME SetupTypes, NEW p \in S!Paths, disk' = [disk EXCEPT ![p] = S!Absent]
  PROVE /\ disk' \in [S!Paths -> [is : Contents, by : {"run", "other"}]]
        /\ \A q \in S!Paths : disk'[q].is = "absent" => disk'[q].by = "other"
        /\ disk'[p].is = "absent" /\ disk'[p].by = "other"
        /\ \A q \in S!Paths \ {p} : disk'[q] = disk[q]
<1>1. "absent" \in Contents /\ S!Absent = S!File("absent", "other")
  BY DEF Contents, S!Absent, S!File
<1> QED BY <1>1, OneChanged

(* The run ends: what it reports is what is left. *)
LEMMA RunEndsSo ==
  ASSUME SetupInv, NEW status, NEW removed \in SUBSET S!Paths, NEW unresolved,
         S!Ends(status, removed, unresolved),
         disk' \in [S!Paths -> [is : Contents, by : {"run", "other"}]],
         \A p \in S!Paths : disk'[p].is = "absent" => disk'[p].by = "other",
         S!InitFilesWhole',
         status \notin {"CREATED", "UNCHANGED", "REMOVED", "failed"} =>
           /\ \A p \in S!Paths : disk'[p].by = "run" => p \in unresolved
           /\ \A p \in removed : disk'[p].by # "run"
           /\ unresolved # {} => status = "PARTIAL_FAILURE"
  PROVE SetupInv'
<1> USE DEF SetupInv
<1>1. /\ setupPc' = "done" /\ setupTodo' = <<>>
      /\ outcome' = [status |-> status, removed |-> removed, unresolved |-> unresolved]
      /\ installed' = installed /\ regenerated' = regenerated /\ created' = created
  BY DEF S!Ends
<1>2. SetupTypes'
  BY <1>1 DEF SetupTypes, Steps
<1>3. TodoFits' /\ TempFits' /\ LockIsLast' /\ NothingWritten' /\ InitBooked' /\ ArtifactsBooked' /\ TakenBack'
  BY <1>1 DEF TodoFits, TempFits, LockIsLast, NothingWritten, InitBooked, ArtifactsBooked, TakenBack,
              Installing, Connecting, Unwritten
<1>4. S!Accounted'
  BY <1>1 DEF S!Accounted, S!Exists
<1> QED BY <1>2, <1>3, <1>4

(* The run ends and leaves the files as they are. *)
LEMMA RunEnds ==
  ASSUME SetupInv, NEW status, NEW removed \in SUBSET S!Paths, NEW unresolved,
         S!Ends(status, removed, unresolved), disk' = disk,
         status \notin {"CREATED", "UNCHANGED", "REMOVED", "failed"} =>
           /\ \A p \in S!Paths : disk[p].by = "run" => p \in unresolved
           /\ \A p \in removed : disk[p].by # "run"
           /\ unresolved # {} => status = "PARTIAL_FAILURE"
  PROVE SetupInv'
<1>1. S!InitFilesWhole'
  BY DEF SetupInv, S!InitFilesWhole
<1> QED BY <1>1, RunEndsSo DEF SetupInv, SetupTypes

(* Nothing is written yet. *)
LEMMA SetupPreviews ==
  ASSUME SetupInv, S!Preview
  PROVE SetupInv'
<1>1. setupPc = "idle" /\ disk' = disk
  BY DEF S!Preview
<1>2. \A p \in S!Paths : disk[p].by = "other"
  BY <1>1 DEF SetupInv, NothingWritten, Unwritten
<1>3. ASSUME NEW status, S!Ends(status, {}, {}) PROVE SetupInv'
  BY <1>1, <1>2, <1>3, RunEnds
<1>4. ASSUME S!Goes("apply", <<>>), UNCHANGED <<installed, regenerated, created, outcome>>
      PROVE SetupInv'
  <2>1. setupPc' = "apply" /\ setupTodo' = <<>>
    BY <1>4 DEF S!Goes
  <2>2. SetupTypes'
    BY <1>1, <1>4, <2>1 DEF SetupInv, SetupTypes, Steps, Unwritten
  <2>3. TodoFits' /\ TempFits' /\ LockIsLast'
    BY <1>1, <1>2, <2>1, PathsApart DEF TodoFits, TempFits, LockIsLast, Installing, Connecting
  <2>4. NothingWritten'
    BY <1>1, <1>4, <2>1 DEF SetupInv, NothingWritten, Unwritten, Installing, Connecting
  <2>5. InitBooked' /\ ArtifactsBooked' /\ TakenBack'
    BY <2>1 DEF InitBooked, ArtifactsBooked, TakenBack, Installing, Connecting
  <2>6. S!InitFilesWhole' /\ S!Accounted'
    BY <1>1, <2>1 DEF SetupInv, S!InitFilesWhole, S!Accounted
  <2> QED BY <2>2, <2>3, <2>4, <2>5, <2>6 DEF SetupInv
<1> QED BY <1>3, <1>4 DEF S!Preview

(* initializeRepository reads the repository again: its list of files is   *)
(* in order, and a lock that it will replace is an old one.                *)
LEMMA SetupAppliesInit ==
  ASSUME SetupInv, S!ApplyInit
  PROVE SetupInv'
<1>1. setupPc = "apply" /\ disk' = disk
  BY DEF S!ApplyInit
<1>2. \A p \in S!Paths : disk[p].by = "other"
  BY <1>1 DEF SetupInv, NothingWritten, Unwritten
<1>3. ASSUME NEW status, S!Ends(status, {}, {}) PROVE SetupInv'
  BY <1>1, <1>2, <1>3, RunEnds
<1>4. ASSUME IF S!InitActions = <<>> THEN S!Goes("connect", <<>>) ELSE S!Goes("open", S!InitActions),
             regenerated' = {f \in S!InitFiles : S!Regenerates(f)},
             UNCHANGED <<installed, created, outcome>>
      PROVE SetupInv'
  <2> DEFINE chosen == {f \in S!InitFiles : disk[f].is # "ours"}
             t == S!InOrder("config", "lock", chosen)
  <2>1. /\ t # <<>> => t \in InitTodo
        /\ "lock" \in chosen => t \in {<<"lock">>, <<"config", "lock">>}
    BY InOrderOf DEF InitTodo
  <2>2. /\ regenerated' \subseteq {"lock"}
        /\ "lock" \in regenerated' => disk["lock"].is = "stale" /\ "lock" \in chosen
    BY <1>4, PathsApart DEF S!Regenerates
  <2>3. t = S!InitActions
    BY DEF S!InitActions
  <2> HIDE DEF t, chosen
  <2>4. \/ setupPc' = "connect" /\ setupTodo' = <<>>
        \/ setupPc' = "open" /\ setupTodo' = t /\ t \in InitTodo
    BY <1>4, <2>1, <2>3 DEF S!Goes
  <2>4a. t = <<>> => setupPc' = "connect"
    BY <1>4, <2>3 DEF S!Goes
  <2>5. setupTodo' \in Seq(S!Managed)
    BY <2>4, InitLists, NoList
  <2>6. SetupTypes'
    BY <1>1, <1>4, <2>2, <2>4, <2>5 DEF SetupInv, SetupTypes, Steps, Installing
  <2>7. TodoFits' /\ TempFits'
    BY <1>1, <1>2, <2>4, PathsApart DEF TodoFits, TempFits, Installing, Connecting
  <2>8. LockIsLast'
    BY <1>1, <2>1, <2>2, <2>4 DEF LockIsLast, Installing
  <2>9. NothingWritten'
    BY <1>1, <1>4, <2>4 DEF SetupInv, NothingWritten, Unwritten, Installing, Connecting
  <2>10. InitBooked' /\ ArtifactsBooked' /\ TakenBack'
    BY <1>1, <1>2, <2>4, PathsApart DEF InitBooked, ArtifactsBooked, TakenBack, Installing, Connecting
  <2>11. S!InitFilesWhole' /\ S!Accounted'
    BY <1>1, <2>4 DEF SetupInv, S!InitFilesWhole, S!Accounted
  <2> QED BY <2>6, <2>7, <2>8, <2>9, <2>10, <2>11 DEF SetupInv
<1> QED BY <1>3, <1>4 DEF S!ApplyInit

(* A temporary file is opened and written. *)
LEMMA SetupOpensTemp ==
  ASSUME SetupInv, S!OpenTemp \/ S!WriteTemp
  PROVE SetupInv'
<1> USE DEF SetupInv
<1>1. /\ setupPc \in {"open", "write"} /\ setupPc' \in {"write", "install"}
      /\ setupPc = "write" <=> setupPc' = "install"
      /\ UNCHANGED <<setupTodo, installed, regenerated, created, outcome>>
  BY DEF S!OpenTemp, S!WriteTemp
<1>2. PICK is \in {"part", "ours"} :
        disk' = [disk EXCEPT !["temp"] = S!File(is, "run")] /\ (setupPc' = "install" => is = "ours")
  BY DEF S!OpenTemp, S!WriteTemp, S!Put
<1>3. /\ disk' \in [S!Paths -> [is : Contents, by : {"run", "other"}]]
      /\ \A q \in S!Paths : disk'[q].is = "absent" => disk'[q].by = "other"
      /\ disk'["temp"].is = is /\ disk'["temp"].by = "run"
      /\ \A q \in S!Managed : disk'[q] = disk[q]
  BY <1>2, OneChanged, PathsApart DEF Contents
<1>4. SetupTypes'
  BY <1>1, <1>3 DEF SetupTypes, Steps, Installing
<1>5. TodoFits' /\ TempFits'
  BY <1>1, <1>2, <1>3 DEF TodoFits, TempFits, Installing, Connecting
<1>6. LockIsLast'
  BY <1>1, <1>3, PathsApart DEF LockIsLast, Installing
<1>7. NothingWritten'
  BY <1>1 DEF NothingWritten, Unwritten, Installing, Connecting
<1>8. InitBooked' /\ ArtifactsBooked' /\ TakenBack'
  BY <1>1, <1>3, PathsApart DEF InitBooked, ArtifactsBooked, TakenBack, Installing, Connecting, Created
<1>9. S!InitFilesWhole' /\ S!Accounted'
  BY <1>1, <1>3, PathsApart DEF S!InitFilesWhole, S!Accounted
<1> QED BY <1>4, <1>5, <1>6, <1>7, <1>8, <1>9

(* It is linked under the name of a new init file. *)
LEMMA SetupLinks ==
  ASSUME SetupInv, S!LinkTemp
  PROVE SetupInv'
<1> USE DEF SetupInv
<1> DEFINE f == Head(setupTodo)
<1>1. /\ setupPc = "install" /\ setupPc' = "removeTemp" /\ f \notin regenerated /\ ~S!Exists(f)
      /\ installed' = installed \cup {f}
      /\ UNCHANGED <<setupTodo, regenerated, created, outcome>>
      /\ disk' = [disk EXCEPT ![f] = S!File(disk["temp"].is, "run")]
  BY DEF S!LinkTemp, S!Put
<1>2. setupTodo \in InitTodo /\ disk["temp"].is = "ours" /\ disk["temp"].by = "run"
  BY <1>1 DEF TodoFits, TempFits, Installing
<1>3. f \in S!InitFiles /\ f \in S!Paths /\ f # "temp" /\ f \notin S!Artifacts
  BY <1>2, InitLists, PathsApart
<1> HIDE DEF f
<1>4. /\ disk' \in [S!Paths -> [is : Contents, by : {"run", "other"}]]
      /\ \A q \in S!Paths : disk'[q].is = "absent" => disk'[q].by = "other"
      /\ disk'[f].is = "ours" /\ disk'[f].by = "run"
      /\ \A q \in S!Paths \ {f} : disk'[q] = disk[q]
  BY <1>1, <1>2, <1>3, OneChanged DEF Contents
<1>5. SetupTypes'
  BY <1>1, <1>3, <1>4 DEF SetupTypes, Steps, Installing
<1>6. TodoFits' /\ TempFits'
  BY <1>1, <1>2, <1>3, <1>4, PathsApart DEF TodoFits, TempFits, Installing, Connecting
<1>7. LockIsLast'
  BY <1>1, <1>4, PathsApart DEF LockIsLast, Installing
<1>8. NothingWritten'
  BY <1>1 DEF NothingWritten, Unwritten, Installing, Connecting
<1>9. InitBooked'
  BY <1>1, <1>4, PathsApart DEF InitBooked, Installing, Connecting
<1>10. ArtifactsBooked' /\ TakenBack'
  BY <1>1, <1>3, <1>4, PathsApart DEF ArtifactsBooked, TakenBack, Installing, Connecting, Created
<1>11. S!InitFilesWhole' /\ S!Accounted'
  BY <1>1, <1>3, <1>4, PathsApart DEF S!InitFilesWhole, S!Accounted
<1> QED BY <1>5, <1>6, <1>7, <1>8, <1>9, <1>10, <1>11

(* An init file is in its place: the next one, or the client. *)
LEMMA SetupGoesOn ==
  ASSUME SetupInv, S!RemoveTemp \/ S!RenameTemp
  PROVE SetupInv'
<1> USE DEF SetupInv
<1> DEFINE f == Head(setupTodo)
<1>1. /\ setupPc \in {"install", "removeTemp"} /\ UNCHANGED <<installed, regenerated, created, outcome>>
      /\ IF Len(setupTodo) = 1 THEN setupPc' = "connect" /\ setupTodo' = <<>>
                               ELSE setupPc' = "open" /\ setupTodo' = Tail(setupTodo)
      /\ \/ disk' = [disk EXCEPT !["temp"] = S!Absent]
         \/ /\ setupPc = "install" /\ f \in regenerated
            /\ disk' = [disk EXCEPT ![f] = disk["temp"], !["temp"] = S!Absent]
  BY DEF S!RemoveTemp, S!RenameTemp, S!NextFile, S!Goes, S!Unlinked
<1>2. setupTodo \in InitTodo /\ f \in S!InitFiles
  BY <1>1, InitLists DEF TodoFits, Installing
<1>3. /\ Len(setupTodo) # 1 => setupTodo' = <<"lock">> /\ setupTodo = <<"config", "lock">>
      /\ f = "lock" => Len(setupTodo) = 1
      /\ <<"lock">> \in InitTodo
  BY <1>1, <1>2, InitLists DEF InitTodo
<1>4. f \in regenerated => f = "lock" /\ Len(setupTodo) = 1
  BY <1>3 DEF SetupTypes
<1> HIDE DEF f
<1>5. /\ disk' \in [S!Paths -> [is : Contents, by : {"run", "other"}]]
      /\ \A q \in S!Paths : disk'[q].is = "absent" => disk'[q].by = "other"
      /\ disk'["temp"].by = "other"
      /\ \A q \in S!Managed \ {"lock"} : disk'[q] = disk[q]
      /\ disk'["lock"] = disk["lock"] \/ ("lock" \in regenerated /\ setupPc' = "connect" /\ disk'["lock"].is = "ours")
  <2>1. CASE disk' = [disk EXCEPT !["temp"] = S!Absent]
    BY <2>1, PathsApart, OneRemoved
  <2>2. CASE setupPc = "install" /\ f \in regenerated
               /\ disk' = [disk EXCEPT !["lock"] = disk["temp"], !["temp"] = S!Absent]
    <3>1. disk["temp"].is = "ours" /\ disk["temp"] \in [is : Contents, by : {"run", "other"}]
      BY <2>2, PathsApart DEF TempFits, SetupTypes
    <3>2. /\ disk' \in [S!Paths -> [is : Contents, by : {"run", "other"}]]
          /\ disk'["temp"] = S!Absent /\ disk'["lock"] = disk["temp"]
          /\ \A q \in S!Paths \ {"lock", "temp"} : disk'[q] = disk[q]
      BY <2>2, <3>1, Files, PathsApart DEF SetupTypes, Contents
    <3>3. S!Absent.is = "absent" /\ S!Absent.by = "other"
      BY DEF S!Absent
    <3>4. setupPc' = "connect" /\ "lock" \in regenerated
      BY <1>1, <1>4, <2>2
    <3>5. \A q \in S!Paths \ {"lock", "temp"} : disk'[q].is = "absent" => disk'[q].by = "other"
      BY <3>2 DEF SetupTypes
    <3>6. \A q \in S!Paths : disk'[q].is = "absent" => disk'[q].by = "other"
      BY <3>1, <3>2, <3>3, <3>5
    <3>7. \A q \in S!Managed \ {"lock"} : q \in S!Paths \ {"lock", "temp"}
      BY PathsApart
    <3> QED BY <3>1, <3>2, <3>3, <3>4, <3>6, <3>7
  <2> QED BY <1>1, <1>4, <2>1, <2>2
<1>6. setupTodo' \in Seq(S!Managed) /\ (setupPc' = "open" => setupTodo' \in InitTodo)
  BY <1>1, <1>3, InitLists, NoList
<1>7. SetupTypes'
  BY <1>1, <1>5, <1>6 DEF SetupTypes, Steps, Installing
<1>8. TodoFits' /\ TempFits'
  BY <1>1, <1>5, <1>6 DEF TodoFits, TempFits, Installing, Connecting
<1>9. LockIsLast'
  BY <1>1, <1>3, <1>5 DEF LockIsLast, Installing
<1>10. NothingWritten'
  BY <1>1 DEF NothingWritten, Unwritten, Installing, Connecting
<1>11. InitBooked'
  BY <1>1, <1>5, PathsApart DEF InitBooked, Installing, Connecting
<1>12. ArtifactsBooked' /\ TakenBack'
  BY <1>1, <1>5, PathsApart DEF ArtifactsBooked, TakenBack, Installing, Connecting, Created
<1>13. S!InitFilesWhole' /\ S!Accounted'
  BY <1>1, <1>5, PathsApart DEF S!InitFilesWhole, S!Accounted
<1> QED BY <1>7, <1>8, <1>9, <1>10, <1>11, <1>12, <1>13

(* An operation on the temporary file or the link fails. *)
LEMMA SetupInitFails ==
  ASSUME SetupInv, S!InitFails
  PROVE SetupInv'
<1> USE DEF SetupInv
<1>1. /\ setupPc \in Installing /\ setupPc' = "rollback"
      /\ setupTodo' = S!InOrder("config", "lock", installed)
      /\ UNCHANGED <<installed, regenerated, created>>
  BY DEF S!InitFails, S!Goes, Installing
<1>2. PICK removed \in {{}, {"temp"}}, unresolved \in {{}, {"temp"}} :
        /\ outcome' = [status |-> "PARTIAL_FAILURE", removed |-> removed, unresolved |-> unresolved]
        /\ \/ disk' = [disk EXCEPT !["temp"] = S!Absent]
           \/ disk' = disk /\ removed = {} /\ (setupPc = "open" \/ unresolved = {"temp"})
  BY DEF S!InitFails, S!Unlinked
<1>3. Todo' = installed /\ Todo' \subseteq S!InitFiles /\ setupTodo' \in Seq(S!Managed)
  <2>1. Todo' = installed \cap {"config", "lock"}
    <3>1. S!ToSet(S!InOrder("config", "lock", installed)) = installed \cap {"config", "lock"}
      BY InOrderOf
    <3> QED BY <1>1, <3>1 DEF Todo
  <2>2. setupTodo' = <<>> \/ setupTodo' \in InitTodo
    BY <1>1, InOrderOf DEF InitTodo
  <2>3. setupTodo' \in Seq(S!Managed)
    BY <2>2, InitLists, NoList
  <2> QED BY <2>1, <2>3, PathsApart DEF SetupTypes
<1>4. /\ disk' \in [S!Paths -> [is : Contents, by : {"run", "other"}]]
      /\ \A q \in S!Paths : disk'[q].is = "absent" => disk'[q].by = "other"
      /\ \A q \in S!Managed : disk'[q] = disk[q]
      /\ removed # {} => disk'["temp"].by = "other"
      /\ disk'["temp"].by = "other" \/ unresolved = {"temp"}
  <2>1. CASE disk' = [disk EXCEPT !["temp"] = S!Absent]
    BY <2>1, PathsApart, OneRemoved
  <2>2. CASE disk' = disk /\ removed = {} /\ (setupPc = "open" \/ unresolved = {"temp"})
    BY <2>2 DEF SetupTypes, TempFits
  <2> QED BY <1>2, <2>1, <2>2
<1>5. SetupTypes'
  BY <1>1, <1>2, <1>3, <1>4, PathsApart DEF SetupTypes, Steps
<1>6. TodoFits' /\ TempFits' /\ LockIsLast' /\ NothingWritten' /\ InitBooked' /\ ArtifactsBooked'
  BY <1>1, <1>3 DEF TodoFits, TempFits, LockIsLast, NothingWritten, InitBooked, ArtifactsBooked,
                    Installing, Connecting, Unwritten
<1>7. TakenBack'
  <2>1. \A f \in S!InitFiles : disk[f].by = "run" => f \in installed
    BY <1>1, PathsApart DEF InitBooked, SetupTypes, Installing
  <2>2. \A a \in S!Artifacts : disk[a].by # "run"
    <3>1. S!ToSet(<<>>) = {}
      BY DEF S!ToSet
    <3> QED BY <1>1, <3>1 DEF NothingWritten, ArtifactsBooked, Created
  <2>3. \A p \in S!Paths : disk'[p].by = "run" => p \in unresolved \cup Todo'
    BY <1>3, <1>4, <2>1, <2>2, PathsApart
  <2> QED BY <1>1, <1>2, <1>4, <2>3 DEF TakenBack
<1>8. S!InitFilesWhole' /\ S!Accounted'
  BY <1>1, <1>4, PathsApart DEF S!InitFilesWhole, S!Accounted
<1> QED BY <1>5, <1>6, <1>7, <1>8

(* The installed files are taken back, one after the other. *)
LEMMA SetupRollsBack ==
  ASSUME SetupInv, S!RollBack
  PROVE SetupInv'
<1> USE DEF SetupInv
<1> DEFINE f == Head(setupTodo)
<1>1. /\ setupPc = "rollback" /\ setupPc' = "rollback" /\ setupTodo # <<>> /\ setupTodo' = Tail(setupTodo)
      /\ UNCHANGED <<installed, regenerated, created>>
      /\ \/ /\ disk' = [disk EXCEPT ![f] = S!Absent]
            /\ outcome' = [outcome EXCEPT !.removed = @ \cup {f}]
         \/ disk' = disk /\ outcome' = [outcome EXCEPT !.unresolved = @ \cup {f}]
  BY DEF S!RollBack, S!Unlinked
<1>2. /\ setupTodo' \in Seq(S!Managed) /\ Todo = {f} \cup Todo'
      /\ Todo \subseteq installed /\ installed \subseteq S!InitFiles
  BY <1>1, TailSet DEF SetupTypes, TodoFits, Todo
<1>3. f \in S!InitFiles /\ f \in S!Paths
  BY <1>2, PathsApart
<1> HIDE DEF f
<1>4. /\ outcome' = [status |-> outcome.status, removed |-> outcome'.removed, unresolved |-> outcome'.unresolved]
      /\ \/ outcome'.removed = outcome.removed \cup {f} /\ outcome'.unresolved = outcome.unresolved
         \/ /\ disk' = disk /\ outcome'.removed = outcome.removed
            /\ outcome'.unresolved = outcome.unresolved \cup {f}
  BY <1>1 DEF SetupTypes
<1>5. /\ disk' \in [S!Paths -> [is : Contents, by : {"run", "other"}]]
      /\ \A q \in S!Paths : disk'[q].is = "absent" => disk'[q].by = "other"
      /\ \A q \in S!Paths : disk'[q] = disk[q] \/ (disk'[q].is = "absent" /\ disk'[q].by = "other")
      /\ disk' # disk => disk'[f].by = "other"
  BY <1>1, <1>3, OneRemoved DEF SetupTypes
<1>6. SetupTypes'
  BY <1>1, <1>2, <1>3, <1>4, <1>5 DEF SetupTypes
<1>7. TodoFits' /\ TempFits' /\ LockIsLast' /\ NothingWritten' /\ InitBooked' /\ ArtifactsBooked'
  BY <1>1, <1>2 DEF TodoFits, TempFits, LockIsLast, NothingWritten, InitBooked, ArtifactsBooked,
                    Installing, Connecting, Unwritten
<1>8. TakenBack'
  <2>1. \A p \in S!Paths : disk[p].by = "run" => p \in outcome.unresolved \cup Todo
    BY <1>1 DEF TakenBack
  <2>2. \A p \in outcome.removed : disk[p].by = "other"
    BY <1>1 DEF TakenBack
  <2>3. CASE disk' = [disk EXCEPT ![f] = S!Absent] /\ outcome' = [outcome EXCEPT !.removed = @ \cup {f}]
    <3>1. outcome'.removed = outcome.removed \cup {f} /\ outcome'.unresolved = outcome.unresolved
      BY <2>3 DEF SetupTypes
    <3>2. disk'[f].by = "other" /\ \A q \in S!Paths \ {f} : disk'[q] = disk[q]
      BY <1>3, <2>3, OneRemoved
    <3>3. \A p \in S!Paths : disk'[p].by = "run" => p \in outcome'.unresolved \cup Todo'
      BY <1>2, <2>1, <3>1, <3>2
    <3>4. \A p \in outcome'.removed : disk'[p].by = "other"
      BY <2>2, <3>1, <3>2 DEF SetupTypes
    <3> QED BY <1>1, <1>4, <3>3, <3>4 DEF TakenBack
  <2>4. CASE disk' = disk /\ outcome' = [outcome EXCEPT !.unresolved = @ \cup {f}]
    <3>1. outcome'.removed = outcome.removed /\ outcome'.unresolved = outcome.unresolved \cup {f}
      BY <2>4 DEF SetupTypes
    <3>2. \A p \in S!Paths : disk'[p].by = "run" => p \in outcome'.unresolved \cup Todo'
      BY <1>2, <2>1, <2>4, <3>1
    <3> QED BY <1>1, <1>4, <2>2, <2>4, <3>1, <3>2 DEF TakenBack
  <2> QED BY <1>1, <2>3, <2>4
<1>9. S!InitFilesWhole' /\ S!Accounted'
  BY <1>1, <1>5, PathsApart DEF S!InitFilesWhole, S!Accounted
<1> QED BY <1>6, <1>7, <1>8, <1>9

(* Everything was taken back or reported, and that is what the run says. *)
LEMMA SetupRolledBack ==
  ASSUME SetupInv, S!RolledBack
  PROVE SetupInv'
<1>1. /\ setupPc = "rollback" /\ setupTodo = <<>> /\ disk' = disk
      /\ S!Ends(IF outcome.unresolved = {} THEN outcome.status ELSE "PARTIAL_FAILURE",
                outcome.removed, outcome.unresolved)
  BY DEF S!RolledBack
<1>2. Todo = {}
  BY <1>1, NoList DEF Todo
<1>3. /\ \A p \in S!Paths : disk[p].by = "run" => p \in outcome.unresolved
      /\ \A p \in outcome.removed : disk[p].by # "run"
      /\ outcome.removed \in SUBSET S!Paths
  BY <1>1, <1>2 DEF SetupInv, TakenBack, SetupTypes
<1> QED BY <1>1, <1>3, RunEnds

(* The client is given up: the init files are taken back. *)
LEMMA SetupBacksOut ==
  ASSUME SetupInv, NEW status \in {"CONFLICT", "PARTIAL_FAILURE"},
         NEW removed \in SUBSET S!Paths, NEW unresolved,
         S!BackOut(status, removed, unresolved), UNCHANGED <<disk, installed, regenerated, created>>,
         disk["temp"].by = "other",
         \A f \in S!InitFiles : disk[f].by = "run" => f \in installed \cup regenerated,
         \A a \in S!Artifacts : disk[a].by = "run" => a \in unresolved,
         \A p \in removed : disk[p].by = "other"
  PROVE SetupInv'
<1> USE DEF SetupInv
<1>1. /\ setupPc' = "rollback" /\ setupTodo' = S!InOrder("config", "lock", installed)
      /\ outcome' = [status |-> status, removed |-> removed, unresolved |-> unresolved \cup regenerated]
  BY DEF S!BackOut, S!Goes
<1>2. Todo' = installed /\ setupTodo' \in Seq(S!Managed)
  <2>1. Todo' = installed \cap {"config", "lock"}
    <3>1. S!ToSet(S!InOrder("config", "lock", installed)) = installed \cap {"config", "lock"}
      BY InOrderOf
    <3> QED BY <1>1, <3>1 DEF Todo
  <2>2. setupTodo' = <<>> \/ setupTodo' \in InitTodo
    BY <1>1, InOrderOf DEF InitTodo
  <2>3. setupTodo' \in Seq(S!Managed)
    BY <2>2, InitLists, NoList
  <2> QED BY <2>1, <2>3, PathsApart DEF SetupTypes
<1>3. SetupTypes'
  BY <1>1, <1>2 DEF SetupTypes, Steps
<1>4. TodoFits' /\ TempFits' /\ LockIsLast' /\ NothingWritten' /\ InitBooked' /\ ArtifactsBooked'
  BY <1>1, <1>2 DEF TodoFits, TempFits, LockIsLast, NothingWritten, InitBooked, ArtifactsBooked,
                    Installing, Connecting, Unwritten
<1>5. TakenBack'
  <2>1. \A p \in S!Paths : disk[p].by = "run" => p \in outcome'.unresolved \cup Todo'
    BY <1>1, <1>2, PathsApart
  <2> QED BY <1>1, <2>1 DEF TakenBack
<1>6. S!InitFilesWhole' /\ S!Accounted'
  BY <1>1 DEF S!InitFilesWhole, S!Accounted
<1> QED BY <1>3, <1>4, <1>5, <1>6

(* connectClient reads the client again before it creates an artifact. *)
LEMMA SetupConnects ==
  ASSUME SetupInv, S!Connect
  PROVE SetupInv'
<1> USE DEF SetupInv
<1>1. setupPc = "connect" /\ UNCHANGED <<disk, installed, regenerated, created>>
  BY DEF S!Connect
<1>2. /\ disk["temp"].by = "other" /\ created = <<>> /\ Created = {}
      /\ \A f \in S!InitFiles : disk[f].by = "run" => f \in installed \cup regenerated
      /\ \A a \in S!Artifacts : disk[a].by # "run"
  BY <1>1, NoList DEF TempFits, NothingWritten, InitBooked, ArtifactsBooked, Created
<1>3. ASSUME NEW status \in {"CONFLICT", "PARTIAL_FAILURE"}, S!BackOut(status, {}, {})
      PROVE SetupInv'
  BY <1>1, <1>2, <1>3, SetupBacksOut
<1>4. ASSUME setupPc' = "connected", UNCHANGED <<setupTodo, outcome>>
      PROVE SetupInv'
  <2>1. SetupTypes'
    BY <1>1, <1>4 DEF SetupTypes, Steps
  <2>2. /\ TodoFits' /\ TempFits' /\ LockIsLast' /\ NothingWritten' /\ InitBooked' /\ ArtifactsBooked'
        /\ TakenBack' /\ S!InitFilesWhole' /\ S!Accounted'
    BY <1>1, <1>2, <1>4 DEF TodoFits, TempFits, LockIsLast, NothingWritten, InitBooked, ArtifactsBooked,
         TakenBack, S!InitFilesWhole, S!Accounted, Installing, Connecting, Unwritten
  <2> QED BY <2>1, <2>2
<1>5. ASSUME S!Missing # <<>>, S!Goes("openArtifact", S!Missing), UNCHANGED outcome
      PROVE SetupInv'
  <2>1. setupPc' = "openArtifact" /\ setupTodo' = S!Missing
    BY <1>5 DEF S!Goes
  <2>2. setupTodo' \in ArtifactTodo
    BY <1>5, <2>1, InOrderOf DEF S!Missing, ArtifactTodo
  <2>3. SetupTypes'
    BY <1>1, <1>5, <2>1, <2>2, ArtifactLists DEF SetupTypes, Steps, Connecting
  <2>4. TodoFits' /\ TempFits' /\ LockIsLast' /\ NothingWritten'
    BY <1>1, <1>2, <1>5, <2>1, <2>2 DEF TodoFits, TempFits, LockIsLast, NothingWritten,
         Installing, Connecting, Unwritten
  <2>5. /\ InitBooked' /\ ArtifactsBooked' /\ TakenBack' /\ S!InitFilesWhole' /\ S!Accounted'
    BY <1>1, <1>2, <1>5, <2>1 DEF InitBooked, ArtifactsBooked,
         TakenBack, S!InitFilesWhole, S!Accounted, Installing, Connecting
  <2> QED BY <2>3, <2>4, <2>5
<1> QED BY <1>3, <1>4, <1>5 DEF S!Connect

(* An artifact is in the list of the created ones as soon as it is there. *)
LEMMA SetupOpensArtifact ==
  ASSUME SetupInv, S!OpenArtifact
  PROVE SetupInv'
<1> USE DEF SetupInv
<1> DEFINE a == Head(setupTodo)
<1>1. /\ setupPc = "openArtifact" /\ setupPc' = "writeArtifact" /\ created' = Append(created, a)
      /\ UNCHANGED <<setupTodo, installed, regenerated, outcome>>
      /\ disk' = [disk EXCEPT ![a] = S!File("part", "run")]
  BY DEF S!OpenArtifact, S!Put
<1>2. setupTodo \in ArtifactTodo /\ a \in S!Artifacts /\ a \in S!Paths
  BY <1>1, ArtifactLists, PathsApart DEF TodoFits, Connecting
<1>3. created' \in Seq(S!Artifacts) /\ Created' = Created \cup {a}
  BY <1>1, <1>2, AppendSet DEF SetupTypes, Created
<1>4. Head(setupTodo') = a /\ setupTodo' = setupTodo
  BY <1>1
<1> HIDE DEF a
<1>5. /\ disk' \in [S!Paths -> [is : Contents, by : {"run", "other"}]]
      /\ \A q \in S!Paths : disk'[q].is = "absent" => disk'[q].by = "other"
      /\ \A q \in S!Paths \ {a} : disk'[q] = disk[q]
  BY <1>1, <1>2, OneChanged DEF Contents
<1>6. SetupTypes'
  BY <1>1, <1>3, <1>5 DEF SetupTypes, Steps, Connecting
<1>7. TodoFits' /\ TempFits' /\ LockIsLast' /\ NothingWritten'
  BY <1>1, <1>2, <1>3, <1>4, <1>5, PathsApart DEF TodoFits, TempFits, LockIsLast, NothingWritten,
     Installing, Connecting, Unwritten
<1>8. InitBooked'
  BY <1>1, <1>2, <1>5, PathsApart DEF InitBooked, Installing, Connecting
<1>9. ArtifactsBooked' /\ TakenBack'
  BY <1>1, <1>2, <1>3, <1>5, PathsApart DEF ArtifactsBooked, TakenBack, Installing, Connecting
<1>10. S!InitFilesWhole' /\ S!Accounted'
  BY <1>1, <1>2, <1>5, PathsApart DEF S!InitFilesWhole, S!Accounted
<1> QED BY <1>6, <1>7, <1>8, <1>9, <1>10

(* It is written if it is still the one that was created. *)
LEMMA SetupWritesArtifact ==
  ASSUME SetupInv, S!WriteArtifact
  PROVE SetupInv'
<1> USE DEF SetupInv
<1> DEFINE a == Head(setupTodo)
<1>1. /\ setupPc = "writeArtifact"
      /\ UNCHANGED <<installed, regenerated, created, outcome>>
      /\ \/ disk' = disk
         \/ disk[a].by = "run" /\ disk' = [disk EXCEPT ![a] = S!File("ours", "run")]
      /\ IF Len(setupTodo) = 1 THEN setupPc' = "connected" /\ setupTodo' = <<>>
                               ELSE setupPc' = "openArtifact" /\ setupTodo' = Tail(setupTodo)
  BY DEF S!WriteArtifact, S!Put, S!Goes
<1>2. setupTodo \in ArtifactTodo /\ a \in S!Artifacts /\ a \in S!Paths
  BY <1>1, ArtifactLists, PathsApart DEF TodoFits, Connecting
<1>3. setupPc' = "openArtifact" => setupTodo' \in ArtifactTodo
  BY <1>1, <1>2, ArtifactLists
<1>4. setupTodo' \in Seq(S!Managed) /\ setupPc' \in {"connected", "openArtifact"}
  BY <1>1, <1>3, ArtifactLists, NoList
<1> HIDE DEF a
<1>5. /\ disk' \in [S!Paths -> [is : Contents, by : {"run", "other"}]]
      /\ \A q \in S!Paths : disk'[q].is = "absent" => disk'[q].by = "other"
      /\ \A q \in S!Paths \ {a} : disk'[q] = disk[q]
      /\ disk'[a].by = disk[a].by
  <2>1. CASE disk' = disk
    BY <2>1 DEF SetupTypes
  <2>2. CASE disk[a].by = "run" /\ disk' = [disk EXCEPT ![a] = S!File("ours", "run")]
    BY <1>2, <2>2, OneChanged DEF Contents
  <2> QED BY <1>1, <2>1, <2>2
<1>6. SetupTypes'
  BY <1>1, <1>4, <1>5 DEF SetupTypes, Steps, Connecting
<1>7. TodoFits' /\ TempFits' /\ LockIsLast' /\ NothingWritten'
  BY <1>1, <1>2, <1>3, <1>4, <1>5, PathsApart DEF TodoFits, TempFits, LockIsLast, NothingWritten,
     Installing, Connecting, Unwritten
<1>8. InitBooked'
  BY <1>1, <1>2, <1>4, <1>5, PathsApart DEF InitBooked, Installing, Connecting
<1>9. ArtifactsBooked' /\ TakenBack'
  BY <1>1, <1>2, <1>4, <1>5, PathsApart DEF ArtifactsBooked, TakenBack, Installing, Connecting, Created
<1>10. S!InitFilesWhole' /\ S!Accounted'
  BY <1>1, <1>2, <1>4, <1>5, PathsApart DEF S!InitFilesWhole, S!Accounted
<1> QED BY <1>6, <1>7, <1>8, <1>9, <1>10

(* An artifact cannot be opened or written: the created ones are removed. *)
LEMMA SetupConnectFails ==
  ASSUME SetupInv, S!ConnectFails
  PROVE SetupInv'
<1> USE DEF SetupInv
<1> DEFINE more == IF setupPc = "openArtifact" THEN <<Head(setupTodo)>> ELSE <<>>
<1>1. /\ setupPc \in Connecting /\ setupPc' = "unconnect"
      /\ setupTodo' = S!Reverse(created) \o more
      /\ UNCHANGED <<disk, installed, regenerated, created, outcome>>
  BY DEF S!ConnectFails, S!Goes, Connecting
<1>2. more \in Seq(S!Artifacts)
  BY <1>1, ArtifactLists, NoList DEF TodoFits
<1> HIDE DEF more
<1>3. setupTodo' \in Seq(S!Artifacts) /\ Todo' = Created \cup S!ToSet(more)
  BY <1>1, <1>2, ConcatSet, ReverseSet DEF SetupTypes, Created, Todo
<1>4. Todo' \subseteq S!Artifacts /\ setupTodo' \in Seq(S!Managed) /\ Created \subseteq Todo'
  BY <1>3, PathsApart DEF Todo, S!ToSet
<1>5. SetupTypes'
  BY <1>1, <1>4 DEF SetupTypes, Steps
<1>6. TodoFits' /\ TempFits' /\ LockIsLast' /\ NothingWritten'
  BY <1>1, <1>4 DEF TodoFits, TempFits, LockIsLast, NothingWritten, Installing, Connecting, Unwritten
<1>7. InitBooked' /\ ArtifactsBooked' /\ TakenBack'
  BY <1>1, <1>4 DEF InitBooked, ArtifactsBooked, TakenBack, Installing, Connecting, Created, NothingWritten
<1>8. S!InitFilesWhole' /\ S!Accounted'
  BY <1>1 DEF S!InitFilesWhole, S!Accounted
<1> QED BY <1>5, <1>6, <1>7, <1>8

(* A created artifact is removed whatever it holds now, or reported; one   *)
(* that appeared meanwhile is reported.                                    *)
LEMMA SetupUnconnects ==
  ASSUME SetupInv, S!Unconnect \/ S!Unreserved
  PROVE SetupInv'
<1> USE DEF SetupInv
<1> DEFINE a == Head(setupTodo)
<1>1. /\ setupPc = "unconnect" /\ setupPc' = "unconnect" /\ setupTodo # <<>> /\ setupTodo' = Tail(setupTodo)
      /\ UNCHANGED <<installed, regenerated, created>>
      /\ \/ /\ a \in Created /\ disk' = [disk EXCEPT ![a] = S!Absent]
            /\ outcome' = [outcome EXCEPT !.removed = @ \cup {a}]
         \/ disk' = disk /\ outcome' = [outcome EXCEPT !.unresolved = @ \cup {a}]
         \/ disk' = disk /\ outcome' = outcome /\ (~S!Exists(a) \/ a \notin Created)
  BY DEF S!Unconnect, S!Unreserved, S!Unlinked, Created
<1>2. setupTodo' \in Seq(S!Managed) /\ Todo = {a} \cup Todo' /\ Todo \subseteq S!Artifacts
  BY <1>1, TailSet DEF SetupTypes, TodoFits, Todo
<1>3. a \in S!Artifacts /\ a \in S!Paths
  BY <1>2, PathsApart
<1> HIDE DEF a
<1>4. \/ /\ disk' = [disk EXCEPT ![a] = S!Absent]
         /\ outcome'.removed = outcome.removed \cup {a} /\ outcome'.unresolved = outcome.unresolved
      \/ /\ disk' = disk /\ outcome'.removed = outcome.removed
         /\ outcome'.unresolved = outcome.unresolved \cup {a}
      \/ /\ disk' = disk /\ outcome'.removed = outcome.removed /\ outcome'.unresolved = outcome.unresolved
         /\ ~S!Exists(a) \/ a \notin Created
  BY <1>1 DEF SetupTypes
<1>4a. outcome' = [status |-> outcome'.status, removed |-> outcome'.removed, unresolved |-> outcome'.unresolved]
  BY <1>1 DEF SetupTypes
<1>5. /\ disk' \in [S!Paths -> [is : Contents, by : {"run", "other"}]]
      /\ \A q \in S!Paths : disk'[q].is = "absent" => disk'[q].by = "other"
      /\ \A q \in S!Paths \ {a} : disk'[q] = disk[q]
      /\ disk'[a] = disk[a] \/ disk'[a].by = "other"
  BY <1>1, <1>3, OneRemoved DEF SetupTypes
<1>6. SetupTypes'
  BY <1>1, <1>2, <1>3, <1>4, <1>4a, <1>5 DEF SetupTypes
<1>7. TodoFits' /\ TempFits' /\ LockIsLast' /\ NothingWritten'
  BY <1>1, <1>2, <1>3, <1>5, PathsApart DEF TodoFits, TempFits, LockIsLast, NothingWritten,
     Installing, Connecting, Unwritten
<1>8. InitBooked'
  BY <1>1, <1>3, <1>5, PathsApart DEF InitBooked, Installing, Connecting
<1>9. ArtifactsBooked'
  <2>1. \A b \in S!Artifacts : disk[b].by = "run" => b \in outcome.unresolved \/ (b \in Created /\ b \in Todo)
    BY <1>1 DEF ArtifactsBooked
  <2>2. Created' = Created
    BY <1>1 DEF Created
  <2>3. outcome.unresolved \subseteq outcome'.unresolved
    BY <1>4
  <2>4. disk'[a].by = "run" => a \in outcome'.unresolved
    <3>1. CASE disk' = [disk EXCEPT ![a] = S!Absent]
      BY <1>3, <3>1, OneRemoved
    <3>2. CASE outcome'.unresolved = outcome.unresolved \cup {a}
      BY <3>2
    <3>3. CASE disk' = disk /\ (~S!Exists(a) \/ a \notin Created)
      <4>1. disk[a].by = "run" => S!Exists(a)
        BY <1>3 DEF SetupTypes, S!Exists
      <4>2. disk[a].by = "run" => a \in outcome.unresolved
        BY <1>3, <2>1, <3>3, <4>1
      <4> QED BY <2>3, <3>3, <4>2
    <3> QED BY <1>4, <3>1, <3>2, <3>3
  <2>5. \A b \in S!Artifacts \ {a} :
          disk'[b].by = "run" => b \in outcome'.unresolved \/ (b \in Created' /\ b \in Todo')
    BY <1>2, <1>5, <2>1, <2>2, <2>3, PathsApart
  <2> QED BY <1>1, <2>4, <2>5 DEF ArtifactsBooked, Installing, Connecting
<1>10. TakenBack'
  <2>1. \A p \in outcome.removed : disk[p].by = "other"
    BY <1>1 DEF TakenBack
  <2>2. outcome'.removed = outcome.removed \/ (outcome'.removed = outcome.removed \cup {a} /\ disk'[a].by = "other")
    <3>1. disk' = [disk EXCEPT ![a] = S!Absent] => disk'[a].by = "other"
      BY <1>3, OneRemoved
    <3> QED BY <1>4, <3>1
  <2>3. \A p \in outcome'.removed : disk'[p].by = "other"
    BY <1>5, <2>1, <2>2 DEF SetupTypes
  <2> QED BY <1>1, <2>3 DEF TakenBack
<1>11. S!InitFilesWhole' /\ S!Accounted'
  BY <1>1, <1>3, <1>5, PathsApart DEF S!InitFilesWhole, S!Accounted
<1> QED BY <1>6, <1>7, <1>8, <1>9, <1>10, <1>11

(* All created artifacts are gone or reported; the init files follow. *)
LEMMA SetupUnconnected ==
  ASSUME SetupInv, S!Unconnected
  PROVE SetupInv'
<1>1. /\ setupPc = "unconnect" /\ setupTodo = <<>> /\ UNCHANGED <<disk, installed, regenerated, created>>
      /\ S!BackOut("PARTIAL_FAILURE", outcome.removed, outcome.unresolved)
  BY DEF S!Unconnected
<1>2. Todo = {}
  BY <1>1, NoList DEF Todo
<1>3. /\ disk["temp"].by = "other" /\ outcome.removed \in SUBSET S!Paths
      /\ \A f \in S!InitFiles : disk[f].by = "run" => f \in installed \cup regenerated
      /\ \A a \in S!Artifacts : disk[a].by = "run" => a \in outcome.unresolved
      /\ \A p \in outcome.removed : disk[p].by = "other"
  BY <1>1, <1>2 DEF SetupInv, SetupTypes, TempFits, InitBooked, ArtifactsBooked, TakenBack
<1> QED BY <1>1, <1>3, SetupBacksOut

(* Everything is in its place. *)
LEMMA SetupConnected ==
  ASSUME SetupInv, S!Connected
  PROVE SetupInv'
<1>1. PICK status \in {"UNCHANGED", "CREATED"} : S!Ends(status, {}, {}) /\ disk' = disk
  BY DEF S!Connected
<1> QED BY <1>1, RunEnds

(* The artifacts are removed, and written back when one removal fails. *)
LEMMA SetupDisconnects ==
  ASSUME SetupInv, S!Disconnect
  PROVE SetupInv'
<1>1. setupPc = "idle" /\ disk' = disk
  BY DEF S!Disconnect
<1>2. \A p \in S!Paths : disk[p].by = "other"
  BY <1>1 DEF SetupInv, NothingWritten, Unwritten
<1>3. ASSUME NEW status, S!Ends(status, {}, {}) PROVE SetupInv'
  BY <1>1, <1>2, <1>3, RunEnds
<1> DEFINE present == {a \in S!Artifacts : S!Exists(a)}
           t == S!InOrder("client", "skill", present)
<1>4. ASSUME ~S!ConnectionConflict, t # <<>>, S!Goes("unlink", t),
             UNCHANGED <<installed, regenerated, created, outcome>>
      PROVE SetupInv'
  <2>1. t \in ArtifactTodo /\ S!ToSet(t) \subseteq present
    <3> HIDE DEF present
    <3>1. t # <<>>
      BY <1>4
    <3>2. S!ToSet(S!InOrder("client", "skill", present)) = present \cap {"client", "skill"}
      BY InOrderOf
    <3>3. t # <<>> => t \in {<<"client">>, <<"skill">>, <<"client", "skill">>}
      BY InOrderOf
    <3> QED BY <3>1, <3>2, <3>3 DEF ArtifactTodo
  <2>2. \A a \in present : disk[a].is = "ours"
    BY <1>4 DEF S!ConnectionConflict, S!Exists
  <2> HIDE DEF t, present
  <2>3. setupPc' = "unlink" /\ setupTodo' = t
    BY <1>4 DEF S!Goes
  <2>4. SetupTypes'
    BY <1>1, <1>4, <2>1, <2>3, ArtifactLists DEF SetupInv, SetupTypes, Steps, Unwritten
  <2>5. TodoFits' /\ TempFits' /\ LockIsLast'
    BY <1>1, <1>2, <2>1, <2>3, PathsApart DEF TodoFits, TempFits, LockIsLast, Installing, Connecting
  <2>6. NothingWritten'
    BY <1>1, <1>2, <2>1, <2>2, <2>3 DEF NothingWritten, Unwritten, Installing, Connecting, Todo
  <2>7. InitBooked' /\ ArtifactsBooked' /\ TakenBack'
    BY <2>3 DEF InitBooked, ArtifactsBooked, TakenBack, Installing, Connecting
  <2>8. S!InitFilesWhole' /\ S!Accounted'
    BY <1>1, <2>3 DEF SetupInv, S!InitFilesWhole, S!Accounted
  <2> QED BY <2>4, <2>5, <2>6, <2>7, <2>8 DEF SetupInv
<1> QED BY <1>3, <1>4 DEF S!Disconnect

(* One artifact with the planned bytes is removed; a run that was to       *)
(* disconnect wrote nothing.                                               *)
LEMMA SetupUnlinks ==
  ASSUME SetupInv, S!Unlink
  PROVE SetupInv'
<1> DEFINE a == Head(setupTodo)
<1>1. /\ setupPc = "unlink" /\ disk' = [disk EXCEPT ![a] = S!Absent]
      /\ \/ S!Ends("REMOVED", outcome.removed \cup {a}, {})
         \/ /\ Len(setupTodo) # 1 /\ setupPc' = "unlink" /\ setupTodo' = Tail(setupTodo)
            /\ outcome' = [outcome EXCEPT !.removed = @ \cup {a}]
            /\ UNCHANGED <<installed, regenerated, created>>
  BY DEF S!Unlink, S!Goes, S!Unlinked
<1>2. /\ setupTodo \in ArtifactTodo /\ a \in S!Artifacts /\ a \in S!Paths
      /\ Len(setupTodo) # 1 => Tail(setupTodo) \in ArtifactTodo
      /\ S!ToSet(Tail(setupTodo)) \subseteq Todo
  BY <1>1, ArtifactLists, PathsApart DEF SetupInv, TodoFits, Todo
<1>2a. setupTodo = <<"client", "skill">> \/ Len(setupTodo) = 1
  BY <1>2 DEF ArtifactTodo
<1>2b. Len(setupTodo) # 1 => a = "client" /\ Tail(setupTodo) = <<"skill">> /\ S!ToSet(Tail(setupTodo)) = {"skill"}
  <2>1. S!ToSet(<<"skill">>) = {"skill"}
    BY DEF S!ToSet
  <2>2. Head(<<"client", "skill">>) = "client" /\ Tail(<<"client", "skill">>) = <<"skill">>
    OBVIOUS
  <2> QED BY <1>2a, <2>1, <2>2
<1> HIDE DEF a
<1>3. /\ disk' \in [S!Paths -> [is : Contents, by : {"run", "other"}]]
      /\ \A q \in S!Paths : disk'[q].is = "absent" => disk'[q].by = "other"
      /\ \A q \in S!Paths \ {a} : disk'[q] = disk[q]
      /\ disk'[a].is = "absent" /\ disk'[a].by = "other"
  BY <1>1, <1>2, OneRemoved DEF SetupInv
<1>4. S!InitFilesWhole'
  BY <1>2, <1>3, PathsApart DEF SetupInv, S!InitFilesWhole
<1>5. outcome.removed \cup {a} \in SUBSET S!Paths
  BY <1>2 DEF SetupInv, SetupTypes
<1>6. CASE S!Ends("REMOVED", outcome.removed \cup {a}, {})
  BY <1>3, <1>4, <1>5, <1>6, RunEndsSo
<1>7. CASE /\ Len(setupTodo) # 1 /\ setupPc' = "unlink" /\ setupTodo' = Tail(setupTodo)
           /\ outcome' = [outcome EXCEPT !.removed = @ \cup {a}]
           /\ UNCHANGED <<installed, regenerated, created>>
  <2>1. /\ outcome'.removed = outcome.removed \cup {a}
        /\ outcome' = [status |-> outcome'.status, removed |-> outcome'.removed, unresolved |-> outcome'.unresolved]
    BY <1>7 DEF SetupInv, SetupTypes
  <2>2. setupTodo' \in Seq(S!Managed)
    BY <1>2, <1>7, ArtifactLists
  <2>3. SetupTypes'
    BY <1>3, <1>5, <1>7, <2>1, <2>2 DEF SetupInv, SetupTypes, Steps, Unwritten
  <2>4. TodoFits' /\ TempFits' /\ LockIsLast'
    BY <1>1, <1>2, <1>3, <1>7, PathsApart DEF SetupInv, TodoFits, TempFits, LockIsLast, Installing, Connecting
  <2>5. NothingWritten'
    <3>1. \A p \in S!Paths : disk'[p].by = "other"
      BY <1>1, <1>3 DEF SetupInv, NothingWritten, Unwritten
    <3>2. disk["skill"].is = "ours" /\ disk'["skill"] = disk["skill"]
      BY <1>1, <1>2, <1>2b, <1>3, <1>7, PathsApart DEF SetupInv, NothingWritten
    <3>3. Todo' = {"skill"}
      BY <1>2b, <1>7 DEF Todo
    <3> QED BY <1>7, <3>1, <3>2, <3>3 DEF NothingWritten, Unwritten, Installing, Connecting
  <2>6. InitBooked' /\ ArtifactsBooked' /\ TakenBack' /\ S!Accounted'
    BY <1>7 DEF InitBooked, ArtifactsBooked, TakenBack, S!Accounted, Installing, Connecting
  <2> QED BY <1>4, <2>3, <2>4, <2>5, <2>6 DEF SetupInv
<1> QED BY <1>1, <1>6, <1>7

(* What is written back is not of this run. *)
LEMMA SetupUnlinkFails ==
  ASSUME SetupInv, S!UnlinkFails
  PROVE SetupInv'
<1>1. S!Ends("failed", outcome.removed, {})
  BY DEF S!UnlinkFails
<1>2. outcome.removed \in SUBSET S!Paths
  BY DEF SetupInv, SetupTypes
<1>3. CASE disk' = disk
  BY <1>1, <1>2, <1>3, RunEnds
<1>4. CASE disk' = [a \in S!Paths |-> IF a \in outcome.removed /\ ~S!Exists(a) THEN S!File("ours", "other") ELSE disk[a]]
  <2>1. /\ S!File("ours", "other") \in [is : Contents, by : {"run", "other"}]
        /\ S!File("ours", "other").is = "ours"
    BY Files DEF Contents
  <2>2. \A p \in S!Paths : disk'[p] = disk[p] \/ disk'[p] = S!File("ours", "other")
    BY <1>4
  <2>3. /\ disk' \in [S!Paths -> [is : Contents, by : {"run", "other"}]]
        /\ \A q \in S!Paths : disk'[q].is = "absent" => disk'[q].by = "other"
    BY <1>4, <2>1, <2>2 DEF SetupInv, SetupTypes
  <2>4. S!InitFilesWhole'
    BY <2>1, <2>2, PathsApart DEF SetupInv, S!InitFilesWhole
  <2> QED BY <1>1, <1>2, <2>3, <2>4, RunEndsSo
<1> QED BY <1>3, <1>4 DEF S!UnlinkFails

(* Another program edits a file. *)
LEMMA SetupEdited ==
  ASSUME SetupInv, S!Edit
  PROVE SetupInv'
<1> USE DEF SetupInv
<1>1. UNCHANGED <<setupPc, setupTodo, installed, regenerated, created, outcome>>
  BY DEF S!Edit, S!run
<1>2. PICK p \in S!Managed \cup {"temp"}, content \in {"absent", "ours", "other", "unsafe"} :
        /\ p = "temp" => ~S!Exists(p)
        /\ p \notin regenerated \/ setupPc \notin Installing
        /\ setupPc = "unlink" => p \notin S!Artifacts
        /\ disk' = [disk EXCEPT ![p] = S!File(content, "other")]
  BY DEF S!Edit, Installing
<1>3. /\ disk' \in [S!Paths -> [is : Contents, by : {"run", "other"}]]
      /\ \A q \in S!Paths : disk'[q].is = "absent" => disk'[q].by = "other"
      /\ \A q \in S!Paths : disk'[q] = disk[q] \/ (q = p /\ disk'[q].by = "other" /\ disk'[q].is # "part")
      /\ \A q \in S!Paths : disk'[q].by = "run" => disk[q].by = "run" /\ S!Exists(q)
  <2>1. p \in S!Paths /\ content \in Contents /\ content # "part"
    BY PathsApart DEF Contents
  <2>2. /\ disk' \in [S!Paths -> [is : Contents, by : {"run", "other"}]]
        /\ \A q \in S!Paths : disk'[q].is = "absent" => disk'[q].by = "other"
        /\ disk'[p].is = content /\ disk'[p].by = "other"
        /\ \A q \in S!Paths \ {p} : disk'[q] = disk[q]
    BY <1>2, <2>1, OneChanged
  <2> QED BY <2>1, <2>2 DEF SetupTypes, S!Exists
<1>4. SetupTypes'
  BY <1>1, <1>3 DEF SetupTypes
<1>5. TempFits'
  <2>1. setupPc \in {"write", "install", "removeTemp"} => p # "temp"
    BY <1>2, PathsApart DEF TempFits, SetupTypes, S!Exists
  <2> QED BY <1>1, <1>3, <2>1, PathsApart DEF TempFits
<1>6. TodoFits' /\ LockIsLast'
  BY <1>1, <1>2, <1>3, PathsApart DEF TodoFits, LockIsLast, Created, Todo
<1>7. NothingWritten'
  <2>1. setupPc = "unlink" => \A a \in Todo : disk'[a] = disk[a]
    BY <1>2, <1>3, ArtifactLists, PathsApart DEF TodoFits, Todo
  <2>2. Todo' = Todo
    BY <1>1 DEF Todo
  <2> QED BY <1>1, <1>3, <2>1, <2>2 DEF NothingWritten, Unwritten
<1>8. InitBooked' /\ ArtifactsBooked'
  BY <1>1, <1>3, PathsApart DEF InitBooked, ArtifactsBooked, Created, Todo
<1>9. TakenBack'
  BY <1>1, <1>3 DEF TakenBack, Todo, SetupTypes
<1>10. S!InitFilesWhole'
  BY <1>3, PathsApart DEF S!InitFilesWhole
<1>11. S!Accounted'
  BY <1>1, <1>3 DEF S!Accounted, SetupTypes
<1> QED BY <1>4, <1>5, <1>6, <1>7, <1>8, <1>9, <1>10, <1>11

(* The next run knows nothing of the files of this one. *)
LEMMA SetupAgain ==
  ASSUME SetupInv, S!EndOfRun
  PROVE SetupInv'
<1>1. /\ setupPc' = "idle" /\ setupTodo' = <<>> /\ installed' = {} /\ regenerated' = {} /\ created' = <<>>
      /\ outcome' = S!NoOutcome
      /\ disk' = [p \in S!Paths |-> IF p = "temp" THEN S!Absent ELSE S!File(disk[p].is, "other")]
  BY DEF S!EndOfRun
<1>2. \A p \in S!Paths : S!File(disk[p].is, "other") \in [is : Contents, by : {"run", "other"}]
                         /\ S!File(disk[p].is, "other").by = "other" /\ S!File(disk[p].is, "other").is = disk[p].is
  BY DEF SetupInv, SetupTypes, S!File
<1>3. S!Absent \in [is : Contents, by : {"run", "other"}] /\ S!Absent.by = "other"
  BY DEF S!Absent, Contents
<1>4. /\ disk' \in [S!Paths -> [is : Contents, by : {"run", "other"}]]
      /\ \A p \in S!Paths : disk'[p].by = "other"
      /\ \A p \in S!Managed : disk'[p].is = disk[p].is
  BY <1>1, <1>2, <1>3, PathsApart
<1>5. SetupTypes'
  BY <1>1, <1>4, NoList DEF SetupTypes, Steps, Unwritten, S!NoOutcome
<1>6. TodoFits' /\ TempFits' /\ LockIsLast' /\ NothingWritten' /\ InitBooked' /\ ArtifactsBooked' /\ TakenBack'
  BY <1>1, <1>4, PathsApart DEF TodoFits, TempFits, LockIsLast, NothingWritten, InitBooked, ArtifactsBooked,
     TakenBack, Installing, Connecting, Unwritten, S!NoOutcome
<1>7. S!InitFilesWhole' /\ S!Accounted'
  BY <1>1, <1>4, PathsApart DEF SetupInv, S!InitFilesWhole, S!Accounted
<1> QED BY <1>5, <1>6, <1>7 DEF SetupInv

(* Every step of a setup, of a disconnection, of another program or of the *)
(* next run keeps the invariant.                                           *)
LEMMA SetupStep == SetupInv /\ [S!Next]_setupVars => SetupInv'
<1> SUFFICES ASSUME SetupInv, [S!Next]_setupVars PROVE SetupInv'
  OBVIOUS
<1>1. CASE UNCHANGED setupVars
  BY <1>1 DEF setupVars, SetupInv, SetupTypes, TodoFits, TempFits, LockIsLast, NothingWritten, InitBooked,
     ArtifactsBooked, TakenBack, S!InitFilesWhole, S!Accounted, S!Exists, Created, Todo
<1>2. CASE S!Next
  BY <1>2, SetupPreviews, SetupAppliesInit, SetupOpensTemp, SetupLinks, SetupGoesOn, SetupInitFails,
     SetupRollsBack, SetupRolledBack, SetupConnects, SetupOpensArtifact, SetupWritesArtifact,
     SetupConnectFails, SetupUnconnects, SetupUnconnected, SetupConnected, SetupDisconnects,
     SetupUnlinks, SetupUnlinkFails, SetupEdited, SetupAgain
     DEF S!Next
<1> QED BY <1>1, <1>2

(* The invariant holds in every repository that a run may find. *)
LEMMA SetupStart == S!Init => SetupInv
<1> SUFFICES ASSUME S!Init PROVE SetupInv
  OBVIOUS
<1>1. PICK config \in {"absent", "ours", "other", "unsafe"}, lock \in {"absent", "ours", "stale", "other"},
           client \in {"absent", "ours", "other"}, skill \in {"absent", "ours", "other"} :
        disk = [p \in S!Paths |->
                  CASE p = "config" -> S!File(config, "other")
                    [] p = "lock" -> S!File(lock, "other")
                    [] p = "client" -> S!File(client, "other")
                    [] p = "skill" -> S!File(skill, "other")
                    [] p = "temp" -> S!Absent]
  BY DEF S!Init
<1>2. \A p \in S!Paths : \E is \in Contents \ {"part"} : disk[p] = S!File(is, "other")
  <2>1. /\ disk["config"] = S!File(config, "other") /\ disk["lock"] = S!File(lock, "other")
        /\ disk["client"] = S!File(client, "other") /\ disk["skill"] = S!File(skill, "other")
        /\ disk["temp"] = S!File("absent", "other")
    BY <1>1, PathsApart DEF S!Absent, S!File
  <2> QED BY <2>1, PathsApart DEF Contents
<1>3. \A p \in S!Paths : disk[p].by = "other" /\ disk[p].is # "part" /\ disk[p] \in [is : Contents, by : {"run", "other"}]
  BY <1>2, Files
<1>4. disk \in [S!Paths -> [is : Contents, by : {"run", "other"}]]
  BY <1>1, <1>3
<1>5. SetupTypes
  BY <1>3, <1>4, NoList DEF S!Init, SetupTypes, Steps, Unwritten, S!NoOutcome
<1>6. TodoFits /\ TempFits /\ LockIsLast /\ NothingWritten /\ InitBooked /\ ArtifactsBooked /\ TakenBack
  BY <1>3, PathsApart DEF S!Init, TodoFits, TempFits, LockIsLast, NothingWritten, InitBooked, ArtifactsBooked,
     TakenBack, Installing, Connecting, Unwritten, S!NoOutcome
<1>7. S!InitFilesWhole /\ S!Accounted
  BY <1>3, PathsApart DEF S!Init, S!InitFilesWhole, S!Accounted
<1> QED BY <1>5, <1>6, <1>7 DEF SetupInv

-----------------------------------------------------------------------------
(* The edits of other programs are counted. *)
EditsCounted == setupEdits \in Nat

FilesInv ==
  /\ PublisherInv /\ ImporterInv /\ BuiltInv
  /\ SnapshotInv /\ MeasuredInv
  /\ SetupInv /\ EditsCounted

(* Only another program's step counts an edit. *)
LEMMA EditsStep == EditsCounted /\ [S!Next]_setupVars => EditsCounted'
<1> SUFFICES ASSUME EditsCounted, S!Next PROVE EditsCounted'
  BY DEF EditsCounted, setupVars
<1>1. CASE S!Edit
  BY <1>1 DEF EditsCounted, S!Edit
<1>2. CASE ~S!Edit
  <2>1. setupEdits' = setupEdits
    BY <1>2 DEF S!Next, S!Same, S!Preview, S!ApplyInit, S!OpenTemp, S!WriteTemp, S!LinkTemp, S!RemoveTemp,
       S!RenameTemp, S!InitFails, S!RollBack, S!RolledBack, S!Connect, S!OpenArtifact, S!WriteArtifact,
       S!ConnectFails, S!Unconnect, S!Unreserved, S!Unconnected, S!Connected, S!Disconnect, S!Unlink,
       S!UnlinkFails, S!EndOfRun
  <2> QED BY <2>1 DEF EditsCounted
<1> QED BY <1>1, <1>2


(* A step of one component is none of the others. *)
LEMMA FilesStep == FilesInv /\ [FilesNext]_filesVars => FilesInv'
<1> SUFFICES ASSUME FilesInv, [FilesNext]_filesVars PROVE FilesInv'
  OBVIOUS
<1>1. /\ [G!Next]_publisherVars /\ [W!Next]_importVars
      /\ [N!Next]_snapshotVars /\ [S!Next]_setupVars
  BY DEF FilesNext, filesVars
<1> QED BY <1>1, PublisherStep, ImporterStep, BuiltStep, SnapshotStep, MeasuredStep, SetupStep, EditsStep DEF FilesInv

(* The invariant holds before a component runs. *)
LEMMA FilesStart == FilesInit => FilesInv
<1> SUFFICES ASSUME FilesInit PROVE FilesInv
  OBVIOUS
<1>1. EditsCounted
  BY DEF FilesInit, NothingDone, S!Init, EditsCounted
<1> QED BY <1>1, PublisherStart, ImporterStart, BuiltStart, SnapshotStart, MeasuredStart, SetupStart
     DEF FilesInit, NothingDone, FilesInv

(* The invariant of all four components holds in every state. *)
THEOREM FilesInvariant == FilesSpec => []FilesInv
BY FilesStart, FilesStep, PTL DEF FilesSpec

(* A manifest in an output directory marks a complete result: the final    *)
(* rename of publishGitRegression and of importWitness comes after the     *)
(* request and the summary of the same run, which are whole, whatever      *)
(* fails or is killed before it, for any number of publishers and          *)
(* importers that race for one directory.                                  *)
THEOREM CompletionMarked == FilesSpec => []ManifestMarksCompletion
<1>1. FilesInv => ManifestMarksCompletion
  BY PublisherHolds, ImporterHolds DEF FilesInv, ManifestMarksCompletion
<1> QED BY <1>1, FilesInvariant, PTL

(* A publisher that failed gives the output directory back: it is removed, *)
(* or a file is left in it. An importer that failed is not its owner any   *)
(* more: when a removal fails too, it says so by another end.              *)
THEOREM DirectoryGivenBack == FilesSpec => []FailureGivesBack
<1>1. FilesInv => FailureGivesBack
  BY PublisherHolds, ImporterHolds DEF FilesInv, FailureGivesBack
<1> QED BY <1>1, FilesInvariant, PTL

(* What is executed is within the budgets of the request, whatever was     *)
(* edited between the walk of the source and its copy: the walk of the     *)
(* snapshot counts each of its files and adds up all their sizes. And the  *)
(* campaign of every witness is within the budgets that                    *)
(* witnessVerificationRequest gives it, whatever its overlays hold.        *)
THEOREM WithinBudgets == FilesSpec => []ExecutedWithinBudget
<1>1. FilesInv => ExecutedWithinBudget
  BY BuiltWithinBudgets DEF FilesInv, MeasuredInv, ExecutedWithinBudget
<1> QED BY <1>1, FilesInvariant, PTL

(* The executions of a campaign copy what its digest says: when the        *)
(* snapshot is accepted no worker writes into it any more and the digest   *)
(* is the one of its bytes, for every tree, order, number of copy workers  *)
(* and sequence of edits of the source.                                    *)
THEOREM DigestExecuted == FilesSpec => []DigestIsExecuted
<1>1. FilesInv => DigestIsExecuted
  BY DEF FilesInv, SnapshotInv, DigestIsExecuted
<1> QED BY <1>1, FilesInvariant, PTL

(* An init file is whole or not there at every moment, also when another   *)
(* program edits or the run is killed: atomicInitWrite links or renames a  *)
(* file that was written before.                                           *)
THEOREM InitWhole == FilesSpec => []InitFilesWhole
<1>1. FilesInv => InitFilesWhole
  BY DEF FilesInv, SetupInv, InitFilesWhole
<1> QED BY <1>1, FilesInvariant, PTL

(* A setup that did not succeed reports every file of its own that is      *)
(* still there, never reports as removed a file that is, and claims a      *)
(* clean refusal only when nothing of it is left (setupRepository,         *)
(* rollbackCreated).                                                       *)
THEOREM SetupAccounts == FilesSpec => []Accounted
<1>1. FilesInv => Accounted
  BY DEF FilesInv, SetupInv, Accounted
<1> QED BY <1>1, FilesInvariant, PTL

(* What a run may change: its own files, and what it may replace or remove. *)
ItsOwn(p) ==
  \/ disk[p].by = "run" \/ ~S!Exists(p)
  \/ p \in regenerated /\ disk[p].is = "stale"
  \/ p \in installed /\ disk[p].is = "ours"
  \/ p \in Created
  \/ setupPc = "unlink" /\ disk[p].is = "ours"

(* Each step that changes a path changes only what ItsOwn allows. *)
LEMMA SetupTouches ==
  ASSUME SetupInv, EditsCounted, S!Next, S!OfThisRun, NEW p \in S!Paths, S!Touched(p)
  PROVE ItsOwn(p)
<1> USE DEF SetupInv
<1>1. disk' # disk /\ disk'[p] # disk[p]
  BY DEF S!Touched
<1>2. CASE S!OpenTemp \/ S!WriteTemp \/ S!RemoveTemp \/ S!InitFails
  <2>1. ASSUME disk' = [disk EXCEPT !["temp"] = disk'["temp"]] PROVE p = "temp"
    BY <1>1, <2>1 DEF SetupTypes
  <2>2. p = "temp"
    <3>1. \E held : disk' = [disk EXCEPT !["temp"] = held]
      BY <1>1, <1>2 DEF S!OpenTemp, S!WriteTemp, S!RemoveTemp, S!InitFails, S!Put, S!Unlinked
    <3> QED BY <1>1, <3>1 DEF SetupTypes
  <2>3. S!Exists("temp") => disk["temp"].by = "run"
    BY <1>1, <1>2 DEF S!OpenTemp, S!WriteTemp, S!RemoveTemp, S!InitFails, TempFits
  <2> QED BY <2>2, <2>3 DEF ItsOwn
<1>3. CASE S!LinkTemp
  <2>1. ~S!Exists(Head(setupTodo)) /\ disk' = [disk EXCEPT ![Head(setupTodo)] = S!File(disk["temp"].is, "run")]
    BY <1>3 DEF S!LinkTemp, S!Put
  <2> QED BY <1>1, <2>1 DEF ItsOwn, SetupTypes
<1>4. CASE S!RenameTemp
  <2>1. /\ setupPc = "install" /\ Head(setupTodo) \in regenerated
        /\ disk' = [disk EXCEPT ![Head(setupTodo)] = disk["temp"], !["temp"] = S!Absent]
    BY <1>4 DEF S!RenameTemp
  <2>2. p = Head(setupTodo) \/ p = "temp"
    BY <1>1, <2>1 DEF SetupTypes
  <2>3. disk["temp"].by = "run"
    BY <2>1 DEF TempFits
  <2>4. Head(setupTodo) = "lock" /\ disk["lock"].is = "stale"
    BY <2>1 DEF SetupTypes, LockIsLast, Installing
  <2> QED BY <2>1, <2>2, <2>3, <2>4 DEF ItsOwn
<1>5. CASE S!RollBack
  <2> DEFINE f == Head(setupTodo)
  <2>1. /\ setupPc = "rollback" /\ setupTodo # <<>> /\ disk[f].is \in {"ours", "absent"}
        /\ disk' = [disk EXCEPT ![f] = S!Absent]
    BY <1>1, <1>5 DEF S!RollBack, S!Unlinked
  <2>2. f \in installed
    BY <2>1, TailSet DEF SetupTypes, TodoFits, Todo
  <2>3. p = f
    BY <1>1, <2>1 DEF SetupTypes
  <2> QED BY <2>1, <2>2, <2>3 DEF ItsOwn, S!Exists
<1>6. CASE S!OpenArtifact
  <2>1. ~S!Exists(Head(setupTodo)) /\ disk' = [disk EXCEPT ![Head(setupTodo)] = S!File("part", "run")]
    BY <1>6 DEF S!OpenArtifact, S!Put
  <2> QED BY <1>1, <2>1 DEF ItsOwn, SetupTypes
<1>7. CASE S!WriteArtifact
  <2>1. disk[Head(setupTodo)].by = "run" /\ disk' = [disk EXCEPT ![Head(setupTodo)] = S!File("ours", "run")]
    BY <1>1, <1>7 DEF S!WriteArtifact, S!Put
  <2> QED BY <1>1, <2>1 DEF ItsOwn, SetupTypes
<1>8. CASE S!Unconnect
  <2>1. Head(setupTodo) \in Created /\ disk' = [disk EXCEPT ![Head(setupTodo)] = S!Absent]
    BY <1>1, <1>8 DEF S!Unconnect, S!Unlinked, Created
  <2> QED BY <1>1, <2>1 DEF ItsOwn, SetupTypes
<1>9. CASE S!Unlink
  <2>1. setupPc = "unlink" /\ disk' = [disk EXCEPT ![Head(setupTodo)] = S!Absent]
    BY <1>9 DEF S!Unlink, S!Unlinked
  <2>2. Head(setupTodo) \in Todo
    BY <2>1, ArtifactLists DEF TodoFits, Todo
  <2>3. p = Head(setupTodo)
    BY <1>1, <2>1 DEF SetupTypes
  <2> QED BY <2>1, <2>2, <2>3 DEF ItsOwn, NothingWritten
<1>10. CASE S!UnlinkFails
  <2>1. disk' = [a \in S!Paths |-> IF a \in outcome.removed /\ ~S!Exists(a) THEN S!File("ours", "other") ELSE disk[a]]
    BY <1>1, <1>10 DEF S!UnlinkFails
  <2> QED BY <1>1, <2>1 DEF ItsOwn
<1>11. CASE S!Edit \/ S!EndOfRun
  <2>1. FALSE
    <3>1. CASE S!Edit
      <4>1. setupEdits' = setupEdits + 1 /\ setupEdits' = setupEdits
        BY <3>1 DEF S!Edit, S!OfThisRun
      <4> QED BY <4>1 DEF EditsCounted
    <3>2. CASE S!EndOfRun
      BY <3>2 DEF S!EndOfRun, S!OfThisRun
    <3> QED BY <1>11, <3>1, <3>2
  <2> QED BY <2>1
<1>12. CASE \/ S!Preview \/ S!ApplyInit \/ S!RolledBack \/ S!Connect \/ S!ConnectFails
            \/ S!Unreserved \/ S!Unconnected \/ S!Connected \/ S!Disconnect
  BY <1>1, <1>12 DEF S!Preview, S!ApplyInit, S!RolledBack, S!Connect, S!ConnectFails,
                     S!Unreserved, S!Unconnected, S!Connected, S!Disconnect
<1> QED BY <1>2, <1>3, <1>4, <1>5, <1>6, <1>7, <1>8, <1>9, <1>10, <1>11, <1>12 DEF S!Next

(* A run changes a path it did not write only by creating it where there   *)
(* was none, by replacing an old lock, by taking back what it recorded,    *)
(* or, to disconnect, by removing an artifact with the planned bytes.      *)
THEOREM ChangesItsOwn == FilesSpec => OnlyItsOwn
<1>1. FilesInv /\ [FilesNext]_filesVars =>
        [S!OfThisRun => \A p \in S!Paths :
           S!Touched(p) => \/ disk[p].by = "run" \/ ~S!Exists(p)
                           \/ p \in regenerated /\ disk[p].is = "stale"
                           \/ p \in installed /\ disk[p].is = "ours"
                           \/ p \in S!ToSet(created)
                           \/ setupPc = "unlink" /\ disk[p].is = "ours"]_(S!vars)
  <2>1. SUFFICES ASSUME FilesInv, [FilesNext]_filesVars, ~UNCHANGED S!vars, S!OfThisRun,
                        NEW p \in S!Paths, S!Touched(p)
                 PROVE ItsOwn(p)
    BY DEF ItsOwn, Created
  <2>2. S!Next
    BY <2>1 DEF FilesNext, filesVars, setupVars, S!vars, S!run
  <2> QED BY <2>1, <2>2, SetupTouches DEF FilesInv
<1> QED BY <1>1, FilesInvariant, PTL DEF FilesSpec, OnlyItsOwn, S!OnlyItsOwn
=============================================================================
