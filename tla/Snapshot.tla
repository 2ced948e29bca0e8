------------------------------ MODULE Snapshot ------------------------------
(***************************************************************************)
(* How a campaign takes its snapshot (verifyPreparedCampaign, walkFiles,   *)
(* copyRepository, copyPlannedTree and snapshotTreeDigest of               *)
(* src/engine/index.ts) while other programs edit the source repository,   *)
(* which is one directory of files and links here.                         *)
(*                                                                         *)
(* Up to version 4 of the request the tree is copied as it is found, entry *)
(* by entry; in version 5 the files found by the first walk are copied by  *)
(* concurrent workers that share an index, and the links are made anew.    *)
(* The first worker that fails ends the campaign, and the others go on.    *)
(***************************************************************************)
EXTENDS Naturals, SequencesExt

CONSTANTS
  Paths,         \* the entries the repository may have
  Order,         \* the order a directory is walked in: each path once
  ParentOf,      \* the directory of the copy each of them is in
  Workers,       \* the concurrent copies
  MaximumFiles, MaximumBytes,   \* the budgets of the request
  MaximumEdits   \* a bound of a model

VARIABLES
  version,   \* of the request
  source,    \* the repository
  edits,
  pc,
  rest,      \* the entries still to visit
  files, links, bytes,   \* what the current walk has collected
  planned, omitted,      \* the links to make anew, and those to leave out
  next,      \* the index that the workers share
  todo,      \* the files they copy, in order
  worker,    \* what each of them does
  made,      \* the parents that are known to exist
  there,     \* the directories of the copy that do exist
  snapshot,  \* the copy
  digest     \* what the manifest binds, NoDigest before

walkVars == <<rest, files, links, bytes>>
workVars == <<next, todo, worker, made>>
vars == <<version, source, edits, pc, walkVars, planned, omitted, workVars, there, snapshot, digest>>

Sizes == {1, 2}   \* a content is told apart by its size
Absent == [kind |-> "absent", size |-> 0]
File(size) == [kind |-> "file", size |-> size]
Link(kind) == [kind |-> kind, size |-> 0]   \* "inside" or "outside" the repository
Nodes == {Absent, Link("inside"), Link("outside")} \cup {File(s) : s \in Sizes}
IsLink(node) == node.kind \in {"inside", "outside"}

NoDigest == [p \in {} |-> Absent]
Idle == [at |-> "done"]
Root == "root"

Present(tree) == {p \in Paths : tree[p] # Absent}

(* Which of the entries is visited next. *)
First(entries) ==
  Order[CHOOSE i \in DOMAIN Order :
          Order[i] \in entries /\ \A j \in 1 .. i - 1 : Order[j] \notin entries]

Init ==
  /\ version \in {3, 4, 5}
  /\ source \in [Paths -> {File(1), Link("inside"), Link("outside")}]
  /\ edits = 0 /\ pc = "list"
  /\ rest = {} /\ files = {} /\ links = {} /\ bytes = 0
  /\ planned = {} /\ omitted = {}
  /\ next = 1 /\ todo = <<>> /\ worker = [w \in Workers |-> Idle] /\ made = {}
  /\ there = {} /\ snapshot = [p \in Paths |-> Absent] /\ digest = NoDigest

Same(variables) == UNCHANGED <<version, source, edits, variables>>

Throws == pc' = IF there = {} THEN "threw" ELSE "removing"

-----------------------------------------------------------------------------
(* walkFiles: a directory is listed, then its entries are looked at one by *)
(* one; what is gone by then ends the walk.  A link ends it too, unless    *)
(* the caller collects links.                                              *)

List(tree, from, walking) ==
  /\ pc = from /\ pc' = walking
  /\ rest' = Present(tree) /\ files' = {} /\ links' = {} /\ bytes' = 0

Visit(tree, walking, collects) ==
  LET p == First(rest) IN
  /\ pc = walking /\ rest # {}
  /\ rest' = rest \ {p}
  /\ \/ tree[p].kind = "file"
        /\ files' = files \cup {p} /\ bytes' = bytes + tree[p].size /\ UNCHANGED <<links, pc>>
     \/ IsLink(tree[p]) /\ collects
        /\ links' = links \cup {p} /\ UNCHANGED <<files, bytes, pc>>
     \/ (tree[p] = Absent \/ (IsLink(tree[p]) /\ ~collects))
        /\ Throws /\ UNCHANGED <<files, links, bytes>>

WithinBudget == Cardinality(files) <= MaximumFiles /\ bytes <= MaximumBytes

ListSource ==
  List(source, "list", "walk") /\ Same(<<planned, omitted, workVars, there, snapshot, digest>>)
VisitSource ==
  Visit(source, "walk", version >= 4) /\ Same(<<planned, omitted, workVars, there, snapshot, digest>>)

(* The links are resolved: in version 5 those inside are kept; a link that *)
(* an executed test reaches refuses the campaign if it is not kept, the    *)
(* others are left out.  Then the campaign root is made.                   *)
Plan ==
  /\ pc = "walk" /\ rest = {}
  /\ LET inside == {p \in links : version = 5 /\ source[p].kind = "inside"} IN
     \E reached \in SUBSET links :
       IF WithinBudget /\ reached \subseteq inside
       THEN /\ planned' = inside /\ omitted' = links \ inside
            /\ there' = {Root}
            /\ IF version = 5
               THEN /\ pc' = "copy" /\ todo' = SelectSeq(Order, LAMBDA p : p \in files)
                    /\ worker' = [w \in Workers |-> [at |-> "free"]]
                    /\ UNCHANGED rest
               ELSE /\ pc' = "relist" /\ UNCHANGED <<todo, worker, rest>>
       ELSE /\ pc' = "threw" /\ UNCHANGED <<planned, omitted, there, todo, worker, rest>>
  /\ Same(<<files, links, bytes, next, made, snapshot, digest>>)

-----------------------------------------------------------------------------
(* copyRepository: the directory is listed again; each entry passes the    *)
(* filter and is then copied as what it has become.                        *)
Relist ==
  /\ pc = "relist" /\ pc' = "filter" /\ rest' = Present(source)
  /\ Same(<<files, links, bytes, planned, omitted, workVars, there, snapshot, digest>>)

Filter ==
  LET p == First(rest) IN
  /\ pc = "filter" /\ rest # {}
  /\ \/ source[p].kind = "file" /\ pc' = "entry" /\ UNCHANGED rest
     \/ IsLink(source[p]) /\ p \in omitted /\ rest' = rest \ {p} /\ UNCHANGED pc
     \/ (source[p] = Absent \/ (IsLink(source[p]) /\ p \notin omitted)) /\ Throws /\ UNCHANGED rest
  /\ Same(<<files, links, bytes, planned, omitted, workVars, there, snapshot, digest>>)

CopyEntry ==
  LET p == First(rest) IN
  /\ pc = "entry"
  /\ IF source[p] = Absent
     THEN Throws /\ UNCHANGED <<snapshot, rest>>
     ELSE pc' = "filter" /\ rest' = rest \ {p} /\ snapshot' = [snapshot EXCEPT ![p] = source[p]]
  /\ Same(<<files, links, bytes, planned, omitted, workVars, there, digest>>)

EntriesCopied ==
  /\ pc = "filter" /\ rest = {} /\ pc' = "check"
  /\ Same(<<walkVars, planned, omitted, workVars, there, snapshot, digest>>)

-----------------------------------------------------------------------------
(* copyPlannedTree.  A worker that goes on after the campaign has failed   *)
(* makes the directories again that were removed meanwhile.                *)

Becomes(w, state) == worker' = [worker EXCEPT ![w] = state]

Take(w) ==
  /\ worker[w].at = "free"
  /\ next' = next + 1
  /\ Becomes(w, IF next > Len(todo) THEN Idle ELSE [at |-> "parent", file |-> todo[next]])
  /\ Same(<<pc, walkVars, planned, omitted, todo, made, there, snapshot, digest>>)

EnsureParent(w) ==
  LET parent == ParentOf[worker[w].file] IN
  /\ worker[w].at = "parent"
  /\ IF parent = Root \/ parent \in made
     THEN UNCHANGED <<made, there>>
     ELSE made' = made \cup {parent} /\ there' = there \cup {Root, parent}
  /\ Becomes(w, [worker[w] EXCEPT !.at = "copy"])
  /\ Same(<<pc, walkVars, planned, omitted, next, todo, snapshot, digest>>)

(* copyFile follows a link. *)
CopyFile(w) ==
  LET p == worker[w].file IN
  /\ worker[w].at = "copy" /\ ParentOf[p] \in there
  /\ \E size \in Sizes :
       /\ source[p] # Absent /\ (source[p].kind = "file" => size = source[p].size)
       /\ snapshot' = [snapshot EXCEPT ![p] = File(size)]
  /\ Becomes(w, [at |-> "free"])
  /\ Same(<<pc, walkVars, planned, omitted, next, todo, made, there, digest>>)

CopyFileFails(w) ==
  /\ worker[w].at \in {"parent", "copy"}
  /\ Becomes(w, [at |-> "threw"])
  /\ IF pc = "copy" THEN Throws ELSE UNCHANGED pc
  /\ Same(<<walkVars, planned, omitted, next, todo, made, there, snapshot, digest>>)

(* Mutant: the copy is over when every file was taken. *)
FilesTaken ==
  /\ pc = "copy" /\ next > Len(todo)
  /\ snapshot' = [p \in Paths |-> IF p \in planned THEN Link("inside") ELSE snapshot[p]]
  /\ pc' = "check"
  /\ Same(<<walkVars, planned, omitted, workVars, there, digest>>)

(* When every worker is through, the links are made. *)
FilesCopied ==
  /\ pc = "copy" /\ \A w \in Workers : worker[w] = Idle
  /\ snapshot' = [p \in Paths |-> IF p \in planned THEN Link("inside") ELSE snapshot[p]]
  /\ pc' = "check"
  /\ Same(<<walkVars, planned, omitted, workVars, there, digest>>)

-----------------------------------------------------------------------------
ListSnapshot ==
  List(snapshot, "check", "rewalk") /\ Same(<<planned, omitted, workVars, there, snapshot, digest>>)

(* The walk of the snapshot collects links in version 5 only. *)
VisitSnapshot ==
  Visit(snapshot, "rewalk", version = 5) /\ Same(<<planned, omitted, workVars, there, snapshot, digest>>)

(* Mutant: the budgets hold of the source, so they hold of its copy. *)
AcceptUnmeasured ==
  /\ pc = "rewalk" /\ rest = {}
  /\ IF version = 5 => links = planned
     THEN pc' = "accepted" /\ digest' = snapshot
     ELSE Throws /\ UNCHANGED digest
  /\ Same(<<walkVars, planned, omitted, workVars, there, snapshot>>)

(* The budgets hold, the links are those of the plan; the digest is taken. *)
Accept ==
  /\ pc = "rewalk" /\ rest = {}
  /\ IF WithinBudget /\ (version = 5 => links = planned)
     THEN pc' = "accepted" /\ digest' = snapshot
     ELSE Throws /\ UNCHANGED digest
  /\ Same(<<walkVars, planned, omitted, workVars, there, snapshot>>)

(* A link of the copy does not lead anywhere, or a file cannot be read. *)
AcceptFails ==
  /\ pc = "rewalk" /\ rest = {} /\ Throws
  /\ Same(<<walkVars, planned, omitted, workVars, there, snapshot, digest>>)

(* The executions are over, or the campaign failed: the root is removed,   *)
(* or its removal fails.                                                   *)
RemoveRoot ==
  /\ pc \in {"accepted", "removing"}
  /\ \/ /\ pc' = IF pc = "accepted" THEN "returned" ELSE "threw"
        /\ there' = {} /\ snapshot' = [p \in Paths |-> Absent]
     \/ pc' = "threw" /\ UNCHANGED <<there, snapshot>>
  /\ Same(<<walkVars, planned, omitted, workVars, digest>>)

-----------------------------------------------------------------------------
(* Other programs change the repository while it is looked at and copied. *)
Edit ==
  /\ edits < MaximumEdits /\ edits' = edits + 1
  /\ pc \notin {"list", "accepted", "returned", "threw"}
  /\ \E p \in Paths, node \in Nodes :
       /\ node # source[p]
       /\ source' = [source EXCEPT ![p] = node]
  /\ UNCHANGED <<version, pc, walkVars, planned, omitted, workVars, there, snapshot, digest>>

Next ==
  \/ ListSource \/ VisitSource \/ Plan
  \/ Relist \/ Filter \/ CopyEntry \/ EntriesCopied
  \/ \E w \in Workers : Take(w) \/ EnsureParent(w) \/ CopyFile(w) \/ CopyFileFails(w)
  \/ FilesCopied \/ ListSnapshot \/ VisitSnapshot \/ Accept \/ AcceptFails \/ RemoveRoot
  \/ Edit

Spec == Init /\ [][Next]_vars

-----------------------------------------------------------------------------
(* The values of the variables. *)
Accepted == pc = "accepted"

(* While executions copy it, the snapshot is what its digest says: no copy *)
(* is under way any more, whatever was edited meanwhile.                   *)
DigestIsExecuted == Accepted => digest = snapshot

(* What is executed is within the budgets of the request, also when the    *)
(* repository grew after it had been measured.                             *)
ExecutedWithinBudget ==
  Accepted =>
    LET copied == {p \in Paths : snapshot[p].kind = "file"} IN
    /\ Cardinality(copied) <= MaximumFiles
    /\ SumFunction([p \in Paths |-> snapshot[p].size]) <= MaximumBytes
=============================================================================
