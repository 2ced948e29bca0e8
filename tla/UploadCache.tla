----------------------------- MODULE UploadCache -----------------------------
(***************************************************************************)
(* executionUploadArchive of src/engine/container.ts: the archives that    *)
(* one campaign uploads, kept by the identity of the workspace up to a     *)
(* budget of bytes.  An upload reads the archive chunk by chunk and may    *)
(* stop reading at any chunk, when the runtime fails, and the walk of the  *)
(* workspace may fail before the archive is complete.                      *)
(***************************************************************************)
EXTENDS Integers, FiniteSets, FiniteSetsExt, Functions

CONSTANTS
  Keys,           \* workspace identities
  SizeOf,         \* the size of each archive, a positive number
  MaximumBytes    \* the budget of the store, a natural number

VARIABLES
  entries,   \* the archives kept: [size, intact] for some keys
  bytes,     \* store.bytes
  upload     \* the upload that is being read, or NoUpload

vars == <<entries, bytes, upload>>

NoUpload == [key |-> "none"]

(* No function of the empty set, and a function without one argument. *)
NoEntries == [k \in {} |-> [size |-> 0, intact |-> TRUE]]
Without(key) == Restrict(entries, DOMAIN entries \ {key})
With(key, entry) == [k \in DOMAIN entries \cup {key} |-> IF k = key THEN entry ELSE entries[k]]

Init == entries = NoEntries /\ bytes = 0 /\ upload = NoUpload

-----------------------------------------------------------------------------
(* The entry has its recorded size and digest. *)
Usable(key) == key \in DOMAIN entries /\ entries[key].intact

Reuse(key) ==
  /\ upload = NoUpload /\ Usable(key)
  /\ upload' = [key |-> key, reused |-> TRUE, length |-> 0, retain |-> FALSE,
                intact |-> entries[key].intact, whole |-> entries[key].size]
  /\ UNCHANGED <<entries, bytes>>

(* A damaged entry is evicted and the archive produced again. *)
Produce(key) ==
  /\ upload = NoUpload /\ ~Usable(key)
  /\ entries' = Without(key)
  /\ bytes' = IF key \in DOMAIN entries THEN Max({0, bytes - entries[key].size}) ELSE bytes
  /\ upload' = [key |-> key, reused |-> FALSE, length |-> 0, retain |-> TRUE,
                intact |-> TRUE, whole |-> SizeOf[key]]

(* The chunks are dropped as soon as they exceed the room in the store. *)
StillRetained(chunk) == upload.retain /\ upload.length + chunk <= MaximumBytes - bytes

(* One chunk is delivered. *)
Deliver(chunk) ==
  /\ upload # NoUpload /\ upload.length + chunk <= upload.whole
  /\ upload' = [upload EXCEPT !.length = @ + chunk, !.retain = StillRetained(chunk)]
  /\ UNCHANGED <<entries, bytes>>

(* The archive is complete: it is kept when all of it was retained. *)
Complete ==
  /\ upload # NoUpload /\ upload.length = upload.whole
  /\ IF upload.retain /\ upload.key \notin DOMAIN entries /\ upload.length <= MaximumBytes - bytes
     THEN /\ entries' = With(upload.key, [size |-> upload.length, intact |-> upload.intact])
          /\ bytes' = bytes + upload.length
     ELSE UNCHANGED <<entries, bytes>>
  /\ upload' = NoUpload

(* The runtime stops reading, or the workspace cannot be walked to its end. *)
Abandon ==
  /\ upload # NoUpload
  /\ upload' = NoUpload
  /\ UNCHANGED <<entries, bytes>>

(* A stored archive is damaged between two uploads, which is what its      *)
(* recorded digest is for.                                                 *)
Damage(key) ==
  /\ upload = NoUpload /\ key \in DOMAIN entries
  /\ entries' = [entries EXCEPT ![key].intact = FALSE]
  /\ UNCHANGED <<bytes, upload>>

-----------------------------------------------------------------------------
(* What a set of the archives kept takes: its sizes added up, one by one. *)
AddsUp(total) ==
  /\ total[{}] = 0
  /\ \A kept \in SUBSET DOMAIN entries : \A k \in kept :
       total[kept] = total[kept \ {k}] + entries[k].size

(* The store accounts for exactly what it keeps, within its budget, through*)
(* evictions, refusals and abandoned uploads; and what it keeps, and what  *)
(* an upload reads, is the whole archive: never the part an abandoned or   *)
(* truncated upload had read, nor a damaged one.  So every execution of a  *)
(* workspace is given the same bytes.                                      *)
OnlyWhole ==
  /\ \E total \in [SUBSET DOMAIN entries -> 0 .. bytes] :
       AddsUp(total) /\ total[DOMAIN entries] = bytes
  /\ bytes <= MaximumBytes
  /\ \A k \in DOMAIN entries : entries[k].size = SizeOf[k]
  /\ upload # NoUpload => upload.intact /\ upload.whole = SizeOf[upload.key]

=============================================================================
