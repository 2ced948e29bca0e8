----------------------------- MODULE Selection -----------------------------
(***************************************************************************)
(* The loop of selectCandidates in src/core/index.ts, one round per step:  *)
(* sort what remains by marginal coverage, size, digest and identifier,    *)
(* shift the first, stop when it adds nothing.  The assessments are those  *)
(* a caller hands in: the exported function does not require that an       *)
(* eligible candidate kills anything.  Evidence!IsSelection characterises  *)
(* the result without a loop; the properties below show that the loop      *)
(* computes it.                                                            *)
(***************************************************************************)
EXTENDS Evidence

VARIABLES
  assessments,  \* [Candidates -> [status, killed]]
  selected,     \* the identifiers pushed so far
  covered,      \* the targets they kill
  remaining,    \* the eligible candidates not taken out of the array
  running

vars == <<assessments, selected, covered, remaining, running>>

Assessments == [Candidates -> [status : CandidateStatuses, killed : SUBSET Targets]]

Init ==
  /\ assessments \in Assessments
  /\ selected = <<>>
  /\ covered = {}
  /\ remaining = Eligible(assessments)
  /\ running = TRUE

(* Mutant: rounds sort by all killed targets instead of the new ones. *)
SortsBeforeByTotal(c, d) ==
  LET m == Cardinality(assessments[c].killed)
      n == Cardinality(assessments[d].killed)
  IN \/ m > n
     \/ m = n /\ Rank[c] < Rank[d]

(* Mutant: the size is not compared. *)
SortsBeforeWithoutSize(c, d) ==
  LET m == Cardinality(assessments[c].killed \ covered)
      n == Cardinality(assessments[d].killed \ covered)
  IN \/ m > n
     \/ m = n /\ Rank[c] < Rank[d]

(* What the sort of a round compares. *)
SortsBefore(c, d) ==
  LET m == Cardinality(assessments[c].killed \ covered)
      n == Cardinality(assessments[d].killed \ covered)
  IN \/ m > n
     \/ m = n /\ Size[c] < Size[d]
     \/ m = n /\ Size[c] = Size[d] /\ Rank[c] < Rank[d]

First(c) == c \in remaining /\ \A d \in remaining \ {c} : SortsBefore(c, d)

MayContinue == Len(selected) < MaximumSelected /\ remaining # {}

Take(c) ==
  /\ running /\ MayContinue
  /\ First(c)
  /\ ~(assessments[c].killed \subseteq covered)
  /\ remaining' = remaining \ {c}
  /\ selected' = Append(selected, c)
  /\ covered' = covered \cup assessments[c].killed
  /\ UNCHANGED <<assessments, running>>

(* The best candidate is shifted out and dropped: it adds nothing. *)
Break(c) ==
  /\ running /\ MayContinue
  /\ First(c)
  /\ assessments[c].killed \subseteq covered
  /\ remaining' = remaining \ {c}
  /\ running' = FALSE
  /\ UNCHANGED <<assessments, selected, covered>>

Exhausted ==
  /\ running /\ ~MayContinue
  /\ running' = FALSE
  /\ UNCHANGED <<assessments, selected, covered, remaining>>

Next == (\E c \in Candidates : Take(c) \/ Break(c)) \/ Exhausted

Spec == Init /\ [][Next]_vars

-----------------------------------------------------------------------------
(* When the loop ends below the maximum, no eligible candidate that was    *)
(* left out kills a target the selection does not: the early break on the  *)
(* best candidate is safe for all those sorted behind it.                  *)
NothingUsefulLeft ==
  (~running /\ Len(selected) < MaximumSelected) =>
    Covered(assessments, Eligible(assessments)) = covered

(* The loop computes the selection of the decision core, and that is the   *)
(* only sequence that qualifies: the result does not depend on the order   *)
(* of the input array.                                                     *)
ComputesSelection ==
  ~running => {s \in CandidateSeqs : IsSelection(assessments, s)} = {selected}

(* So the loop ends with the selection it should, and with all there is.   *)
SelectsRightly == ComputesSelection /\ NothingUsefulLeft
=============================================================================
