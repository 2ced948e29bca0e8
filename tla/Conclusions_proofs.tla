-------------------------- MODULE Conclusions_proofs --------------------------
(***************************************************************************)
(* Theorems about what is concluded from evidence, for every value of the  *)
(* constants of Conclusions.                                               *)
(***************************************************************************)
EXTENDS Conclusions, Sums_proofs, FiniteSetTheorems, WellFoundedInduction, TLAPS

-----------------------------------------------------------------------------
(* The selection: the loop computes the one sequence that IsSelection      *)
(* describes.                                                              *)

(* Each element is the choice of its round. *)
ChosenInTurn(a, s) ==
  \A i \in 1 .. Len(s) : s[i] \in Rounds!NextChoice(a, Rounds!Taken(s, i - 1))

(* What has been selected so far is the choice of its round each, what is  *)
(* covered and what remains follow from it, and once the loop has ended    *)
(* there is no further choice.                                             *)
SelectionInv ==
  /\ assessments \in Rounds!Assessments
  /\ selected \in Seq(Candidates)
  /\ ChosenInTurn(assessments, selected)
  /\ Cardinality(Rounds!Taken(selected, Len(selected))) = Len(selected)
  /\ covered = Rounds!Covered(assessments, Rounds!Taken(selected, Len(selected)))
  /\ selecting => remaining = Rounds!Eligible(assessments) \ Rounds!Taken(selected, Len(selected))
  /\ ~selecting => Rounds!NextChoice(assessments, Rounds!Taken(selected, Len(selected))) = {}
  /\ ~selecting => Rounds!NothingUsefulLeft

(* Cardinality is the same in the instance. *)
LEMMA SameCardinality == \A S : Rounds!Cardinality(S) = Cardinality(S)
BY DEF Rounds!Cardinality, Cardinality

(* What a candidate adds is finite, whatever was chosen before. *)
LEMMA GainsAreNumbers ==
  ASSUME NEW a \in Rounds!Assessments, NEW c \in Candidates, NEW chosen
  PROVE  /\ IsFiniteSet(Rounds!Marginal(a, c, chosen))
         /\ Cardinality(Rounds!Marginal(a, c, chosen)) \in Nat
         /\ Cardinality(Rounds!Marginal(a, c, chosen)) = 0 <=> Rounds!Marginal(a, c, chosen) = {}
<1>1. Rounds!Targets \in SUBSET Worlds
  BY DEF Rounds!Targets, Rounds!WorldsOf
<1>2. IsFiniteSet(Rounds!Targets)
  BY <1>1, ConclusionsAssumption, FS_Subset
<1>3. a[c].killed \subseteq Rounds!Targets
  BY DEF Rounds!Assessments
<1>4. Rounds!Marginal(a, c, chosen) \in SUBSET Rounds!Targets
  BY <1>3 DEF Rounds!Marginal
<1>5. IsFiniteSet(Rounds!Marginal(a, c, chosen))
  BY <1>2, <1>4, FS_Subset
<1> QED BY <1>5, FS_CardinalityType, FS_EmptySet

(* A round has at most one choice. *)
LEMMA OneChoice ==
  ASSUME NEW a \in Rounds!Assessments, NEW chosen,
         NEW c \in Rounds!NextChoice(a, chosen), NEW d \in Rounds!NextChoice(a, chosen)
  PROVE  c = d
<1>1. /\ c \in Candidates /\ d \in Candidates
      /\ Rounds!Precedes(a, c, d, chosen) /\ Rounds!Precedes(a, d, c, chosen)
  BY DEF Rounds!NextChoice, Rounds!Eligible
<1>2. /\ Cardinality(Rounds!Marginal(a, c, chosen)) \in Nat
      /\ Cardinality(Rounds!Marginal(a, d, chosen)) \in Nat
      /\ Size[c] \in Nat /\ Size[d] \in Nat /\ Rank[c] \in Nat /\ Rank[d] \in Nat
  BY <1>1, GainsAreNumbers, ConclusionsAssumption
<1> DEFINE m == Cardinality(Rounds!Marginal(a, c, chosen))
           n == Cardinality(Rounds!Marginal(a, d, chosen))
<1>3. /\ m > n \/ (m = n /\ Size[c] < Size[d]) \/ (m = n /\ Size[c] = Size[d] /\ Rank[c] <= Rank[d])
      /\ n > m \/ (n = m /\ Size[d] < Size[c]) \/ (n = m /\ Size[d] = Size[c] /\ Rank[d] <= Rank[c])
  BY <1>1, SameCardinality DEF Rounds!Precedes
<1>4. Rank[c] = Rank[d]
  <2> HIDE DEF m, n
  <2>1. m \in Nat /\ n \in Nat
    BY <1>2 DEF m, n
  <2> QED BY <1>2, <1>3, <2>1
<1> QED BY <1>1, <1>4, ConclusionsAssumption

(* A set of numbers has a least one. *)
LEMMA LeastNumber ==
  ASSUME NEW S, S \subseteq Nat, S # {}
  PROVE  \E n \in S : \A m \in S : n <= m
<1>1. PICK n \in S : \A m \in S : ~(<<m, n>> \in OpToRel(<, Nat))
  BY NatLessThanWellFounded, WFMin
<1>2. ASSUME NEW m \in S PROVE n <= m
  <2>1. m \in Nat /\ n \in Nat /\ <<m, n>> \in Nat \X Nat
    OBVIOUS
  <2>2. m < n => <<m, n>> \in OpToRel(<, Nat)
    BY <2>1 DEF OpToRel
  <2>3. ~(m < n)
    BY <2>2, <1>1
  <2> QED BY <2>1, <2>3
<1> QED BY <1>2

(* Two selections cannot part: each round has one choice. *)
LEMMA SelectionsAgree ==
  ASSUME NEW a \in Rounds!Assessments, NEW s \in Seq(Candidates), NEW t \in Seq(Candidates),
         ChosenInTurn(a, s), ChosenInTurn(a, t), NEW k \in Nat, k <= Len(s), k <= Len(t)
  PROVE  \A i \in 1 .. k : s[i] = t[i]
<1> DEFINE parted == {i \in 1 .. k : s[i] # t[i]}
<1>1. SUFFICES ASSUME parted # {} PROVE FALSE
  OBVIOUS
<1>2. parted \subseteq Nat
  OBVIOUS
<1>3. PICK i \in parted : \A j \in parted : i <= j
  BY <1>1, <1>2, LeastNumber
<1>4. i \in 1 .. Len(s) /\ i \in 1 .. Len(t) /\ s[i] # t[i] /\ i \in Nat
  OBVIOUS
<1>5. \A j \in 1 .. (i - 1) : s[j] = t[j]
  <2>1. SUFFICES ASSUME NEW j \in 1 .. (i - 1), s[j] # t[j] PROVE FALSE
    OBVIOUS
  <2>2. j \in parted /\ j < i /\ j \in Nat
    BY <2>1, <1>4
  <2> QED BY <2>2, <1>3, <1>4
<1>6. Rounds!Taken(s, i - 1) = Rounds!Taken(t, i - 1)
  BY <1>5 DEF Rounds!Taken
<1>7. /\ s[i] \in Rounds!NextChoice(a, Rounds!Taken(s, i - 1))
      /\ t[i] \in Rounds!NextChoice(a, Rounds!Taken(s, i - 1))
  BY <1>4, <1>6 DEF ChosenInTurn
<1>8. s[i] = t[i]
  BY <1>7, OneChoice
<1> QED BY <1>4, <1>8

(* There is at most one selection. *)
LEMMA OneSelection ==
  ASSUME NEW a \in Rounds!Assessments, NEW s \in Seq(Candidates), NEW t \in Seq(Candidates),
         Rounds!IsSelection(a, s), Rounds!IsSelection(a, t)
  PROVE  Len(s) <= Len(t) /\ (Len(s) = Len(t) => s = t)
<1>1. /\ Len(s) \in Nat /\ DOMAIN s = 1 .. Len(s) /\ Len(t) \in Nat /\ DOMAIN t = 1 .. Len(t)
      /\ ChosenInTurn(a, s) /\ ChosenInTurn(a, t)
  BY DEF Rounds!IsSelection, ChosenInTurn
<1>2. Len(s) <= Len(t)
  <2>1. SUFFICES ASSUME Len(t) < Len(s) PROVE FALSE
    BY <1>1
  <2>2. \A i \in 1 .. Len(t) : s[i] = t[i]
    <3>1. Len(t) <= Len(s) /\ Len(t) <= Len(t)
      BY <2>1, <1>1
    <3> QED BY <3>1, <1>1, SelectionsAgree
  <2>3. Rounds!Taken(s, Len(t)) = Rounds!Taken(t, Len(t))
    BY <2>2 DEF Rounds!Taken
  <2>4. Len(t) + 1 \in 1 .. Len(s) /\ (Len(t) + 1) - 1 = Len(t)
    BY <2>1, <1>1
  <2>5. s[Len(t) + 1] \in Rounds!NextChoice(a, Rounds!Taken(s, (Len(t) + 1) - 1))
    BY <2>4, <1>1 DEF ChosenInTurn
  <2> QED BY <2>3, <2>4, <2>5 DEF Rounds!IsSelection
<1>3. ASSUME Len(s) = Len(t) PROVE s = t
  <2>1. \A i \in 1 .. Len(s) : s[i] = t[i]
    <3>1. Len(s) <= Len(s) /\ Len(s) <= Len(t)
      BY <1>3, <1>1
    <3> QED BY <3>1, <1>1, SelectionsAgree
  <2> QED BY <2>1, <1>3, <1>1
<1> QED BY <1>2, <1>3

(* What was taken grows by the candidate that is pushed. *)
LEMMA TakenGrows ==
  ASSUME NEW s \in Seq(Candidates), NEW c \in Candidates
  PROVE  /\ Append(s, c) \in Seq(Candidates) /\ Len(Append(s, c)) = Len(s) + 1
         /\ Append(s, c)[Len(s) + 1] = c
         /\ \A i \in 1 .. Len(s) : Append(s, c)[i] = s[i]
         /\ \A n \in 0 .. Len(s) : Rounds!Taken(Append(s, c), n) = Rounds!Taken(s, n)
         /\ Rounds!Taken(Append(s, c), Len(s) + 1) = Rounds!Taken(s, Len(s)) \cup {c}
<1> DEFINE t == Append(s, c)
<1>1. /\ t \in Seq(Candidates) /\ Len(t) = Len(s) + 1 /\ Len(s) \in Nat
      /\ \A i \in 1 .. Len(s) : t[i] = s[i]
      /\ t[Len(s) + 1] = c
  OBVIOUS
<1> HIDE DEF t
<1>2. ASSUME NEW n \in 0 .. Len(s) PROVE Rounds!Taken(t, n) = Rounds!Taken(s, n)
  <2>1. \A i \in 1 .. n : t[i] = s[i]
    BY <1>1
  <2> QED BY <2>1 DEF Rounds!Taken
<1>3. Rounds!Taken(t, Len(s) + 1) = Rounds!Taken(s, Len(s)) \cup {c}
  <2>1. 1 .. (Len(s) + 1) = (1 .. Len(s)) \cup {Len(s) + 1}
    BY <1>1
  <2>2. ASSUME NEW x \in Rounds!Taken(t, Len(s) + 1)
        PROVE  x \in Rounds!Taken(s, Len(s)) \cup {c}
    <3>1. PICK i \in 1 .. (Len(s) + 1) : x = t[i]
      BY DEF Rounds!Taken
    <3>2. CASE i = Len(s) + 1
      BY <3>1, <3>2, <1>1
    <3>3. CASE i \in 1 .. Len(s)
      BY <3>1, <3>3, <1>1 DEF Rounds!Taken
    <3> QED BY <2>1, <3>2, <3>3
  <2>3. c \in Rounds!Taken(t, Len(s) + 1)
    <3>1. Len(s) + 1 \in 1 .. (Len(s) + 1)
      BY <1>1
    <3> QED BY <3>1, <1>1 DEF Rounds!Taken
  <2>4. ASSUME NEW x \in Rounds!Taken(s, Len(s)) PROVE x \in Rounds!Taken(t, Len(s) + 1)
    <3>1. PICK i \in 1 .. Len(s) : x = s[i]
      BY DEF Rounds!Taken
    <3>2. i \in 1 .. (Len(s) + 1) /\ x = t[i]
      BY <3>1, <1>1
    <3> QED BY <3>2 DEF Rounds!Taken
  <2> QED BY <2>2, <2>3, <2>4
<1> QED BY <1>1, <1>2, <1>3 DEF t

(* What is taken was eligible. *)
LEMMA TakenEligible ==
  ASSUME NEW a, NEW s \in Seq(Candidates), ChosenInTurn(a, s)
  PROVE  Rounds!Taken(s, Len(s)) \subseteq Rounds!Eligible(a)
<1>1. \A i \in 1 .. Len(s) : s[i] \in Rounds!Eligible(a)
  BY DEF ChosenInTurn, Rounds!NextChoice
<1> QED BY <1>1 DEF Rounds!Taken

LEMMA SelectionStart == Rounds!Init => SelectionInv
<1> SUFFICES ASSUME Rounds!Init PROVE SelectionInv
  OBVIOUS
<1>1. /\ assessments \in Rounds!Assessments /\ selected = <<>> /\ covered = {} /\ selecting = TRUE
      /\ remaining = Rounds!Eligible(assessments)
  BY DEF Rounds!Init
<1>2. selected \in Seq(Candidates) /\ Len(selected) = 0
  BY <1>1
<1>3. Rounds!Taken(selected, Len(selected)) = {}
  <2>1. 1 .. 0 = {}
    OBVIOUS
  <2> QED BY <2>1, <1>2 DEF Rounds!Taken
<1>4. ChosenInTurn(assessments, selected)
  BY <1>2 DEF ChosenInTurn
<1>5. Rounds!Covered(assessments, {}) = {}
  BY DEF Rounds!Covered
<1>6. Cardinality(Rounds!Taken(selected, Len(selected))) = Len(selected)
  BY <1>2, <1>3, FS_EmptySet
<1> QED BY <1>1, <1>2, <1>3, <1>4, <1>5, <1>6 DEF SelectionInv

(* The first of the order a round sorts by comes before all that remain.   *)
LEMMA FirstPrecedes ==
  ASSUME SelectionInv, selecting, NEW c \in Candidates, Rounds!First(c),
         NEW chosen, chosen = Rounds!Taken(selected, Len(selected))
  PROVE  /\ c \in Rounds!Eligible(assessments) \ chosen
         /\ Rounds!Marginal(assessments, c, chosen) = assessments[c].killed \ covered
         /\ \A d \in Rounds!Eligible(assessments) \ chosen :
              Rounds!Precedes(assessments, c, d, chosen)
<1>1. /\ covered = Rounds!Covered(assessments, chosen)
      /\ remaining = Rounds!Eligible(assessments) \ chosen
      /\ assessments \in Rounds!Assessments
  BY DEF SelectionInv
<1>2. \A d : Rounds!Marginal(assessments, d, chosen) = assessments[d].killed \ covered
  BY <1>1 DEF Rounds!Marginal
<1>3. c \in remaining /\ \A d \in remaining \ {c} : Rounds!SortsBefore(c, d)
  BY DEF Rounds!First
<1>4. ASSUME NEW d \in remaining PROVE Rounds!Precedes(assessments, c, d, chosen)
  <2>1. d \in Candidates
    BY <1>1 DEF Rounds!Eligible
  <2> DEFINE m == Cardinality(Rounds!Marginal(assessments, c, chosen))
             n == Cardinality(Rounds!Marginal(assessments, d, chosen))
  <2>2. m \in Nat /\ n \in Nat
    BY <2>1, <1>1, GainsAreNumbers
  <2>3. m > n \/ (m = n /\ Size[c] < Size[d]) \/ (m = n /\ Size[c] = Size[d] /\ Rank[c] <= Rank[d])
        => Rounds!Precedes(assessments, c, d, chosen)
    BY SameCardinality DEF Rounds!Precedes
  <2>4. CASE d = c
    <3> HIDE DEF m, n
    <3>1. m = n
      BY <2>4 DEF m, n
    <3>2. Rank[c] \in Nat
      BY ConclusionsAssumption
    <3> QED BY <2>3, <2>4, <3>1, <3>2
  <2>5. CASE d # c
    <3>1. Rounds!SortsBefore(c, d)
      BY <2>5, <1>3
    <3>2. m > n \/ (m = n /\ Size[c] < Size[d]) \/ (m = n /\ Size[c] = Size[d] /\ Rank[c] < Rank[d])
      BY <3>1, <1>2, SameCardinality DEF Rounds!SortsBefore
    <3> HIDE DEF m, n
    <3>3. Rank[c] \in Nat /\ Rank[d] \in Nat
      BY <2>1, ConclusionsAssumption
    <3> QED BY <2>3, <3>2, <3>3
  <2> QED BY <2>4, <2>5
<1> QED BY <1>1, <1>2, <1>3, <1>4

LEMMA SelectionTakes ==
  ASSUME SelectionInv, NEW c \in Candidates, Rounds!Take(c)
  PROVE  SelectionInv'
<1> DEFINE chosen == Rounds!Taken(selected, Len(selected))
<1>1. /\ selecting /\ Len(selected) < MaximumSelected /\ Rounds!First(c)
      /\ ~(assessments[c].killed \subseteq covered)
      /\ remaining' = remaining \ {c} /\ selected' = Append(selected, c)
      /\ covered' = covered \cup assessments[c].killed
      /\ assessments' = assessments /\ selecting' = selecting
  BY DEF Rounds!Take, Rounds!MayContinue
<1>2. /\ assessments \in Rounds!Assessments /\ selected \in Seq(Candidates)
      /\ ChosenInTurn(assessments, selected)
      /\ Cardinality(chosen) = Len(selected) /\ covered = Rounds!Covered(assessments, chosen)
      /\ remaining = Rounds!Eligible(assessments) \ chosen
  BY <1>1 DEF SelectionInv
<1>3. /\ c \in Rounds!Eligible(assessments) \ chosen
      /\ Rounds!Marginal(assessments, c, chosen) # {}
      /\ \A d \in Rounds!Eligible(assessments) \ chosen :
           Rounds!Precedes(assessments, c, d, chosen)
  BY <1>1, FirstPrecedes
<1>4. c \in Rounds!NextChoice(assessments, chosen)
  <2>1. ~(Rounds!Cardinality(chosen) >= MaximumSelected)
    <3>1. Len(selected) \in Nat
      BY <1>2
    <3> QED BY <1>1, <1>2, <3>1, SameCardinality, ConclusionsAssumption
  <2> QED BY <1>3, <2>1 DEF Rounds!NextChoice
<1>5. /\ selected' \in Seq(Candidates) /\ Len(selected') = Len(selected) + 1
      /\ Len(selected) \in Nat /\ selected'[Len(selected) + 1] = c
      /\ \A i \in 1 .. Len(selected) : selected'[i] = selected[i]
      /\ \A n \in 0 .. Len(selected) : Rounds!Taken(selected', n) = Rounds!Taken(selected, n)
      /\ Rounds!Taken(selected', Len(selected')) = chosen \cup {c}
  BY <1>1, <1>2, TakenGrows
<1>6. ChosenInTurn(assessments, selected')
  <2>1. SUFFICES ASSUME NEW i \in 1 .. Len(selected')
                 PROVE  selected'[i] \in Rounds!NextChoice(assessments, Rounds!Taken(selected', i - 1))
    BY DEF ChosenInTurn
  <2>2. i - 1 \in 0 .. Len(selected) /\ Rounds!Taken(selected', i - 1) = Rounds!Taken(selected, i - 1)
    BY <1>5
  <2>3. CASE i = Len(selected) + 1
    <3>1. i - 1 = Len(selected)
      BY <2>3, <1>5
    <3> QED BY <3>1, <2>3, <2>2, <1>5, <1>4
  <2>4. CASE i \in 1 .. Len(selected)
    BY <2>4, <2>2, <1>5, <1>2 DEF ChosenInTurn
  <2>5. i = Len(selected) + 1 \/ i \in 1 .. Len(selected)
    BY <1>5
  <2> QED BY <2>3, <2>4, <2>5
<1>7. Cardinality(chosen \cup {c}) = Len(selected) + 1
  <2>1. chosen \subseteq Candidates
    BY <1>2, TakenEligible DEF Rounds!Eligible
  <2>2. IsFiniteSet(chosen)
    <3> HIDE DEF chosen
    <3>1. chosen \in SUBSET Candidates
      BY <2>1
    <3> QED BY <3>1, ConclusionsAssumption, FS_Subset
  <2>3. c \notin chosen
    BY <1>3
  <2> HIDE DEF chosen
  <2> QED BY <2>2, <2>3, <1>2, FS_AddElement
<1>8. covered' = Rounds!Covered(assessments, chosen \cup {c})
  BY <1>1, <1>2 DEF Rounds!Covered
<1>9. remaining' = Rounds!Eligible(assessments) \ (chosen \cup {c})
  BY <1>1, <1>2
<1>10. selecting'
  BY <1>1
<1> HIDE DEF chosen
<1> QED BY <1>1, <1>2, <1>5, <1>6, <1>7, <1>8, <1>9, <1>10 DEF SelectionInv

(* Nothing remains that adds anything when the first adds nothing. *)
LEMMA SelectionBreaks ==
  ASSUME SelectionInv, NEW c \in Candidates, Rounds!Break(c)
  PROVE  SelectionInv'
<1> DEFINE chosen == Rounds!Taken(selected, Len(selected))
<1>1. /\ selecting /\ Len(selected) < MaximumSelected /\ Rounds!First(c)
      /\ assessments[c].killed \subseteq covered
      /\ selecting' = FALSE
      /\ selected' = selected /\ covered' = covered /\ assessments' = assessments
  BY DEF Rounds!Break, Rounds!MayContinue
<1>2. /\ assessments \in Rounds!Assessments /\ selected \in Seq(Candidates)
      /\ ChosenInTurn(assessments, selected)
      /\ Cardinality(chosen) = Len(selected) /\ covered = Rounds!Covered(assessments, chosen)
  BY <1>1 DEF SelectionInv
<1>3. /\ Rounds!Marginal(assessments, c, chosen) = {}
      /\ \A d \in Rounds!Eligible(assessments) \ chosen :
           Rounds!Precedes(assessments, c, d, chosen)
  BY <1>1, FirstPrecedes
<1>4. ASSUME NEW d \in Rounds!Eligible(assessments) \ chosen
      PROVE  Rounds!Marginal(assessments, d, chosen) = {}
  <2>1. d \in Candidates
    BY DEF Rounds!Eligible
  <2> DEFINE m == Cardinality(Rounds!Marginal(assessments, c, chosen))
             n == Cardinality(Rounds!Marginal(assessments, d, chosen))
  <2>2. m > n \/ m = n
    <3>1. Rounds!Precedes(assessments, c, d, chosen)
      BY <1>3
    <3> QED BY <3>1, SameCardinality DEF Rounds!Precedes
  <2>3. /\ m \in Nat /\ (m = 0 <=> Rounds!Marginal(assessments, c, chosen) = {})
        /\ n \in Nat /\ (n = 0 <=> Rounds!Marginal(assessments, d, chosen) = {})
    BY <2>1, <1>2, GainsAreNumbers
  <2> HIDE DEF m, n
  <2> QED BY <2>2, <2>3, <1>3
<1>5. Rounds!NextChoice(assessments, chosen) = {}
  BY <1>4 DEF Rounds!NextChoice
<1>6. Rounds!Covered(assessments, Rounds!Eligible(assessments)) = covered
  <2>1. chosen \subseteq Rounds!Eligible(assessments)
    BY <1>2, TakenEligible
  <2>2. \A d \in Rounds!Eligible(assessments) : assessments[d].killed \subseteq covered
    BY <1>2, <1>4 DEF Rounds!Marginal, Rounds!Covered
  <2> HIDE DEF chosen
  <2> QED BY <2>1, <2>2, <1>2 DEF Rounds!Covered
<1>7. Rounds!NothingUsefulLeft'
  BY <1>1, <1>6 DEF Rounds!NothingUsefulLeft
<1> HIDE DEF chosen
<1>8. /\ selected' = selected /\ covered' = covered /\ assessments' = assessments /\ ~selecting'
  BY <1>1
<1> QED BY <1>2, <1>5, <1>7, <1>8 DEF SelectionInv, chosen

LEMMA SelectionExhausts ==
  ASSUME SelectionInv, Rounds!Exhausted
  PROVE  SelectionInv'
<1> DEFINE chosen == Rounds!Taken(selected, Len(selected))
<1>1. /\ selecting /\ (~(Len(selected) < MaximumSelected) \/ remaining = {})
      /\ ~selecting'
      /\ selected' = selected /\ covered' = covered /\ assessments' = assessments
  BY DEF Rounds!Exhausted, Rounds!MayContinue
<1>2. /\ assessments \in Rounds!Assessments /\ selected \in Seq(Candidates)
      /\ ChosenInTurn(assessments, selected)
      /\ Cardinality(chosen) = Len(selected) /\ covered = Rounds!Covered(assessments, chosen)
      /\ remaining = Rounds!Eligible(assessments) \ chosen
  BY <1>1 DEF SelectionInv
<1>3. Rounds!NextChoice(assessments, chosen) = {}
  <2>1. CASE ~(Len(selected) < MaximumSelected)
    <3>1. Rounds!Cardinality(chosen) >= MaximumSelected
      <4>1. Len(selected) \in Nat
        BY <1>2
      <4> QED BY <4>1, <2>1, <1>2, SameCardinality, ConclusionsAssumption
    <3> QED BY <3>1 DEF Rounds!NextChoice
  <2>2. CASE remaining = {}
    BY <2>2, <1>2 DEF Rounds!NextChoice
  <2> QED BY <2>1, <2>2, <1>1
<1>4. remaining = {} => Rounds!Covered(assessments, Rounds!Eligible(assessments)) = covered
  <2>1. chosen \subseteq Rounds!Eligible(assessments)
    BY <1>2, TakenEligible
  <2> HIDE DEF chosen
  <2>2. remaining = {} => Rounds!Eligible(assessments) = chosen
    BY <2>1, <1>2
  <2> QED BY <2>2, <1>2
<1>5. Rounds!NothingUsefulLeft'
  BY <1>1, <1>4 DEF Rounds!NothingUsefulLeft
<1> HIDE DEF chosen
<1> QED BY <1>1, <1>2, <1>3, <1>5 DEF SelectionInv, chosen

LEMMA SelectionStep == SelectionInv /\ [Rounds!Next]_roundVars => SelectionInv'
<1> SUFFICES ASSUME SelectionInv, [Rounds!Next]_roundVars PROVE SelectionInv'
  OBVIOUS
<1>1. ASSUME NEW c \in Candidates, Rounds!Take(c) \/ Rounds!Break(c) PROVE SelectionInv'
  BY <1>1, SelectionTakes, SelectionBreaks
<1>2. CASE Rounds!Exhausted
  BY <1>2, SelectionExhausts
<1>3. CASE UNCHANGED roundVars
  BY <1>3 DEF roundVars, SelectionInv, Rounds!NothingUsefulLeft
<1> QED BY <1>1, <1>2, <1>3 DEF Rounds!Next

(* With the loop, the selection has ended rightly. *)
LEMMA SelectionHolds == SelectionInv => Rounds!SelectsRightly
<1> SUFFICES ASSUME SelectionInv PROVE Rounds!SelectsRightly
  OBVIOUS
<1>1. ~selecting => Rounds!NothingUsefulLeft
  BY DEF SelectionInv
<1>2. Rounds!NothingUsefulLeft
  BY <1>1 DEF Rounds!NothingUsefulLeft
<1>3. ASSUME ~selecting
      PROVE  {s \in Rounds!CandidateSeqs : Rounds!IsSelection(assessments, s)} = {selected}
  <2> DEFINE chosen == Rounds!Taken(selected, Len(selected))
  <2>1. /\ assessments \in Rounds!Assessments /\ selected \in Seq(Candidates)
        /\ ChosenInTurn(assessments, selected) /\ Cardinality(chosen) = Len(selected)
        /\ Rounds!NextChoice(assessments, chosen) = {}
    BY <1>3 DEF SelectionInv
  <2>2. Rounds!IsSelection(assessments, selected)
    <3>1. DOMAIN selected = 1 .. Len(selected)
      BY <2>1
    <3> QED BY <3>1, <2>1 DEF Rounds!IsSelection, ChosenInTurn
  <2>3. selected \in Rounds!CandidateSeqs
    <3>1. Len(selected) \in 0 .. Rounds!Cardinality(Candidates)
      <4>1. chosen \subseteq Candidates
        BY <2>1, TakenEligible DEF Rounds!Eligible
      <4> HIDE DEF chosen
      <4>2. chosen \in SUBSET Candidates
        BY <4>1
      <4>3. Cardinality(chosen) <= Cardinality(Candidates)
        BY <4>2, ConclusionsAssumption, FS_Subset
      <4>4. Cardinality(Candidates) \in Nat
        BY ConclusionsAssumption, FS_CardinalityType
      <4>5. Len(selected) \in Nat
        BY <2>1
      <4> QED BY <4>3, <4>4, <4>5, <2>1, SameCardinality
    <3>2. selected \in [1 .. Len(selected) -> Candidates]
      BY <2>1
    <3>3. \A i, j \in 1 .. Len(selected) : i < j => selected[i] # selected[j]
      <4>1. SUFFICES ASSUME NEW i \in 1 .. Len(selected), NEW j \in 1 .. Len(selected), i < j
                     PROVE  selected[i] # selected[j]
        OBVIOUS
      <4>2. selected[j] \notin Rounds!Taken(selected, j - 1)
        BY <2>1 DEF ChosenInTurn, Rounds!NextChoice
      <4>3. i \in 1 .. (j - 1)
        BY <4>1, <2>1
      <4> QED BY <4>2, <4>3 DEF Rounds!Taken
    <3>4. \A i, j \in 1 .. Len(selected) : selected[i] = selected[j] => i = j
      <4>1. \A i, j \in 1 .. Len(selected) : i = j \/ i < j \/ j < i
        BY <2>1
      <4> QED BY <4>1, <3>3
    <3>5. DOMAIN selected = 1 .. Len(selected)
      BY <2>1
    <3> QED BY <3>1, <3>2, <3>4, <3>5 DEF Rounds!CandidateSeqs
  <2>4. ASSUME NEW s \in Rounds!CandidateSeqs, Rounds!IsSelection(assessments, s)
        PROVE  s = selected
    <3>1. PICK n \in 0 .. Rounds!Cardinality(Candidates) : s \in [1 .. n -> Candidates]
      BY DEF Rounds!CandidateSeqs
    <3>2. n \in Nat
      BY <3>1, SameCardinality, ConclusionsAssumption, FS_CardinalityType
    <3>3. s \in Seq(Candidates)
      BY <3>1, <3>2
    <3>4. Len(s) <= Len(selected) /\ Len(selected) <= Len(s) /\ Len(s) \in Nat /\ Len(selected) \in Nat
      BY <3>3, <2>1, <2>2, <2>4, OneSelection
    <3>5. Len(s) = Len(selected)
      BY <3>4
    <3> QED BY <3>3, <3>5, <2>1, <2>2, <2>4, OneSelection
  <2> QED BY <2>2, <2>3, <2>4
<1> QED BY <1>2, <1>3 DEF Rounds!SelectsRightly, Rounds!ComputesSelection

-----------------------------------------------------------------------------
(* The evaluation of a corpus.                                             *)

(* The answer was made of the corpus in it. *)
EvaluationInv ==
  stage = "EVALUATED" =>
    \E corpus \in Corpora :
      answer = [corpus |-> corpus, public |-> Corpus!EvaluatePublic(corpus, Policy, Policy.digest),
                holdout |-> Corpus!EvaluateHoldout(corpus, Policy, Policy.digest)]

LEMMA CorpusCardinality == \A S : Corpus!Cardinality(S) = Cardinality(S)
BY DEF Corpus!Cardinality, Cardinality

(* A finite set has as many values of a field as elements only if no two   *)
(* elements share one.                                                     *)
LEMMA UniqueByInjective ==
  ASSUME NEW S, IsFiniteSet(S), NEW field, Corpus!UniqueBy(S, field)
  PROVE  \A x, y \in S : x[field] = y[field] => x = y
<1> DEFINE f == [x \in S |-> x[field]]
           T == {x[field] : x \in S}
<1>1. f \in Surjection(S, T)
  BY DEF Surjection
<1>2. Cardinality(T) = Cardinality(S)
  BY CorpusCardinality DEF Corpus!UniqueBy
<1>3. f \in Injection(S, T)
  <2> HIDE DEF f, T
  <2> QED BY <1>1, <1>2, FS_Surjection
<1> QED BY <1>3 DEF Injection, IsInjective

(* What the rails of a provenance establish. *)
LEMMA RailsHold ==
  ASSUME NEW c, NEW p, NEW policy, NEW pin,
         Corpus!AllTrue(Corpus!ProvenanceRails(c, p, policy, pin))
  PROVE  LET registered == {s \in policy.sources : s.sourceId = p.source.sourceId}
         IN  /\ p.caseDigest = Corpus!Sha256(c)
             /\ p.source.sourceId = c.sourceId
             /\ \E s \in registered : Corpus!MayAuthor(policy, p.author.keyId, s)
             /\ \E s \in registered : Corpus!MayReview(policy, p.reviewer.keyId, s)
             /\ Corpus!PrincipalsDistinct(policy, p.author.keyId, p.reviewer.keyId)
             /\ Corpus!SignatureValid(policy, p.author.keyId, Corpus!ProvenanceProjection(p),
                                      p.author.signature)
             /\ Corpus!SignatureValid(policy, p.reviewer.keyId, Corpus!ProvenanceProjection(p),
                                      p.reviewer.signature)
<1> DEFINE rails == Corpus!ProvenanceRails(c, p, policy, pin)
<1>1. /\ "canonicalCaseDigestValid" \in DOMAIN rails /\ "sourceBindingValid" \in DOMAIN rails
      /\ "authorTrusted" \in DOMAIN rails /\ "reviewerTrusted" \in DOMAIN rails
      /\ "principalsDistinct" \in DOMAIN rails
      /\ "authorSignatureValid" \in DOMAIN rails /\ "reviewerSignatureValid" \in DOMAIN rails
  BY DEF Corpus!ProvenanceRails
<1>2. /\ rails["canonicalCaseDigestValid"] /\ rails["sourceBindingValid"]
      /\ rails["authorTrusted"] /\ rails["reviewerTrusted"] /\ rails["principalsDistinct"]
      /\ rails["authorSignatureValid"] /\ rails["reviewerSignatureValid"]
  <2> HIDE DEF rails
  <2>1. Corpus!AllTrue(rails)
    BY DEF rails
  <2> QED BY <1>1, <2>1 DEF Corpus!AllTrue
<1> QED BY <1>2 DEF Corpus!ProvenanceRails

(* A case that loads is vouched for by two people of its source. *)
LEMMA LoadedIsVouched ==
  ASSUME NEW split, NEW f \in Corpus!Cases(split),
         Corpus!PolicyParses(Policy), Corpus!CaseLoads(split, f, Policy, Policy.digest)
  PROVE  \E sidecar \in {g \in split : g.kind = "provenance"} :
           /\ sidecar.name = f.name
           /\ sidecar.document.author.signature.bytes.caseDigest = Corpus!Sha256(f.document)
           /\ sidecar.document.reviewer.signature.bytes.caseDigest = Corpus!Sha256(f.document)
           /\ \E s \in Policy.sources,
                 k, l \in Policy.keys :
                 /\ k.key = sidecar.document.author.signature.key
                 /\ l.key = sidecar.document.reviewer.signature.key
                 /\ s.sourceId = f.document.sourceId
                 /\ k.subject \in s.authors /\ l.subject \in s.reviewers /\ k.subject # l.subject
<1>1. PICK sidecar \in Corpus!Sidecars(split, f.name) :
        Corpus!AllTrue(Corpus!ProvenanceRails(f.document, sidecar.document, Policy, Policy.digest))
  BY DEF Corpus!CaseLoads
<1>2. /\ sidecar \in {g \in split : g.kind = "provenance"} /\ sidecar.name = f.name
  BY DEF Corpus!Sidecars
<1> DEFINE p == sidecar.document
           bytes == Corpus!ProvenanceProjection(p)
<1>3. /\ p.caseDigest = Corpus!Sha256(f.document) /\ p.source.sourceId = f.document.sourceId
      /\ \E s \in Policy.sources : s.sourceId = p.source.sourceId /\ Corpus!MayAuthor(Policy, p.author.keyId, s)
      /\ \E s \in Policy.sources : s.sourceId = p.source.sourceId /\ Corpus!MayReview(Policy, p.reviewer.keyId, s)
      /\ Corpus!PrincipalsDistinct(Policy, p.author.keyId, p.reviewer.keyId)
      /\ Corpus!SignatureValid(Policy, p.author.keyId, bytes, p.author.signature)
      /\ Corpus!SignatureValid(Policy, p.reviewer.keyId, bytes, p.reviewer.signature)
  BY <1>1, RailsHold
<1>4. bytes.caseDigest = p.caseDigest
  BY DEF Corpus!ProvenanceProjection
<1>5. /\ \A k, l \in Policy.keys : k.keyId = l.keyId => k = l
      /\ \A s, t \in Policy.sources : s.sourceId = t.sourceId => s = t
  <2>1. Corpus!UniqueBy(Policy.keys, "keyId") /\ Corpus!UniqueBy(Policy.sources, "sourceId")
    BY DEF Corpus!PolicyParses
  <2>2. IsFiniteSet(Policy.keys) /\ IsFiniteSet(Policy.sources)
    BY ConclusionsAssumption
  <2>3. \A k, l \in Policy.keys : k["keyId"] = l["keyId"] => k = l
    BY <2>1, <2>2, UniqueByInjective
  <2>4. \A s, t \in Policy.sources : s["sourceId"] = t["sourceId"] => s = t
    BY <2>1, <2>2, UniqueByInjective
  <2> QED BY <2>3, <2>4
<1> HIDE DEF p, bytes
<1>6. PICK k \in Policy.keys :
        k.keyId = p.author.keyId /\ p.author.signature = Corpus!Signed(k.key, bytes)
  BY <1>3 DEF Corpus!SignatureValid, Corpus!TrustedKeys
<1>7. PICK l \in Policy.keys :
        l.keyId = p.reviewer.keyId /\ p.reviewer.signature = Corpus!Signed(l.key, bytes)
  BY <1>3 DEF Corpus!SignatureValid, Corpus!TrustedKeys
<1>8. PICK s \in Policy.sources :
        s.sourceId = p.source.sourceId /\ Corpus!MayAuthor(Policy, p.author.keyId, s)
  BY <1>3
<1>9. k.subject \in s.authors
  BY <1>5, <1>6, <1>8 DEF Corpus!MayAuthor, Corpus!TrustedKeys
<1>10. l.subject \in s.reviewers
  BY <1>3, <1>5, <1>7, <1>8 DEF Corpus!MayReview, Corpus!TrustedKeys
<1>11. k.subject # l.subject
  BY <1>3, <1>5, <1>6, <1>7 DEF Corpus!PrincipalsDistinct, Corpus!TrustedKeys
<1>12. /\ p.author.signature.bytes.caseDigest = Corpus!Sha256(f.document)
       /\ p.reviewer.signature.bytes.caseDigest = Corpus!Sha256(f.document)
       /\ p.author.signature.key = k.key /\ p.reviewer.signature.key = l.key
  BY <1>3, <1>4, <1>6, <1>7 DEF Corpus!Signed
<1> QED BY <1>2, <1>3, <1>8, <1>9, <1>10, <1>11, <1>12 DEF p

(* Every case of a split that loads is a document of its own. *)
LEMMA EachADocument ==
  ASSUME NEW split, IsFiniteSet(split), Corpus!SplitLoads(split, Policy, Policy.digest)
  PROVE  /\ IsFiniteSet(Corpus!Documents(split))
         /\ Cardinality(Corpus!Documents(split)) = Cardinality(Corpus!Cases(split))
<1> DEFINE cases == Corpus!Cases(split)
           f == [x \in cases |-> x.document]
<1>1. IsFiniteSet(cases)
  <2>1. cases \in SUBSET split
    BY DEF Corpus!Cases
  <2> QED BY <2>1, FS_Subset
<1>2. f \in Surjection(cases, Corpus!Documents(split))
  BY DEF Surjection, Corpus!Documents
<1>3. f \in Injection(cases, Corpus!Documents(split))
  <2>1. ASSUME NEW x \in cases, NEW y \in cases, x.document = y.document PROVE x = y
    <3>1. /\ Corpus!PortableKey(x.name) = Corpus!PortableKey(x.document.caseId)
          /\ Corpus!PortableKey(y.name) = Corpus!PortableKey(y.document.caseId)
      BY DEF Corpus!SplitLoads, Corpus!CaseLoads
    <3>2. x \in split /\ y \in split /\ x.kind = "case" /\ y.kind = "case"
      BY DEF Corpus!Cases
    <3> QED BY <2>1, <3>1, <3>2 DEF Corpus!SplitLoads, Corpus!NoCollision
  <2> QED BY <2>1, <1>2 DEF Injection, IsInjective, Surjection
<1> HIDE DEF cases, f
<1>4. IsFiniteSet(Corpus!Documents(split))
  BY <1>1, <1>2, FS_Surjection
<1>5. Cardinality(Corpus!Documents(split)) = Cardinality(cases)
  BY <1>1, <1>2, <1>3, FS_Surjection
<1> QED BY <1>4, <1>5 DEF cases

(* Three sets that share nothing are counted one by one. *)
LEMMA CountedApart ==
  ASSUME NEW A, NEW B, NEW C, IsFiniteSet(A), IsFiniteSet(B), IsFiniteSet(C),
         A \cap B = {}, (A \cup B) \cap C = {}
  PROVE  Cardinality(A) + Cardinality(B) + Cardinality(C) = Cardinality(A \cup B \cup C)
<1>1. IsFiniteSet(A \cup B) /\ Cardinality(A \cup B) = Cardinality(A) + Cardinality(B) - Cardinality({})
  BY FS_Union
<1>2. Cardinality((A \cup B) \cup C) = Cardinality(A \cup B) + Cardinality(C) - Cardinality({})
  BY <1>1, FS_Union
<1>3. /\ Cardinality({}) = 0 /\ Cardinality(A) \in Nat /\ Cardinality(B) \in Nat
      /\ Cardinality(C) \in Nat
  BY FS_EmptySet, FS_CardinalityType
<1> QED BY <1>1, <1>2, <1>3

(* Every case has one outcome for each hypothesis. *)
LEMMA OneOutcome ==
  ASSUME NEW c, NEW h \in Corpus!Hypotheses
  PROVE  Corpus!EvaluateCase(c)[h] \in {"SUPPORT", "OPPOSITION", "INSUFFICIENT"}
<1>1. /\ Corpus!EvaluateH1(c) \in {"SUPPORT", "OPPOSITION", "INSUFFICIENT"}
      /\ Corpus!EvaluateH2(c) \in {"SUPPORT", "OPPOSITION", "INSUFFICIENT"}
      /\ Corpus!EvaluateH3(c) \in {"SUPPORT", "OPPOSITION", "INSUFFICIENT"}
      /\ Corpus!EvaluateH4(c) \in {"SUPPORT", "OPPOSITION", "INSUFFICIENT"}
  <2>1. Corpus!EvaluateH1(c) \in {"SUPPORT", "OPPOSITION", "INSUFFICIENT"}
    BY DEF Corpus!EvaluateH1
  <2>2. Corpus!EvaluateH2(c) \in {"SUPPORT", "OPPOSITION", "INSUFFICIENT"}
    BY DEF Corpus!EvaluateH2
  <2>3. Corpus!EvaluateH3(c) \in {"SUPPORT", "OPPOSITION", "INSUFFICIENT"}
    BY DEF Corpus!EvaluateH3
  <2>4. Corpus!EvaluateH4(c) \in {"SUPPORT", "OPPOSITION", "INSUFFICIENT"}
    BY DEF Corpus!EvaluateH4
  <2> QED BY <2>1, <2>2, <2>3, <2>4
<1> QED BY <1>1 DEF Corpus!EvaluateCase, Corpus!Hypotheses

(* The counts of an aggregate are those of its cases. *)
LEMMA AggregateCounts ==
  ASSUME NEW cases, IsFiniteSet(cases), NEW h \in Corpus!Hypotheses
  PROVE  Corpus!Aggregate(cases)[h]["SUPPORT"] + Corpus!Aggregate(cases)[h]["OPPOSITION"]
           + Corpus!Aggregate(cases)[h]["INSUFFICIENT"] = Cardinality(cases)
<1> DEFINE Of(o) == {c \in cases : Corpus!EvaluateCase(c)[h] = o}
<1>1. \A o : IsFiniteSet(Of(o))
  <2> SUFFICES ASSUME NEW o PROVE IsFiniteSet(Of(o))
    OBVIOUS
  <2>1. Of(o) \in SUBSET cases
    OBVIOUS
  <2> HIDE DEF Of
  <2> QED BY <2>1, FS_Subset
<1>2. /\ Of("SUPPORT") \cap Of("OPPOSITION") = {}
      /\ (Of("SUPPORT") \cup Of("OPPOSITION")) \cap Of("INSUFFICIENT") = {}
  OBVIOUS
<1>3. Of("SUPPORT") \cup Of("OPPOSITION") \cup Of("INSUFFICIENT") = cases
  BY OneOutcome
<1>4. /\ Corpus!Aggregate(cases)[h]["SUPPORT"] = Cardinality(Of("SUPPORT"))
      /\ Corpus!Aggregate(cases)[h]["OPPOSITION"] = Cardinality(Of("OPPOSITION"))
      /\ Corpus!Aggregate(cases)[h]["INSUFFICIENT"] = Cardinality(Of("INSUFFICIENT"))
  BY CorpusCardinality DEF Corpus!Aggregate
<1> HIDE DEF Of
<1> QED BY <1>1, <1>2, <1>3, <1>4, CountedApart

(* A corpus that fails no gate has a conclusive case for every hypothesis. *)
LEMMA Conclusive ==
  ASSUME NEW corpus, Corpus!FailedGates(corpus) = {}, NEW h \in Corpus!Hypotheses
  PROVE  \E c \in Corpus!Documents(corpus.public) \cup Corpus!Documents(corpus.private) :
           Corpus!EvaluateCase(c)[h] # "INSUFFICIENT"
<1> DEFINE all == Corpus!Documents(corpus.public) \cup Corpus!Documents(corpus.private)
<1>1. UNION {Corpus!Gate(~\E c \in all : Corpus!IsEvaluable(c, x), x) : x \in Corpus!Hypotheses} = {}
  BY DEF Corpus!FailedGates
<1>2. Corpus!Gate(~\E c \in all : Corpus!IsEvaluable(c, h), h) = {}
  BY <1>1
<1>3. PICK c \in all : Corpus!IsEvaluable(c, h)
  BY <1>2 DEF Corpus!Gate
<1>4. Corpus!EvaluateCase(c)[h] # "INSUFFICIENT"
  <2>1. h \in {"H1", "H2", "H3", "H4"}
    BY DEF Corpus!Hypotheses
  <2>2. CASE h = "H1"
    <3>1. Corpus!EvaluateCase(c)[h] = Corpus!EvaluateH1(c)
      BY <2>2 DEF Corpus!EvaluateCase
    <3> QED BY <3>1, <2>2, <1>3 DEF Corpus!EvaluateH1, Corpus!IsEvaluable
  <2>3. CASE h = "H2"
    <3>1. Corpus!EvaluateCase(c)[h] = Corpus!EvaluateH2(c)
      BY <2>3 DEF Corpus!EvaluateCase
    <3> QED BY <3>1, <2>3, <1>3 DEF Corpus!EvaluateH2, Corpus!IsEvaluable
  <2>4. CASE h = "H3"
    <3>1. Corpus!EvaluateCase(c)[h] = Corpus!EvaluateH3(c)
      BY <2>4 DEF Corpus!EvaluateCase
    <3> QED BY <3>1, <2>4, <1>3 DEF Corpus!EvaluateH3, Corpus!IsEvaluable
  <2>5. CASE h = "H4"
    <3>1. Corpus!EvaluateCase(c)[h] = Corpus!EvaluateH4(c)
      BY <2>5 DEF Corpus!EvaluateCase
    <3> QED BY <3>1, <2>5, <1>3 DEF Corpus!EvaluateH4, Corpus!IsEvaluable
  <2> QED BY <2>1, <2>2, <2>3, <2>4, <2>5
<1> QED BY <1>3, <1>4

LEMMA EvaluationStart == Corpus!Init => EvaluationInv
BY DEF Corpus!Init, EvaluationInv

LEMMA EvaluationStep == EvaluationInv /\ [Corpus!Next]_corpusVars => EvaluationInv'
<1> SUFFICES ASSUME EvaluationInv, [Corpus!Next]_corpusVars PROVE EvaluationInv'
  OBVIOUS
<1>1. CASE Corpus!Evaluate
  <2>1. PICK corpus \in Corpora :
          answer' = [corpus |-> corpus,
                     public |-> Corpus!EvaluatePublic(corpus, Policy, Policy.digest),
                     holdout |-> Corpus!EvaluateHoldout(corpus, Policy, Policy.digest)]
    BY <1>1 DEF Corpus!Evaluate
  <2> QED BY <2>1 DEF EvaluationInv
<1>2. CASE Corpus!Commit
  BY <1>2 DEF EvaluationInv, Corpus!Commit
<1>3. CASE Corpus!RevealAndAllocate
  BY <1>3 DEF EvaluationInv, Corpus!RevealAndAllocate
<1>4. CASE Corpus!Declare
  BY <1>4 DEF EvaluationInv, Corpus!Declare
<1>5. CASE Corpus!Execute
  BY <1>5 DEF EvaluationInv, Corpus!Execute
<1>6. CASE Corpus!Mishap
  BY <1>6 DEF EvaluationInv, Corpus!Mishap
<1>7. CASE Corpus!Replay
  BY <1>7 DEF EvaluationInv, Corpus!Replay
<1>8. CASE UNCHANGED corpusVars
  BY <1>8 DEF EvaluationInv, corpusVars
<1> QED BY <1>1, <1>2, <1>3, <1>4, <1>5, <1>6, <1>7, <1>8 DEF Corpus!Next

LEMMA EvaluationHolds == EvaluationInv => Corpus!EvaluatedIsVouched
<1> SUFFICES ASSUME EvaluationInv, stage = "EVALUATED", answer.public.status = "EVALUATED"
             PROVE  Corpus!EvaluatedIsVouched
  BY DEF Corpus!EvaluatedIsVouched
<1>1. PICK corpus \in Corpora :
        answer = [corpus |-> corpus, public |-> Corpus!EvaluatePublic(corpus, Policy, Policy.digest),
                  holdout |-> Corpus!EvaluateHoldout(corpus, Policy, Policy.digest)]
  BY DEF EvaluationInv
<1>2. /\ answer.corpus = corpus
      /\ answer.public = Corpus!EvaluatePublic(corpus, Policy, Policy.digest)
      /\ answer.holdout = Corpus!EvaluateHoldout(corpus, Policy, Policy.digest)
  BY <1>1
<1>3. /\ Corpus!CorpusLoads(corpus, Policy, Policy.digest)
      /\ Corpus!FailedGates(corpus) = {}
  <2>1. Corpus!EvaluatePublic(corpus, Policy, Policy.digest).status = "EVALUATED"
    BY <1>2
  <2> QED BY <2>1 DEF Corpus!EvaluatePublic
<1>4. /\ answer.public.hypotheses = Corpus!Aggregate(Corpus!Documents(corpus.public))
      /\ answer.holdout.status = "EVALUATED"
      /\ answer.holdout.hypotheses = Corpus!Aggregate(Corpus!Documents(corpus.private))
  BY <1>2, <1>3 DEF Corpus!EvaluatePublic, Corpus!EvaluateHoldout
<1>5. /\ Corpus!PolicyParses(Policy)
      /\ Corpus!SplitLoads(corpus.public, Policy, Policy.digest)
      /\ Corpus!SplitLoads(corpus.private, Policy, Policy.digest)
      /\ IsFiniteSet(corpus.public) /\ IsFiniteSet(corpus.private)
  BY <1>3, ConclusionsAssumption DEF Corpus!CorpusLoads
<1> DEFINE subjectOf(signature) == {k.subject : k \in {x \in Policy.keys : x.key = signature.key}}
           vouches(sidecar, c) ==
             /\ sidecar.name = c.name
             /\ sidecar.document.author.signature.bytes.caseDigest = Corpus!Sha256(c.document)
             /\ sidecar.document.reviewer.signature.bytes.caseDigest = Corpus!Sha256(c.document)
             /\ \E s \in Policy.sources,
                   x \in subjectOf(sidecar.document.author.signature),
                   y \in subjectOf(sidecar.document.reviewer.signature) :
                   /\ s.sourceId = c.document.sourceId
                   /\ x \in s.authors /\ y \in s.reviewers /\ x # y
<1>6. ASSUME NEW split \in {corpus.public, corpus.private}, NEW c \in Corpus!Cases(split)
      PROVE  \E sidecar \in {f \in split : f.kind = "provenance"} : vouches(sidecar, c)
  <2>1. Corpus!CaseLoads(split, c, Policy, Policy.digest)
    BY <1>5 DEF Corpus!SplitLoads
  <2>2. PICK sidecar \in {g \in split : g.kind = "provenance"} :
          /\ sidecar.name = c.name
          /\ sidecar.document.author.signature.bytes.caseDigest = Corpus!Sha256(c.document)
          /\ sidecar.document.reviewer.signature.bytes.caseDigest = Corpus!Sha256(c.document)
          /\ \E s \in Policy.sources,
                k, l \in Policy.keys :
                /\ k.key = sidecar.document.author.signature.key
                /\ l.key = sidecar.document.reviewer.signature.key
                /\ s.sourceId = c.document.sourceId
                /\ k.subject \in s.authors /\ l.subject \in s.reviewers /\ k.subject # l.subject
    BY <2>1, <1>5, LoadedIsVouched
  <2>3. PICK s \in Policy.sources, k \in Policy.keys, l \in Policy.keys :
          /\ k.key = sidecar.document.author.signature.key
          /\ l.key = sidecar.document.reviewer.signature.key
          /\ s.sourceId = c.document.sourceId
          /\ k.subject \in s.authors /\ l.subject \in s.reviewers /\ k.subject # l.subject
    BY <2>2
  <2>4. /\ k.subject \in subjectOf(sidecar.document.author.signature)
        /\ l.subject \in subjectOf(sidecar.document.reviewer.signature)
    BY <2>3
  <2> HIDE DEF subjectOf
  <2>5. vouches(sidecar, c)
    BY <2>2, <2>3, <2>4
  <2> QED BY <2>5
<1>7. ASSUME NEW h \in Corpus!Hypotheses
      PROVE  /\ answer.public.hypotheses[h]["SUPPORT"] + answer.public.hypotheses[h]["OPPOSITION"]
                   + answer.public.hypotheses[h]["INSUFFICIENT"]
                 = Corpus!Cardinality(Corpus!Cases(corpus.public))
             /\ answer.holdout.hypotheses[h]["SUPPORT"] + answer.holdout.hypotheses[h]["OPPOSITION"]
                   + answer.holdout.hypotheses[h]["INSUFFICIENT"]
                 = Corpus!Cardinality(Corpus!Cases(corpus.private))
             /\ \E c \in Corpus!Documents(corpus.public) \cup Corpus!Documents(corpus.private) :
                  Corpus!EvaluateCase(c)[h] # "INSUFFICIENT"
  <2>1. /\ IsFiniteSet(Corpus!Documents(corpus.public))
        /\ Cardinality(Corpus!Documents(corpus.public)) = Cardinality(Corpus!Cases(corpus.public))
    BY <1>5, EachADocument
  <2>2. /\ IsFiniteSet(Corpus!Documents(corpus.private))
        /\ Cardinality(Corpus!Documents(corpus.private)) = Cardinality(Corpus!Cases(corpus.private))
    BY <1>5, EachADocument
  <2>3. /\ Corpus!Cardinality(Corpus!Cases(corpus.public)) = Cardinality(Corpus!Cases(corpus.public))
        /\ Corpus!Cardinality(Corpus!Cases(corpus.private)) = Cardinality(Corpus!Cases(corpus.private))
    BY CorpusCardinality
  <2>4. answer.public.hypotheses[h]["SUPPORT"] + answer.public.hypotheses[h]["OPPOSITION"]
          + answer.public.hypotheses[h]["INSUFFICIENT"] = Cardinality(Corpus!Documents(corpus.public))
    BY <1>4, <2>1, AggregateCounts
  <2>5. answer.holdout.hypotheses[h]["SUPPORT"] + answer.holdout.hypotheses[h]["OPPOSITION"]
          + answer.holdout.hypotheses[h]["INSUFFICIENT"] = Cardinality(Corpus!Documents(corpus.private))
    BY <1>4, <2>2, AggregateCounts
  <2> QED BY <1>3, <2>1, <2>2, <2>3, <2>4, <2>5, Conclusive
<1> QED BY <1>2, <1>4, <1>6, <1>7 DEF Corpus!EvaluatedIsVouched

-----------------------------------------------------------------------------
(* The admission of an executable.                                         *)

(* What the requested executable is: the one that runs when it is started. *)
Asked == Runtime!Started("requested")

LEMMA RunsTwice ==
  /\ Runtime!Runs(Runtime!Runs("requested")) = Runtime!Runs("requested")
  /\ Runtime!Started(Runtime!Runs("requested")) = Asked
  /\ contents[Runtime!Runs("requested")] = Asked
BY DEF Runtime!Runs, Runtime!Started, Asked

(* A supported executable is there. *)
LEMMA SupportedIsThere ==
  ASSUME NEW b, Runtime!Supported(b)
  PROVE  b # Runtime!Missing
BY DEF Runtime!Supported, Runtime!Missing

(* What a probe is called, and what is expected of it. *)
Asks(p, name, outcome) ==
  /\ p.name = name /\ p.outcome = outcome
  /\ outcome = "ASSERTION_FAILURE" => p.attributed

LEMMA ExpectAsks ==
  \A name, outcome, tests, candidates : Asks(Runtime!Expect(name, outcome, tests, candidates), name, outcome)
BY DEF Runtime!Expect, Asks

LEMMA BesideAsks ==
  \A name, outcome, candidates : Asks(Runtime!Beside(name, outcome, candidates), name, outcome)
BY ExpectAsks DEF Runtime!Beside

LEMMA RunAsks == \A name, outcome : Asks(Runtime!Run(name, outcome), name, outcome)
<1> SUFFICES ASSUME NEW name, NEW outcome PROVE Asks(Runtime!Run(name, outcome), name, outcome)
  OBVIOUS
<1>1. Runtime!Run(name, outcome).name = name /\ Runtime!Run(name, outcome).outcome = outcome
  BY DEF Runtime!Run, Runtime!Expect
<1>2. outcome = "ASSERTION_FAILURE" => Runtime!Run(name, outcome).attributed
  BY DEF Runtime!Run, Runtime!Expect
<1> QED BY <1>1, <1>2 DEF Asks

(* The probes whose expected outcome is a failed assertion. *)
Asserting(probes) ==
  {n \in 1 .. Len(probes) : probes[n].outcome = "ASSERTION_FAILURE" /\ probes[n].attributed}

(* The genuine ones, of each adapter. *)
LEMMA NodeAsserts ==
  {Runtime!NodeProbes[n].name : n \in Asserting(Runtime!NodeProbes)} = {"assertion"}
<1> DEFINE P == Runtime!NodeProbes
<1>1. /\ Len(P) = 2
      /\ P[1] = Runtime!Beside("assertion", "ASSERTION_FAILURE", 1)
      /\ P[2] = Runtime!Beside("generic-throw", "PROCESS_CRASH", 1)
  BY DEF Runtime!NodeProbes
<1> HIDE DEF P
<1>2. Asks(P[1], "assertion", "ASSERTION_FAILURE") /\ Asks(P[2], "generic-throw", "PROCESS_CRASH")
  BY <1>1, BesideAsks
<1>3. /\ P[1].name = "assertion"
      /\ Asserting(P) = {1}
  BY <1>1, <1>2 DEF Asserting, Asks
<1> QED BY <1>3 DEF P

LEMMA BunAsserts ==
  {Runtime!BunProbes[n].name : n \in Asserting(Runtime!BunProbes)} = {"assertion", "multi-assertion-rows"}
<1> DEFINE P == Runtime!BunProbes
<1>1. /\ Len(P) = 10
      /\ P[1] = Runtime!Beside("assertion", "ASSERTION_FAILURE", 1)
      /\ P[2] = Runtime!Beside("generic-throw", "PROCESS_CRASH", 1)
      /\ P[3] = Runtime!Beside("caught-assertion", "PROCESS_CRASH", 1)
      /\ P[4] = Runtime!Beside("replayed-assertion", "PROCESS_CRASH", 1)
      /\ P[5] = Runtime!Beside("replayed-row", "PROCESS_CRASH", 2)
      /\ P[6] = Runtime!Beside("async-cross-test", "PROCESS_CRASH", 2)
      /\ P[7] = Runtime!Beside("multi-assertion-rows", "ASSERTION_FAILURE", 2)
      /\ P[8] = Runtime!Beside("operand-throw", "PROCESS_CRASH", 1)
      /\ P[9] = Runtime!Beside("native-expect", "PROCESS_CRASH", 1)
      /\ P[10] = Runtime!Beside("hook-failure", "INFRA_ERROR", 0)
  BY DEF Runtime!BunProbes
<1> HIDE DEF P
<1>2. /\ Asks(P[1], "assertion", "ASSERTION_FAILURE") /\ Asks(P[2], "generic-throw", "PROCESS_CRASH")
      /\ Asks(P[3], "caught-assertion", "PROCESS_CRASH") /\ Asks(P[4], "replayed-assertion", "PROCESS_CRASH")
      /\ Asks(P[5], "replayed-row", "PROCESS_CRASH") /\ Asks(P[6], "async-cross-test", "PROCESS_CRASH")
      /\ Asks(P[7], "multi-assertion-rows", "ASSERTION_FAILURE")
      /\ Asks(P[8], "operand-throw", "PROCESS_CRASH") /\ Asks(P[9], "native-expect", "PROCESS_CRASH")
      /\ Asks(P[10], "hook-failure", "INFRA_ERROR")
  BY <1>1, BesideAsks
<1>3. /\ P[1].name = "assertion" /\ P[7].name = "multi-assertion-rows"
      /\ \A n \in 1 .. 10 :
           P[n].outcome = "ASSERTION_FAILURE" /\ P[n].attributed <=> n \in {1, 7}
  BY <1>2 DEF Asks
<1>4. Asserting(P) = {1, 7}
  BY <1>1, <1>3 DEF Asserting
<1> QED BY <1>3, <1>4 DEF P

LEMMA DesignatedAsserts ==
  {Runtime!DesignatedProbes[n].name : n \in Asserting(Runtime!DesignatedProbes)} =
    {"expect-assertion", "expected-line", "assert-same", "async-matcher", "trusted-matcher",
     "isolated-run"}
<1> DEFINE P == Runtime!DesignatedProbes
<1>1. /\ Len(P) = 23
      /\ P[1] = Runtime!Run("expect-assertion", "ASSERTION_FAILURE")
      /\ P[2] = Runtime!Run("expected-line", "ASSERTION_FAILURE")
      /\ P[3] = Runtime!Run("other-line", "PROCESS_CRASH")
      /\ P[4] = Runtime!Run("assert-same", "ASSERTION_FAILURE")
      /\ P[5] = Runtime!Run("async-matcher", "ASSERTION_FAILURE")
      /\ P[6] = Runtime!Run("forged-message", "PROCESS_CRASH")
      /\ P[7] = Runtime!Run("caught-expect", "PROCESS_CRASH")
      /\ P[8] = Runtime!Run("replayed-expect", "PROCESS_CRASH")
      /\ P[9] = Runtime!Run("matcher-usage", "PROCESS_CRASH")
      /\ P[10] = Runtime!Run("custom-matcher", "PROCESS_CRASH")
      /\ P[11] = Runtime!Run("replaced-built-in", "PROCESS_CRASH")
      /\ P[12] = Runtime!Run("preload-replaced-built-in", "PROCESS_CRASH")
      /\ P[13] = Runtime!Run("preload-custom-matcher", "PROCESS_CRASH")
      /\ P[14] = Runtime!Run("trusted-matcher", "ASSERTION_FAILURE")
      /\ P[15] = Runtime!Run("trusted-matcher-other-name", "PROCESS_CRASH")
      /\ P[16] = Runtime!Run("passing", "PASS")
      /\ P[17] = Runtime!Run("absent", "NO_TEST_DISCOVERED")
      /\ P[18] = Runtime!Run("hook-failure", "INFRA_ERROR")
      /\ P[19] = Runtime!Run("late-after-timeout", "INFRA_ERROR")
      /\ P[20] = Runtime!Expect("load", "PASS", 2, 0)
      /\ P[21] = Runtime!Expect("load-failure", "INFRA_ERROR", 0, 0)
      /\ P[22] = Runtime!Expect("isolated-load", "PASS", 2, 0)
      /\ P[23] = Runtime!Run("isolated-run", "ASSERTION_FAILURE")
  BY DEF Runtime!DesignatedProbes
<1> HIDE DEF P
<1>2. /\ Asks(P[1], "expect-assertion", "ASSERTION_FAILURE")
      /\ Asks(P[2], "expected-line", "ASSERTION_FAILURE")
      /\ Asks(P[4], "assert-same", "ASSERTION_FAILURE")
      /\ Asks(P[5], "async-matcher", "ASSERTION_FAILURE")
      /\ Asks(P[14], "trusted-matcher", "ASSERTION_FAILURE")
      /\ Asks(P[23], "isolated-run", "ASSERTION_FAILURE")
  BY <1>1, RunAsks
<1>3. /\ Asks(P[3], "other-line", "PROCESS_CRASH") /\ Asks(P[6], "forged-message", "PROCESS_CRASH")
      /\ Asks(P[7], "caught-expect", "PROCESS_CRASH") /\ Asks(P[8], "replayed-expect", "PROCESS_CRASH")
      /\ Asks(P[9], "matcher-usage", "PROCESS_CRASH") /\ Asks(P[10], "custom-matcher", "PROCESS_CRASH")
      /\ Asks(P[11], "replaced-built-in", "PROCESS_CRASH")
      /\ Asks(P[12], "preload-replaced-built-in", "PROCESS_CRASH")
      /\ Asks(P[13], "preload-custom-matcher", "PROCESS_CRASH")
      /\ Asks(P[15], "trusted-matcher-other-name", "PROCESS_CRASH") /\ Asks(P[16], "passing", "PASS")
      /\ Asks(P[17], "absent", "NO_TEST_DISCOVERED") /\ Asks(P[18], "hook-failure", "INFRA_ERROR")
      /\ Asks(P[19], "late-after-timeout", "INFRA_ERROR")
  BY <1>1, RunAsks
<1>4. /\ Asks(P[20], "load", "PASS") /\ Asks(P[21], "load-failure", "INFRA_ERROR")
      /\ Asks(P[22], "isolated-load", "PASS")
  BY <1>1, ExpectAsks
<1>5. /\ P[1].name = "expect-assertion" /\ P[2].name = "expected-line" /\ P[4].name = "assert-same"
      /\ P[5].name = "async-matcher" /\ P[14].name = "trusted-matcher" /\ P[23].name = "isolated-run"
  BY <1>2 DEF Asks
<1>6. \A n \in {1, 2, 4, 5, 14, 23} : P[n].outcome = "ASSERTION_FAILURE" /\ P[n].attributed
  BY <1>2 DEF Asks
<1>7. \A n \in 1 .. 23 : n \notin {1, 2, 4, 5, 14, 23} => P[n].outcome # "ASSERTION_FAILURE"
  <2>1. \A n \in {3, 6, 7, 8, 9, 10, 11, 12, 13, 15, 16, 17, 18, 19, 20, 21, 22} :
          P[n].outcome # "ASSERTION_FAILURE"
    BY <1>3, <1>4 DEF Asks
  <2> QED BY <2>1
<1>8. Asserting(P) = {1, 2, 4, 5, 14, 23}
  BY <1>1, <1>6, <1>7 DEF Asserting
<1> QED BY <1>5, <1>8 DEF P

-----------------------------------------------------------------------------
(* What a doctor's probe expects is none of what an odd build says. *)
Expected(p) ==
  \E name, outcome, attributed, tests, candidates :
    /\ p = [name |-> name, outcome |-> outcome, attributed |-> attributed,
            tests |-> tests, candidates |-> candidates]
    /\ outcome \notin {"TIMEOUT", "NONE"} /\ attributed \in BOOLEAN
    /\ tests \in Nat /\ candidates \in Nat

LEMMA BesideExpected ==
  ASSUME NEW name, NEW outcome, outcome \notin {"TIMEOUT", "NONE"}, NEW candidates \in Nat
  PROVE  Expected(Runtime!Beside(name, outcome, candidates))
<1>1. (IF candidates = 0 THEN 0 ELSE candidates + 1) \in Nat
  OBVIOUS
<1> QED BY <1>1 DEF Runtime!Beside, Runtime!Expect, Expected

(* A build answers a probe as expected exactly if it is not odd in it. *)
LEMMA OddDoesNotQualify ==
  ASSUME NEW b, NEW p, Expected(p)
  PROVE  Runtime!Qualifies(Runtime!Report(b, p), p) <=> b.odd # p.name
<1>1. PICK name, outcome, attributed, tests, candidates :
        /\ p = [name |-> name, outcome |-> outcome, attributed |-> attributed,
                tests |-> tests, candidates |-> candidates]
        /\ outcome \notin {"TIMEOUT", "NONE"} /\ attributed \in BOOLEAN
        /\ tests \in Nat /\ candidates \in Nat
  BY DEF Expected
<1>2. CASE b.odd # p.name
  BY <1>2 DEF Runtime!Report, Runtime!Qualifies
<1>3. CASE b.odd = p.name
  <2>1. CASE b.says = "outcome"
    BY <1>1, <1>3, <2>1 DEF Runtime!Report, Runtime!Qualifies
  <2>2. CASE b.says = "attribution"
    BY <1>1, <1>3, <2>2 DEF Runtime!Report, Runtime!Qualifies
  <2>3. CASE b.says = "tests"
    BY <1>1, <1>3, <2>3 DEF Runtime!Report, Runtime!Qualifies
  <2>4. CASE b.says = "candidates"
    BY <1>1, <1>3, <2>4 DEF Runtime!Report, Runtime!Qualifies
  <2>5. CASE b.says \notin {"outcome", "attribution", "tests", "candidates"}
    BY <1>1, <1>3, <2>5 DEF Runtime!Report, Runtime!Qualifies, Runtime!Expect
  <2> QED BY <2>1, <2>2, <2>3, <2>4, <2>5
<1> QED BY <1>2, <1>3

LEMMA DoctorExpects ==
  ASSUME asked.adapter \in {"node-test", "bun-test"},
         NEW n \in 1 .. Len(Runtime!Probes)
  PROVE  Expected(Runtime!Probes[n])
<1>1. CASE asked.adapter = "node-test"
  <2> DEFINE P == Runtime!NodeProbes
  <2>1. /\ Len(P) = 2
        /\ P[1] = Runtime!Beside("assertion", "ASSERTION_FAILURE", 1)
        /\ P[2] = Runtime!Beside("generic-throw", "PROCESS_CRASH", 1)
    BY DEF Runtime!NodeProbes
  <2> HIDE DEF P
  <2>2. Expected(P[1]) /\ Expected(P[2])
    BY <2>1, BesideExpected
  <2>3. Runtime!Probes = P
    BY <1>1 DEF Runtime!Probes, P
  <2>4. n \in 1 .. 2
    BY <2>1, <2>3, Zenon
  <2>5. n = 1 \/ n = 2
    BY <2>4
  <2> QED BY <2>2, <2>3, <2>5
<1>2. CASE asked.adapter = "bun-test"
  <2> DEFINE P == Runtime!BunProbes
  <2>1. /\ Len(P) = 10
        /\ P[1] = Runtime!Beside("assertion", "ASSERTION_FAILURE", 1)
        /\ P[2] = Runtime!Beside("generic-throw", "PROCESS_CRASH", 1)
        /\ P[3] = Runtime!Beside("caught-assertion", "PROCESS_CRASH", 1)
        /\ P[4] = Runtime!Beside("replayed-assertion", "PROCESS_CRASH", 1)
        /\ P[5] = Runtime!Beside("replayed-row", "PROCESS_CRASH", 2)
        /\ P[6] = Runtime!Beside("async-cross-test", "PROCESS_CRASH", 2)
        /\ P[7] = Runtime!Beside("multi-assertion-rows", "ASSERTION_FAILURE", 2)
        /\ P[8] = Runtime!Beside("operand-throw", "PROCESS_CRASH", 1)
        /\ P[9] = Runtime!Beside("native-expect", "PROCESS_CRASH", 1)
        /\ P[10] = Runtime!Beside("hook-failure", "INFRA_ERROR", 0)
    BY DEF Runtime!BunProbes
  <2> HIDE DEF P
  <2>2. /\ Expected(P[1]) /\ Expected(P[2]) /\ Expected(P[3]) /\ Expected(P[4]) /\ Expected(P[5])
        /\ Expected(P[6]) /\ Expected(P[7]) /\ Expected(P[8]) /\ Expected(P[9]) /\ Expected(P[10])
    BY <2>1, BesideExpected
  <2>3. Runtime!Probes = P
    BY <1>2 DEF Runtime!Probes, P
  <2>4. n \in 1 .. 10
    BY <2>1, <2>3, Zenon
  <2>5. n \in {1, 2, 3, 4, 5, 6, 7, 8, 9, 10}
    BY <2>4
  <2> QED BY <2>2, <2>3, <2>5
<1> QED BY <1>1, <1>2

(* What an executable is credited with that answers every probe as         *)
(* expected is a failed assertion each that is genuine.                    *)
LEMMA CreditsGenuine ==
  ASSUME asked.adapter \in {"node-test", "bun-test", "bun-test-designated"}, NEW b,
         \A n \in 1 .. Len(Runtime!Probes) :
           Runtime!Qualifies(Runtime!Report(b, Runtime!Probes[n]), Runtime!Probes[n])
  PROVE  Runtime!Credits(b) = Runtime!Genuine
<1> DEFINE P == Runtime!Probes
<1>1. \A n \in 1 .. Len(P) :
        /\ Runtime!Report(b, P[n]).outcome = P[n].outcome
        /\ Runtime!Report(b, P[n]).attributed = P[n].attributed
  BY DEF Runtime!Qualifies
<1>2. {m \in 1 .. Len(P) :
         LET r == Runtime!Report(b, P[m]) IN r.outcome = "ASSERTION_FAILURE" /\ r.attributed}
        = Asserting(P)
  BY <1>1, Zenon DEF Asserting
<1>3. Runtime!Credits(b) = {P[n].name : n \in Asserting(P)}
  BY <1>2, Zenon DEF Runtime!Credits
<1>4. {P[n].name : n \in Asserting(P)} = Runtime!Genuine
  <2>1. CASE asked.adapter = "node-test"
    <3>1. P = Runtime!NodeProbes /\ Runtime!Genuine = {"assertion"}
      BY <2>1 DEF Runtime!Probes, Runtime!Genuine
    <3> QED BY <3>1, NodeAsserts, Zenon
  <2>2. CASE asked.adapter = "bun-test"
    <3>1. P = Runtime!BunProbes /\ Runtime!Genuine = {"assertion", "multi-assertion-rows"}
      BY <2>2 DEF Runtime!Probes, Runtime!Genuine
    <3> QED BY <3>1, BunAsserts, Zenon
  <2>3. CASE asked.adapter = "bun-test-designated"
    <3>1. /\ P = Runtime!DesignatedProbes
          /\ Runtime!Genuine = {"expect-assertion", "expected-line", "assert-same", "async-matcher",
                                "trusted-matcher", "isolated-run"}
      BY <2>3 DEF Runtime!Probes, Runtime!Genuine
    <3> QED BY <3>1, DesignatedAsserts, Zenon
  <2> QED BY <2>1, <2>2, <2>3
<1> QED BY <1>3, <1>4

-----------------------------------------------------------------------------
(* Where the doctor, or the campaign, is. *)
DoctorAt ==
  /\ check = "authorization" => passed = 0
  /\ check = "configuration" => passed = 1
  /\ check = "adapter" => passed = 2
  /\ check \in {"executable", "resolve", "second", "digest"} => passed = 3
  /\ check = "dependencies" => passed = 4
  /\ check = "temporary-workspace" => passed = 5
  /\ check \in {"opening", "probing", "closing"} => passed = 6
  /\ check # "authorization" => asked.authorized
  /\ check \notin {"authorization", "configuration"} => asked.configuration = "UNCHANGED"
  /\ check \notin {"authorization", "configuration", "adapter"} =>
       asked.adapter \in {"node-test", "bun-test"}

Where ==
  /\ asked \in Runtime!Requests
  /\ check \in {"authorization", "configuration", "adapter", "executable", "resolve", "second", "digest",
                "dependencies", "temporary-workspace", "opening", "probing", "closing", "ended"}
  /\ passed \in Nat /\ replaced \in Nat
  /\ check # "ended" => admission = Runtime!Pending
  /\ asked.by = "campaign" =>
       check \in {"executable", "resolve", "second", "digest", "opening", "probing", "closing", "ended"}
  /\ asked.by = "doctor" /\ check # "ended" => DoctorAt

(* What is identified is one executable. *)
Known ==
  /\ identity = [file |-> identity.file, version |-> identity.version,
                 answered |-> identity.answered, digest |-> identity.digest]
  /\ check \in {"authorization", "configuration", "adapter", "executable", "resolve", "second", "digest"} =>
       identity.digest = Runtime!Missing
  /\ check = "digest" => identity.version = identity.answered.version
  /\ check = "digest" /\ ~stale => contents[identity.file] = identity.answered
  /\ Runtime!IdentityIsOfOne

(* What has been asked about, as long as nothing is replaced. *)
SupportedAsked == Runtime!Supported(Asked)
OddAsked == \E n \in 1 .. Len(Runtime!Probes) : Asked.odd = Runtime!Probes[n].name
QualifiedSoFar ==
  \A n \in 1 .. qualified :
    Runtime!Qualifies(Runtime!Report(Asked, Runtime!Probes[n]), Runtime!Probes[n])

Fits ==
  /\ check \notin {"authorization", "configuration", "adapter", "executable"} => SupportedAsked
  /\ check \in {"resolve", "second"} =>
       first.file = Runtime!Runs("requested") /\ first.version = Asked.version
  /\ check \in {"digest", "dependencies", "temporary-workspace", "opening", "probing", "closing"} =>
       identity.file = Runtime!Runs("requested")
  /\ asked.by = "doctor" /\ check \in {"temporary-workspace", "opening", "probing", "closing"} => Asked.loads
  /\ check \in {"probing", "closing"} => QualifiedSoFar
  /\ asked.by = "doctor" /\ check = "closing" /\ failing => trouble = 7 \/ OddAsked

(* What there is of the preflight. *)
Clean ==
  /\ qualified \in Nat /\ qualified <= Len(Runtime!Probes) /\ failing \in BOOLEAN
  /\ check \notin {"probing", "closing", "ended"} => qualified = 0 /\ leftovers = {}
  /\ check \notin {"closing", "ended"} => trouble = 0 /\ ~failing
  /\ check = "probing" => leftovers = IF Runtime!IsNode THEN {"root"} ELSE {}
  /\ check = "opening" => Runtime!IsNode
  /\ check = "closing" => Runtime!IsNode /\ trouble \in {0, 7}
  /\ check = "closing" /\ ~failing =>
       qualified = Len(Runtime!Probes) /\ trouble = 0 /\ leftovers \subseteq {"root"}

(* The checks at which something is wrong. *)
WrongAt(n) ==
  \/ n = 1 /\ ~asked.authorized
  \/ n = 2 /\ asked.configuration # "UNCHANGED"
  \/ n = 3 /\ asked.adapter \notin {"node-test", "bun-test"}
  \/ n = 4 /\ ~SupportedAsked
  \/ n = 5 /\ ~Asked.loads
  \/ n = 7 /\ OddAsked
  \/ n = trouble /\ n # 0

(* What was concluded. *)
Concluded ==
  /\ admission.status = "READY" =>
       /\ leftovers = {}
       /\ replaced = 0 =>
            /\ SupportedAsked /\ QualifiedSoFar /\ qualified = Len(Runtime!Probes)
            /\ asked.adapter \in {"node-test", "bun-test", "bun-test-designated"}
            /\ asked.by = "doctor" =>
                 /\ asked.authorized /\ asked.configuration = "UNCHANGED"
                 /\ asked.adapter \in {"node-test", "bun-test"} /\ Asked.loads /\ trouble = 0
  /\ asked.by = "doctor" /\ replaced = 0 =>
       /\ admission.status \in {"READY", "BLOCKED", "THROWN"}
       /\ admission.status = "BLOCKED" =>
            WrongAt(admission.executed) /\ \A n : WrongAt(n) => n >= admission.executed
       /\ admission.status = "THROWN" => asked.authorized /\ asked.configuration \in {"CONFLICT", "FAILS"}

ProbesInv ==
  /\ Where
  /\ Known
  /\ replaced = 0 /\ check # "ended" => Fits
  /\ Clean
  /\ check = "ended" => Concluded

(* Unfit is where something is wrong. *)
LEMMA UnfitIsWrong == \A n : n \in Runtime!Unfit <=> WrongAt(n)
<1> SUFFICES ASSUME NEW n PROVE n \in Runtime!Unfit <=> WrongAt(n)
  OBVIOUS
<1>1. /\ Len(Runtime!Checks) = 7
      /\ Runtime!Checks[1] = "authorization" /\ Runtime!Checks[2] = "configuration"
      /\ Runtime!Checks[3] = "adapter" /\ Runtime!Checks[4] = "executable"
      /\ Runtime!Checks[5] = "dependencies" /\ Runtime!Checks[6] = "temporary-workspace"
      /\ Runtime!Checks[7] = "synthetic-preflight"
  BY DEF Runtime!Checks
<1>2. n \in 1 .. 7 <=> n \in {1, 2, 3, 4, 5, 6, 7}
  OBVIOUS
<1>3. CASE n \in {1, 2, 3, 4, 5, 6, 7}
  BY <1>1, <1>2, <1>3 DEF Runtime!Unfit, WrongAt, Asked, SupportedAsked, OddAsked
<1>4. CASE n \notin {1, 2, 3, 4, 5, 6, 7}
  BY <1>1, <1>2, <1>4 DEF Runtime!Unfit, WrongAt
<1> QED BY <1>3, <1>4

(* With the invariant, what is concluded is earned. *)
LEMMA ProbesHold == ProbesInv => Runtime!VerdictIsEarned
<1> SUFFICES ASSUME ProbesInv PROVE Runtime!VerdictIsEarned
  OBVIOUS
<1>1. Runtime!IdentityIsOfOne
  BY DEF ProbesInv, Known
<1>2. check # "ended" => admission.status # "READY"
  BY DEF ProbesInv, Where, Runtime!Pending
<1>3. Runtime!AdmittedIsFit
  <2> SUFFICES ASSUME admission.status = "READY" PROVE Runtime!AdmittedIsFit
    BY DEF Runtime!AdmittedIsFit
  <2>1. Concluded
    BY <1>2 DEF ProbesInv
  <2>2. ASSUME replaced = 0 PROVE Runtime!Credits(Asked) = Runtime!Genuine
    <3>1. /\ QualifiedSoFar /\ qualified = Len(Runtime!Probes)
          /\ asked.adapter \in {"node-test", "bun-test", "bun-test-designated"}
      BY <2>1, <2>2 DEF Concluded
    <3>2. \A n \in 1 .. Len(Runtime!Probes) :
            Runtime!Qualifies(Runtime!Report(Asked, Runtime!Probes[n]), Runtime!Probes[n])
      BY <3>1, Zenon DEF QualifiedSoFar
    <3> QED BY <3>1, <3>2, CreditsGenuine
  <2>3. /\ leftovers = {}
        /\ replaced = 0 => SupportedAsked
        /\ replaced = 0 /\ asked.by = "doctor" => Asked.loads
    BY <2>1 DEF Concluded
  <2> QED BY <2>2, <2>3, Zenon DEF Runtime!AdmittedIsFit, Asked, SupportedAsked
<1>4. Runtime!BlamesTheFirst
  <2> SUFFICES ASSUME asked.by = "doctor", check = "ended", replaced = 0 PROVE Runtime!BlamesTheFirst
    BY DEF Runtime!BlamesTheFirst
  <2>1. Concluded
    BY DEF ProbesInv
  <2>2. CASE admission.status = "READY"
    <3>1. /\ SupportedAsked /\ QualifiedSoFar /\ qualified = Len(Runtime!Probes)
          /\ asked.authorized /\ asked.configuration = "UNCHANGED"
          /\ asked.adapter \in {"node-test", "bun-test"} /\ Asked.loads /\ trouble = 0
      BY <2>1, <2>2 DEF Concluded
    <3>2. ~OddAsked
      <4> SUFFICES ASSUME NEW n \in 1 .. Len(Runtime!Probes) PROVE Asked.odd # Runtime!Probes[n].name
        BY DEF OddAsked
      <4>1. Expected(Runtime!Probes[n])
        BY <3>1, DoctorExpects
      <4>2. Runtime!Qualifies(Runtime!Report(Asked, Runtime!Probes[n]), Runtime!Probes[n])
        BY <3>1, Zenon DEF QualifiedSoFar
      <4> QED BY <4>1, <4>2, OddDoesNotQualify
    <3>3. \A n : ~WrongAt(n)
      BY <3>1, <3>2 DEF WrongAt
    <3>4. Runtime!Unfit = {}
      BY <3>3, UnfitIsWrong
    <3> QED BY <2>2, <3>4 DEF Runtime!BlamesTheFirst
  <2>3. CASE admission.status = "BLOCKED"
    <3>1. /\ admission.executed \in Runtime!Unfit
          /\ \A n \in Runtime!Unfit : n >= admission.executed
      BY <2>1, <2>3, UnfitIsWrong DEF Concluded
    <3> QED BY <2>3, <3>1 DEF Runtime!BlamesTheFirst
  <2>4. CASE admission.status = "THROWN"
    BY <2>1, <2>4 DEF Concluded, Runtime!BlamesTheFirst
  <2> QED BY <2>1, <2>2, <2>3, <2>4 DEF Concluded
<1> QED BY <1>1, <1>3, <1>4 DEF Runtime!VerdictIsEarned

LEMMA RequestFacts ==
  ASSUME asked \in Runtime!Requests
  PROVE  /\ asked.by \in {"doctor", "campaign"}
         /\ asked.by = "doctor" =>
              asked.host = TRUE /\ asked.configuration \in {"UNCHANGED", "WOULD_CREATE", "CONFLICT", "FAILS"}
         /\ asked.by = "campaign" =>
              asked.adapter \in {"node-test", "bun-test", "bun-test-designated"}
BY DEF Runtime!Requests

LEMMA ProbesCount == Len(Runtime!Probes) \in Nat
<1>1. Len(Runtime!NodeProbes) \in Nat
  BY DEF Runtime!NodeProbes
<1>2. Len(Runtime!BunProbes) \in Nat
  BY DEF Runtime!BunProbes
<1>3. Len(Runtime!DesignatedProbes) \in Nat
  BY DEF Runtime!DesignatedProbes
<1>4. Len(<<>>) \in Nat
  OBVIOUS
<1> QED BY <1>1, <1>2, <1>3, <1>4 DEF Runtime!Probes

LEMMA ProbesStart == Runtime!Init => ProbesInv
<1> SUFFICES ASSUME Runtime!Init PROVE ProbesInv
  OBVIOUS
<1>1. /\ asked \in Runtime!Requests
      /\ check = IF asked.by = "doctor" THEN "authorization" ELSE "executable"
      /\ passed = 0 /\ identity = Runtime!NotIdentified /\ qualified = 0 /\ failing = FALSE
      /\ leftovers = {} /\ admission = Runtime!Pending /\ trouble = 0 /\ replaced = 0
  BY DEF Runtime!Init
<1>2. Where
  BY <1>1, RequestFacts DEF Where, DoctorAt
<1>3. Known
  BY <1>1 DEF Known, Runtime!NotIdentified, Runtime!IdentityIsOfOne
<1>4. Fits
  BY <1>1 DEF Fits
<1>5. Clean
  <2>1. qualified \in Nat /\ qualified <= Len(Runtime!Probes) /\ failing \in BOOLEAN
    <3>1. \A k \in Nat : 0 <= k
      OBVIOUS
    <3>2. qualified = 0 /\ failing = FALSE /\ 0 <= Len(Runtime!Probes)
      BY <1>1, <3>1, ProbesCount, Zenon
    <3>3. 0 \in Nat
      OBVIOUS
    <3> QED BY <3>2, <3>3, Zenon
  <2>2. check \in {"authorization", "executable"} /\ qualified = 0 /\ leftovers = {} /\ trouble = 0 /\ ~failing
    BY <1>1
  <2> QED BY <2>1, <2>2, Zenon DEF Clean
<1> QED BY <1>1, <1>2, <1>3, <1>4, <1>5 DEF ProbesInv

(* As long as nothing is replaced, what is asked about stays the same. *)
LEMMA SameAsked ==
  ASSUME asked' = asked, contents' = contents
  PROVE  /\ Asked' = Asked /\ SupportedAsked' = SupportedAsked /\ OddAsked' = OddAsked
         /\ Runtime!Probes' = Runtime!Probes /\ Runtime!IsNode' = Runtime!IsNode
         /\ Runtime!Runs("requested")' = Runtime!Runs("requested")
         /\ qualified' = qualified => QualifiedSoFar' = QualifiedSoFar
<1>1. Asked' = Asked /\ Runtime!Runs("requested")' = Runtime!Runs("requested")
  BY DEF Asked, Runtime!Started, Runtime!Runs
<1>2. Runtime!Probes' = Runtime!Probes /\ Runtime!IsNode' = Runtime!IsNode
  BY DEF Runtime!Probes, Runtime!IsNode
<1>3. SupportedAsked' = SupportedAsked
  BY <1>1, <1>2 DEF SupportedAsked, Runtime!Supported
<1>4. OddAsked' = OddAsked
  BY <1>1, <1>2 DEF OddAsked
<1>5. qualified' = qualified => QualifiedSoFar' = QualifiedSoFar
  BY <1>1, <1>2, Zenon DEF QualifiedSoFar
<1> QED BY <1>1, <1>2, <1>3, <1>4, <1>5

(* A result of the doctor that blocks is what it was made of. *)
LEMMA Blocks ==
  ASSUME Where, check # "ended", NEW reason, NEW hasAdapter, NEW hasVersion,
         Runtime!Block(reason, hasAdapter, hasVersion),
         reason # "NONE",
         asked.by = "doctor" =>
           passed \in 0 .. 6 /\ (hasAdapter <=> passed >= 3) /\ (hasVersion <=> passed >= 4)
  PROVE  admission'.status = "BLOCKED" /\ admission'.executed = passed + 1 /\ check' = "ended"
<1> DEFINE r == [status |-> "BLOCKED", reason |-> reason, executed |-> passed + 1,
                 adapter |-> hasAdapter, version |-> hasVersion]
<1>1. /\ admission' = IF asked.by = "doctor" /\ ~Runtime!ResultParses(r)
                        THEN [r EXCEPT !.status = "THROWN"] ELSE r
      /\ check' = "ended"
  BY DEF Runtime!Block, Runtime!Finish
<1>2. asked.by = "doctor" => Runtime!ResultParses(r)
  <2> SUFFICES ASSUME asked.by = "doctor" PROVE Runtime!ResultParses(r)
    OBVIOUS
  <2>1. Len(Runtime!Checks) = 7
    BY DEF Runtime!Checks
  <2>2. passed \in 0 .. 6 /\ (hasAdapter <=> passed >= 3) /\ (hasVersion <=> passed >= 4)
    OBVIOUS
  <2>3. /\ passed + 1 \in 1 .. 7 /\ (hasAdapter <=> passed + 1 >= 4) /\ (hasVersion <=> passed + 1 >= 5)
    BY <2>2
  <2> QED BY <2>1, <2>3 DEF Runtime!ResultParses
<1>3. admission' = r
  BY <1>1, <1>2
<1> QED BY <1>1, <1>3

LEMMA Admits ==
  ASSUME Where, Runtime!Admit, asked.by = "doctor" => passed = 6
  PROVE  admission'.status = "READY" /\ check' = "ended"
<1> DEFINE r == [status |-> "READY", reason |-> "NONE", executed |-> passed + 1,
                 adapter |-> TRUE, version |-> TRUE]
<1>1. /\ admission' = IF asked.by = "doctor" /\ ~Runtime!ResultParses(r)
                        THEN [r EXCEPT !.status = "THROWN"] ELSE r
      /\ check' = "ended"
  BY DEF Runtime!Admit, Runtime!Finish
<1>2. asked.by = "doctor" => Runtime!ResultParses(r)
  BY DEF Runtime!ResultParses, Runtime!Checks
<1> QED BY <1>1, <1>2

(* What is known of the identity stays so when nothing of it changes. *)
LEMMA StillKnown ==
  ASSUME Known, identity' = identity, stale' = stale, contents' = contents,
         check' # "digest" \/ check' = check,
         check' \in {"authorization", "configuration", "adapter", "executable", "resolve", "second"} =>
           check \in {"authorization", "configuration", "adapter", "executable", "resolve", "second"}
  PROVE  Known'
<1>1. Runtime!IdentityIsOfOne'
  BY DEF Known, Runtime!IdentityIsOfOne
<1> QED BY <1>1 DEF Known

(* A step that blocks where something is wrong ends rightly. *)
LEMMA EndsBlocked ==
  ASSUME ProbesInv, check # "ended",
         asked' = asked, contents' = contents, replaced' = replaced, passed' = passed,
         identity' = identity, stale' = stale, qualified' = qualified, failing' \in BOOLEAN,
         NEW reason, NEW hasAdapter, NEW hasVersion,
         Runtime!Block(reason, hasAdapter, hasVersion), reason # "NONE",
         asked.by = "doctor" =>
           /\ (hasAdapter <=> passed >= 3) /\ (hasVersion <=> passed >= 4)
           /\ trouble' \in {0, passed + 1}
           /\ replaced = 0 /\ trouble' = 0 => WrongAt(passed + 1) /\ trouble = 0
  PROVE  ProbesInv'
<1>1. Where /\ Known /\ Clean /\ passed \in Nat
  BY DEF ProbesInv, Where
<1>2. asked.by = "doctor" => DoctorAt /\ passed \in 0 .. 6
  BY <1>1 DEF Where, DoctorAt
<1>3. admission'.status = "BLOCKED" /\ admission'.executed = passed + 1 /\ check' = "ended"
  BY <1>1, <1>2, Blocks
<1>4. Where'
  BY <1>1, <1>3 DEF Where
<1>5. Known'
  BY <1>1, <1>3, StillKnown
<1>6. Clean'
  <2>1. Runtime!Probes' = Runtime!Probes
    BY SameAsked
  <2> QED BY <1>1, <1>3, <2>1 DEF Clean
<1>7. ASSUME asked.by = "doctor", replaced = 0
      PROVE  WrongAt(passed + 1)' /\ \A n : WrongAt(n)' => n >= passed + 1
  <2>1. Asked' = Asked /\ SupportedAsked' = SupportedAsked /\ OddAsked' = OddAsked
    BY SameAsked
  <2>2. \A n : WrongAt(n)' <=> \/ n = 1 /\ ~asked.authorized
                               \/ n = 2 /\ asked.configuration # "UNCHANGED"
                               \/ n = 3 /\ asked.adapter \notin {"node-test", "bun-test"}
                               \/ n = 4 /\ ~SupportedAsked
                               \/ n = 5 /\ ~Asked.loads
                               \/ n = 7 /\ OddAsked
                               \/ n = trouble' /\ n # 0
    BY <2>1 DEF WrongAt
  <2>3. WrongAt(passed + 1)'
    <3>1. CASE trouble' = 0
      <4>1. WrongAt(passed + 1) /\ trouble = 0
        BY <1>7, <3>1
      <4>2. passed + 1 # 0
        BY <1>1
      <4> QED BY <2>2, <4>1, <4>2 DEF WrongAt
    <3>2. CASE trouble' = passed + 1
      <4>1. passed + 1 # 0
        BY <1>1
      <4> QED BY <2>2, <3>2, <4>1
    <3> QED BY <1>7, <3>1, <3>2
  <2>4. /\ passed >= 1 => asked.authorized
        /\ passed >= 2 => asked.configuration = "UNCHANGED"
        /\ passed >= 3 => asked.adapter \in {"node-test", "bun-test"}
        /\ passed >= 4 => SupportedAsked
        /\ passed >= 5 => Asked.loads
    <3>1. /\ DoctorAt /\ Fits /\ Where
      BY <1>1, <1>2, <1>7 DEF ProbesInv
    <3>2. /\ passed >= 1 => asked.authorized
          /\ passed >= 2 => asked.configuration = "UNCHANGED"
          /\ passed >= 3 => asked.adapter \in {"node-test", "bun-test"}
      BY <3>1 DEF DoctorAt
    <3>3. passed >= 4 => SupportedAsked
      BY <3>1 DEF DoctorAt, Fits
    <3>4. passed >= 5 => Asked.loads
      BY <3>1, <1>7 DEF DoctorAt, Fits, Where
    <3> QED BY <3>2, <3>3, <3>4
  <2>5. trouble' \in {0, passed + 1}
    BY <1>7
  <2>6. ASSUME NEW n, WrongAt(n)' PROVE n >= passed + 1
    <3>1. /\ passed \in 0 .. 6
      BY <1>2, <1>7
    <3> QED BY <2>2, <2>4, <2>5, <2>6, <3>1
  <2> QED BY <2>3, <2>6
<1>8. Concluded'
  BY <1>3, <1>7 DEF Concluded
<1> QED BY <1>3, <1>4, <1>5, <1>6, <1>8 DEF ProbesInv

LEMMA ReplaceStep ==
  ASSUME ProbesInv, NEW file \in Runtime!Files, NEW b, Runtime!Replace(file, b)
  PROVE  ProbesInv'
<1>1. /\ check # "ended" /\ replaced' = replaced + 1 /\ stale' = TRUE
      /\ asked' = asked /\ check' = check /\ passed' = passed /\ first' = first /\ identity' = identity
      /\ qualified' = qualified /\ failing' = failing /\ leftovers' = leftovers
      /\ admission' = admission /\ trouble' = trouble
  BY DEF Runtime!Replace
<1>2. Where' /\ replaced' # 0
  BY <1>1 DEF ProbesInv, Where, DoctorAt
<1>3. Known'
  BY <1>1 DEF ProbesInv, Known, Runtime!IdentityIsOfOne
<1>4. Clean'
  <2>1. Runtime!Probes' = Runtime!Probes /\ Runtime!IsNode' = Runtime!IsNode
    BY <1>1 DEF Runtime!Probes, Runtime!IsNode
  <2> QED BY <1>1, <2>1 DEF ProbesInv, Clean
<1> QED BY <1>1, <1>2, <1>3, <1>4 DEF ProbesInv

(* A step that passes on, without a probe. *)
LEMMA PassesOn ==
  ASSUME ProbesInv,
         NEW next, next \notin {"closing", "ended"},
         next = "opening" => Runtime!IsNode, next = "probing" => ~Runtime!IsNode,
         check \notin {"opening", "probing", "closing", "ended"},
         Runtime!Continue(next), Where', Known',
         asked' = asked, contents' = contents, replaced' = replaced,
         qualified' = qualified, failing' = failing, leftovers' = leftovers, trouble' = trouble,
         replaced = 0 => Fits'
  PROVE  ProbesInv'
<1>1. Clean'
  <2>1. Runtime!Probes' = Runtime!Probes /\ Runtime!IsNode' = Runtime!IsNode
    BY SameAsked
  <2> QED BY <2>1 DEF ProbesInv, Clean, Runtime!Continue
<1> QED BY <1>1 DEF ProbesInv, Runtime!Continue

(* The checks before anything is started. *)
LEMMA AuthorizeStep == ASSUME ProbesInv, Runtime!Authorize PROVE ProbesInv'
<1>1. /\ check = "authorization" /\ asked' = asked /\ contents' = contents /\ first' = first
      /\ identity' = identity /\ qualified' = qualified /\ failing' = failing
      /\ leftovers' = leftovers /\ trouble' = trouble /\ replaced' = replaced /\ stale' = stale
  BY DEF Runtime!Authorize
<1>2. /\ asked.by = "doctor" /\ DoctorAt /\ passed = 0 /\ Where /\ Known
      /\ trouble = 0 /\ failing \in BOOLEAN /\ failing' \in BOOLEAN
  BY <1>1, RequestFacts DEF ProbesInv, Where, DoctorAt, Clean
<1>3. CASE asked.authorized /\ Runtime!Pass("configuration")
  <2>1. check' = "configuration" /\ passed' = 1 /\ admission' = admission
    BY <1>2, <1>3 DEF Runtime!Pass, Runtime!Continue
  <2>2. Where'
    BY <1>1, <1>2, <1>3, <2>1 DEF Where, DoctorAt
  <2>3. Known'
    BY <1>1, <1>2, <2>1, StillKnown
  <2>4. Fits'
    BY <2>1 DEF Fits
  <2> QED BY <1>1, <1>3, <2>2, <2>3, <2>4, PassesOn DEF Runtime!Pass
<1>4. CASE ~asked.authorized /\ Runtime!Block("EXECUTION_NOT_AUTHORIZED", FALSE, FALSE) /\ passed' = passed
  <2>1. WrongAt(passed + 1)
    BY <1>2, <1>4 DEF WrongAt
  <2>2. ~(passed >= 3) /\ ~(passed >= 4)
    BY <1>2
  <2> QED BY <1>1, <1>2, <1>4, <2>1, <2>2, EndsBlocked
<1> QED BY <1>3, <1>4 DEF Runtime!Authorize

LEMMA InspectConfigurationStep == ASSUME ProbesInv, Runtime!InspectConfiguration PROVE ProbesInv'
<1>1. /\ check = "configuration" /\ asked' = asked /\ contents' = contents /\ first' = first
      /\ identity' = identity /\ qualified' = qualified /\ failing' = failing
      /\ leftovers' = leftovers /\ trouble' = trouble /\ replaced' = replaced /\ stale' = stale
  BY DEF Runtime!InspectConfiguration
<1>2. /\ asked.by = "doctor" /\ DoctorAt /\ passed = 1 /\ Where /\ Known /\ Clean
      /\ trouble = 0 /\ failing \in BOOLEAN /\ failing' \in BOOLEAN /\ asked.authorized
  BY <1>1, RequestFacts DEF ProbesInv, Where, DoctorAt, Clean
<1>3. CASE asked.configuration = "UNCHANGED" /\ Runtime!Pass("adapter")
  <2>1. check' = "adapter" /\ passed' = 2 /\ admission' = admission
    BY <1>2, <1>3 DEF Runtime!Pass, Runtime!Continue
  <2>2. Where'
    BY <1>1, <1>2, <1>3, <2>1 DEF Where, DoctorAt
  <2>3. Known'
    BY <1>1, <1>2, <2>1, StillKnown
  <2>4. Fits'
    BY <2>1 DEF Fits
  <2> QED BY <1>1, <1>3, <2>2, <2>3, <2>4, PassesOn DEF Runtime!Pass
<1>4. ASSUME NEW reason \in {"CONFIGURATION_STALE", "CONFIGURATION_BLOCKED"},
             asked.configuration # "UNCHANGED", Runtime!Block(reason, FALSE, FALSE), passed' = passed
      PROVE  ProbesInv'
  <2>1. WrongAt(passed + 1)
    BY <1>2, <1>4 DEF WrongAt
  <2>2. ~(passed >= 3) /\ ~(passed >= 4) /\ reason # "NONE"
    BY <1>2
  <2> QED BY <1>1, <1>2, <1>4, <2>1, <2>2, EndsBlocked
<1>5. CASE asked.configuration \in {"CONFLICT", "FAILS"} /\ Runtime!Throw /\ passed' = passed
  <2>1. check' = "ended" /\ admission'.status = "THROWN"
    BY <1>5 DEF Runtime!Throw, Runtime!Pending
  <2>2. Where'
    BY <1>1, <1>2, <1>5, <2>1 DEF Where
  <2>3. Known'
    BY <1>1, <1>2, <2>1, StillKnown
  <2>4. Clean'
    <3>1. Runtime!Probes' = Runtime!Probes
      BY <1>1, SameAsked
    <3> QED BY <1>1, <1>2, <2>1, <3>1 DEF Clean
  <2>5. Concluded'
    BY <1>1, <1>2, <1>5, <2>1 DEF Concluded
  <2> QED BY <2>1, <2>2, <2>3, <2>4, <2>5 DEF ProbesInv
<1> QED BY <1>3, <1>4, <1>5 DEF Runtime!InspectConfiguration

LEMMA InspectAdapterStep == ASSUME ProbesInv, Runtime!InspectAdapter PROVE ProbesInv'
<1>1. /\ check = "adapter" /\ asked' = asked /\ contents' = contents /\ first' = first
      /\ identity' = identity /\ qualified' = qualified /\ failing' = failing
      /\ leftovers' = leftovers /\ trouble' = trouble /\ replaced' = replaced /\ stale' = stale
  BY DEF Runtime!InspectAdapter
<1>2. /\ asked.by = "doctor" /\ DoctorAt /\ passed = 2 /\ Where /\ Known
      /\ trouble = 0 /\ failing \in BOOLEAN /\ failing' \in BOOLEAN
  BY <1>1, RequestFacts DEF ProbesInv, Where, DoctorAt, Clean
<1>3. CASE asked.adapter \in {"node-test", "bun-test"} /\ Runtime!Pass("executable")
  <2>1. check' = "executable" /\ passed' = 3 /\ admission' = admission
    BY <1>2, <1>3 DEF Runtime!Pass, Runtime!Continue
  <2>2. Where'
    <3>1. asked.authorized /\ asked.configuration = "UNCHANGED"
      BY <1>1, <1>2 DEF DoctorAt
    <3> QED BY <1>1, <1>2, <1>3, <2>1, <3>1 DEF Where, DoctorAt
  <2>3. Known'
    BY <1>1, <1>2, <2>1, StillKnown
  <2>4. Fits'
    BY <2>1 DEF Fits
  <2> QED BY <1>1, <1>3, <2>2, <2>3, <2>4, PassesOn DEF Runtime!Pass
<1>4. CASE /\ asked.adapter \notin {"node-test", "bun-test"}
           /\ Runtime!Block("ADAPTER_UNSUPPORTED", FALSE, FALSE) /\ passed' = passed
  <2>1. WrongAt(passed + 1)
    BY <1>2, <1>4 DEF WrongAt
  <2>2. ~(passed >= 3) /\ ~(passed >= 4)
    BY <1>2
  <2> QED BY <1>1, <1>2, <1>4, <2>1, <2>2, EndsBlocked
<1> QED BY <1>3, <1>4 DEF Runtime!InspectAdapter

(* An identity probe that refuses, of either caller. *)
LEMMA Refuses ==
  ASSUME ProbesInv, check \in {"executable", "resolve", "second", "digest"},
         asked' = asked, contents' = contents, replaced' = replaced,
         identity' = identity, stale' = stale, qualified' = qualified, failing' = failing,
         trouble' \in {0, 4},
         NEW reason \in {"EXECUTABLE_UNAVAILABLE", "VERSION_UNSUPPORTED"}, Runtime!Unidentified(reason),
         asked.by = "doctor" /\ replaced = 0 /\ trouble' = 0 => ~SupportedAsked
  PROVE  ProbesInv'
<1>1. Runtime!Block(reason, TRUE, FALSE) /\ passed' = passed /\ reason # "NONE"
  BY DEF Runtime!Unidentified
<1>2. trouble = 0 /\ failing' \in BOOLEAN
  BY DEF ProbesInv, Clean
<1>3. asked.by = "doctor" => passed = 3
  BY DEF ProbesInv, Where, DoctorAt
<1>4. asked.by = "doctor" =>
        /\ (TRUE <=> passed >= 3) /\ (FALSE <=> passed >= 4) /\ trouble' \in {0, passed + 1}
  BY <1>3
<1>5. asked.by = "doctor" /\ replaced = 0 /\ trouble' = 0 => WrongAt(passed + 1)
  BY <1>3 DEF WrongAt
<1> QED BY <1>1, <1>2, <1>4, <1>5, EndsBlocked

LEMMA RefusesAlone ==
  ASSUME NEW b, Runtime!RefusedAlone(b)
  PROVE  /\ ~Runtime!Supported(b)
         /\ \E reason \in {"EXECUTABLE_UNAVAILABLE", "VERSION_UNSUPPORTED"} : Runtime!Unidentified(reason)
<1>1. ~Runtime!Supported(b)
  BY SupportedIsThere DEF Runtime!RefusedAlone
<1> QED BY <1>1 DEF Runtime!RefusedAlone

(* The identity probes. *)
LEMMA FirstProbeStep == ASSUME ProbesInv, Runtime!FirstProbe PROVE ProbesInv'
<1>1. /\ check = "executable" /\ asked' = asked /\ contents' = contents
      /\ identity' = identity /\ qualified' = qualified /\ failing' = failing
      /\ leftovers' = leftovers /\ trouble' = trouble /\ replaced' = replaced /\ stale' = stale
  BY DEF Runtime!FirstProbe
<1>2. Where /\ Known /\ trouble = 0
  BY <1>1 DEF ProbesInv, Clean
<1>3. CASE Runtime!RefusedAlone(Asked)
  <2>1. ~SupportedAsked
    BY <1>3, RefusesAlone DEF SupportedAsked
  <2> QED BY <1>1, <1>2, <1>3, <2>1, RefusesAlone, Refuses
<1>4. CASE /\ SupportedAsked /\ Runtime!Continue("resolve") /\ passed' = passed
           /\ first' = [file |-> Runtime!Runs("requested"), version |-> Asked.version]
  <2>1. check' = "resolve" /\ admission' = admission
    BY <1>4 DEF Runtime!Continue
  <2>2. Where'
    BY <1>1, <1>2, <1>4, <2>1 DEF Where, DoctorAt
  <2>3. Known'
    BY <1>1, <1>2, <2>1, StillKnown
  <2>4. Fits'
    <3>1. SupportedAsked' /\ Asked' = Asked /\ Runtime!Runs("requested")' = Runtime!Runs("requested")
      BY <1>1, <1>4, SameAsked
    <3> QED BY <1>4, <2>1, <3>1 DEF Fits
  <2> QED BY <1>1, <1>4, <2>2, <2>3, <2>4, PassesOn
<1> QED BY <1>3, <1>4 DEF Runtime!FirstProbe, Asked, SupportedAsked

LEMMA ResolvePathStep == ASSUME ProbesInv, Runtime!ResolvePath PROVE ProbesInv'
<1>1. /\ check = "resolve" /\ asked' = asked /\ contents' = contents /\ first' = first
      /\ identity' = identity /\ qualified' = qualified /\ failing' = failing
      /\ leftovers' = leftovers /\ trouble' = trouble /\ replaced' = replaced /\ stale' = stale
  BY DEF Runtime!ResolvePath
<1>2. Where /\ Known /\ trouble = 0 /\ (replaced = 0 => Fits)
  BY <1>1 DEF ProbesInv, Clean
<1>3. CASE contents[first.file] = Runtime!Missing /\ Runtime!Unidentified("EXECUTABLE_UNAVAILABLE")
  <2>1. replaced # 0
    <3> SUFFICES ASSUME replaced = 0 PROVE FALSE
      OBVIOUS
    <3>1. SupportedAsked /\ first.file = Runtime!Runs("requested")
      BY <1>1, <1>2 DEF Fits
    <3>2. Asked = Runtime!Missing
      BY <1>3, <3>1, RunsTwice
    <3> QED BY <3>1, <3>2, SupportedIsThere DEF SupportedAsked
  <2> QED BY <1>1, <1>2, <1>3, <2>1, Refuses
<1>4. CASE Runtime!Continue("second") /\ passed' = passed
  <2>1. check' = "second" /\ admission' = admission
    BY <1>4 DEF Runtime!Continue
  <2>2. Where'
    BY <1>1, <1>2, <1>4, <2>1 DEF Where, DoctorAt
  <2>3. Known'
    BY <1>1, <1>2, <2>1, StillKnown
  <2>4. replaced = 0 => Fits'
    <3>1. /\ SupportedAsked' = SupportedAsked /\ Asked' = Asked
          /\ Runtime!Runs("requested")' = Runtime!Runs("requested")
      BY <1>1, SameAsked
    <3> QED BY <1>1, <1>2, <2>1, <3>1 DEF Fits
  <2> QED BY <1>1, <1>4, <2>2, <2>3, <2>4, PassesOn
<1> QED BY <1>3, <1>4 DEF Runtime!ResolvePath

LEMMA SecondProbeStep == ASSUME ProbesInv, Runtime!SecondProbe PROVE ProbesInv'
<1> DEFINE b == Runtime!Started(first.file)
           agrees == Runtime!Runs(first.file) = first.file /\ b.version = first.version
<1>1. /\ check = "second" /\ asked' = asked /\ contents' = contents /\ first' = first
      /\ qualified' = qualified /\ failing' = failing
      /\ leftovers' = leftovers /\ trouble' = trouble /\ replaced' = replaced
  BY DEF Runtime!SecondProbe
<1>2. Where /\ Known /\ trouble = 0 /\ (replaced = 0 => Fits)
  BY <1>1 DEF ProbesInv, Clean
<1>3. replaced = 0 => SupportedAsked /\ b = Asked /\ agrees /\ first.file = Runtime!Runs("requested")
  BY <1>1, <1>2, RunsTwice DEF Fits
<1>4. CASE Runtime!RefusedAlone(b) /\ identity' = identity /\ stale' = stale
  <2>1. replaced # 0
    BY <1>3, <1>4, RefusesAlone DEF SupportedAsked
  <2> QED BY <1>1, <1>2, <1>4, <2>1, RefusesAlone, Refuses
<1>5. CASE /\ ~agrees /\ Runtime!Unidentified("EXECUTABLE_UNAVAILABLE")
           /\ identity' = identity /\ stale' = stale
  BY <1>1, <1>2, <1>3, <1>5, Refuses
<1>6. CASE /\ agrees /\ Runtime!Continue("digest") /\ passed' = passed /\ stale' = FALSE
           /\ identity' = [identity EXCEPT !.file = first.file, !.version = b.version, !.answered = b]
  <2>1. check' = "digest" /\ admission' = admission
    BY <1>6 DEF Runtime!Continue
  <2>2. Where'
    BY <1>1, <1>2, <1>6, <2>1 DEF Where, DoctorAt
  <2>3. /\ identity' = [file |-> identity'.file, version |-> identity'.version,
                        answered |-> identity'.answered, digest |-> identity'.digest]
        /\ identity'.file = first.file /\ identity'.version = b.version /\ identity'.answered = b
        /\ identity'.digest = Runtime!Missing
    BY <1>1, <1>2, <1>6 DEF Known
  <2>4. contents[first.file] = b
    BY <1>6 DEF Runtime!Started
  <2>5. Known'
    BY <1>1, <2>1, <2>3, <2>4 DEF Known, Runtime!IdentityIsOfOne
  <2>6. replaced = 0 => Fits'
    <3>1. /\ SupportedAsked' = SupportedAsked
          /\ Runtime!Runs("requested")' = Runtime!Runs("requested")
      BY <1>1, SameAsked
    <3> QED BY <1>3, <2>1, <2>3, <3>1 DEF Fits
  <2> QED BY <1>1, <1>6, <2>2, <2>5, <2>6, PassesOn
<1> QED BY <1>4, <1>5, <1>6 DEF Runtime!SecondProbe

(* Once there is an identity, the doctor's own checks come, or the preflight. *)
LEMMA Identifies ==
  ASSUME ProbesInv, check \in {"executable", "digest"}, Runtime!Identified, Known',
         asked' = asked, contents' = contents, replaced' = replaced,
         qualified' = qualified, failing' = failing, leftovers' = leftovers, trouble' = trouble,
         replaced = 0 => SupportedAsked /\ identity'.file = Runtime!Runs("requested")
  PROVE  ProbesInv'
<1>1. Where /\ Clean
  BY DEF ProbesInv
<1>2. PICK next :
        /\ next = IF asked.by = "doctor" THEN "dependencies"
                  ELSE IF Runtime!IsNode THEN "opening" ELSE "probing"
        /\ Runtime!Continue(next)
        /\ passed' = IF asked.by = "doctor" THEN passed + 1 ELSE passed
  BY DEF Runtime!Identified, Runtime!Pass, Runtime!PreflightStart
<1>3. check' = next /\ admission' = admission
  BY <1>2 DEF Runtime!Continue
<1>4. Where'
  BY <1>1, <1>2, <1>3, RequestFacts DEF Where, DoctorAt
<1>5. replaced = 0 => Fits'
  <2>1. SupportedAsked' = SupportedAsked /\ Runtime!Runs("requested")' = Runtime!Runs("requested")
    BY SameAsked
  <2>2. QualifiedSoFar'
    <3>1. 1 .. qualified' = {}
      BY <1>1 DEF Clean
    <3> QED BY <3>1 DEF QualifiedSoFar
  <2> QED BY <1>2, <1>3, <2>1, <2>2 DEF Fits
<1> QED BY <1>2, <1>4, <1>5, PassesOn

LEMMA ReadDigestStep == ASSUME ProbesInv, Runtime!ReadDigest PROVE ProbesInv'
<1> DEFINE bytes == contents[identity.file]
<1>1. /\ check = "digest" /\ asked' = asked /\ contents' = contents /\ first' = first
      /\ qualified' = qualified /\ failing' = failing
      /\ leftovers' = leftovers /\ trouble' = trouble /\ replaced' = replaced /\ stale' = stale
  BY DEF Runtime!ReadDigest
<1>2. Where /\ Known /\ trouble = 0 /\ (replaced = 0 => Fits)
  BY <1>1 DEF ProbesInv, Clean
<1>3. replaced = 0 => SupportedAsked /\ bytes = Asked /\ identity.file = Runtime!Runs("requested")
  BY <1>1, <1>2, RunsTwice DEF Fits
<1>4. CASE /\ bytes = Runtime!Missing /\ Runtime!Unidentified("EXECUTABLE_UNAVAILABLE")
           /\ identity' = identity
  <2>1. replaced # 0
    BY <1>3, <1>4, SupportedIsThere DEF SupportedAsked
  <2> QED BY <1>1, <1>2, <1>4, <2>1, Refuses
<1>5. CASE Runtime!Identified /\ identity' = [identity EXCEPT !.digest = bytes]
  <2>1. /\ identity' = [file |-> identity'.file, version |-> identity'.version,
                        answered |-> identity'.answered, digest |-> identity'.digest]
        /\ identity'.file = identity.file /\ identity'.version = identity.version
        /\ identity'.answered = identity.answered /\ identity'.digest = bytes
    BY <1>2, <1>5 DEF Known
  <2>2. check' \in {"dependencies", "opening", "probing"}
    BY <1>5 DEF Runtime!Identified, Runtime!Pass, Runtime!PreflightStart, Runtime!Continue
  <2>3. Known'
    BY <1>1, <1>2, <2>1, <2>2 DEF Known, Runtime!IdentityIsOfOne
  <2> QED BY <1>1, <1>3, <1>5, <2>1, <2>3, Identifies
<1> QED BY <1>4, <1>5 DEF Runtime!ReadDigest

LEMMA IdentifyInContainerStep == ASSUME ProbesInv, Runtime!IdentifyInContainer PROVE ProbesInv'
<1>1. /\ check = "executable" /\ asked' = asked /\ contents' = contents /\ first' = first
      /\ qualified' = qualified /\ failing' = failing
      /\ leftovers' = leftovers /\ trouble' = trouble /\ replaced' = replaced /\ stale' = stale
  BY DEF Runtime!IdentifyInContainer
<1>2. Where /\ Known /\ trouble = 0 /\ contents[Runtime!Runs("requested")] = Asked
  BY <1>1, RunsTwice DEF ProbesInv, Clean
<1>3. CASE Runtime!RefusedAlone(Asked) /\ identity' = identity
  <2>1. ~SupportedAsked
    BY <1>3, RefusesAlone DEF SupportedAsked
  <2> QED BY <1>1, <1>2, <1>3, <2>1, RefusesAlone, Refuses
<1>4. CASE /\ SupportedAsked /\ Runtime!Identified
           /\ identity' = [file |-> Runtime!Runs("requested"), version |-> Asked.version,
                           answered |-> Asked, digest |-> Asked]
  <2>1. check' \in {"dependencies", "opening", "probing"}
    BY <1>4 DEF Runtime!Identified, Runtime!Pass, Runtime!PreflightStart, Runtime!Continue
  <2>2. Known'
    BY <1>4, <2>1 DEF Known, Runtime!IdentityIsOfOne
  <2>3. identity'.file = Runtime!Runs("requested")
    BY <1>4
  <2> QED BY <1>1, <1>4, <2>2, <2>3, Identifies
<1> QED BY <1>2, <1>3, <1>4 DEF Runtime!IdentifyInContainer, SupportedAsked

LEMMA IdentityTroubleStep == ASSUME ProbesInv, NEW what, Runtime!IdentityTrouble(what) PROVE ProbesInv'
<1>1. /\ check \in {"executable", "second"} /\ asked' = asked /\ contents' = contents
      /\ identity' = identity /\ qualified' = qualified /\ failing' = failing
      /\ trouble' = 4 /\ replaced' = replaced /\ stale' = stale
      /\ Runtime!Unidentified("EXECUTABLE_UNAVAILABLE")
  BY DEF Runtime!IdentityTrouble, Runtime!InTrouble
<1> QED BY <1>1, Refuses

(* The doctor's own checks. *)
LEMMA LoadRunnerStep == ASSUME ProbesInv, Runtime!LoadRunner PROVE ProbesInv'
<1>1. /\ check = "dependencies" /\ asked' = asked /\ contents' = contents /\ first' = first
      /\ identity' = identity /\ qualified' = qualified /\ failing' = failing
      /\ leftovers' = leftovers /\ replaced' = replaced /\ stale' = stale
  BY DEF Runtime!LoadRunner
<1>2. /\ asked.by = "doctor" /\ DoctorAt /\ passed = 4 /\ Where /\ Known
      /\ trouble = 0 /\ failing \in BOOLEAN /\ failing' \in BOOLEAN /\ (replaced = 0 => Fits)
  BY <1>1, RequestFacts DEF ProbesInv, Where, DoctorAt, Clean
<1>3. replaced = 0 =>
        SupportedAsked /\ identity.file = Runtime!Runs("requested") /\ Runtime!Started(identity.file) = Asked
  BY <1>1, <1>2, RunsTwice DEF Fits
<1>4. CASE Runtime!Started(identity.file).loads /\ Runtime!Pass("temporary-workspace") /\ trouble' = trouble
  <2>1. check' = "temporary-workspace" /\ passed' = 5 /\ admission' = admission
    BY <1>2, <1>4 DEF Runtime!Pass, Runtime!Continue
  <2>2. Where'
    <3>1. /\ asked.authorized /\ asked.configuration = "UNCHANGED"
          /\ asked.adapter \in {"node-test", "bun-test"}
      BY <1>1, <1>2 DEF DoctorAt
    <3> QED BY <1>1, <1>2, <2>1, <3>1 DEF Where, DoctorAt
  <2>3. Known'
    BY <1>1, <1>2, <2>1, StillKnown
  <2>4. replaced = 0 => Fits'
    <3>1. /\ SupportedAsked' = SupportedAsked /\ Asked' = Asked
          /\ Runtime!Runs("requested")' = Runtime!Runs("requested")
      BY <1>1, SameAsked
    <3>2. replaced = 0 => Asked.loads
      BY <1>3, <1>4
    <3> QED BY <1>1, <1>3, <2>1, <3>1, <3>2 DEF Fits
  <2> QED BY <1>1, <1>4, <2>2, <2>3, <2>4, PassesOn DEF Runtime!Pass
<1>5. CASE /\ (~Runtime!Started(identity.file).loads /\ trouble' = trouble) \/ trouble' = 5
           /\ Runtime!Block("DEPENDENCY_UNAVAILABLE", TRUE, TRUE) /\ passed' = passed
  <2>1. replaced = 0 /\ trouble' = 0 => WrongAt(passed + 1)
    BY <1>2, <1>3, <1>5 DEF WrongAt
  <2>2. passed >= 3 /\ passed >= 4 /\ trouble' \in {0, passed + 1}
    BY <1>2, <1>5
  <2> QED BY <1>1, <1>2, <1>5, <2>1, <2>2, EndsBlocked
<1> QED BY <1>4, <1>5 DEF Runtime!LoadRunner, Runtime!InTrouble

LEMMA TryWorkspaceStep == ASSUME ProbesInv, Runtime!TryWorkspace PROVE ProbesInv'
<1>1. /\ check = "temporary-workspace" /\ asked' = asked /\ contents' = contents /\ first' = first
      /\ identity' = identity /\ qualified' = qualified /\ failing' = failing
      /\ replaced' = replaced /\ stale' = stale
  BY DEF Runtime!TryWorkspace
<1>2. /\ asked.by = "doctor" /\ DoctorAt /\ passed = 5 /\ Where /\ Known /\ Clean
      /\ trouble = 0 /\ failing \in BOOLEAN /\ failing' \in BOOLEAN /\ (replaced = 0 => Fits)
  BY <1>1, RequestFacts DEF ProbesInv, Where, DoctorAt, Clean
<1>3. CASE Runtime!Pass(Runtime!PreflightStart) /\ leftovers' = leftovers /\ trouble' = trouble
  <2>1. PICK next : next = (IF Runtime!IsNode THEN "opening" ELSE "probing") /\ Runtime!Pass(next)
    BY <1>3 DEF Runtime!PreflightStart
  <2>2. check' = next /\ passed' = 6 /\ admission' = admission
    BY <1>2, <2>1 DEF Runtime!Pass, Runtime!Continue
  <2>3. Where'
    <3>1. /\ asked.authorized /\ asked.configuration = "UNCHANGED"
          /\ asked.adapter \in {"node-test", "bun-test"}
      BY <1>1, <1>2 DEF DoctorAt
    <3> QED BY <1>1, <1>2, <2>1, <2>2, <3>1 DEF Where, DoctorAt
  <2>4. Known'
    BY <1>1, <1>2, <2>1, <2>2, StillKnown
  <2>5. replaced = 0 => Fits'
    <3>1. /\ SupportedAsked' = SupportedAsked /\ Asked' = Asked
          /\ Runtime!Runs("requested")' = Runtime!Runs("requested")
      BY <1>1, SameAsked
    <3>2. QualifiedSoFar'
      <4>1. 1 .. qualified' = {}
        BY <1>1, <1>2 DEF Clean
      <4> QED BY <4>1 DEF QualifiedSoFar
    <3> QED BY <1>1, <1>2, <2>1, <2>2, <3>1, <3>2 DEF Fits
  <2> QED BY <1>1, <1>3, <2>1, <2>3, <2>4, <2>5, PassesOn DEF Runtime!Pass
<1>4. CASE /\ Runtime!Block("TEMPORARY_WORKSPACE_UNAVAILABLE", TRUE, TRUE) /\ passed' = passed
           /\ trouble' = 6
  <2>1. passed >= 3 /\ passed >= 4 /\ trouble' \in {0, passed + 1} /\ trouble' # 0
    BY <1>2, <1>4
  <2> QED BY <1>1, <1>2, <1>4, <2>1, EndsBlocked
<1> QED BY <1>3, <1>4 DEF Runtime!TryWorkspace, Runtime!InTrouble

-----------------------------------------------------------------------------
(* The preflight of an executable. *)
LEMMA PreflightBlocks ==
  ASSUME ProbesInv, check \in {"opening", "probing", "closing"},
         asked' = asked, contents' = contents, replaced' = replaced, passed' = passed,
         identity' = identity, stale' = stale, qualified' = qualified, failing' \in BOOLEAN,
         Runtime!Unqualified, trouble' \in {0, 7}, trouble' = 0 => trouble = 0,
         asked.by = "doctor" /\ replaced = 0 /\ trouble' = 0 => OddAsked
  PROVE  ProbesInv'
<1>1. Runtime!Block("PREFLIGHT_FAILED", TRUE, TRUE)
  BY DEF Runtime!Unqualified
<1>2. asked.by = "doctor" => passed = 6
  BY DEF ProbesInv, Where, DoctorAt
<1>3. asked.by = "doctor" =>
        /\ (TRUE <=> passed >= 3) /\ (TRUE <=> passed >= 4) /\ trouble' \in {0, passed + 1}
  BY <1>2
<1>4. asked.by = "doctor" /\ replaced = 0 /\ trouble' = 0 => WrongAt(passed + 1) /\ trouble = 0
  BY <1>2 DEF WrongAt
<1> QED BY <1>1, <1>3, <1>4, EndsBlocked

LEMMA PreflightCloses ==
  ASSUME ProbesInv, check \in {"opening", "probing"}, Runtime!IsNode, Runtime!Continue("closing"),
         asked' = asked, contents' = contents, replaced' = replaced, passed' = passed,
         identity' = identity, stale' = stale, qualified' = qualified, failing' \in BOOLEAN,
         trouble' \in {0, 7},
         failing' /\ asked.by = "doctor" /\ replaced = 0 /\ trouble' = 0 => OddAsked,
         ~failing' => /\ qualified = Len(Runtime!Probes) /\ trouble' = 0
                      /\ leftovers' \subseteq {"root"}
  PROVE  ProbesInv'
<1>1. Where /\ Known /\ Clean /\ (replaced = 0 => Fits)
  BY DEF ProbesInv
<1>2. check' = "closing" /\ admission' = admission
  BY DEF Runtime!Continue
<1>3. Where'
  BY <1>1, <1>2 DEF Where, DoctorAt
<1>4. Known'
  BY <1>1, <1>2, StillKnown
<1>5. /\ Asked' = Asked /\ SupportedAsked' = SupportedAsked /\ OddAsked' = OddAsked
      /\ Runtime!Probes' = Runtime!Probes /\ Runtime!IsNode' = Runtime!IsNode
      /\ Runtime!Runs("requested")' = Runtime!Runs("requested") /\ QualifiedSoFar' = QualifiedSoFar
  BY SameAsked
<1>6. Clean'
  BY <1>1, <1>2, <1>5 DEF Clean
<1>7. replaced = 0 => Fits'
  <2> SUFFICES ASSUME replaced = 0 PROVE Fits'
    OBVIOUS
  <2>1. QualifiedSoFar
    <3>1. CASE check = "opening"
      <4>1. 1 .. qualified = {}
        BY <1>1, <3>1 DEF Clean
      <4> QED BY <4>1 DEF QualifiedSoFar
    <3>2. CASE check = "probing"
      BY <1>1, <3>2 DEF Fits
    <3> QED BY <3>1, <3>2
  <2> QED BY <1>1, <1>2, <1>5, <2>1 DEF Fits
<1> QED BY <1>2, <1>3, <1>4, <1>6, <1>7 DEF ProbesInv

LEMMA OpenRootStep == ASSUME ProbesInv, Runtime!OpenRoot PROVE ProbesInv'
<1>1. /\ check = "opening" /\ check' = "probing" /\ admission' = admission
      /\ leftovers' = leftovers \cup {"root"}
      /\ asked' = asked /\ contents' = contents /\ first' = first /\ passed' = passed
      /\ identity' = identity /\ qualified' = qualified /\ failing' = failing
      /\ trouble' = trouble /\ replaced' = replaced /\ stale' = stale
  BY DEF Runtime!OpenRoot, Runtime!Continue
<1>2. Where /\ Known /\ Clean /\ (replaced = 0 => Fits)
  BY <1>1 DEF ProbesInv
<1>3. Where'
  BY <1>1, <1>2 DEF Where, DoctorAt
<1>4. Known'
  BY <1>1, <1>2, StillKnown
<1>5. /\ Asked' = Asked /\ SupportedAsked' = SupportedAsked
      /\ Runtime!Probes' = Runtime!Probes /\ Runtime!IsNode' = Runtime!IsNode
      /\ Runtime!Runs("requested")' = Runtime!Runs("requested") /\ QualifiedSoFar' = QualifiedSoFar
  BY <1>1, SameAsked
<1>6. Clean'
  <2>1. Runtime!IsNode' /\ leftovers' = {"root"}
    BY <1>1, <1>2, <1>5 DEF Clean
  <2> QED BY <1>1, <1>2, <1>5, <2>1 DEF Clean
<1>7. QualifiedSoFar
  <2>1. 1 .. qualified = {}
    BY <1>1, <1>2 DEF Clean
  <2> QED BY <2>1 DEF QualifiedSoFar
<1>8. replaced = 0 => Fits'
  BY <1>1, <1>2, <1>5, <1>7 DEF Fits
<1> QED BY <1>1, <1>3, <1>4, <1>6, <1>8 DEF ProbesInv

LEMMA OpenRootTroubleStep == ASSUME ProbesInv, NEW what, Runtime!OpenRootTrouble(what) PROVE ProbesInv'
<1>1. /\ check = "opening" /\ trouble' = 7
      /\ asked' = asked /\ contents' = contents /\ passed' = passed
      /\ identity' = identity /\ qualified' = qualified /\ replaced' = replaced /\ stale' = stale
  BY DEF Runtime!OpenRootTrouble, Runtime!InTrouble
<1>2. Runtime!IsNode /\ failing \in BOOLEAN
  BY <1>1 DEF ProbesInv, Clean
<1>3. CASE Runtime!Continue("closing") /\ failing' = TRUE
  BY <1>1, <1>2, <1>3, PreflightCloses
<1>4. CASE Runtime!Unqualified /\ failing' = failing
  BY <1>1, <1>2, <1>4, PreflightBlocks
<1> QED BY <1>3, <1>4 DEF Runtime!OpenRootTrouble

(* A probe that is not answered as expected, or not at all. *)
LEMMA PreflightFails ==
  ASSUME ProbesInv, check = "probing", Runtime!FailPreflight,
         asked' = asked, contents' = contents, replaced' = replaced, passed' = passed,
         identity' = identity, stale' = stale, qualified' = qualified, trouble' \in {0, 7},
         asked.by = "doctor" /\ replaced = 0 /\ trouble' = 0 => OddAsked
  PROVE  ProbesInv'
<1>1. trouble = 0 /\ failing \in BOOLEAN
  BY DEF ProbesInv, Clean
<1>2. CASE Runtime!IsNode /\ Runtime!Continue("closing") /\ failing' = TRUE
  BY <1>1, <1>2, PreflightCloses
<1>3. CASE Runtime!Unqualified /\ failing' = failing
  BY <1>1, <1>3, PreflightBlocks
<1> QED BY <1>2, <1>3 DEF Runtime!FailPreflight

LEMMA ProbeTroubleStep == ASSUME ProbesInv, NEW what, Runtime!ProbeTrouble(what) PROVE ProbesInv'
<1>1. /\ check = "probing" /\ trouble' = 7 /\ Runtime!FailPreflight
      /\ asked' = asked /\ contents' = contents /\ passed' = passed
      /\ identity' = identity /\ qualified' = qualified /\ replaced' = replaced /\ stale' = stale
  BY DEF Runtime!ProbeTrouble, Runtime!InTrouble
<1> QED BY <1>1, PreflightFails

LEMMA ProbeStep == ASSUME ProbesInv, Runtime!Probe PROVE ProbesInv'
<1> DEFINE expected == Runtime!Probes[qualified + 1]
           b == Runtime!Started(identity.file)
           answered == b # Runtime!Missing /\ Runtime!Qualifies(Runtime!Report(b, expected), expected)
<1>1. /\ check = "probing" /\ qualified < Len(Runtime!Probes)
      /\ asked' = asked /\ contents' = contents /\ first' = first /\ passed' = passed
      /\ identity' = identity /\ leftovers' = leftovers
      /\ trouble' = trouble /\ replaced' = replaced /\ stale' = stale
  BY DEF Runtime!Probe
<1>2. Where /\ Known /\ Clean /\ (replaced = 0 => Fits)
  BY <1>1 DEF ProbesInv
<1>3. replaced = 0 => SupportedAsked /\ b = Asked /\ b # Runtime!Missing /\ QualifiedSoFar
  BY <1>1, <1>2, RunsTwice, SupportedIsThere DEF Fits, SupportedAsked
<1>4. qualified \in Nat /\ trouble = 0
  BY <1>1, <1>2 DEF Clean
<1>5. qualified + 1 \in 1 .. Len(Runtime!Probes) /\ qualified + 1 <= Len(Runtime!Probes)
  <2>1. \A k, m \in Nat : k < m => k + 1 \in 1 .. m /\ k + 1 <= m
    OBVIOUS
  <2> QED BY <1>1, <1>4, <2>1, ProbesCount, Zenon
<1>6. CASE answered /\ qualified' = qualified + 1 /\ UNCHANGED <<check, admission, failing>>
  <2>1. Where'
    BY <1>1, <1>2, <1>6 DEF Where, DoctorAt
  <2>2. Known'
    BY <1>1, <1>2, <1>6, StillKnown
  <2>3. /\ Asked' = Asked /\ SupportedAsked' = SupportedAsked
        /\ Runtime!Probes' = Runtime!Probes /\ Runtime!IsNode' = Runtime!IsNode
        /\ Runtime!Runs("requested")' = Runtime!Runs("requested")
    BY <1>1, SameAsked
  <2>4. Clean'
    <3>1. qualified' \in Nat /\ qualified' <= Len(Runtime!Probes)
      <4>1. qualified + 1 \in Nat
        BY <1>4
      <4> QED BY <1>5, <1>6, <4>1, Zenon
    <3> QED BY <1>1, <1>2, <1>6, <2>3, <3>1 DEF Clean
  <2>5. ASSUME replaced = 0 PROVE QualifiedSoFar'
    <3>1. \A n \in 1 .. (qualified + 1) : n \in 1 .. qualified \/ n = qualified + 1
      BY <1>4
    <3>2. Runtime!Qualifies(Runtime!Report(Asked, expected), expected)
      BY <1>3, <1>6, <2>5
    <3>3. \A n \in 1 .. (qualified + 1) :
            Runtime!Qualifies(Runtime!Report(Asked, Runtime!Probes[n]), Runtime!Probes[n])
      BY <1>3, <2>5, <3>1, <3>2, Zenon DEF QualifiedSoFar
    <3> QED BY <1>6, <2>3, <3>3, Zenon DEF QualifiedSoFar
  <2>6. replaced = 0 => Fits'
    BY <1>1, <1>2, <1>6, <2>3, <2>5 DEF Fits
  <2> QED BY <1>1, <1>6, <2>1, <2>2, <2>4, <2>6 DEF ProbesInv
<1>7. CASE ~answered /\ Runtime!FailPreflight /\ qualified' = qualified
  <2>1. ASSUME asked.by = "doctor", replaced = 0 PROVE OddAsked
    <3>1. asked.adapter \in {"node-test", "bun-test"}
      BY <1>1, <1>2, <2>1 DEF Where, DoctorAt
    <3>2. Expected(expected)
      BY <1>5, <3>1, DoctorExpects
    <3>3. ~Runtime!Qualifies(Runtime!Report(Asked, expected), expected)
      BY <1>3, <1>7, <2>1
    <3>4. Asked.odd = expected.name
      BY <3>2, <3>3, OddDoesNotQualify
    <3> QED BY <1>5, <3>4, Zenon DEF OddAsked
  <2> QED BY <1>1, <1>4, <1>7, <2>1, PreflightFails
<1> QED BY <1>6, <1>7, Zenon DEF Runtime!Probe

(* A step that admits after every probe was answered. *)
LEMMA EndsAdmitted ==
  ASSUME ProbesInv, check \in {"probing", "closing"}, Runtime!Admit,
         asked' = asked, contents' = contents, replaced' = replaced, passed' = passed,
         identity' = identity, stale' = stale, qualified' = qualified, failing' = failing,
         qualified = Len(Runtime!Probes), trouble' = 0, leftovers' = {}
  PROVE  ProbesInv'
<1>1. Where /\ Known /\ Clean /\ (replaced = 0 => Fits)
  BY DEF ProbesInv
<1>2. asked.by = "doctor" => DoctorAt /\ passed = 6
  BY <1>1 DEF Where, DoctorAt
<1>3. admission'.status = "READY" /\ check' = "ended"
  BY <1>1, <1>2, Admits
<1>4. Where'
  BY <1>1, <1>3 DEF Where
<1>5. Known'
  BY <1>1, <1>3, StillKnown
<1>6. /\ Asked' = Asked /\ SupportedAsked' = SupportedAsked
      /\ Runtime!Probes' = Runtime!Probes /\ QualifiedSoFar' = QualifiedSoFar
  BY SameAsked
<1>7. Clean'
  BY <1>1, <1>3, <1>6 DEF Clean
<1>8. Concluded'
  <2>1. replaced = 0 => SupportedAsked /\ QualifiedSoFar
    BY <1>1 DEF Fits
  <2>2. replaced = 0 /\ asked.by = "doctor" => Asked.loads
    BY <1>1 DEF Fits
  <2>3. asked.by = "doctor" =>
          /\ asked.authorized /\ asked.configuration = "UNCHANGED"
          /\ asked.adapter \in {"node-test", "bun-test"}
    BY <1>2 DEF DoctorAt
  <2>4. asked.adapter \in {"node-test", "bun-test", "bun-test-designated"}
    BY <1>1, <2>3, RequestFacts DEF Where
  <2> QED BY <1>3, <1>6, <2>1, <2>2, <2>3, <2>4 DEF Concluded
<1> QED BY <1>3, <1>4, <1>5, <1>7, <1>8 DEF ProbesInv

LEMMA AllQualifyStep == ASSUME ProbesInv, Runtime!AllQualify PROVE ProbesInv'
<1>1. /\ check = "probing" /\ qualified = Len(Runtime!Probes)
      /\ asked' = asked /\ contents' = contents /\ passed' = passed
      /\ identity' = identity /\ qualified' = qualified /\ failing' = failing /\ leftovers' = leftovers
      /\ trouble' = trouble /\ replaced' = replaced /\ stale' = stale
  BY DEF Runtime!AllQualify
<1>2. /\ trouble = 0 /\ ~failing /\ failing \in BOOLEAN
      /\ leftovers = IF Runtime!IsNode THEN {"root"} ELSE {}
  BY <1>1 DEF ProbesInv, Clean
<1>3. CASE Runtime!IsNode /\ Runtime!Continue("closing")
  BY <1>1, <1>2, <1>3, PreflightCloses
<1>4. CASE ~Runtime!IsNode /\ Runtime!Admit
  BY <1>1, <1>2, <1>4, EndsAdmitted
<1> QED BY <1>3, <1>4 DEF Runtime!AllQualify

LEMMA CloseRootStep == ASSUME ProbesInv, Runtime!CloseRoot PROVE ProbesInv'
<1>1. /\ check = "closing"
      /\ asked' = asked /\ contents' = contents /\ passed' = passed
      /\ identity' = identity /\ qualified' = qualified /\ failing' = failing
      /\ replaced' = replaced /\ stale' = stale
  BY DEF Runtime!CloseRoot
<1>2. Clean /\ (replaced = 0 => Fits) /\ failing \in BOOLEAN /\ trouble \in {0, 7}
  BY <1>1 DEF ProbesInv, Clean
<1>3. CASE leftovers' = leftovers \ {"root"} /\ trouble' = trouble /\ failing /\ Runtime!Unqualified
  <2>1. asked.by = "doctor" /\ replaced = 0 /\ trouble' = 0 => OddAsked
    BY <1>1, <1>2, <1>3 DEF Fits
  <2> QED BY <1>1, <1>2, <1>3, <2>1, PreflightBlocks
<1>4. CASE leftovers' = leftovers \ {"root"} /\ trouble' = trouble /\ ~failing /\ Runtime!Admit
  <2>1. qualified = Len(Runtime!Probes) /\ trouble' = 0 /\ leftovers \subseteq {"root"}
    BY <1>1, <1>2, <1>4 DEF Clean
  <2>2. leftovers' = {}
    BY <1>4, <2>1
  <2> QED BY <1>1, <1>2, <1>4, <2>1, <2>2, EndsAdmitted
<1>5. CASE Runtime!InTrouble(7) /\ Runtime!Unqualified
  <2>1. trouble' = 7
    BY <1>5 DEF Runtime!InTrouble
  <2> QED BY <1>1, <1>2, <1>5, <2>1, PreflightBlocks
<1> QED BY <1>3, <1>4, <1>5 DEF Runtime!CloseRoot

(* Every step keeps the invariant. *)
LEMMA ProbesStep == ProbesInv /\ [Runtime!Next]_probeVars => ProbesInv'
<1> SUFFICES ASSUME ProbesInv, [Runtime!Next]_probeVars PROVE ProbesInv'
  OBVIOUS
<1>1. CASE UNCHANGED probeVars
  <2>1. Where'
    BY <1>1 DEF probeVars, ProbesInv, Where, DoctorAt
  <2>2. Known'
    BY <1>1 DEF probeVars, ProbesInv, Known, Runtime!IdentityIsOfOne
  <2>3. /\ Asked' = Asked /\ SupportedAsked' = SupportedAsked /\ OddAsked' = OddAsked
        /\ Runtime!Probes' = Runtime!Probes /\ Runtime!IsNode' = Runtime!IsNode
        /\ Runtime!Runs("requested")' = Runtime!Runs("requested") /\ QualifiedSoFar' = QualifiedSoFar
    BY <1>1, SameAsked DEF probeVars
  <2>4. Clean'
    BY <1>1, <2>3 DEF probeVars, ProbesInv, Clean
  <2>5. replaced = 0 /\ check # "ended" => Fits'
    BY <1>1, <2>3 DEF probeVars, ProbesInv, Fits
  <2>6. check = "ended" => Concluded'
    <3>1. \A n : WrongAt(n)' <=> WrongAt(n)
      BY <1>1, <2>3 DEF probeVars, WrongAt
    <3> QED BY <1>1, <2>3, <3>1 DEF probeVars, ProbesInv, Concluded
  <2> QED BY <1>1, <2>1, <2>2, <2>4, <2>5, <2>6 DEF probeVars, ProbesInv
<1>2. CASE \E file \in Runtime!Files, b \in Builds \cup {Runtime!Missing, Runtime!Wrapper} :
             Runtime!Replace(file, b)
  BY <1>2, ReplaceStep
<1>3. CASE \/ Runtime!Authorize \/ Runtime!InspectConfiguration \/ Runtime!InspectAdapter
           \/ Runtime!LoadRunner \/ Runtime!TryWorkspace
  BY <1>3, AuthorizeStep, InspectConfigurationStep, InspectAdapterStep, LoadRunnerStep, TryWorkspaceStep
<1>4. CASE \/ Runtime!FirstProbe \/ Runtime!ResolvePath \/ Runtime!SecondProbe \/ Runtime!ReadDigest
           \/ Runtime!IdentifyInContainer
  BY <1>4, FirstProbeStep, ResolvePathStep, SecondProbeStep, ReadDigestStep, IdentifyInContainerStep
<1>5. CASE \E what \in {"execution", "realpath", "removal"} :
             Runtime!IdentityTrouble(what) \/ Runtime!ProbeTrouble(what)
  BY <1>5, IdentityTroubleStep, ProbeTroubleStep
<1>6. CASE Runtime!OpenRoot \/ \E what \in {"mkdtemp", "realpath", "write"} : Runtime!OpenRootTrouble(what)
  BY <1>6, OpenRootStep, OpenRootTroubleStep
<1>7. CASE Runtime!Probe \/ Runtime!AllQualify \/ Runtime!CloseRoot
  BY <1>7, ProbeStep, AllQualifyStep, CloseRootStep
<1> QED BY <1>1, <1>2, <1>3, <1>4, <1>5, <1>6, <1>7, Zenon DEF Runtime!Next

-----------------------------------------------------------------------------
(* The study of a corpus: the order of the cases, and the split it makes.  *)

(* An order of the cases by their scores, and by their ids where these agree. *)
LEMMA BeforeOrders ==
  ASSUME NEW S, S \subseteq Nat \X Nat, NEW seed, \A c \in S : Score(seed, c) \in Nat
  PROVE  /\ \A a \in S : ~Corpus!Before(seed, a, a)
         /\ \A a, b, c \in S :
              Corpus!Before(seed, a, b) /\ Corpus!Before(seed, b, c) => Corpus!Before(seed, a, c)
         /\ \A a, b \in S : a = b \/ Corpus!Before(seed, a, b) \/ Corpus!Before(seed, b, a)
<1>0. ASSUME NEW a \in S
      PROVE  Score(seed, a) \in Nat /\ a[1] \in Nat /\ a[2] \in Nat /\ a = <<a[1], a[2]>>
  OBVIOUS
<1>1. ASSUME NEW a \in S PROVE ~Corpus!Before(seed, a, a)
  BY <1>0 DEF Corpus!Before, Corpus!Precedes
<1>2. ASSUME NEW a \in S, NEW b \in S, NEW c \in S,
             Corpus!Before(seed, a, b), Corpus!Before(seed, b, c)
      PROVE  Corpus!Before(seed, a, c)
  BY <1>0, <1>2 DEF Corpus!Before, Corpus!Precedes
<1>3. ASSUME NEW a \in S, NEW b \in S, ~Corpus!Before(seed, a, b), ~Corpus!Before(seed, b, a)
      PROVE  a = b
  <2>1. a[1] = b[1] /\ a[2] = b[2]
    BY <1>0, <1>3 DEF Corpus!Before, Corpus!Precedes
  <2> QED BY <2>1, <1>0
<1> QED BY <1>1, <1>2, <1>3

(* The cases can be put in that order: the place of each is the number of  *)
(* those before it.                                                        *)
LEMMA OrderExists ==
  ASSUME NEW S, S \subseteq Nat \X Nat, IsFiniteSet(S),
         NEW seed, \A c \in S : Score(seed, c) \in Nat
  PROVE  \E t \in [1 .. Cardinality(S) -> S] :
            \A i, j \in 1 .. Cardinality(S) : i < j => Corpus!Before(seed, t[i], t[j])
<1> DEFINE n == Cardinality(S)
           below(x) == {y \in S : Corpus!Before(seed, y, x)}
           rank == [x \in S |-> Cardinality(below(x)) + 1]
           t == [i \in 1 .. n |-> CHOOSE x \in S : rank[x] = i]
<1>0. n \in Nat
  BY FS_CardinalityType
<1>1. ASSUME NEW x \in S
      PROVE  /\ IsFiniteSet(below(x)) /\ Cardinality(below(x)) \in Nat
             /\ Cardinality(below(x)) <= n - 1 /\ x \notin below(x)
  <2>1. x \notin below(x)
    BY BeforeOrders
  <2>2. IsFiniteSet(S \ {x}) /\ Cardinality(S \ {x}) = n - 1
    BY FS_RemoveElement
  <2>3. below(x) \in SUBSET (S \ {x})
    BY <2>1
  <2>4. IsFiniteSet(below(x)) /\ Cardinality(below(x)) <= n - 1
    <3> HIDE DEF below, n
    <3> QED BY <2>2, <2>3, FS_Subset
  <2> QED BY <2>1, <2>4, FS_CardinalityType
<1>2. ASSUME NEW x \in S, NEW y \in S, Corpus!Before(seed, x, y)
      PROVE  rank[x] < rank[y]
  <2>1. below(x) \cup {x} \in SUBSET below(y)
    BY <1>2, BeforeOrders
  <2>2. IsFiniteSet(below(y)) /\ IsFiniteSet(below(x)) /\ x \notin below(x)
    BY <1>1
  <2>3. Cardinality(below(x) \cup {x}) = Cardinality(below(x)) + 1
    <3> HIDE DEF below
    <3> QED BY <2>2, FS_AddElement
  <2>4. Cardinality(below(x)) + 1 <= Cardinality(below(y))
    <3> HIDE DEF below
    <3> QED BY <2>1, <2>2, <2>3, FS_Subset
  <2>5. Cardinality(below(x)) \in Nat /\ Cardinality(below(y)) \in Nat
    BY <1>1
  <2> QED BY <2>4, <2>5
<1>3. rank \in [S -> 1 .. n]
  <2> SUFFICES ASSUME NEW x \in S PROVE Cardinality(below(x)) + 1 \in 1 .. n
    OBVIOUS
  <2>1. Cardinality(below(x)) \in Nat /\ Cardinality(below(x)) <= n - 1
    BY <1>1
  <2> HIDE DEF below, n
  <2> QED BY <1>0, <2>1
<1>4. \A x, y \in S : rank[x] = rank[y] => x = y
  <2> SUFFICES ASSUME NEW x \in S, NEW y \in S, rank[x] = rank[y], x # y PROVE FALSE
    OBVIOUS
  <2>1. rank[x] < rank[y] \/ rank[y] < rank[x]
    BY <1>2, BeforeOrders
  <2>2. rank[x] \in 1 .. n /\ rank[y] \in 1 .. n
    BY <1>3
  <2> HIDE DEF rank
  <2> QED BY <2>1, <2>2, <1>0
<1>5. rank \in Surjection(S, 1 .. n)
  <2> HIDE DEF rank
  <2>1. rank \in Injection(S, 1 .. n)
    BY <1>3, <1>4 DEF Injection, IsInjective
  <2>2. IsFiniteSet(1 .. n) /\ Cardinality(1 .. n) = n
    BY <1>0, FS_Interval
  <2> QED BY <2>1, <2>2, FS_Injection
<1>6. \A i \in 1 .. n : t[i] \in S /\ rank[t[i]] = i
  <2> HIDE DEF rank
  <2> QED BY <1>5 DEF Surjection
<1>7. ASSUME NEW i \in 1 .. n, NEW j \in 1 .. n, i < j
      PROVE  Corpus!Before(seed, t[i], t[j])
  <2>1. t[i] # t[j] /\ ~(rank[t[j]] < rank[t[i]]) /\ t[i] \in S /\ t[j] \in S
    <3> HIDE DEF rank, t
    <3> QED BY <1>6, <1>7, <1>0
  <2> HIDE DEF rank, t
  <2> QED BY <2>1, <1>2, BeforeOrders
<1>8. t \in [1 .. n -> S]
  BY <1>6
<1> HIDE DEF t
<1> QED BY <1>7, <1>8

(* What Arranged gives: each case once, in their order. *)
LEMMA ArrangedInOrder ==
  ASSUME NEW S, S \subseteq Nat \X Nat, IsFiniteSet(S),
         NEW seed, \A c \in S : Score(seed, c) \in Nat
  PROVE  LET t == Corpus!Arranged(S, seed)
         IN  /\ t \in [1 .. Cardinality(S) -> S]
             /\ \A i, j \in 1 .. Cardinality(S) : i < j => Corpus!Before(seed, t[i], t[j])
             /\ \A i, j \in 1 .. Cardinality(S) : t[i] = t[j] => i = j
             /\ \A c \in S : \E i \in 1 .. Cardinality(S) : t[i] = c
             /\ Corpus!Range(t) = S
<1> DEFINE n == Cardinality(S)
           t == Corpus!Arranged(S, seed)
<1>0. n \in Nat
  BY FS_CardinalityType
<1>1. /\ t \in [1 .. n -> S]
      /\ \A i, j \in 1 .. n : i < j => Corpus!Before(seed, t[i], t[j])
  BY OrderExists, CorpusCardinality DEF Corpus!Arranged
<1> HIDE DEF t
<1>2. \A i, j \in 1 .. n : t[i] = t[j] => i = j
  <2> SUFFICES ASSUME NEW i \in 1 .. n, NEW j \in 1 .. n, t[i] = t[j], i < j PROVE FALSE
    BY <1>0
  <2>1. Corpus!Before(seed, t[i], t[j]) /\ t[i] \in S
    BY <1>1
  <2> QED BY <2>1, BeforeOrders
<1>3. t \in Surjection(1 .. n, S)
  <2>1. t \in Injection(1 .. n, S)
    BY <1>1, <1>2 DEF Injection, IsInjective
  <2>2. IsFiniteSet(1 .. n) /\ Cardinality(1 .. n) = n
    BY <1>0, FS_Interval
  <2> HIDE DEF n
  <2>3. n = Cardinality(S)
    BY DEF n
  <2> QED BY <2>1, <2>2, <2>3, FS_Injection
<1>4. \A c \in S : \E i \in 1 .. n : t[i] = c
  BY <1>3 DEF Surjection
<1>5. Corpus!Range(t) = S
  BY <1>1, <1>4 DEF Corpus!Range
<1> QED BY <1>1, <1>2, <1>4, <1>5 DEF t

(* A case belongs to the one source that holds it. *)
LEMMA HeldBySource ==
  ASSUME NEW s \in DOMAIN Held, NEW c \in Held[s]
  PROVE  Corpus!SourceOf(c) = s /\ c \in Corpus!AllCases
<1>1. \A t \in DOMAIN Held : c \in Held[t] => t = s
  BY CorpusAssumption
<1> QED BY <1>1 DEF Corpus!SourceOf, Corpus!AllCases

(* All cases together are finitely many, and have their scores. *)
LEMMA CasesAreScored ==
  /\ IsFiniteSet(Corpus!AllCases)
  /\ Corpus!AllCases \subseteq Nat \X Nat
  /\ \A seed \in [{Author, Reviewer} -> Secrets], c \in Corpus!AllCases : Score(seed, c) \in Nat
<1>1. IsFiniteSet({Held[s] : s \in DOMAIN Held})
  <2> DEFINE parts == [s \in DOMAIN Held |-> Held[s]]
             all == {Held[s] : s \in DOMAIN Held}
  <2>1. parts \in Surjection(DOMAIN Held, all)
    BY DEF Surjection
  <2> HIDE DEF parts, all
  <2>2. IsFiniteSet(all)
    BY <2>1, CorpusAssumption, FS_Surjection
  <2> QED BY <2>2 DEF all
<1>2. \A h \in {Held[s] : s \in DOMAIN Held} : IsFiniteSet(h)
  BY CorpusAssumption
<1>3. IsFiniteSet(UNION {Held[s] : s \in DOMAIN Held})
  BY <1>1, <1>2, FS_UNION
<1> QED BY <1>3, CorpusAssumption DEF Corpus!AllCases

(* The strata that a study commits to. *)
Strata ==
  {[sourceId |-> s, identity |-> Corpus!IdentityOf(s), calibrationCount |-> Calibrated[s],
    cases |-> Held[s]] : s \in DOMAIN Held}

(* What a commitment says of a case. *)
Entry(x) ==
  [caseId |-> x, caseDigest |-> Corpus!Sha256(Corpus!Document(x, "r1")),
   provenanceDigest |-> Corpus!Provenance(x).digest, sourceId |-> Corpus!SourceOf(x),
   identity |-> Corpus!IdentityOf(Corpus!SourceOf(x))]

(* The case set, the strata and the signers of a commitment. *)
LEMMA CommitmentSays ==
  ASSUME NEW drawn
  PROVE  LET c == Corpus!CommitmentTo(drawn)
         IN  /\ c.caseSet = {Entry(x) : x \in Corpus!AllCases}
             /\ c.strata = {[sourceId |-> s, identity |-> Corpus!IdentityOf(s),
                             calibrationCount |-> Calibrated[s]] : s \in DOMAIN Held}
<1>1. Corpus!CommitmentTo(drawn).caseSet = {Entry(x) : x \in Corpus!AllCases}
  BY DEF Corpus!CommitmentTo, Entry
<1>2. Corpus!CommitmentTo(drawn).strata =
        {[sourceId |-> s, identity |-> Corpus!IdentityOf(s),
          calibrationCount |-> Calibrated[s]] : s \in DOMAIN Held}
  BY DEF Corpus!CommitmentTo
<1> QED BY <1>1, <1>2

(* Each signer commits to the share drawn under the key, and signs. *)
SignerOf(drawn, y, bytes) ==
  [role |-> y[1], keyId |-> y[2], share |-> Corpus!ShareCommitment(y[2], drawn[y[1]]),
   signature |-> Corpus!Signed(Corpus!KeyOf(y[2]), bytes)]

LEMMA CommitmentSigned ==
  ASSUME NEW drawn
  PROVE  \E bytes : Corpus!CommitmentTo(drawn).signers = {SignerOf(drawn, y, bytes) : y \in Corpus!Signers}
<1> DEFINE share(y) == Corpus!ShareCommitment(y[2], drawn[y[1]])
           unsigned ==
             [policyDigest |-> Policy.digest,
              caseSet |-> {[caseId |-> c, caseDigest |-> Corpus!Sha256(Corpus!Document(c, "r1")),
                            provenanceDigest |-> Corpus!Provenance(c).digest,
                            sourceId |-> Corpus!SourceOf(c),
                            identity |-> Corpus!IdentityOf(Corpus!SourceOf(c))] : c \in Corpus!AllCases},
              strata |-> {[sourceId |-> s, identity |-> Corpus!IdentityOf(s),
                           calibrationCount |-> Calibrated[s]] : s \in DOMAIN Held},
              signers |-> {[role |-> y[1], keyId |-> y[2], share |-> share(y)] : y \in Corpus!Signers}]
           bytes == Corpus!CommitmentProjection(unsigned)
           signature(y) == Corpus!Signed(Corpus!KeyOf(y[2]), bytes)
<1>1. Corpus!CommitmentTo(drawn).signers =
        {[role |-> y[1], keyId |-> y[2], share |-> share(y), signature |-> signature(y)] :
            y \in Corpus!Signers}
  BY Zenon DEF Corpus!CommitmentTo
<1> HIDE DEF unsigned, bytes
<1> QED BY <1>1 DEF SignerOf

LEMMA SignersCommit ==
  ASSUME NEW drawn
  PROVE  /\ \A y \in Corpus!Signers : \E x \in Corpus!CommitmentTo(drawn).signers :
              /\ x.role = y[1] /\ x.keyId = y[2]
              /\ x.share = Corpus!ShareCommitment(y[2], drawn[y[1]])
         /\ \A x \in Corpus!CommitmentTo(drawn).signers : \E y \in Corpus!Signers :
              x.role = y[1] /\ x.keyId = y[2]
<1>1. PICK bytes :
        Corpus!CommitmentTo(drawn).signers = {SignerOf(drawn, y, bytes) : y \in Corpus!Signers}
  BY CommitmentSigned
<1>2. \A y : /\ SignerOf(drawn, y, bytes).role = y[1] /\ SignerOf(drawn, y, bytes).keyId = y[2]
             /\ SignerOf(drawn, y, bytes).share = Corpus!ShareCommitment(y[2], drawn[y[1]])
  BY DEF SignerOf
<1> QED BY <1>1, <1>2

(* The cases of a committed stratum are those its source holds. *)
LEMMA StrataCommitted ==
  ASSUME NEW drawn
  PROVE  Corpus!CommittedStrata(Corpus!CommitmentTo(drawn)) = Strata
<1> DEFINE c == Corpus!CommitmentTo(drawn)
           stratum(s) == [sourceId |-> s, identity |-> Corpus!IdentityOf(s),
                          calibrationCount |-> Calibrated[s]]
<1>1. ASSUME NEW s \in DOMAIN Held
      PROVE  Corpus!CasesOf(c, stratum(s)) = Held[s]
  <2>1. \A x \in Corpus!AllCases : Corpus!SourceOf(x) = s <=> x \in Held[s]
    BY HeldBySource DEF Corpus!AllCases
  <2>2. Held[s] \subseteq Corpus!AllCases
    BY DEF Corpus!AllCases
  <2>3. c.caseSet = {Entry(x) : x \in Corpus!AllCases}
    BY CommitmentSays
  <2>4. \A x : /\ Entry(x).caseId = x /\ Entry(x).sourceId = Corpus!SourceOf(x)
               /\ Entry(x).identity = Corpus!IdentityOf(Corpus!SourceOf(x))
    BY DEF Entry
  <2>5. stratum(s).sourceId = s /\ stratum(s).identity = Corpus!IdentityOf(s)
    OBVIOUS
  <2> HIDE DEF c, stratum
  <2>6. Corpus!CasesOf(c, stratum(s)) \subseteq Held[s]
    BY <2>1, <2>3, <2>4, <2>5 DEF Corpus!CasesOf
  <2>7. ASSUME NEW x \in Held[s] PROVE x \in Corpus!CasesOf(c, stratum(s))
    <3>1. Entry(x) \in c.caseSet
      BY <2>2, <2>3
    <3> QED BY <3>1, <2>1, <2>2, <2>4, <2>5 DEF Corpus!CasesOf
  <2> QED BY <2>6, <2>7
<1>2. c.strata = {stratum(s) : s \in DOMAIN Held}
  BY CommitmentSays
<1>3. \A s : /\ stratum(s).sourceId = s /\ stratum(s).identity = Corpus!IdentityOf(s)
             /\ stratum(s).calibrationCount = Calibrated[s]
  OBVIOUS
<1> HIDE DEF c, stratum
<1>4. Corpus!CommittedStrata(c) = {[sourceId |-> s, identity |-> Corpus!IdentityOf(s),
        calibrationCount |-> Calibrated[s], cases |-> Corpus!CasesOf(c, stratum(s))] : s \in DOMAIN Held}
  BY <1>2, <1>3 DEF Corpus!CommittedStrata
<1>5. Corpus!CommittedStrata(c) = Strata
  BY <1>1, <1>4 DEF Strata
<1> QED BY <1>5 DEF c

(* The split that a seed makes of what is held: of every source as many    *)
(* cases as agreed are for calibration, others are left, and no case of    *)
(* the calibration comes after one of the holdout.                         *)
Splits(seed, holdout) ==
  /\ holdout \subseteq Corpus!AllCases /\ holdout # {}
  /\ \A s \in DOMAIN Held :
       /\ Cardinality(Held[s] \ holdout) = Calibrated[s]
       /\ Held[s] \cap holdout # {}
       /\ \A c \in Held[s] \ holdout, d \in Held[s] \cap holdout : Score(seed, c) <= Score(seed, d)

LEMMA SeedSplits ==
  ASSUME NEW seed \in [{Author, Reviewer} -> Secrets], Corpus!RequestParses(Strata)
  PROVE  Splits(seed, Corpus!Range(Corpus!CreateAllocation(seed, Strata).holdout))
<1> DEFINE order(s) == Corpus!Arranged(Held[s], seed)
           n(s) == Cardinality(Held[s])
           kept(s) == {order(s)[i] : i \in 1 .. Calibrated[s]}
           calibrated == UNION {kept(s) : s \in DOMAIN Held}
           holdout == Corpus!AllCases \ calibrated
<1>1. ASSUME NEW s \in DOMAIN Held
      PROVE  /\ n(s) \in Nat /\ Calibrated[s] \in Nat /\ Calibrated[s] >= 1 /\ Calibrated[s] < n(s)
             /\ order(s) \in [1 .. n(s) -> Held[s]]
             /\ \A i, j \in 1 .. n(s) : i < j => Corpus!Before(seed, order(s)[i], order(s)[j])
             /\ \A i, j \in 1 .. n(s) : order(s)[i] = order(s)[j] => i = j
             /\ \A c \in Held[s] : \E i \in 1 .. n(s) : order(s)[i] = c
             /\ kept(s) \subseteq Held[s]
  <2>1. n(s) \in Nat
    BY CorpusAssumption, FS_CardinalityType
  <2>2. PICK x \in Strata : x = [sourceId |-> s, identity |-> Corpus!IdentityOf(s),
                                calibrationCount |-> Calibrated[s], cases |-> Held[s]]
    BY DEF Strata
  <2>3. Calibrated[s] \in 1 .. Corpus!Cardinality(Held[s]) - 1
    BY <2>2 DEF Corpus!RequestParses
  <2>4. Calibrated[s] \in 1 .. n(s) - 1
    BY <2>3, CorpusCardinality
  <2>5. /\ order(s) \in [1 .. n(s) -> Held[s]]
        /\ \A i, j \in 1 .. n(s) : i < j => Corpus!Before(seed, order(s)[i], order(s)[j])
        /\ \A i, j \in 1 .. n(s) : order(s)[i] = order(s)[j] => i = j
        /\ \A c \in Held[s] : \E i \in 1 .. n(s) : order(s)[i] = c
    <3>1. /\ Held[s] \subseteq Nat \X Nat /\ IsFiniteSet(Held[s])
          /\ \A c \in Held[s] : Score(seed, c) \in Nat
      BY CorpusAssumption
    <3> QED BY <3>1, ArrangedInOrder
  <2> HIDE DEF n, order
  <2>6. Calibrated[s] \in Nat /\ Calibrated[s] >= 1 /\ Calibrated[s] < n(s)
    BY <2>1, <2>4
  <2>7. kept(s) \subseteq Held[s]
    BY <2>1, <2>5, <2>6
  <2> QED BY <2>1, <2>5, <2>6, <2>7
<1>2. ASSUME NEW s \in DOMAIN Held
      PROVE  Corpus!Range(Corpus!Allocated([sourceId |-> s, identity |-> Corpus!IdentityOf(s),
                calibrationCount |-> Calibrated[s], cases |-> Held[s]], Strata, seed).calibration)
                = kept(s)
  <2>1. /\ n(s) \in Nat /\ Calibrated[s] \in Nat /\ Calibrated[s] < n(s)
        /\ order(s) \in [1 .. n(s) -> Held[s]]
    BY <1>1
  <2>2. SubSeq(order(s), 1, Calibrated[s]) = [i \in 1 .. Calibrated[s] |-> order(s)[i]]
    <3> HIDE DEF order, n
    <3>1. order(s) \in Seq(Held[s]) /\ Len(order(s)) = n(s)
      BY <2>1
    <3> QED BY <2>1, <3>1
  <2>3. Corpus!Range(SubSeq(order(s), 1, Calibrated[s])) = kept(s)
    <3> HIDE DEF order, n
    <3> QED BY <2>2 DEF Corpus!Range
  <2> QED BY <2>3 DEF Corpus!Allocated
<1>3. Corpus!Range(Corpus!CreateAllocation(seed, Strata).holdout) = holdout
  <2> DEFINE allocated == {Corpus!Allocated(s, Strata, seed) : s \in Strata}
             cases == UNION {s.cases : s \in Strata}
             noted == UNION {Corpus!Range(s.calibration) : s \in allocated}
  <2> DEFINE stratum(s) == [sourceId |-> s, identity |-> Corpus!IdentityOf(s),
                            calibrationCount |-> Calibrated[s], cases |-> Held[s]]
  <2>0. Strata = {stratum(s) : s \in DOMAIN Held} /\ \A s : stratum(s).cases = Held[s]
    BY DEF Strata
  <2>1. cases = Corpus!AllCases
    <3> HIDE DEF stratum
    <3> QED BY <2>0 DEF Corpus!AllCases
  <2>2. noted = calibrated
    <3>1. \A s \in DOMAIN Held :
            Corpus!Range(Corpus!Allocated(stratum(s), Strata, seed).calibration) = kept(s)
      BY <1>2
    <3> HIDE DEF kept, stratum
    <3>2. allocated = {Corpus!Allocated(stratum(s), Strata, seed) : s \in DOMAIN Held}
      BY <2>0
    <3> HIDE DEF allocated
    <3> QED BY <3>1, <3>2
  <2>3. Corpus!CreateAllocation(seed, Strata).holdout = Corpus!Arranged(cases \ noted, seed)
    BY DEF Corpus!CreateAllocation
  <2> HIDE DEF cases, noted, calibrated
  <2>4. holdout \subseteq Nat \X Nat /\ IsFiniteSet(holdout) /\ \A c \in holdout : Score(seed, c) \in Nat
    BY CasesAreScored, FS_Subset
  <2>5. Corpus!Range(Corpus!Arranged(holdout, seed)) = holdout
    <3> HIDE DEF holdout
    <3> QED BY <2>4, ArrangedInOrder
  <2> QED BY <2>1, <2>2, <2>3, <2>5
<1>4. ASSUME NEW s \in DOMAIN Held
      PROVE  Held[s] \ holdout = kept(s) /\ Held[s] \cap holdout = Held[s] \ kept(s)
  <2>1. \A t \in DOMAIN Held : kept(t) \subseteq Held[t]
    BY <1>1
  <2>2. Held[s] \subseteq Corpus!AllCases
    BY DEF Corpus!AllCases
  <2>3. \A t \in DOMAIN Held : t # s => Held[s] \cap Held[t] = {}
    BY CorpusAssumption
  <2> HIDE DEF kept
  <2> QED BY <2>1, <2>2, <2>3
<1>5. ASSUME NEW s \in DOMAIN Held
      PROVE  /\ Cardinality(Held[s] \ holdout) = Calibrated[s]
             /\ Held[s] \cap holdout # {}
             /\ \A c \in Held[s] \ holdout, d \in Held[s] \cap holdout :
                  Score(seed, c) <= Score(seed, d)
  <2> DEFINE k == Calibrated[s]
             t == order(s)
  <2>0. /\ n(s) \in Nat /\ k \in Nat /\ k >= 1 /\ k < n(s)
        /\ t \in [1 .. n(s) -> Held[s]]
        /\ \A i, j \in 1 .. n(s) : i < j => Corpus!Before(seed, t[i], t[j])
        /\ \A i, j \in 1 .. n(s) : t[i] = t[j] => i = j
        /\ \A c \in Held[s] : \E i \in 1 .. n(s) : t[i] = c
    BY <1>1
  <2>1. kept(s) = {t[i] : i \in 1 .. k}
    OBVIOUS
  <2>2. /\ Held[s] \ holdout = kept(s) /\ Held[s] \cap holdout = Held[s] \ kept(s)
    BY <1>4
  <2>3. \A c \in Held[s] : Score(seed, c) \in Nat
    BY CorpusAssumption
  <2> HIDE DEF kept, holdout, t, k, n
  <2>4. Cardinality(kept(s)) = k
    <3> DEFINE f == [i \in 1 .. k |-> t[i]]
    <3>1. f \in [1 .. k -> kept(s)] /\ \A c \in kept(s) : \E i \in 1 .. k : f[i] = c
      BY <2>1
    <3>2. \A i, j \in 1 .. k : f[i] = f[j] => i = j
      BY <2>0
    <3> HIDE DEF f
    <3>3. ExistsBijection(1 .. k, kept(s))
      BY <3>1, <3>2 DEF ExistsBijection, Bijection, Injection, Surjection, IsInjective
    <3>4. IsFiniteSet(1 .. k) /\ Cardinality(1 .. k) = k
      BY <2>0, FS_Interval
    <3> QED BY <3>3, <3>4, FS_Bijection
  <2>5. Held[s] \ kept(s) # {}
    <3>1. k + 1 \in 1 .. n(s) /\ t[k + 1] \in Held[s]
      BY <2>0
    <3>2. \A i \in 1 .. k : t[i] # t[k + 1]
      BY <2>0, <3>1
    <3> QED BY <2>1, <3>1, <3>2
  <2>6. ASSUME NEW c \in kept(s), NEW d \in Held[s] \ kept(s) PROVE Score(seed, c) <= Score(seed, d)
    <3>1. PICK i \in 1 .. k : t[i] = c
      BY <2>1
    <3>2. PICK j \in 1 .. n(s) : t[j] = d
      BY <2>0
    <3>3. ~(j \in 1 .. k)
      BY <2>1, <3>2
    <3>4. i \in 1 .. n(s) /\ i < j
      BY <2>0, <3>3
    <3>5. Corpus!Before(seed, c, d)
      BY <2>0, <3>1, <3>2, <3>4
    <3>6. c \in Held[s] /\ d \in Held[s]
      BY <2>0, <3>1, <3>2, <3>4
    <3> QED BY <3>5, <3>6, <2>3 DEF Corpus!Before
  <2> QED BY <2>2, <2>4, <2>5, <2>6 DEF k
<1>6. holdout \subseteq Corpus!AllCases /\ holdout # {}
  <2>1. PICK s \in DOMAIN Held : TRUE
    BY CorpusAssumption
  <2>2. Held[s] \cap holdout # {}
    BY <1>5
  <2> QED BY <2>2
<1> HIDE DEF holdout
<1> QED BY <1>3, <1>5, <1>6 DEF Splits

-----------------------------------------------------------------------------
(* What happens in a study.                                                *)

(* The seed that the shares make which were committed to. *)
CommittedSeed == [k \in {Author, Reviewer} |-> secrets[IF k = Author THEN "AUTHOR" ELSE "REVIEWER"]]

(* A verdict has no failed rail exactly when nothing went wrong; then it   *)
(* says what the suites did, and is about the committed split.             *)
Genuine ==
  /\ conclusion.failed = {} <=> mishap = "NONE"
  /\ conclusion.failed = {} =>
       conclusion.result.status = Corpus!Judgement /\ Splits(CommittedSeed, Corpus!Holdout)

(* The documents are those that the secrets, the behaviour of the suites   *)
(* and the mishap make, each from the ones before it.                      *)
StudyInv ==
  /\ mishap \in {"NONE"} \cup UNION {Corpus!MishapsAt[s] : s \in DOMAIN Corpus!MishapsAt}
  /\ stage \in {"CORPUS", "COMMITTED", "ALLOCATED"} => mishap # "PLAN_CHANGED"
  /\ stage \in {"COMMITTED", "ALLOCATED", "DECLARED", "EXECUTED", "REPLAYED"} =>
       /\ secrets \in [{"AUTHOR", "REVIEWER"} -> Secrets]
       /\ commitment = Corpus!CommitmentTo(secrets)
  /\ stage \in {"ALLOCATED", "DECLARED", "EXECUTED", "REPLAYED"} =>
       reveal = Corpus!Revealed /\ allocation = Corpus!AllocationFor(reveal)
  /\ stage \in {"DECLARED", "EXECUTED", "REPLAYED"} =>
       /\ pinned = Corpus!DeclaredPlan.digest
       /\ declared = IF mishap = "PLAN_CHANGED" THEN Corpus!Declared(Corpus!Holdout, TRUE)
                     ELSE Corpus!DeclaredPlan
  /\ stage \in {"EXECUTED", "REPLAYED"} =>
       /\ behaviour \in [Corpus!Holdout \X Corpus!Arms -> Corpus!Behaviours]
       /\ receipts = {Corpus!ReceiptFor(x, behaviour) : x \in declared.schedule}
  /\ stage = "REPLAYED" => Genuine

LEMMA StudyStart == Corpus!Init => StudyInv
BY DEF Corpus!Init, StudyInv

(* The mishaps that can come at each stage. *)
LEMMA MishapsCome ==
  /\ DOMAIN Corpus!MishapsAt = {"CORPUS", "COMMITTED", "ALLOCATED", "DECLARED", "EXECUTED"}
  /\ Corpus!MishapsAt["CORPUS"] = {"ONE_SUBJECT"}
  /\ Corpus!MishapsAt["COMMITTED"] = {"SHARE_CHANGED", "CASE_EDITED", "SPLIT_CHANGED"}
  /\ Corpus!MishapsAt["ALLOCATED"] = {"SLOT_DROPPED", "ARM_FAVOURED", "SUBJECT_DROPPED"}
  /\ Corpus!MishapsAt["DECLARED"] = {"PLAN_CHANGED", "TIMED_OUT"}
  /\ Corpus!MishapsAt["EXECUTED"] = {"RECEIPT_LOST", "OUTPUT_LOST", "RECEIPTS_SWAPPED", "RUN_OMITTED",
                                     "RESULT_EDITED", "PAYLOAD_EDITED"}
BY DEF Corpus!MishapsAt

(* The commitment depends on nothing but the secrets and on whether the    *)
(* principals are one person.                                              *)
LEMMA CommitmentStays ==
  ASSUME secrets' = secrets, (mishap = "ONE_SUBJECT")' <=> mishap = "ONE_SUBJECT"
  PROVE  Corpus!CommitmentTo(secrets)' = Corpus!CommitmentTo(secrets) /\ Corpus!Signers' = Corpus!Signers
<1>1. Corpus!Signers' = Corpus!Signers
  BY DEF Corpus!Signers
<1> QED BY <1>1 DEF Corpus!CommitmentTo

LEMMA RevealStays ==
  ASSUME secrets' = secrets, commitment' = commitment,
         (mishap = "ONE_SUBJECT")' <=> mishap = "ONE_SUBJECT",
         (mishap = "SHARE_CHANGED")' <=> mishap = "SHARE_CHANGED"
  PROVE  Corpus!Revealed' = Corpus!Revealed
<1>1. Corpus!Signers' = Corpus!Signers
  BY DEF Corpus!Signers
<1> QED BY <1>1 DEF Corpus!Revealed

LEMMA SplitStays ==
  ASSUME commitment' = commitment, reveal' = reveal,
         (mishap = "SPLIT_CHANGED")' <=> mishap = "SPLIT_CHANGED"
  PROVE  Corpus!AllocationFor(reveal)' = Corpus!AllocationFor(reveal)
BY DEF Corpus!AllocationFor

LEMMA PlanStays ==
  ASSUME commitment' = commitment, allocation' = allocation, deficit' = deficit,
         \/ mishap' = mishap
         \/ {mishap, mishap'} \cap {"SLOT_DROPPED", "ARM_FAVOURED", "SUBJECT_DROPPED"} = {}
  PROVE  /\ Corpus!Holdout' = Corpus!Holdout
         /\ Corpus!Declared(Corpus!Holdout, TRUE)' = Corpus!Declared(Corpus!Holdout, TRUE)
         /\ Corpus!DeclaredPlan' = Corpus!DeclaredPlan
<1>1. Corpus!Holdout' = Corpus!Holdout
  BY DEF Corpus!Holdout
<1>2. ASSUME NEW CONSTANT cases, NEW CONSTANT changed
      PROVE  Corpus!Declared(cases, changed)' = Corpus!Declared(cases, changed)
  <2>1. CASE mishap' = mishap
    BY <2>1 DEF Corpus!Declared, Corpus!Drafted
  <2>2. CASE mishap' # mishap
    <3>1. /\ mishap # "SLOT_DROPPED" /\ mishap # "ARM_FAVOURED"
          /\ mishap' # "SLOT_DROPPED" /\ mishap' # "ARM_FAVOURED"
      BY <2>2
    <3> QED BY <3>1 DEF Corpus!Declared, Corpus!Drafted
  <2> QED BY <2>1, <2>2
<1>3. \A cases, changed : Corpus!Declared(cases, changed)' = Corpus!Declared(cases, changed)
  BY <1>2
<1>4. Corpus!DeclaredPlan' = Corpus!DeclaredPlan
  BY <1>1, <1>3 DEF Corpus!DeclaredPlan
<1> QED BY <1>1, <1>3, <1>4

LEMMA ReceiptsStay ==
  ASSUME declared' = declared, behaviour' = behaviour, (mishap = "TIMED_OUT")' <=> mishap = "TIMED_OUT"
  PROVE  \A x : Corpus!ReceiptFor(x, behaviour)' = Corpus!ReceiptFor(x, behaviour)
<1>1. Corpus!Affected' = Corpus!Affected
  BY DEF Corpus!Affected
<1>2. ASSUME NEW CONSTANT x
      PROVE  Corpus!ReceiptFor(x, behaviour)' = Corpus!ReceiptFor(x, behaviour)
  BY <1>1 DEF Corpus!ReceiptFor
<1> QED BY <1>2

(* While nothing is made anew, what was made stays as it is. *)
LEMMA StudyStays ==
  ASSUME StudyInv, UNCHANGED corpusVars
  PROVE  StudyInv'
<1> USE DEF corpusVars
<1>1. /\ Corpus!CommitmentTo(secrets)' = Corpus!CommitmentTo(secrets)
      /\ Corpus!Revealed' = Corpus!Revealed
      /\ Corpus!AllocationFor(reveal)' = Corpus!AllocationFor(reveal)
  BY CommitmentStays, RevealStays, SplitStays
<1>2. /\ Corpus!Holdout' = Corpus!Holdout
      /\ Corpus!Declared(Corpus!Holdout, TRUE)' = Corpus!Declared(Corpus!Holdout, TRUE)
      /\ Corpus!DeclaredPlan' = Corpus!DeclaredPlan
  BY PlanStays
<1>3. \A x : Corpus!ReceiptFor(x, behaviour)' = Corpus!ReceiptFor(x, behaviour)
  BY ReceiptsStay
<1>4. Corpus!Judgement' = Corpus!Judgement
  BY <1>2 DEF Corpus!Judgement, Corpus!Sound, Corpus!Caught
<1> QED BY <1>1, <1>2, <1>3, <1>4 DEF StudyInv, Genuine, CommittedSeed

(* The principals draw and commit. *)
LEMMA CommitStep ==
  ASSUME StudyInv, Corpus!Commit
  PROVE  StudyInv'
<1>1. secrets' \in [{"AUTHOR", "REVIEWER"} -> Secrets] /\ commitment' = Corpus!CommitmentTo(secrets')
      /\ mishap' = mishap /\ stage = "CORPUS" /\ stage' = "COMMITTED"
  BY DEF Corpus!Commit
<1>2. Corpus!CommitmentTo(secrets')  = Corpus!CommitmentTo(secrets)'
  <2>1. Corpus!Signers' = Corpus!Signers
    BY <1>1 DEF Corpus!Signers
  <2> QED BY <2>1 DEF Corpus!CommitmentTo
<1> QED BY <1>1, <1>2 DEF StudyInv

(* The shares are revealed, and the corpus is split. *)
LEMMA RevealStep ==
  ASSUME StudyInv, Corpus!RevealAndAllocate
  PROVE  StudyInv'
<1>1. /\ stage = "COMMITTED" /\ stage' = "ALLOCATED" /\ reveal' = Corpus!Revealed
      /\ allocation' = Corpus!AllocationFor(reveal')
      /\ mishap' = mishap /\ secrets' = secrets /\ commitment' = commitment
  BY DEF Corpus!RevealAndAllocate
<1>2. /\ Corpus!CommitmentTo(secrets)' = Corpus!CommitmentTo(secrets)
      /\ Corpus!Revealed' = Corpus!Revealed
  BY <1>1, CommitmentStays, RevealStays
<1>3. Corpus!AllocationFor(reveal') = Corpus!AllocationFor(reveal)'
  BY <1>1 DEF Corpus!AllocationFor
<1> QED BY <1>1, <1>2, <1>3 DEF StudyInv

(* The plan is declared and pinned. *)
LEMMA DeclareStep ==
  ASSUME StudyInv, Corpus!Declare
  PROVE  StudyInv'
<1>1. /\ stage = "ALLOCATED" /\ stage' = "DECLARED" /\ declared' = Corpus!DeclaredPlan
      /\ pinned' = declared'.digest
      /\ mishap' = mishap /\ secrets' = secrets /\ commitment' = commitment /\ deficit' = deficit
      /\ reveal' = reveal /\ allocation' = allocation
  BY DEF Corpus!Declare
<1>2. /\ Corpus!CommitmentTo(secrets)' = Corpus!CommitmentTo(secrets)
      /\ Corpus!Revealed' = Corpus!Revealed
      /\ Corpus!AllocationFor(reveal)' = Corpus!AllocationFor(reveal)
      /\ Corpus!DeclaredPlan' = Corpus!DeclaredPlan
  BY <1>1, CommitmentStays, RevealStays, SplitStays, PlanStays
<1>3. mishap # "PLAN_CHANGED"
  BY <1>1 DEF StudyInv
<1> QED BY <1>1, <1>2, <1>3 DEF StudyInv

(* The scheduled runs are executed. *)
LEMMA ExecuteStep ==
  ASSUME StudyInv, Corpus!Execute
  PROVE  StudyInv'
<1>1. /\ stage = "DECLARED" /\ stage' = "EXECUTED"
      /\ behaviour' \in [Corpus!Holdout \X Corpus!Arms -> Corpus!Behaviours]
      /\ receipts' = {Corpus!ReceiptFor(x, behaviour') : x \in declared.schedule}
      /\ mishap' = mishap /\ secrets' = secrets /\ commitment' = commitment /\ deficit' = deficit
      /\ reveal' = reveal /\ allocation' = allocation /\ declared' = declared /\ pinned' = pinned
  BY DEF Corpus!Execute
<1>2. /\ Corpus!CommitmentTo(secrets)' = Corpus!CommitmentTo(secrets)
      /\ Corpus!Revealed' = Corpus!Revealed
      /\ Corpus!AllocationFor(reveal)' = Corpus!AllocationFor(reveal)
      /\ Corpus!Holdout' = Corpus!Holdout
      /\ Corpus!Declared(Corpus!Holdout, TRUE)' = Corpus!Declared(Corpus!Holdout, TRUE)
      /\ Corpus!DeclaredPlan' = Corpus!DeclaredPlan
  BY <1>1, CommitmentStays, RevealStays, SplitStays, PlanStays
<1>3. \A x : Corpus!ReceiptFor(x, behaviour') = Corpus!ReceiptFor(x, behaviour)'
  <2>1. Corpus!Affected' = Corpus!Affected
    BY <1>1 DEF Corpus!Affected
  <2>2. ASSUME NEW CONSTANT x
        PROVE  Corpus!ReceiptFor(x, behaviour') = Corpus!ReceiptFor(x, behaviour)'
    BY <1>1, <2>1 DEF Corpus!ReceiptFor
  <2> QED BY <2>2
<1> QED BY <1>1, <1>2, <1>3 DEF StudyInv

(* A mishap comes when what it is about is still to be made; of what was   *)
(* made before, it changes only the plan.                                  *)
LEMMA MishapStep ==
  ASSUME StudyInv, Corpus!Mishap
  PROVE  StudyInv'
<1>1. /\ stage \in DOMAIN Corpus!MishapsAt /\ mishap = "NONE" /\ mishap' \in Corpus!MishapsAt[stage]
      /\ declared' = IF mishap' = "PLAN_CHANGED" THEN Corpus!Declared(Corpus!Holdout, TRUE) ELSE declared
      /\ stage' = stage /\ secrets' = secrets /\ commitment' = commitment /\ deficit' = deficit
      /\ reveal' = reveal /\ allocation' = allocation /\ pinned' = pinned
      /\ behaviour' = behaviour /\ receipts' = receipts
  BY DEF Corpus!Mishap
<1>2. mishap' \in {"NONE"} \cup UNION {Corpus!MishapsAt[s] : s \in DOMAIN Corpus!MishapsAt}
  BY <1>1
<1>3. CASE stage = "CORPUS"
  <2>1. mishap' = "ONE_SUBJECT"
    BY <1>1, <1>3, MishapsCome
  <2> QED BY <1>1, <1>2, <1>3, <2>1 DEF StudyInv
<1>4. CASE stage \in {"COMMITTED", "ALLOCATED", "DECLARED", "EXECUTED"}
  <2>1. Corpus!CommitmentTo(secrets)' = Corpus!CommitmentTo(secrets)
    <3>1. mishap' # "ONE_SUBJECT"
      BY <1>1, <1>4, MishapsCome
    <3> QED BY <1>1, <3>1, CommitmentStays
  <2>2. stage \in {"ALLOCATED", "DECLARED", "EXECUTED"} =>
          /\ Corpus!Revealed' = Corpus!Revealed
          /\ Corpus!AllocationFor(reveal)' = Corpus!AllocationFor(reveal)
    <3> SUFFICES ASSUME stage \in {"ALLOCATED", "DECLARED", "EXECUTED"}
                 PROVE  /\ Corpus!Revealed' = Corpus!Revealed
                        /\ Corpus!AllocationFor(reveal)' = Corpus!AllocationFor(reveal)
      OBVIOUS
    <3>1. mishap' \notin {"ONE_SUBJECT", "SHARE_CHANGED", "SPLIT_CHANGED"}
      BY <1>1, MishapsCome
    <3> QED BY <1>1, <3>1, RevealStays, SplitStays
  <2>3. stage \in {"DECLARED", "EXECUTED"} =>
          /\ Corpus!Holdout' = Corpus!Holdout
          /\ Corpus!Declared(Corpus!Holdout, TRUE)' = Corpus!Declared(Corpus!Holdout, TRUE)
          /\ Corpus!DeclaredPlan' = Corpus!DeclaredPlan
    <3> SUFFICES ASSUME stage \in {"DECLARED", "EXECUTED"}
                 PROVE  /\ Corpus!Holdout' = Corpus!Holdout
                        /\ Corpus!Declared(Corpus!Holdout, TRUE)' = Corpus!Declared(Corpus!Holdout, TRUE)
                        /\ Corpus!DeclaredPlan' = Corpus!DeclaredPlan
      OBVIOUS
    <3>1. mishap' \notin {"SLOT_DROPPED", "ARM_FAVOURED", "SUBJECT_DROPPED"}
      BY <1>1, MishapsCome
    <3>2. {mishap, mishap'} \cap {"SLOT_DROPPED", "ARM_FAVOURED", "SUBJECT_DROPPED"} = {}
      BY <1>1, <3>1
    <3> QED BY <1>1, <3>2, PlanStays
  <2>4. stage = "EXECUTED" =>
          declared' = declared /\ \A x : Corpus!ReceiptFor(x, behaviour)' = Corpus!ReceiptFor(x, behaviour)
    <3> SUFFICES ASSUME stage = "EXECUTED"
                 PROVE  /\ declared' = declared
                        /\ \A x : Corpus!ReceiptFor(x, behaviour)' = Corpus!ReceiptFor(x, behaviour)
      OBVIOUS
    <3>1. mishap' \notin {"PLAN_CHANGED", "TIMED_OUT"}
      BY <1>1, MishapsCome
    <3> QED BY <1>1, <3>1, ReceiptsStay
  <2>5. stage \in {"COMMITTED", "ALLOCATED"} => mishap' # "PLAN_CHANGED"
    BY <1>1, MishapsCome
  <2>6. stage \in {"DECLARED", "EXECUTED"} =>
          /\ pinned' = Corpus!DeclaredPlan'.digest
          /\ declared' = IF mishap' = "PLAN_CHANGED" THEN Corpus!Declared(Corpus!Holdout, TRUE)'
                         ELSE Corpus!DeclaredPlan'
    BY <1>1, <2>3 DEF StudyInv
  <2>7. stage = "EXECUTED" =>
          /\ behaviour' \in [Corpus!Holdout' \X Corpus!Arms -> Corpus!Behaviours]
          /\ receipts' = {Corpus!ReceiptFor(x, behaviour)' : x \in declared'.schedule}
    BY <1>1, <2>3, <2>4 DEF StudyInv
  <2> QED BY <1>1, <1>2, <1>4, <2>1, <2>2, <2>5, <2>6, <2>7 DEF StudyInv
<1> QED BY <1>1, <1>3, <1>4, MishapsCome

(* The evaluation is no part of a study. *)
LEMMA EvaluateStep ==
  ASSUME StudyInv, Corpus!Evaluate
  PROVE  StudyInv'
BY DEF StudyInv, Corpus!Evaluate

-----------------------------------------------------------------------------
(* What the rails of an artifact establish.                                *)

Valid == Corpus!AllTrue(Corpus!ArtifactRails(Corpus!Artifact, Corpus!Dossier))

(* Of the commitment. *)
LEMMA CommitmentRailsHold ==
  ASSUME NEW c, NEW r, NEW a, NEW policy, NEW policyPin, NEW commitmentPin,
         Corpus!AllTrue(Corpus!CommitmentRails(c, r, a, policy, policyPin, commitmentPin))
  PROVE  /\ Corpus!SignaturesValid(c, policy, policyPin)
         /\ Corpus!RevealValid(c, r)
         /\ a.seed = Corpus!FinalSeed(r)
         /\ Corpus!RequestParses(Corpus!CommittedStrata(c))
         /\ a = Corpus!CreateAllocation(Corpus!FinalSeed(r), Corpus!CommittedStrata(c))
<1> DEFINE rails == Corpus!CommitmentRails(c, r, a, policy, policyPin, commitmentPin)
<1>1. /\ "commitmentSignaturesValid" \in DOMAIN rails /\ "revealValid" \in DOMAIN rails
      /\ "finalSeedDigestValid" \in DOMAIN rails /\ "allocationBindingValid" \in DOMAIN rails
  BY DEF Corpus!CommitmentRails
<1>2. /\ rails["commitmentSignaturesValid"] /\ rails["revealValid"]
      /\ rails["finalSeedDigestValid"] /\ rails["allocationBindingValid"]
  <2> HIDE DEF rails
  <2>1. Corpus!AllTrue(rails)
    BY DEF rails
  <2> QED BY <1>1, <2>1 DEF Corpus!AllTrue
<1> QED BY <1>2 DEF Corpus!CommitmentRails

(* Of the plan. *)
LEMMA PlanRailsHold ==
  ASSUME NEW plan_, NEW pins, NEW a, NEW c, Corpus!AllTrue(Corpus!PlanRails(plan_, pins, a, c))
  PROVE  /\ plan_.digest = pins.plan
         /\ Corpus!SubjectsValid(plan_, a, c)
         /\ Corpus!ScheduleValid(plan_)
         /\ Corpus!BudgetValid(plan_)
<1> DEFINE rails == Corpus!PlanRails(plan_, pins, a, c)
<1>1. /\ "externalPlanAnchorValid" \in DOMAIN rails /\ "subjectSetValid" \in DOMAIN rails
      /\ "scheduleValid" \in DOMAIN rails /\ "budgetValid" \in DOMAIN rails
  BY DEF Corpus!PlanRails
<1>2. /\ rails["externalPlanAnchorValid"] /\ rails["subjectSetValid"]
      /\ rails["scheduleValid"] /\ rails["budgetValid"]
  <2> HIDE DEF rails
  <2>1. Corpus!AllTrue(rails)
    BY DEF rails
  <2> QED BY <1>1, <2>1 DEF Corpus!AllTrue
<1> QED BY <1>2 DEF Corpus!PlanRails

(* Of the artifact: its bindings are those of the declared runs, each of   *)
(* them at hand and whole, and the payload and the result are derived      *)
(* from them.                                                              *)
LEMMA ArtifactRailsHold ==
  ASSUME NEW a, NEW d, Corpus!AllTrue(Corpus!ArtifactRails(a, d))
  PROVE  LET bound == Corpus!BoundRuns(d.plan, Corpus!ReceiptsAtHand(a, d.store))
             derived == Corpus!DerivedPayload(d.plan, Corpus!Observing(d.plan, bound, d.store))
         IN  /\ Corpus!AllTrue(Corpus!CommitmentRails(d.commitment, d.reveal, d.allocation, d.policy,
                                                      d.pins.policy, d.pins.commitment))
             /\ Corpus!AllTrue(Corpus!PlanRails(d.plan, d.pins, d.allocation, d.commitment))
             /\ Corpus!SubjectDigestsValid(d.plan, d.subjects)
             /\ {x.runId : x \in d.plan.schedule} = {b.runId : b \in a.bindings}
             /\ bound = a.bindings
             /\ \A b \in bound : /\ Corpus!ReceiptBound(d.plan, b, b.content)
                                 /\ Corpus!OutputsResolve(d.plan, d.store, b.content)
                                 /\ "outcome" \in DOMAIN b.content.structured
                                 /\ Corpus!ProcessConsistent(b.content.structured, b.content.process)
             /\ a.payload = derived
             /\ a.result = Corpus!DeriveResult(derived, d.plan)
<1> DEFINE rails == Corpus!ArtifactRails(a, d)
           bound == Corpus!BoundRuns(d.plan, Corpus!ReceiptsAtHand(a, d.store))
           derived == Corpus!DerivedPayload(d.plan, Corpus!Observing(d.plan, bound, d.store))
<1>1. /\ "commitmentRevealValid" \in DOMAIN rails /\ "planSemanticsValid" \in DOMAIN rails
      /\ "subjectDigestsValid" \in DOMAIN rails /\ "scheduleValid" \in DOMAIN rails
      /\ "receiptBindingsValid" \in DOMAIN rails /\ "outputBytesResolved" \in DOMAIN rails
      /\ "structuredResultsValid" \in DOMAIN rails /\ "observationSemanticsValid" \in DOMAIN rails
      /\ "resultSemanticsValid" \in DOMAIN rails
  BY DEF Corpus!ArtifactRails
<1>2. /\ rails["commitmentRevealValid"] /\ rails["planSemanticsValid"]
      /\ rails["subjectDigestsValid"] /\ rails["scheduleValid"]
      /\ rails["receiptBindingsValid"] /\ rails["outputBytesResolved"]
      /\ rails["structuredResultsValid"] /\ rails["observationSemanticsValid"]
      /\ rails["resultSemanticsValid"]
  <2> HIDE DEF rails
  <2>1. Corpus!AllTrue(rails)
    BY DEF rails
  <2> QED BY <1>1, <2>1 DEF Corpus!AllTrue
<1>3. /\ Corpus!AllTrue(Corpus!CommitmentRails(d.commitment, d.reveal, d.allocation, d.policy,
                                               d.pins.policy, d.pins.commitment))
      /\ Corpus!AllTrue(Corpus!PlanRails(d.plan, d.pins, d.allocation, d.commitment))
      /\ Corpus!SubjectDigestsValid(d.plan, d.subjects)
      /\ {x.runId : x \in d.plan.schedule} = {b.runId : b \in a.bindings}
  BY <1>2 DEF Corpus!ArtifactRails
<1>4. bound = a.bindings /\ \A b \in bound : Corpus!ReceiptBound(d.plan, b, b.content)
  BY <1>2 DEF Corpus!ArtifactRails
<1>5. \A b \in bound : Corpus!OutputsResolve(d.plan, d.store, b.content)
  BY <1>2 DEF Corpus!ArtifactRails
<1>6. \A b \in bound : Corpus!OutputsResolve(d.plan, d.store, b.content) =>
         /\ "outcome" \in DOMAIN b.content.structured
         /\ Corpus!ProcessConsistent(b.content.structured, b.content.process)
  BY <1>2 DEF Corpus!ArtifactRails
<1>7. Corpus!Payloads(d.plan, bound, d.store) = {derived}
  BY DEF Corpus!Payloads
<1>8. a.payload = derived /\ a.result = Corpus!DeriveResult(derived, d.plan)
  <2>1. /\ a.payload \in Corpus!Payloads(d.plan, bound, d.store)
        /\ \E payload \in Corpus!Payloads(d.plan, bound, d.store) :
              a.result = Corpus!DeriveResult(payload, d.plan)
    BY <1>2 DEF Corpus!ArtifactRails
  <2> HIDE DEF derived
  <2> QED BY <1>7, <2>1
<1> HIDE DEF bound, derived
<1> QED BY <1>3, <1>4, <1>5, <1>6, <1>8 DEF bound, derived

-----------------------------------------------------------------------------
(* A study whose artifact replays without a failed rail.                   *)

Replaying == stage = "EXECUTED" /\ StudyInv /\ Valid

(* What is given to the replay. *)
LEMMA DossierSays ==
  LET d == Corpus!Dossier
  IN  /\ d.commitment = commitment /\ d.reveal = reveal /\ d.allocation = allocation
      /\ d.policy = Policy /\ d.plan = declared /\ d.store = Corpus!Store
      /\ d.pins.policy = Policy.digest /\ d.pins.commitment = commitment.digest /\ d.pins.plan = pinned
      /\ d.subjects = {[document |-> Corpus!Document(s.caseId, IF mishap = "CASE_EDITED" THEN "r2" ELSE "r1"),
                        provenance |-> Corpus!Provenance(s.caseId)] : s \in declared.subjects}
BY DEF Corpus!Dossier

(* The allocation is the one made for the revealed shares and the          *)
(* committed strata, and the shares are bound by the signers.              *)
LEMMA Anchored ==
  ASSUME Replaying
  PROVE  /\ Corpus!SignaturesValid(commitment, Policy, Policy.digest)
         /\ Corpus!RevealValid(commitment, reveal)
         /\ allocation.seed = Corpus!FinalSeed(reveal)
         /\ Corpus!RequestParses(Strata)
         /\ allocation = Corpus!CreateAllocation(Corpus!FinalSeed(reveal), Strata)
<1>1. Corpus!AllTrue(Corpus!CommitmentRails(commitment, reveal, allocation, Policy,
                                            Policy.digest, commitment.digest))
  BY ArtifactRailsHold, DossierSays DEF Replaying, Valid
<1>2. Corpus!CommittedStrata(commitment) = Strata
  BY StrataCommitted DEF Replaying, StudyInv
<1> QED BY <1>1, <1>2, CommitmentRailsHold

(* An author who signs as the reviewer too is found out. *)
LEMMA TwoPeople ==
  ASSUME Replaying
  PROVE  mishap # "ONE_SUBJECT"
<1> SUFFICES ASSUME mishap = "ONE_SUBJECT" PROVE FALSE
  OBVIOUS
<1>1. commitment = Corpus!CommitmentTo(secrets)
  BY DEF Replaying, StudyInv
<1>2. PICK author \in commitment.signers, reviewer \in commitment.signers :
        /\ author.role = "AUTHOR" /\ reviewer.role = "REVIEWER"
        /\ Corpus!PrincipalsDistinct(Policy, author.keyId, reviewer.keyId)
  BY Anchored DEF Corpus!SignaturesValid
<1>3. Corpus!Signers = {<<"AUTHOR", Author>>, <<"REVIEWER", SecondKey>>}
  BY DEF Corpus!Signers
<1>4. author.keyId = Author /\ reviewer.keyId = SecondKey
  <2>1. \A y \in Corpus!Signers : /\ y[1] = "AUTHOR" => y[2] = Author
                                  /\ y[1] = "REVIEWER" => y[2] = SecondKey
    BY <1>3
  <2>2. PICK y \in Corpus!Signers : author.role = y[1] /\ author.keyId = y[2]
    BY <1>1, SignersCommit
  <2>3. PICK z \in Corpus!Signers : reviewer.role = z[1] /\ reviewer.keyId = z[2]
    BY <1>1, SignersCommit
  <2> QED BY <1>2, <2>1, <2>2, <2>3
<1>5. PICK k \in Policy.keys, l \in Policy.keys :
        k.keyId = Author /\ l.keyId = SecondKey /\ k.subject # l.subject
  BY <1>2, <1>4 DEF Corpus!PrincipalsDistinct, Corpus!TrustedKeys
<1> QED BY <1>5, CorpusAssumption

(* The shares that two people reveal as they drew them make the seed. *)
LEMMA SeedIs ==
  ASSUME StudyInv, stage \in {"ALLOCATED", "DECLARED", "EXECUTED", "REPLAYED"},
         mishap # "ONE_SUBJECT", mishap # "SHARE_CHANGED"
  PROVE  /\ reveal.shares = {[keyId |-> Author, secret |-> secrets["AUTHOR"]],
                             [keyId |-> Reviewer, secret |-> secrets["REVIEWER"]]}
         /\ Corpus!FinalSeed(reveal) = CommittedSeed
         /\ CommittedSeed \in [{Author, Reviewer} -> Secrets]
<1>1. /\ commitment = Corpus!CommitmentTo(secrets) /\ reveal = Corpus!Revealed
      /\ secrets \in [{"AUTHOR", "REVIEWER"} -> Secrets]
  BY DEF StudyInv
<1>2. Corpus!Signers = {<<"AUTHOR", Author>>, <<"REVIEWER", Reviewer>>}
  BY DEF Corpus!Signers
<1>3. reveal.shares = {[keyId |-> y[2], secret |-> secrets[y[1]]] : y \in Corpus!Signers}
  BY <1>1 DEF Corpus!Revealed
<1>4. reveal.shares = {[keyId |-> Author, secret |-> secrets["AUTHOR"]],
                       [keyId |-> Reviewer, secret |-> secrets["REVIEWER"]]}
  BY <1>2, <1>3
<1>5. Corpus!FinalSeed(reveal) = CommittedSeed
  <2>1. {x.keyId : x \in reveal.shares} = {Author, Reviewer}
    BY <1>4
  <2>2. /\ (CHOOSE x \in reveal.shares : x.keyId = Author).secret = secrets["AUTHOR"]
        /\ (CHOOSE x \in reveal.shares : x.keyId = Reviewer).secret = secrets["REVIEWER"]
    <3> DEFINE one == [keyId |-> Author, secret |-> secrets["AUTHOR"]]
               two == [keyId |-> Reviewer, secret |-> secrets["REVIEWER"]]
    <3>1. /\ one.keyId = Author /\ one.secret = secrets["AUTHOR"]
          /\ two.keyId = Reviewer /\ two.secret = secrets["REVIEWER"]
          /\ reveal.shares = {one, two} /\ Author # Reviewer
      BY <1>4, CorpusAssumption
    <3> HIDE DEF one, two
    <3>2. /\ (CHOOSE x \in reveal.shares : x.keyId = Author) = one
          /\ (CHOOSE x \in reveal.shares : x.keyId = Reviewer) = two
      BY <3>1
    <3> QED BY <3>1, <3>2
  <2>3. Corpus!FinalSeed(reveal) =
          [k \in {Author, Reviewer} |-> (CHOOSE x \in reveal.shares : x.keyId = k).secret]
    BY <2>1 DEF Corpus!FinalSeed
  <2>4. Author # Reviewer
    BY CorpusAssumption
  <2>5. \A k \in {Author, Reviewer} : (CHOOSE x \in reveal.shares : x.keyId = k).secret =
                                       secrets[IF k = Author THEN "AUTHOR" ELSE "REVIEWER"]
    BY <2>2, <2>4
  <2> QED BY <2>3, <2>5 DEF CommittedSeed
<1>6. CommittedSeed \in [{Author, Reviewer} -> Secrets]
  BY <1>1 DEF CommittedSeed
<1> QED BY <1>4, <1>5, <1>6

(* The secrets that are revealed are those that were committed to. *)
LEMMA SharesKept ==
  ASSUME Replaying
  PROVE  /\ mishap # "SHARE_CHANGED"
         /\ Corpus!FinalSeed(reveal) = CommittedSeed
         /\ CommittedSeed \in [{Author, Reviewer} -> Secrets]
<1>0. mishap # "ONE_SUBJECT"
  BY TwoPeople
<1>1. /\ commitment = Corpus!CommitmentTo(secrets) /\ reveal = Corpus!Revealed
      /\ secrets \in [{"AUTHOR", "REVIEWER"} -> Secrets]
  BY DEF Replaying, StudyInv
<1>2. Corpus!Signers = {<<"AUTHOR", Author>>, <<"REVIEWER", Reviewer>>}
  BY <1>0 DEF Corpus!Signers
<1> DEFINE secret(y) == IF mishap = "SHARE_CHANGED" /\ y[1] = "AUTHOR"
                        THEN CHOOSE x \in Secrets : x # secrets["AUTHOR"] ELSE secrets[y[1]]
<1>3. reveal.shares = {[keyId |-> y[2], secret |-> secret(y)] : y \in Corpus!Signers}
  BY <1>1 DEF Corpus!Revealed
<1>4. reveal.shares = {[keyId |-> Author, secret |-> secret(<<"AUTHOR", Author>>)],
                       [keyId |-> Reviewer, secret |-> secret(<<"REVIEWER", Reviewer>>)]}
  <2> HIDE DEF secret
  <2> QED BY <1>2, <1>3
<1>5. mishap # "SHARE_CHANGED"
  <2> SUFFICES ASSUME mishap = "SHARE_CHANGED" PROVE FALSE
    OBVIOUS
  <2>1. PICK x \in commitment.signers :
          x.keyId = Author /\ x.share = Corpus!ShareCommitment(Author, secrets["AUTHOR"])
    BY <1>1, <1>2, SignersCommit
  <2>2. PICK share \in reveal.shares :
          share.keyId = Author /\ x.share = Corpus!ShareCommitment(Author, share.secret)
    BY <2>1, Anchored DEF Corpus!RevealValid
  <2>3. share.secret = secrets["AUTHOR"]
    BY <2>1, <2>2 DEF Corpus!ShareCommitment, Corpus!Sha256
  <2>4. share.secret = secret(<<"AUTHOR", Author>>)
    <3> HIDE DEF secret
    <3> QED BY <1>4, <2>2, CorpusAssumption
  <2>5. secret(<<"AUTHOR", Author>>) # secrets["AUTHOR"]
    BY <1>1, CorpusAssumption
  <2> QED BY <2>3, <2>4, <2>5
<1> QED BY <1>0, <1>5, SeedIs DEF Replaying

(* The split is the one for that seed. *)
LEMMA SplitKept ==
  ASSUME Replaying
  PROVE  mishap # "SPLIT_CHANGED" /\ Splits(CommittedSeed, Corpus!Holdout)
<1>1. allocation = Corpus!AllocationFor(reveal)
  BY DEF Replaying, StudyInv
<1>2. mishap # "SPLIT_CHANGED"
  <2> SUFFICES ASSUME mishap = "SPLIT_CHANGED" PROVE FALSE
    OBVIOUS
  <2> DEFINE other == [k \in DOMAIN CommittedSeed |-> CHOOSE x \in Secrets : x # CommittedSeed[k]]
  <2>1. allocation = Corpus!CreateAllocation(other, Corpus!CommittedStrata(commitment))
    BY <1>1, SharesKept DEF Corpus!AllocationFor
  <2>2. allocation.seed = other
    <3> HIDE DEF other
    <3> QED BY <2>1 DEF Corpus!CreateAllocation
  <2>3. other = CommittedSeed
    BY <2>2, Anchored, SharesKept
  <2>4. Author \in DOMAIN CommittedSeed /\ CommittedSeed[Author] \in Secrets
    BY SharesKept
  <2>5. other[Author] # CommittedSeed[Author]
    BY <2>4, CorpusAssumption
  <2> QED BY <2>3, <2>5
<1>3. Splits(CommittedSeed, Corpus!Range(Corpus!CreateAllocation(CommittedSeed, Strata).holdout))
  BY SeedSplits, SharesKept, Anchored
<1>4. Splits(CommittedSeed, Corpus!Holdout)
  BY <1>3, Anchored, SharesKept DEF Corpus!Holdout
<1> QED BY <1>2, <1>4

-----------------------------------------------------------------------------
(* The plan.                                                               *)

SlotsOf(cases) ==
  IF mishap = "SLOT_DROPPED" THEN Corpus!Slots(cases) \ {CHOOSE x \in Corpus!Slots(cases) : TRUE}
  ELSE Corpus!Slots(cases)
SlotsFor(cases, arm) == {x \in SlotsOf(cases) : x[2] = arm}
RunOf(x) ==
  [runId |-> x, caseId |-> x[1], arm |-> x[2], attempt |-> x[3], state |-> x[4],
   commandId |-> <<x[2], x[4]>>]
SubjectOf(x) ==
  [caseId |-> x.caseId, caseDigest |-> x.caseDigest, provenanceDigest |-> x.provenanceDigest,
   sourceId |-> x.sourceId, identity |-> x.identity, buggy |-> <<x.caseId, "buggy">>,
   fixed |-> <<x.caseId, "fixed">>, requiredSuite |-> Corpus!RequiredSuite]
TimeoutFor(arm) ==
  IF mishap = "ARM_FAVOURED" /\ arm = "PROFILE" THEN 2 * Corpus!Timeout ELSE Corpus!Timeout
Universe ==
  {[candidateId |-> k, digest |-> [candidate |-> k]] : k \in UNION {Suites[arm] : arm \in Corpus!Arms}}
Selected(arm, changed) ==
  IF changed /\ arm = "PROFILE" THEN Universe ELSE {k \in Universe : k.candidateId \in Suites[arm]}

(* The digest of a sealed document does not depend on the digest it holds. *)
LEMMA SealIsOutside ==
  ASSUME NEW u, NEW v
  PROVE  [x \in DOMAIN [u EXCEPT !.digest = v] \ {"digest"} |-> [u EXCEPT !.digest = v][x]]
           = [x \in DOMAIN u \ {"digest"} |-> u[x]]
OBVIOUS

(* What a declared plan says. *)
LEMMA PlanSays ==
  ASSUME NEW cases, NEW changed
  PROVE  LET p == Corpus!Declared(cases, changed)
         IN  /\ p.subjects = {SubjectOf(x) : x \in {y \in commitment.caseSet : y.caseId \in cases}}
             /\ p.schedule = {RunOf(x) : x \in SlotsOf(cases)}
             /\ p.attempts = 2 /\ p.deficit = deficit
<1> DEFINE p == Corpus!Declared(cases, changed)
<1>1. p.subjects = {SubjectOf(x) : x \in {y \in commitment.caseSet : y.caseId \in cases}}
  BY DEF Corpus!Declared, Corpus!Drafted, SubjectOf
<1>2. p.schedule = {RunOf(x) : x \in SlotsOf(cases)}
  BY DEF Corpus!Declared, Corpus!Drafted, RunOf, SlotsOf
<1>3. p.attempts = 2 /\ p.deficit = deficit
  BY DEF Corpus!Declared, Corpus!Drafted, Corpus!Attempts
<1> QED BY <1>1, <1>2, <1>3

(* Its budget. *)
LEMMA BudgetSays ==
  ASSUME NEW cases, NEW changed, NEW arm \in Corpus!Arms
  PROVE  LET p == Corpus!Declared(cases, changed)
         IN  /\ p.budget.runs[arm] = Corpus!Cardinality(SlotsFor(cases, arm))
             /\ p.budget.timeout[arm] = TimeoutFor(arm) * Corpus!Cardinality(SlotsFor(cases, arm))
<1>1. Corpus!Declared(cases, changed).budget =
        [runs |-> [a \in Corpus!Arms |-> Corpus!Cardinality(SlotsFor(cases, a))],
         timeout |-> [a \in Corpus!Arms |-> TimeoutFor(a) * Corpus!Cardinality(SlotsFor(cases, a))]]
  BY DEF Corpus!Declared, Corpus!Drafted, SlotsFor, SlotsOf, TimeoutFor
<1> QED BY <1>1

(* Its arms, and its seal. *)
LEMMA ArmsSay ==
  ASSUME NEW cases, NEW changed
  PROVE  LET p == Corpus!Declared(cases, changed)
         IN  /\ \A arm \in Corpus!Arms : p.arms[arm].selected = Selected(arm, changed)
             /\ p.digest = Corpus!PlanDigest(p) /\ "arms" \in DOMAIN p
<1> DEFINE p == Corpus!Declared(cases, changed)
           u == Corpus!Drafted(cases, changed)
<1>1. p.arms = [arm \in Corpus!Arms |->
                  [universe |-> Universe, selected |-> Selected(arm, changed),
                   suite |-> Corpus!SuiteDigest(Selected(arm, changed))]]
  BY DEF Corpus!Declared, Corpus!Drafted, Universe, Selected
<1>2. p.digest = Corpus!PlanDigest(p) /\ "arms" \in DOMAIN p
  <2>1. "digest" \in DOMAIN u /\ "arms" \in DOMAIN u
    BY DEF Corpus!Drafted
  <2>2. p = [u EXCEPT !.digest = Corpus!PlanDigest(u)]
    BY DEF Corpus!Declared
  <2> HIDE DEF p, u
  <2>3. p.digest = Corpus!PlanDigest(u) /\ "arms" \in DOMAIN p
    BY <2>1, <2>2
  <2>4. Corpus!PlanDigest(p) = Corpus!PlanDigest(u)
    BY <2>2, SealIsOutside DEF Corpus!PlanDigest
  <2> QED BY <2>3, <2>4
<1> HIDE DEF p
<1> QED BY <1>1, <1>2 DEF p

(* The plan at hand passes its rails. *)
LEMMA PlanPasses ==
  ASSUME Replaying
  PROVE  /\ declared.digest = pinned
         /\ {s.caseId : s \in declared.subjects} = Corpus!Holdout
         /\ Corpus!ScheduleValid(declared)
         /\ Corpus!BudgetValid(declared)
<1>1. Corpus!AllTrue(Corpus!PlanRails(declared, Corpus!Dossier.pins, allocation, commitment))
  BY ArtifactRailsHold, DossierSays DEF Replaying, Valid
<1>2. /\ declared.digest = pinned
      /\ Corpus!SubjectsValid(declared, allocation, commitment)
      /\ Corpus!ScheduleValid(declared) /\ Corpus!BudgetValid(declared)
  BY <1>1, PlanRailsHold, DossierSays
<1> QED BY <1>2 DEF Corpus!SubjectsValid, Corpus!Holdout

(* A plan that was changed after it was declared is not the pinned one. *)
LEMMA PlanKept ==
  ASSUME Replaying
  PROVE  mishap # "PLAN_CHANGED" /\ declared = Corpus!DeclaredPlan
<1>1. mishap # "PLAN_CHANGED"
  <2> SUFFICES ASSUME mishap = "PLAN_CHANGED" PROVE FALSE
    OBVIOUS
  <2> DEFINE changed == Corpus!Declared(Corpus!Holdout, TRUE)
             plan_ == Corpus!Declared(Corpus!Holdout, FALSE)
  <2>1. declared = changed /\ pinned = plan_.digest
    BY DEF Replaying, StudyInv, Corpus!DeclaredPlan
  <2>2. /\ changed.digest = Corpus!PlanDigest(changed) /\ "arms" \in DOMAIN changed
        /\ plan_.digest = Corpus!PlanDigest(plan_) /\ "arms" \in DOMAIN plan_
        /\ changed.arms["PROFILE"].selected = Universe
        /\ plan_.arms["PROFILE"].selected = {k \in Universe : k.candidateId \in Suites["PROFILE"]}
    BY ArmsSay DEF Corpus!Arms, Selected
  <2> HIDE DEF changed, plan_
  <2>3. Corpus!PlanDigest(changed) = Corpus!PlanDigest(plan_)
    BY <2>1, <2>2, PlanPasses
  <2>4. [x \in DOMAIN changed \ {"digest"} |-> changed[x]] = [x \in DOMAIN plan_ \ {"digest"} |-> plan_[x]]
    BY <2>3 DEF Corpus!PlanDigest, Corpus!Sha256
  <2>5. changed["arms"] = plan_["arms"]
    BY <2>2, <2>4
  <2>6. Universe = {k \in Universe : k.candidateId \in Suites["PROFILE"]}
    BY <2>2, <2>5
  <2>7. PICK arm \in Corpus!Arms : \E x \in Suites[arm] : x \notin Suites["PROFILE"]
    BY CorpusAssumption DEF Corpus!Arms
  <2>8. PICK x \in Suites[arm] : x \notin Suites["PROFILE"]
    BY <2>7
  <2>9. [candidateId |-> x, digest |-> [candidate |-> x]] \in Universe
    BY DEF Universe
  <2> QED BY <2>6, <2>8, <2>9
<1> QED BY <1>1 DEF Replaying, StudyInv

(* The holdout is finite, and has a case. *)
LEMMA HoldoutIs ==
  ASSUME Replaying
  PROVE  /\ Corpus!Holdout \subseteq Corpus!AllCases /\ IsFiniteSet(Corpus!Holdout)
         /\ Corpus!Holdout # {}
BY SplitKept, CasesAreScored, FS_Subset DEF Splits

(* The runs of a plan are identified by their slots. *)
LEMMA RunsAreSlots ==
  ASSUME NEW cases, NEW x \in Corpus!Slots(cases)
  PROVE  /\ Corpus!Slot(RunOf(x)) = x /\ RunOf(x).runId = x
         /\ RunOf(x).caseId \in cases /\ RunOf(x).arm = x[2] /\ RunOf(x).state = x[4]
         /\ x[2] \in Corpus!Arms /\ x[4] \in Corpus!States
BY DEF Corpus!Slots, Corpus!Slot, RunOf

(* No case, slot or second of time is lost from the plan unnoticed. *)
LEMMA NothingDropped ==
  ASSUME Replaying
  PROVE  mishap \notin {"SUBJECT_DROPPED", "SLOT_DROPPED", "ARM_FAVOURED"}
<1>0. PICK c : c \in Corpus!Holdout
  BY HoldoutIs
<1>1. mishap # "SUBJECT_DROPPED"
  <2> SUFFICES ASSUME mishap = "SUBJECT_DROPPED" PROVE FALSE
    OBVIOUS
  <2> DEFINE dropped == CHOOSE x \in Corpus!Holdout : TRUE
  <2>1. declared = Corpus!Declared(Corpus!Holdout \ {dropped}, FALSE) /\ dropped \in Corpus!Holdout
    BY PlanKept, <1>0 DEF Corpus!DeclaredPlan
  <2> HIDE DEF dropped
  <2>2. declared.subjects =
          {SubjectOf(x) : x \in {y \in commitment.caseSet : y.caseId \in Corpus!Holdout \ {dropped}}}
    BY <2>1, PlanSays
  <2>3. \A s \in declared.subjects : s.caseId # dropped
    BY <2>2 DEF SubjectOf
  <2> QED BY <2>1, <2>3, PlanPasses
<1>2. declared = Corpus!Declared(Corpus!Holdout, FALSE)
  BY <1>1, PlanKept DEF Corpus!DeclaredPlan
<1>3. mishap # "SLOT_DROPPED"
  <2> SUFFICES ASSUME mishap = "SLOT_DROPPED" PROVE FALSE
    OBVIOUS
  <2> DEFINE slots == Corpus!Slots(Corpus!Holdout)
             dropped == CHOOSE x \in slots : TRUE
  <2>1. declared.schedule = {RunOf(x) : x \in slots \ {dropped}} /\ declared.attempts = 2
    <3>1. SlotsOf(Corpus!Holdout) = slots \ {dropped}
      BY DEF SlotsOf
    <3> HIDE DEF slots, dropped
    <3> QED BY <1>2, <3>1, PlanSays
  <2>2. {Corpus!Slot(x) : x \in declared.schedule} = slots
    BY <2>1, PlanPasses DEF Corpus!ScheduleValid, Corpus!Slots, Corpus!Attempts
  <2>3. \A x \in slots : Corpus!Slot(RunOf(x)) = x
    BY RunsAreSlots
  <2>4. slots # {}
    <3>1. <<c, "BASELINE", 1, "BUGGY">> \in slots
      BY <1>0 DEF Corpus!Slots, Corpus!Arms, Corpus!States, Corpus!Attempts
    <3> QED BY <3>1
  <2>5. dropped \in slots
    BY <2>4
  <2> HIDE DEF slots, dropped
  <2>6. PICK x \in declared.schedule : Corpus!Slot(x) = dropped
    BY <2>2, <2>5
  <2> QED BY <2>1, <2>3, <2>6
<1>4. mishap # "ARM_FAVOURED"
  <2> SUFFICES ASSUME mishap = "ARM_FAVOURED" PROVE FALSE
    OBVIOUS
  <2> DEFINE slots == Corpus!Slots(Corpus!Holdout)
             of(arm) == {x \in slots : x[2] = arm}
             n(arm) == Corpus!Cardinality(of(arm))
  <2>1. SlotsOf(Corpus!Holdout) = slots
    BY DEF SlotsOf
  <2>2. /\ declared.budget.runs["BASELINE"] = n("BASELINE")
        /\ declared.budget.runs["PROFILE"] = n("PROFILE")
        /\ declared.budget.timeout["BASELINE"] = 5 * n("BASELINE")
        /\ declared.budget.timeout["PROFILE"] = 10 * n("PROFILE")
    <3>1. /\ TimeoutFor("BASELINE") = 5 /\ TimeoutFor("PROFILE") = 10
          /\ "BASELINE" \in Corpus!Arms /\ "PROFILE" \in Corpus!Arms
      BY DEF TimeoutFor, Corpus!Timeout, Corpus!Arms
    <3>2. ASSUME NEW arm \in Corpus!Arms
          PROVE  /\ declared.budget.runs[arm] = n(arm)
                 /\ declared.budget.timeout[arm] = TimeoutFor(arm) * n(arm)
      <4>1. SlotsFor(Corpus!Holdout, arm) = of(arm)
        BY <2>1 DEF SlotsFor
      <4> HIDE DEF of
      <4>2. /\ declared.budget.runs[arm] = Corpus!Cardinality(SlotsFor(Corpus!Holdout, arm))
            /\ declared.budget.timeout[arm] =
                  TimeoutFor(arm) * Corpus!Cardinality(SlotsFor(Corpus!Holdout, arm))
        BY <1>2, BudgetSays
      <4> QED BY <4>1, <4>2
    <3> HIDE DEF n
    <3> QED BY <3>1, <3>2
  <2>3. n("BASELINE") = n("PROFILE") /\ 5 * n("BASELINE") = 10 * n("PROFILE")
    BY <2>2, PlanPasses DEF Corpus!BudgetValid
  <2>4. IsFiniteSet(of("PROFILE"))
    <3>1. IsFiniteSet(Corpus!Arms) /\ IsFiniteSet(Corpus!States) /\ IsFiniteSet(1 .. Corpus!Attempts)
      <4>1. IsFiniteSet({"BASELINE"} \cup {"PROFILE"}) /\ IsFiniteSet({"BUGGY"} \cup {"FIXED"} \cup {"REQUIRED_SUITE"})
        BY FS_Singleton, FS_Union
      <4>2. Corpus!Arms = {"BASELINE"} \cup {"PROFILE"} /\ Corpus!States = {"BUGGY"} \cup {"FIXED"} \cup {"REQUIRED_SUITE"}
        BY DEF Corpus!Arms, Corpus!States
      <4>3. IsFiniteSet(1 .. Corpus!Attempts)
        <5>1. 1 \in Int /\ 2 \in Int
          OBVIOUS
        <5>2. IsFiniteSet(1 .. 2)
          BY <5>1, FS_Interval
        <5> QED BY <5>2 DEF Corpus!Attempts
      <4> QED BY <4>1, <4>2, <4>3
    <3> DEFINE quads == ((Corpus!Holdout \X Corpus!Arms) \X (1 .. Corpus!Attempts)) \X Corpus!States
               flat == [x \in slots |-> <<<<<<x[1], x[2]>>, x[3]>>, x[4]>>]
    <3>2. IsFiniteSet(quads)
      BY <3>1, HoldoutIs, FS_Product
    <3>3. flat \in Injection(slots, quads)
      BY DEF Injection, IsInjective, Corpus!Slots
    <3> HIDE DEF quads, flat, slots
    <3>4. IsFiniteSet(slots)
      BY <3>2, <3>3, FS_Injection
    <3> QED BY <3>4, FS_Subset
  <2>5. <<c, "PROFILE", 1, "BUGGY">> \in of("PROFILE")
    BY <1>0 DEF Corpus!Slots, Corpus!Arms, Corpus!States, Corpus!Attempts
  <2> HIDE DEF of
  <2>6. n("PROFILE") \in Nat /\ n("PROFILE") # 0
    BY <2>4, <2>5, CorpusCardinality, FS_CardinalityType, FS_EmptySet
  <2> QED BY <2>3, <2>6
<1> QED BY <1>1, <1>3, <1>4

(* So the plan at hand is that of the whole holdout. *)
LEMMA PlanIs ==
  ASSUME Replaying
  PROVE  /\ declared = Corpus!Declared(Corpus!Holdout, FALSE)
         /\ declared.schedule = {RunOf(x) : x \in Corpus!Slots(Corpus!Holdout)}
         /\ declared.subjects = {SubjectOf(x) : x \in {y \in commitment.caseSet : y.caseId \in Corpus!Holdout}}
         /\ declared.attempts = 2 /\ declared.deficit = deficit
<1>1. declared = Corpus!Declared(Corpus!Holdout, FALSE)
  BY PlanKept, NothingDropped DEF Corpus!DeclaredPlan
<1>2. SlotsOf(Corpus!Holdout) = Corpus!Slots(Corpus!Holdout)
  BY NothingDropped DEF SlotsOf
<1> QED BY <1>1, <1>2, PlanSays

-----------------------------------------------------------------------------
(* The evidence.                                                           *)

(* An edited artifact differs in its result alone. *)
LEMMA ArtifactSays ==
  /\ Corpus!Artifact.bindings = Corpus!Bindings
  /\ Corpus!Artifact.payload = Corpus!Request.payload
  /\ mishap # "RESULT_EDITED" =>
       Corpus!Artifact.result = Corpus!DeriveResult(Corpus!Request.payload, declared)
  /\ mishap = "RESULT_EDITED" =>
       Corpus!Artifact.result.status # Corpus!DeriveResult(Corpus!Request.payload, declared).status
<1> DEFINE made == Corpus!CreateArtifact(Corpus!Request, declared)
<1>1. /\ made.bindings = Corpus!Bindings /\ made.payload = Corpus!Request.payload
      /\ made.result = Corpus!DeriveResult(Corpus!Request.payload, declared)
      /\ "result" \in DOMAIN made /\ "digest" \in DOMAIN made
  <2>1. Corpus!Request.bindings = Corpus!Bindings
    BY DEF Corpus!Request
  <2>2. /\ made.bindings = Corpus!Request.bindings /\ made.payload = Corpus!Request.payload
        /\ made.result = Corpus!DeriveResult(Corpus!Request.payload, declared)
        /\ "result" \in DOMAIN made /\ "digest" \in DOMAIN made
    BY DEF Corpus!CreateArtifact
  <2> QED BY <2>1, <2>2
<1>2. "status" \in DOMAIN made.result
  BY <1>1 DEF Corpus!DeriveResult
<1> HIDE DEF made
<1>3. /\ Corpus!Edited(made).bindings = made.bindings /\ Corpus!Edited(made).payload = made.payload
      /\ Corpus!Edited(made).result.status # made.result.status
  BY <1>1, <1>2 DEF Corpus!Edited
<1>4. Corpus!Artifact = IF mishap = "RESULT_EDITED" THEN Corpus!Edited(made) ELSE made
  BY DEF Corpus!Artifact, made
<1> QED BY <1>1, <1>3, <1>4

(* Every run has its binding; what is bound is at hand, whole and of that  *)
(* run; and payload and result follow from it.                             *)
LEMMA EvidenceHolds ==
  ASSUME Replaying
  PROVE  /\ Corpus!SubjectDigestsValid(declared, Corpus!Dossier.subjects)
         /\ {x.runId : x \in declared.schedule} = {b.runId : b \in Corpus!Bindings}
         /\ \A b \in Corpus!Bindings :
              /\ b.content \in Corpus!Store
              /\ Corpus!ReceiptBound(declared, b, b.content)
              /\ Corpus!OutputsResolve(declared, Corpus!Store, b.content)
              /\ Corpus!ProcessConsistent(b.content.structured, b.content.process)
         /\ Corpus!Request.payload = Corpus!DerivedPayload(declared, Corpus!Bindings)
         /\ mishap # "RESULT_EDITED"
<1> DEFINE a == Corpus!Artifact
           d == Corpus!Dossier
           atHand == Corpus!ReceiptsAtHand(a, Corpus!Store)
           bound == Corpus!BoundRuns(declared, atHand)
           observing == Corpus!Observing(declared, bound, Corpus!Store)
<1>1. d.plan = declared /\ d.store = Corpus!Store
  BY DossierSays
<1>2. /\ a.bindings = Corpus!Bindings /\ a.payload = Corpus!Request.payload
  BY ArtifactSays
<1>3. Corpus!AllTrue(Corpus!ArtifactRails(a, d))
  BY DEF Replaying, Valid
<1> HIDE DEF a, d
<1>4. /\ Corpus!SubjectDigestsValid(declared, d.subjects)
      /\ {x.runId : x \in declared.schedule} = {b.runId : b \in Corpus!Bindings}
      /\ bound = Corpus!Bindings
      /\ \A b \in bound : /\ Corpus!ReceiptBound(declared, b, b.content)
                          /\ Corpus!OutputsResolve(declared, Corpus!Store, b.content)
                          /\ "outcome" \in DOMAIN b.content.structured
                          /\ Corpus!ProcessConsistent(b.content.structured, b.content.process)
      /\ Corpus!Request.payload = Corpus!DerivedPayload(declared, observing)
      /\ a.result = Corpus!DeriveResult(Corpus!Request.payload, declared)
  BY <1>1, <1>2, <1>3, ArtifactRailsHold
<1>5. \A b \in bound : b.content \in Corpus!Store
  BY DEF Corpus!BoundRuns, Corpus!ReceiptsAtHand, Corpus!Resolved
<1> HIDE DEF bound
<1>6. observing = Corpus!Bindings
  BY <1>4 DEF Corpus!Observing
<1> HIDE DEF observing
<1>7. mishap # "RESULT_EDITED"
  BY <1>4, ArtifactSays DEF a
<1> QED BY <1>4, <1>5, <1>6, <1>7 DEF d

(* A case that was edited is not the committed one. *)
LEMMA CaseKept ==
  ASSUME Replaying
  PROVE  mishap # "CASE_EDITED"
<1> SUFFICES ASSUME mishap = "CASE_EDITED" PROVE FALSE
  OBVIOUS
<1>1. PICK c : c \in Corpus!Holdout
  BY HoldoutIs
<1>2. PICK s \in declared.subjects : s.caseId = c
  BY <1>1, PlanPasses
<1>3. PICK x \in commitment.caseSet : s = SubjectOf(x)
  BY <1>2, PlanIs
<1>4. PICK y \in Corpus!AllCases : x = Entry(y)
  BY <1>3, CommitmentSays DEF Replaying, StudyInv
<1>5. s.caseDigest = Corpus!Sha256(Corpus!Document(y, "r1"))
  BY <1>3, <1>4 DEF SubjectOf, Entry
<1>6. PICK e \in Corpus!Dossier.subjects : s.caseDigest = Corpus!Sha256(e.document)
  BY <1>2, EvidenceHolds DEF Corpus!SubjectDigestsValid
<1>7. PICK t \in declared.subjects : e.document = Corpus!Document(t.caseId, "r2")
  BY <1>6, DossierSays
<1>8. e.document.revision = "r2" /\ Corpus!Document(y, "r1").revision = "r1"
  BY <1>7 DEF Corpus!Document
<1> QED BY <1>5, <1>6, <1>8 DEF Corpus!Sha256

(* What a receipt says. *)
LEMMA ReceiptSays ==
  ASSUME NEW x, NEW does
  PROVE  LET r == Corpus!ReceiptFor(x, does)
         IN  /\ r.runId = x.runId
             /\ r.structured = Corpus!Observed(does[<<x.caseId, x.arm>>], x.attempt, x.state)
             /\ r.process.timedOut = (mishap = "TIMED_OUT" /\ x = Corpus!Affected)
BY DEF Corpus!ReceiptFor

(* The receipt of a run is found by the id of the run. *)
LEMMA ReceiptFound ==
  ASSUME Replaying, NEW x \in declared.schedule
  PROVE  Corpus!ReceiptOfRun(x) = Corpus!ReceiptFor(x, behaviour)
<1>1. \A y \in declared.schedule : y.runId = x.runId => y = x
  <2>1. PICK z \in Corpus!Slots(Corpus!Holdout) : x = RunOf(z)
    BY PlanIs
  <2>2. \A y \in declared.schedule : \E w \in Corpus!Slots(Corpus!Holdout) : y = RunOf(w)
    BY PlanIs
  <2>3. \A w \in Corpus!Slots(Corpus!Holdout) : RunOf(w).runId = w
    BY RunsAreSlots
  <2> QED BY <2>1, <2>2, <2>3
<1>2. receipts = {Corpus!ReceiptFor(y, behaviour) : y \in declared.schedule}
  BY DEF Replaying, StudyInv
<1>3. \A y : Corpus!ReceiptFor(y, behaviour).runId = y.runId
  BY ReceiptSays
<1>4. Corpus!ReceiptFor(x, behaviour) \in receipts
  BY <1>2
<1>5. \A r \in receipts : r.runId = x.runId => r = Corpus!ReceiptFor(x, behaviour)
  BY <1>1, <1>2, <1>3
<1> QED BY <1>3, <1>4, <1>5 DEF Corpus!ReceiptOfRun

(* The run that a mishap is about is a run of the plan. *)
LEMMA AffectedRuns ==
  ASSUME Replaying
  PROVE  /\ Corpus!Affected \in declared.schedule /\ Corpus!Affected.state = "BUGGY"
         /\ \E y \in declared.schedule :
              /\ y.caseId = Corpus!Affected.caseId /\ y.state = Corpus!Affected.state
              /\ y.attempt = Corpus!Affected.attempt /\ y.arm # Corpus!Affected.arm
         /\ Corpus!Slot(Corpus!Affected) \in Corpus!Slots(Corpus!Holdout)
         /\ Corpus!Affected = RunOf(Corpus!Slot(Corpus!Affected))
<1>1. PICK c : c \in Corpus!Holdout
  BY HoldoutIs
<1>2. <<c, "BASELINE", 1, "BUGGY">> \in Corpus!Slots(Corpus!Holdout)
  BY <1>1 DEF Corpus!Slots, Corpus!Arms, Corpus!States, Corpus!Attempts
<1>3. RunOf(<<c, "BASELINE", 1, "BUGGY">>) \in declared.schedule
  BY <1>2, PlanIs
<1>4. RunOf(<<c, "BASELINE", 1, "BUGGY">>).state = "BUGGY"
  BY DEF RunOf
<1>5. Corpus!Affected \in declared.schedule /\ Corpus!Affected.state = "BUGGY"
  BY <1>3, <1>4 DEF Corpus!Affected
<1>6. PICK z \in Corpus!Slots(Corpus!Holdout) : Corpus!Affected = RunOf(z)
  BY <1>5, PlanIs
<1>7. Corpus!Slot(RunOf(z)) = z
  BY RunsAreSlots
<1>8. z = <<z[1], z[2], z[3], z[4]>> /\ z[1] \in Corpus!Holdout /\ z[2] \in Corpus!Arms
        /\ z[3] \in 1 .. Corpus!Attempts /\ z[4] \in Corpus!States
  BY <1>6 DEF Corpus!Slots
<1>9. \E arm \in Corpus!Arms : arm # z[2]
  BY DEF Corpus!Arms
<1>10. PICK arm \in Corpus!Arms : arm # z[2]
  BY <1>9
<1>11. <<z[1], arm, z[3], z[4]>> \in Corpus!Slots(Corpus!Holdout)
  BY <1>8 DEF Corpus!Slots
<1>12. RunOf(<<z[1], arm, z[3], z[4]>>) \in declared.schedule
  BY <1>11, PlanIs
<1>13. LET y == RunOf(<<z[1], arm, z[3], z[4]>>)
       IN  /\ y.caseId = RunOf(z).caseId /\ y.state = RunOf(z).state
           /\ y.attempt = RunOf(z).attempt /\ y.arm # RunOf(z).arm
  BY <1>10 DEF RunOf
<1> QED BY <1>5, <1>6, <1>7, <1>12, <1>13

(* What is bound to a run of the plan, when no run is left out. *)
BindingOf(x, of) ==
  [runId |-> x.runId, receiptDigest |-> Corpus!ReceiptOfRun(of).digest,
   content |-> Corpus!ReceiptOfRun(of)]

LEMMA BindingsSay ==
  /\ mishap = "RUN_OMITTED" =>
       \A b \in Corpus!Bindings : \E x \in declared.schedule : x # Corpus!Affected /\ b.runId = x.runId
  /\ mishap \notin {"RUN_OMITTED", "RECEIPTS_SWAPPED"} =>
       Corpus!Bindings = {BindingOf(x, x) : x \in declared.schedule}
  /\ mishap = "RECEIPTS_SWAPPED" /\ Corpus!Affected \in declared.schedule =>
       LET other == CHOOSE y \in declared.schedule :
                      /\ y.caseId = Corpus!Affected.caseId /\ y.state = Corpus!Affected.state
                      /\ y.attempt = Corpus!Affected.attempt /\ y.arm # Corpus!Affected.arm
       IN  BindingOf(Corpus!Affected, other) \in Corpus!Bindings
<1> DEFINE a == Corpus!Affected
           other == CHOOSE y \in declared.schedule :
                      /\ y.caseId = a.caseId /\ y.state = a.state
                      /\ y.attempt = a.attempt /\ y.arm # a.arm
           from(x) == IF mishap # "RECEIPTS_SWAPPED" THEN x
                      ELSE IF x = a THEN other ELSE IF x = other THEN a ELSE x
           runs == IF mishap = "RUN_OMITTED" THEN declared.schedule \ {a} ELSE declared.schedule
<1>1. Corpus!Bindings = {BindingOf(x, from(x)) : x \in runs}
  BY DEF Corpus!Bindings, BindingOf
<1>2. \A x, y : BindingOf(x, y).runId = x.runId
  BY DEF BindingOf
<1>3. ASSUME mishap = "RUN_OMITTED", NEW b \in Corpus!Bindings
      PROVE  \E x \in declared.schedule : x # a /\ b.runId = x.runId
  <2>1. PICK x \in runs : b = BindingOf(x, from(x))
    BY <1>1
  <2>2. x \in declared.schedule /\ x # a
    BY <1>3
  <2> HIDE DEF from, runs
  <2> QED BY <1>2, <2>1, <2>2
<1>4. ASSUME mishap \notin {"RUN_OMITTED", "RECEIPTS_SWAPPED"}
      PROVE  Corpus!Bindings = {BindingOf(x, x) : x \in declared.schedule}
  <2>1. runs = declared.schedule /\ \A x : from(x) = x
    BY <1>4
  <2> HIDE DEF from, runs
  <2> QED BY <1>1, <2>1
<1>5. ASSUME mishap = "RECEIPTS_SWAPPED", a \in declared.schedule
      PROVE  BindingOf(a, other) \in Corpus!Bindings
  <2>1. from(a) = other /\ a \in runs
    BY <1>5
  <2> HIDE DEF from, runs, other
  <2> QED BY <1>1, <2>1
<1> HIDE DEF from, runs
<1> QED BY <1>3, <1>4, <1>5

(* Every run is bound to a receipt of its own. *)
LEMMA BindingsKept ==
  ASSUME Replaying
  PROVE  /\ mishap \notin {"RUN_OMITTED", "RECEIPTS_SWAPPED"}
         /\ Corpus!Bindings = {BindingOf(x, x) : x \in declared.schedule}
<1> DEFINE a == Corpus!Affected
<1>1. a \in declared.schedule
  BY AffectedRuns
<1>2. ASSUME NEW x \in declared.schedule, NEW y \in declared.schedule, x.runId = y.runId
      PROVE  x = y
  <2>1. PICK v \in Corpus!Slots(Corpus!Holdout) : x = RunOf(v)
    BY PlanIs
  <2>2. PICK w \in Corpus!Slots(Corpus!Holdout) : y = RunOf(w)
    BY PlanIs
  <2> QED BY <1>2, <2>1, <2>2, RunsAreSlots
<1>3. mishap # "RUN_OMITTED"
  <2> SUFFICES ASSUME mishap = "RUN_OMITTED" PROVE FALSE
    OBVIOUS
  <2>1. PICK b \in Corpus!Bindings : b.runId = a.runId
    BY <1>1, EvidenceHolds
  <2> QED BY <1>1, <1>2, <2>1, BindingsSay
<1>4. mishap # "RECEIPTS_SWAPPED"
  <2> SUFFICES ASSUME mishap = "RECEIPTS_SWAPPED" PROVE FALSE
    OBVIOUS
  <2> DEFINE other == CHOOSE y \in declared.schedule :
                        /\ y.caseId = a.caseId /\ y.state = a.state
                        /\ y.attempt = a.attempt /\ y.arm # a.arm
  <2>1. other \in declared.schedule /\ other.arm # a.arm
    BY AffectedRuns
  <2>2. BindingOf(a, other) \in Corpus!Bindings
    BY <1>1, BindingsSay
  <2> HIDE DEF other
  <2>3. BindingOf(a, other).content = Corpus!ReceiptFor(other, behaviour)
          /\ BindingOf(a, other).runId = a.runId
    BY <2>1, ReceiptFound DEF BindingOf
  <2>4. Corpus!ReceiptFor(other, behaviour).runId = a.runId
    BY <2>2, <2>3, EvidenceHolds DEF Corpus!ReceiptBound
  <2>5. Corpus!ReceiptFor(other, behaviour).runId = other.runId
    BY ReceiptSays
  <2> QED BY <1>1, <1>2, <2>1, <2>4, <2>5
<1> QED BY <1>3, <1>4, BindingsSay

(* No receipt or output is missing, and none is of a run that timed out. *)
LEMMA EvidenceKept ==
  ASSUME Replaying
  PROVE  mishap \notin {"RECEIPT_LOST", "OUTPUT_LOST", "TIMED_OUT"}
<1> DEFINE a == Corpus!Affected
           r == Corpus!ReceiptFor(a, behaviour)
<1>1. a \in declared.schedule /\ Corpus!ReceiptOfRun(a) = r
  BY AffectedRuns, ReceiptFound
<1>2. BindingOf(a, a) \in Corpus!Bindings /\ BindingOf(a, a).content = r
  BY <1>1, BindingsKept DEF BindingOf
<1>3. /\ r \in Corpus!Store
      /\ Corpus!OutputsResolve(declared, Corpus!Store, r)
      /\ Corpus!ProcessConsistent(r.structured, r.process)
  BY <1>2, EvidenceHolds
<1>4. mishap # "RECEIPT_LOST"
  BY <1>1, <1>3 DEF Corpus!Store, Corpus!Lost
<1>5. mishap # "OUTPUT_LOST"
  <2>1. r.stdout \in Corpus!Store
    BY <1>3 DEF Corpus!OutputsResolve, Corpus!Resolved
  <2> HIDE DEF r
  <2> QED BY <1>1, <2>1 DEF Corpus!Store, Corpus!Lost
<1>6. mishap # "TIMED_OUT"
  <2> SUFFICES ASSUME mishap = "TIMED_OUT" PROVE FALSE
    OBVIOUS
  <2>1. r.process.timedOut = TRUE
    BY ReceiptSays
  <2>2. r.structured.outcome \in {"COMPILE_FAILURE", "ASSERTION_FAILURE", "PASS"}
    <3>1. r.structured = Corpus!Observed(behaviour[<<a.caseId, a.arm>>], a.attempt, a.state)
      BY ReceiptSays
    <3> HIDE DEF r
    <3> QED BY <3>1 DEF Corpus!Observed
  <2> HIDE DEF r
  <2> QED BY <1>3, <2>1, <2>2 DEF Corpus!ProcessConsistent, Corpus!Failures
<1> QED BY <1>4, <1>5, <1>6

(* The payload that the evidence supports is what the suites did. *)
LEMMA DerivedIs ==
  ASSUME Replaying, NEW z \in Corpus!Slots(Corpus!Holdout)
  PROVE  Corpus!DerivedPayload(declared, Corpus!Bindings)[z[1]][z[2]][z[3]][z[4]] =
           Corpus!Observed(behaviour[<<z[1], z[2]>>], z[3], z[4])
<1> DEFINE seen == {b \in Corpus!Bindings : \E x \in declared.schedule :
                      x.runId = b.runId /\ Corpus!Slot(x) = <<z[1], z[2], z[3], z[4]>>}
<1>1. z = <<z[1], z[2], z[3], z[4]>> /\ z[1] \in Corpus!Holdout /\ z[2] \in Corpus!Arms
        /\ z[3] \in 1 .. 2 /\ z[4] \in Corpus!States
  BY DEF Corpus!Slots, Corpus!Attempts
<1>2. Corpus!DerivedPayload(declared, Corpus!Bindings)[z[1]][z[2]][z[3]][z[4]] =
        IF seen = {} THEN [outcome |-> "INFRA_ERROR", attributed |-> FALSE]
        ELSE (CHOOSE b \in seen : TRUE).content.structured
  <2>1. {s.caseId : s \in declared.subjects} = Corpus!Holdout /\ declared.attempts = 2
    BY PlanPasses, PlanIs
  <2> QED BY <1>1, <2>1 DEF Corpus!DerivedPayload
<1>3. RunOf(z) \in declared.schedule
  BY PlanIs
<1>4. /\ BindingOf(RunOf(z), RunOf(z)) \in Corpus!Bindings
      /\ BindingOf(RunOf(z), RunOf(z)).runId = RunOf(z).runId
      /\ Corpus!Slot(RunOf(z)) = z
  BY <1>3, BindingsKept, RunsAreSlots DEF BindingOf
<1>5. BindingOf(RunOf(z), RunOf(z)) \in seen
  BY <1>1, <1>3, <1>4
<1>6. ASSUME NEW b \in seen
      PROVE  b.content.structured = Corpus!Observed(behaviour[<<z[1], z[2]>>], z[3], z[4])
  <2>1. PICK x \in declared.schedule : x.runId = b.runId /\ Corpus!Slot(x) = z
    BY <1>1
  <2>2. PICK y \in declared.schedule : b = BindingOf(y, y)
    BY BindingsKept
  <2>3. PICK v \in Corpus!Slots(Corpus!Holdout) : y = RunOf(v)
    BY <2>2, PlanIs
  <2>4. PICK w \in Corpus!Slots(Corpus!Holdout) : x = RunOf(w)
    BY <2>1, PlanIs
  <2>5. b.runId = v /\ x.runId = w /\ Corpus!Slot(x) = w
    BY <2>2, <2>3, <2>4, RunsAreSlots DEF BindingOf
  <2>6. y = RunOf(z)
    BY <2>1, <2>3, <2>5
  <2>7. b.content = Corpus!ReceiptFor(y, behaviour)
    BY <2>2, ReceiptFound DEF BindingOf
  <2>8. y.caseId = z[1] /\ y.arm = z[2] /\ y.attempt = z[3] /\ y.state = z[4]
    BY <2>6 DEF RunOf
  <2> QED BY <2>7, <2>8, ReceiptSays
<1> HIDE DEF seen
<1> QED BY <1>2, <1>5, <1>6

(* So a payload that was edited is found out. *)
LEMMA PayloadKept ==
  ASSUME Replaying
  PROVE  /\ mishap # "PAYLOAD_EDITED"
         /\ DOMAIN Corpus!Request.payload = Corpus!Holdout
         /\ \A z \in Corpus!Slots(Corpus!Holdout) :
              Corpus!Request.payload[z[1]][z[2]][z[3]][z[4]] =
                Corpus!Observed(behaviour[<<z[1], z[2]>>], z[3], z[4])
<1>1. Corpus!Request.payload = Corpus!DerivedPayload(declared, Corpus!Bindings)
  BY EvidenceHolds
<1>2. DOMAIN Corpus!Request.payload = Corpus!Holdout
  BY PlanPasses DEF Corpus!Request
<1>3. mishap # "PAYLOAD_EDITED"
  <2> SUFFICES ASSUME mishap = "PAYLOAD_EDITED" PROVE FALSE
    OBVIOUS
  <2> DEFINE z == Corpus!Slot(Corpus!Affected)
  <2>1. z \in Corpus!Slots(Corpus!Holdout)
    BY AffectedRuns
  <2> HIDE DEF z
  <2>2. z = <<z[1], z[2], z[3], z[4]>> /\ z[1] \in Corpus!Holdout /\ z[2] \in Corpus!Arms
          /\ z[3] \in 1 .. Corpus!Attempts /\ z[4] \in Corpus!States
    BY <2>1 DEF Corpus!Slots
  <2>3. Corpus!Request.payload[z[1]][z[2]][z[3]][z[4]] = Corpus!Reported(z)
    <3>1. {s.caseId : s \in declared.subjects} = Corpus!Holdout
      BY PlanPasses
    <3> QED BY <2>2, <3>1 DEF Corpus!Request
  <2>4. Corpus!Reported(z).outcome = "INFRA_ERROR"
    BY DEF Corpus!Reported, z
  <2>5. Corpus!Observed(behaviour[<<z[1], z[2]>>], z[3], z[4]).outcome
          \in {"COMPILE_FAILURE", "ASSERTION_FAILURE", "PASS"}
    BY DEF Corpus!Observed
  <2> QED BY <1>1, <2>1, <2>3, <2>4, <2>5, DerivedIs
<1> QED BY <1>1, <1>2, <1>3, DerivedIs

(* Nothing went wrong. *)
LEMMA NothingWrong ==
  ASSUME Replaying
  PROVE  mishap = "NONE"
<1>1. mishap \in {"NONE"} \cup UNION {Corpus!MishapsAt[s] : s \in DOMAIN Corpus!MishapsAt}
  BY DEF Replaying, StudyInv
<1>2. mishap \in {"NONE", "ONE_SUBJECT", "SHARE_CHANGED", "CASE_EDITED", "SPLIT_CHANGED",
                  "SLOT_DROPPED", "ARM_FAVOURED", "SUBJECT_DROPPED", "PLAN_CHANGED", "TIMED_OUT",
                  "RECEIPT_LOST", "OUTPUT_LOST", "RECEIPTS_SWAPPED", "RUN_OMITTED",
                  "RESULT_EDITED", "PAYLOAD_EDITED"}
  BY <1>1, MishapsCome
<1>3. mishap \notin {"SUBJECT_DROPPED", "SLOT_DROPPED", "ARM_FAVOURED", "PLAN_CHANGED"}
  BY NothingDropped, PlanKept
<1>4. mishap \notin {"ONE_SUBJECT", "SHARE_CHANGED", "SPLIT_CHANGED", "CASE_EDITED"}
  BY TwoPeople, SharesKept, SplitKept, CaseKept
<1>5. mishap \notin {"RUN_OMITTED", "RECEIPTS_SWAPPED", "RECEIPT_LOST", "OUTPUT_LOST", "TIMED_OUT",
                     "RESULT_EDITED", "PAYLOAD_EDITED"}
  BY BindingsKept, EvidenceKept, EvidenceHolds, PayloadKept
<1> QED BY <1>2, <1>3, <1>4, <1>5

-----------------------------------------------------------------------------
(* The verdict.                                                            *)

(* The class that the attempts of a suite show. *)
ClassOf(does) ==
  IF does = "DETECTS" THEN "DETECTED" ELSE IF does = "MISSES" THEN "NOT_DETECTED" ELSE "INSUFFICIENT"

LEMMA ArmClassified ==
  ASSUME NEW does \in Corpus!Behaviours, NEW attempts, DOMAIN attempts = 1 .. 2,
         \A i \in 1 .. 2, state \in Corpus!States : attempts[i][state] = Corpus!Observed(does, i, state)
  PROVE  Corpus!ClassifyArm(attempts) = ClassOf(does)
<1> DEFINE one == Corpus!ClassifyAttempt(attempts[1])
           two == Corpus!ClassifyAttempt(attempts[2])
<1>1. ASSUME NEW i \in 1 .. 2
      PROVE  /\ attempts[i]["BUGGY"] = Corpus!Observed(does, i, "BUGGY")
             /\ attempts[i]["FIXED"] = Corpus!Observed(does, i, "FIXED")
             /\ attempts[i]["REQUIRED_SUITE"] = Corpus!Observed(does, i, "REQUIRED_SUITE")
  BY DEF Corpus!States
<1>2. ASSUME NEW i \in 1 .. 2
      PROVE  /\ Corpus!Observed(does, i, "REQUIRED_SUITE").outcome = "PASS"
             /\ Corpus!Observed(does, i, "FIXED").outcome =
                  IF does = "BREAKS" THEN "COMPILE_FAILURE" ELSE "PASS"
             /\ Corpus!Observed(does, i, "BUGGY") =
                  IF does = "DETECTS" \/ (does = "FLAKES" /\ i = 1)
                  THEN [outcome |-> "ASSERTION_FAILURE", attributed |-> TRUE]
                  ELSE [outcome |-> "PASS", attributed |-> FALSE]
  BY DEF Corpus!Observed
<1>3. ASSUME NEW i \in 1 .. 2
      PROVE  Corpus!ClassifyAttempt(attempts[i]) =
               IF does = "BREAKS" THEN "INSUFFICIENT"
               ELSE IF does = "DETECTS" \/ (does = "FLAKES" /\ i = 1) THEN "DETECTED" ELSE "NOT_DETECTED"
  <2> DEFINE buggy == attempts[i]["BUGGY"]
             fixed == attempts[i]["FIXED"].outcome
             guard == attempts[i]["REQUIRED_SUITE"].outcome
  <2>0. /\ attempts[i]["BUGGY"] = Corpus!Observed(does, i, "BUGGY")
        /\ attempts[i]["FIXED"] = Corpus!Observed(does, i, "FIXED")
        /\ attempts[i]["REQUIRED_SUITE"] = Corpus!Observed(does, i, "REQUIRED_SUITE")
    BY <1>1
  <2>1. /\ guard = "PASS" /\ fixed = IF does = "BREAKS" THEN "COMPILE_FAILURE" ELSE "PASS"
        /\ buggy = IF does = "DETECTS" \/ (does = "FLAKES" /\ i = 1)
                   THEN [outcome |-> "ASSERTION_FAILURE", attributed |-> TRUE]
                   ELSE [outcome |-> "PASS", attributed |-> FALSE]
    BY <2>0, <1>2
  <2>2. Corpus!ClassifyAttempt(attempts[i]) =
          IF fixed # "PASS" \/ guard # "PASS" THEN "INSUFFICIENT"
          ELSE IF buggy.outcome = "PASS" THEN "NOT_DETECTED"
          ELSE IF buggy = [outcome |-> "ASSERTION_FAILURE", attributed |-> TRUE]
               THEN "DETECTED" ELSE "INSUFFICIENT"
    BY DEF Corpus!ClassifyAttempt
  <2>3. (buggy.outcome = "PASS") <=> ~(does = "DETECTS" \/ (does = "FLAKES" /\ i = 1))
    BY <2>1
  <2> HIDE DEF buggy, fixed, guard
  <2> QED BY <2>1, <2>2, <2>3
<1>8. /\ one = IF does = "BREAKS" THEN "INSUFFICIENT"
               ELSE IF does = "DETECTS" \/ does = "FLAKES" THEN "DETECTED" ELSE "NOT_DETECTED"
      /\ two = IF does = "BREAKS" THEN "INSUFFICIENT"
               ELSE IF does = "DETECTS" THEN "DETECTED" ELSE "NOT_DETECTED"
  <2>1. 1 \in 1 .. 2 /\ 2 \in 1 .. 2
    OBVIOUS
  <2> QED BY <1>3, <2>1
<1>4. {Corpus!ClassifyAttempt(attempts[i]) : i \in DOMAIN attempts} = {one, two}
  <2>1. DOMAIN attempts = {1, 2}
    OBVIOUS
  <2> QED BY <2>1
<1> HIDE DEF one, two
<1>5. IsFiniteSet({one, two})
  <2>1. IsFiniteSet({one} \cup {two})
    BY FS_Singleton, FS_Union
  <2>2. {one} \cup {two} = {one, two}
    OBVIOUS
  <2> QED BY <2>1, <2>2
<1>6. Corpus!Cardinality({one, two}) = 1 <=> one = two
  <2>1. Cardinality({one, two}) = 1 <=> \E x : {one, two} = {x}
    BY <1>5, FS_Singleton
  <2> QED BY <2>1, CorpusCardinality
<1>7. Corpus!ClassifyArm(attempts) = IF one = two THEN one ELSE "INSUFFICIENT"
  <2> DEFINE classes == {Corpus!ClassifyAttempt(attempts[i]) : i \in DOMAIN attempts}
  <2>0. Corpus!ClassifyArm(attempts) =
          IF Corpus!Cardinality(classes) = 1 THEN CHOOSE c \in classes : TRUE ELSE "INSUFFICIENT"
    BY DEF Corpus!ClassifyArm
  <2>3. classes = {one, two}
    BY <1>4
  <2> HIDE DEF classes
  <2>1. Corpus!ClassifyArm(attempts) =
          IF Corpus!Cardinality({one, two}) = 1 THEN CHOOSE c \in {one, two} : TRUE ELSE "INSUFFICIENT"
    BY <2>0, <2>3
  <2>2. one = two => (CHOOSE c \in {one, two} : TRUE) = one
    OBVIOUS
  <2> QED BY <1>6, <2>1, <2>2
<1> QED BY <1>7, <1>8 DEF ClassOf, Corpus!Behaviours

(* The class of every case, from the payload. *)
LEMMA CaseClassified ==
  ASSUME Replaying, NEW c \in Corpus!Holdout, NEW arm \in Corpus!Arms
  PROVE  /\ behaviour[<<c, arm>>] \in Corpus!Behaviours
         /\ Corpus!ClassifyArm(Corpus!Request.payload[c][arm]) = ClassOf(behaviour[<<c, arm>>])
<1>1. behaviour[<<c, arm>>] \in Corpus!Behaviours
  BY DEF Replaying, StudyInv
<1>2. DOMAIN Corpus!Request.payload[c][arm] = 1 .. 2
  BY PlanPasses DEF Corpus!Request, Corpus!Attempts
<1>3. ASSUME NEW i \in 1 .. 2, NEW state \in Corpus!States
      PROVE  Corpus!Request.payload[c][arm][i][state] =
               Corpus!Observed(behaviour[<<c, arm>>], i, state)
  <2>1. <<c, arm, i, state>> \in Corpus!Slots(Corpus!Holdout)
    BY DEF Corpus!Slots, Corpus!Attempts
  <2> DEFINE z == <<c, arm, i, state>>
  <2>2. z[1] = c /\ z[2] = arm /\ z[3] = i /\ z[4] = state
    OBVIOUS
  <2> HIDE DEF z
  <2> QED BY <2>1, <2>2, PayloadKept DEF z
<1> QED BY <1>1, <1>2, <1>3, ArmClassified

LEMMA PayloadClassified ==
  ASSUME Replaying
  PROVE  /\ \A arm \in Corpus!Arms :
              Corpus!Detected(Corpus!Request.payload, arm) = Corpus!Caught(Corpus!Holdout, arm)
         /\ Corpus!Inconclusive(Corpus!Request.payload) = {} <=>
              Corpus!Range(behaviour) \subseteq Corpus!Plain
<1> DEFINE payload == Corpus!Request.payload
<1>1. DOMAIN payload = Corpus!Holdout
  BY PayloadKept
<1>2. ASSUME NEW arm \in Corpus!Arms
      PROVE  Corpus!Detected(payload, arm) = Corpus!Caught(Corpus!Holdout, arm)
  <2>1. \A c \in Corpus!Holdout :
          Corpus!ClassifyArm(payload[c][arm]) = "DETECTED" <=> behaviour[<<c, arm>>] = "DETECTS"
    BY CaseClassified DEF ClassOf
  <2> HIDE DEF payload
  <2> QED BY <1>1, <2>1 DEF Corpus!Detected, Corpus!Caught
<1>3. \A c \in Corpus!Holdout, arm \in Corpus!Arms :
        Corpus!ClassifyArm(payload[c][arm]) = "INSUFFICIENT" <=> behaviour[<<c, arm>>] \notin Corpus!Plain
  BY CaseClassified DEF ClassOf, Corpus!Plain
<1>4. Corpus!Range(behaviour) \subseteq Corpus!Plain <=>
        \A c \in Corpus!Holdout, arm \in Corpus!Arms : behaviour[<<c, arm>>] \in Corpus!Plain
  <2>1. DOMAIN behaviour = Corpus!Holdout \X Corpus!Arms
    BY DEF Replaying, StudyInv
  <2>2. Corpus!Range(behaviour) \subseteq Corpus!Plain <=>
          \A x \in Corpus!Holdout \X Corpus!Arms : behaviour[x] \in Corpus!Plain
    BY <2>1 DEF Corpus!Range
  <2> QED BY <2>2
<1> HIDE DEF payload
<1>5. Corpus!Inconclusive(payload) = {} <=> Corpus!Range(behaviour) \subseteq Corpus!Plain
  <2>1. Corpus!Inconclusive(payload) = {} <=>
          \A c \in Corpus!Holdout, arm \in Corpus!Arms :
             ~(Corpus!ClassifyArm(payload[c][arm]) = "INSUFFICIENT")
    BY <1>1 DEF Corpus!Inconclusive
  <2> QED BY <1>3, <1>4, <2>1
<1> QED BY <1>2, <1>5 DEF payload

(* The sources of the plan are those of the corpus, and a source has the   *)
(* cases of the holdout that it holds.                                     *)
LEMMA SourcesAre ==
  ASSUME Replaying
  PROVE  /\ Corpus!SourcesOf(declared) = {<<s, Corpus!IdentityOf(s)>> : s \in DOMAIN Held}
         /\ \A s \in DOMAIN Held :
              Corpus!CasesFrom(declared, <<s, Corpus!IdentityOf(s)>>) = Corpus!Holdout \cap Held[s]
<1>0. /\ Corpus!Holdout \subseteq Corpus!AllCases
      /\ \A s \in DOMAIN Held : Held[s] \cap Corpus!Holdout # {}
  BY SplitKept DEF Splits
<1>1. commitment.caseSet = {Entry(c) : c \in Corpus!AllCases}
  BY CommitmentSays DEF Replaying, StudyInv
<1>2. \A x : /\ Entry(x).caseId = x /\ Entry(x).sourceId = Corpus!SourceOf(x)
             /\ Entry(x).identity = Corpus!IdentityOf(Corpus!SourceOf(x))
  BY DEF Entry
<1>3. \A x : /\ SubjectOf(x).caseId = x.caseId /\ SubjectOf(x).sourceId = x.sourceId
             /\ SubjectOf(x).identity = x.identity
  BY DEF SubjectOf
<1>4. declared.subjects = {SubjectOf(x) : x \in {y \in commitment.caseSet : y.caseId \in Corpus!Holdout}}
  BY PlanIs
<1>5. declared.subjects = {SubjectOf(Entry(c)) : c \in Corpus!Holdout}
  <2>1. {y \in commitment.caseSet : y.caseId \in Corpus!Holdout} = {Entry(c) : c \in Corpus!Holdout}
    BY <1>0, <1>1, <1>2
  <2> QED BY <1>4, <2>1
<1>6. \A c \in Corpus!Holdout : Corpus!SourceOf(c) \in DOMAIN Held /\ c \in Held[Corpus!SourceOf(c)]
  BY <1>0, HeldBySource DEF Corpus!AllCases
<1>7. \A s \in DOMAIN Held : \A c \in Held[s] : Corpus!SourceOf(c) = s
  BY HeldBySource
<1>8. Corpus!SourcesOf(declared) = {<<s, Corpus!IdentityOf(s)>> : s \in DOMAIN Held}
  <2>1. Corpus!SourcesOf(declared) =
          {<<Corpus!SourceOf(c), Corpus!IdentityOf(Corpus!SourceOf(c))>> : c \in Corpus!Holdout}
    BY <1>2, <1>3, <1>5 DEF Corpus!SourcesOf
  <2>2. ASSUME NEW s \in DOMAIN Held
        PROVE  <<s, Corpus!IdentityOf(s)>> \in Corpus!SourcesOf(declared)
    <3>1. PICK c \in Corpus!Holdout : c \in Held[s]
      BY <1>0
    <3> QED BY <1>7, <2>1, <3>1
  <2> QED BY <1>6, <2>1, <2>2
<1>9. ASSUME NEW s \in DOMAIN Held
      PROVE  Corpus!CasesFrom(declared, <<s, Corpus!IdentityOf(s)>>) = Corpus!Holdout \cap Held[s]
  <2>1. Corpus!CasesFrom(declared, <<s, Corpus!IdentityOf(s)>>) =
          {c \in Corpus!Holdout :
             <<Corpus!SourceOf(c), Corpus!IdentityOf(Corpus!SourceOf(c))>> = <<s, Corpus!IdentityOf(s)>>}
    BY <1>2, <1>3, <1>5 DEF Corpus!CasesFrom
  <2>2. \A c \in Corpus!Holdout : Corpus!SourceOf(c) = s <=> c \in Held[s]
    BY <1>6, <1>7
  <2> QED BY <2>1, <2>2
<1> QED BY <1>8, <1>9

(* The status is the judgement of someone who watched the suites. *)
LEMMA StatusIs ==
  ASSUME Replaying
  PROVE  Corpus!Artifact.result.status = Corpus!Judgement
<1> DEFINE payload == Corpus!Request.payload
           d == declared.deficit
           sources == [s \in Corpus!SourcesOf(declared) |->
                         Corpus!NonInferior(payload, Corpus!CasesFrom(declared, s), d)]
           nonInferior == /\ Corpus!NonInferior(payload, DOMAIN payload, d)
                          /\ \A s \in DOMAIN sources : sources[s]
<1>1. Corpus!Artifact.result.status =
        IF Corpus!Inconclusive(payload) # {} THEN "INSUFFICIENT"
        ELSE IF nonInferior THEN "SUPPORTED" ELSE "NOT_SUPPORTED"
  <2>1. Corpus!Artifact.result = Corpus!DeriveResult(payload, declared)
    BY ArtifactSays, EvidenceHolds
  <2> QED BY <2>1 DEF Corpus!DeriveResult
<1>2. nonInferior <=> /\ Corpus!NonInferior(payload, DOMAIN payload, d)
                      /\ \A s \in Corpus!SourcesOf(declared) :
                            Corpus!NonInferior(payload, Corpus!CasesFrom(declared, s), d)
  OBVIOUS
<1> HIDE DEF payload, nonInferior
<1>3. /\ DOMAIN payload = Corpus!Holdout /\ d = deficit
      /\ \A arm \in Corpus!Arms : Corpus!Detected(payload, arm) = Corpus!Caught(Corpus!Holdout, arm)
      /\ Corpus!Inconclusive(payload) = {} <=> Corpus!Range(behaviour) \subseteq Corpus!Plain
  BY PayloadKept, PlanIs, PayloadClassified DEF payload
<1>4. ASSUME Corpus!Inconclusive(payload) = {}, NEW cases \in SUBSET Corpus!Holdout
      PROVE  Corpus!NonInferior(payload, cases, d) <=> Corpus!Sound(cases)
  <2>1. /\ Corpus!Detected(payload, "PROFILE") \cap cases = Corpus!Caught(cases, "PROFILE")
        /\ Corpus!Detected(payload, "BASELINE") \cap cases = Corpus!Caught(cases, "BASELINE")
    BY <1>3 DEF Corpus!Arms, Corpus!Caught
  <2>2. Corpus!Inconclusive(payload) \cap cases = {}
    BY <1>4
  <2> QED BY <1>3, <2>1, <2>2 DEF Corpus!NonInferior, Corpus!Sound
<1>5. ASSUME Corpus!Inconclusive(payload) = {}
      PROVE  nonInferior <=> /\ Corpus!Sound(Corpus!Holdout)
                             /\ \A s \in DOMAIN Held : Corpus!Sound(Corpus!Holdout \cap Held[s])
  <2>1. Corpus!NonInferior(payload, DOMAIN payload, d) <=> Corpus!Sound(Corpus!Holdout)
    BY <1>3, <1>4, <1>5
  <2>2. ASSUME NEW s \in DOMAIN Held
        PROVE  Corpus!NonInferior(payload, Corpus!CasesFrom(declared, <<s, Corpus!IdentityOf(s)>>), d)
                 <=> Corpus!Sound(Corpus!Holdout \cap Held[s])
    <3>1. Corpus!CasesFrom(declared, <<s, Corpus!IdentityOf(s)>>) = Corpus!Holdout \cap Held[s]
      BY SourcesAre
    <3>2. Corpus!Holdout \cap Held[s] \in SUBSET Corpus!Holdout
      OBVIOUS
    <3> QED BY <1>4, <1>5, <3>1, <3>2
  <2>3. Corpus!SourcesOf(declared) = {<<s, Corpus!IdentityOf(s)>> : s \in DOMAIN Held}
    BY SourcesAre
  <2> QED BY <1>2, <2>1, <2>2, <2>3
<1> QED BY <1>1, <1>3, <1>5 DEF Corpus!Judgement

-----------------------------------------------------------------------------
(* A study in which nothing goes wrong.                                    *)

(* The other direction: fields that tell apart are unique. *)
LEMMA InjectiveUniqueBy ==
  ASSUME NEW S, IsFiniteSet(S), NEW field, \A x, y \in S : x[field] = y[field] => x = y
  PROVE  Corpus!UniqueBy(S, field)
<1> DEFINE f == [x \in S |-> x[field]]
           T == {x[field] : x \in S}
<1>1. f \in Surjection(S, T)
  BY DEF Surjection
<1>2. f \in Injection(S, T)
  BY DEF Injection, IsInjective
<1>3. Cardinality(T) = Cardinality(S)
  <2> HIDE DEF f, T
  <2> QED BY <1>1, <1>2, FS_Surjection
<1> QED BY <1>3, CorpusCardinality DEF Corpus!UniqueBy

(* Keys and sources of the policy are identified. *)
LEMMA PolicyIdentifies ==
  /\ \A k, l \in Policy.keys : k.keyId = l.keyId => k = l
  /\ \A s, t \in Policy.sources : s.sourceId = t.sourceId \/ s.identity = t.identity => s = t
<1>1. /\ Corpus!UniqueBy(Policy.keys, "keyId") /\ Corpus!UniqueBy(Policy.sources, "sourceId")
      /\ Corpus!UniqueBy(Policy.sources, "identity")
  BY StudyAssumption DEF Corpus!PolicyParses
<1>2. IsFiniteSet(Policy.keys) /\ IsFiniteSet(Policy.sources)
  BY ConclusionsAssumption
<1>3. \A k, l \in Policy.keys : k["keyId"] = l["keyId"] => k = l
  BY <1>1, <1>2, UniqueByInjective
<1>4. \A s, t \in Policy.sources : s["sourceId"] = t["sourceId"] => s = t
  BY <1>1, <1>2, UniqueByInjective
<1>5. \A s, t \in Policy.sources : s["identity"] = t["identity"] => s = t
  BY <1>1, <1>2, UniqueByInjective
<1> QED BY <1>3, <1>4, <1>5

(* The principals' signatures are valid. *)
LEMMA PrincipalsSign ==
  ASSUME NEW keyId \in {Author, Reviewer}, NEW bytes
  PROVE  Corpus!SignatureValid(Policy, keyId, bytes, Corpus!Signed(Corpus!KeyOf(keyId), bytes))
<1>1. PICK k \in Corpus!TrustedKeys(Policy, keyId) : TRUE
  BY StudyAssumption DEF Corpus!PrincipalsDistinct
<1>2. k \in Policy.keys /\ k.keyId = keyId
  BY DEF Corpus!TrustedKeys
<1>3. (CHOOSE l \in Policy.keys : l.keyId = keyId) = k
  BY <1>2, PolicyIdentifies
<1> QED BY <1>1, <1>3 DEF Corpus!SignatureValid, Corpus!KeyOf

(* Every source is one of the policy, with its own identity. *)
LEMMA SourcesTrusted ==
  /\ \A s \in DOMAIN Held : \E x \in Policy.sources :
       /\ x.sourceId = s /\ x.identity = Corpus!IdentityOf(s)
       /\ Corpus!MayAuthor(Policy, Author, x) /\ Corpus!MayReview(Policy, Reviewer, x)
  /\ \A s, t \in DOMAIN Held : Corpus!IdentityOf(s) = Corpus!IdentityOf(t) => s = t
<1>1. ASSUME NEW s \in DOMAIN Held
      PROVE  \E x \in Policy.sources :
               /\ x.sourceId = s /\ x.identity = Corpus!IdentityOf(s)
               /\ Corpus!MayAuthor(Policy, Author, x) /\ Corpus!MayReview(Policy, Reviewer, x)
  <2>1. PICK x \in Policy.sources :
          /\ x.sourceId = s
          /\ Corpus!MayAuthor(Policy, Author, x) /\ Corpus!MayReview(Policy, Reviewer, x)
    BY StudyAssumption
  <2>2. (CHOOSE y \in Policy.sources : y.sourceId = s) = x
    BY <2>1, PolicyIdentifies
  <2> QED BY <2>1, <2>2 DEF Corpus!IdentityOf
<1>2. \A s, t \in DOMAIN Held : Corpus!IdentityOf(s) = Corpus!IdentityOf(t) => s = t
  BY <1>1, PolicyIdentifies
<1> QED BY <1>1, <1>2

(* What is made of the strata of a study is an allocation request. *)
LEMMA StrataFinite ==
  /\ IsFiniteSet(Strata)
  /\ \A x \in Strata : /\ x.sourceId \in DOMAIN Held /\ x.identity = Corpus!IdentityOf(x.sourceId)
                       /\ x.calibrationCount = Calibrated[x.sourceId]
                       /\ x.cases = Held[x.sourceId]
  /\ \A x, y \in Strata : x.sourceId = y.sourceId \/ x.identity = y.identity => x = y
<1> DEFINE stratum(s) == [sourceId |-> s, identity |-> Corpus!IdentityOf(s),
                          calibrationCount |-> Calibrated[s], cases |-> Held[s]]
           f == [s \in DOMAIN Held |-> stratum(s)]
<1>1. f \in Surjection(DOMAIN Held, Strata)
  BY DEF Surjection, Strata
<1>2. IsFiniteSet(Strata)
  <2> HIDE DEF f
  <2> QED BY <1>1, CorpusAssumption, FS_Surjection
<1>3. \A x \in Strata : /\ x.sourceId \in DOMAIN Held /\ x = stratum(x.sourceId)
  BY DEF Strata
<1>4. \A s : /\ stratum(s).identity = Corpus!IdentityOf(s) /\ stratum(s).cases = Held[s]
             /\ stratum(s).calibrationCount = Calibrated[s]
  OBVIOUS
<1> HIDE DEF stratum
<1> QED BY <1>2, <1>3, <1>4, SourcesTrusted

LEMMA StrataRequested == Corpus!RequestParses(Strata)
<1>1. Corpus!UniqueBy(Strata, "sourceId") /\ Corpus!UniqueBy(Strata, "identity")
  BY StrataFinite, InjectiveUniqueBy
<1>2. \A x, y \in Strata : x # y => x.cases \cap y.cases = {}
  BY StrataFinite, CorpusAssumption
<1>3. ASSUME NEW x \in Strata
      PROVE  /\ Corpus!Cardinality(x.cases) >= 2
             /\ x.calibrationCount \in 1 .. Corpus!Cardinality(x.cases) - 1
  <2>1. /\ x.sourceId \in DOMAIN Held /\ x.cases = Held[x.sourceId]
        /\ x.calibrationCount = Calibrated[x.sourceId]
    BY StrataFinite
  <2>2. Cardinality(Held[x.sourceId]) \in Nat
    BY <2>1, CorpusAssumption, FS_CardinalityType
  <2>3. Calibrated[x.sourceId] \in 1 .. Cardinality(Held[x.sourceId]) - 1
    BY <2>1, StudyAssumption
  <2>4. Corpus!Cardinality(x.cases) = Cardinality(Held[x.sourceId])
    BY <2>1, CorpusCardinality
  <2> QED BY <2>1, <2>2, <2>3, <2>4
<1> QED BY <1>1, <1>2, <1>3 DEF Corpus!RequestParses

(* The cases that an allocation keeps for calibration. *)
Noted(seed) ==
  UNION {Corpus!Range(b.calibration) : b \in {Corpus!Allocated(x, Strata, seed) : x \in Strata}}

(* The two sides of one source. *)
LEMMA AllocatedSays ==
  ASSUME NEW seed \in [{Author, Reviewer} -> Secrets], NEW x \in Strata
  PROVE  LET b == Corpus!Allocated(x, Strata, seed)
         IN  /\ b.sourceId = x.sourceId /\ b.identity = x.identity
             /\ b.calibrationCount = x.calibrationCount /\ b.cases = x.cases
             /\ x.calibrationCount \in Nat /\ x.calibrationCount < Cardinality(x.cases)
             /\ Len(b.calibration) = x.calibrationCount
             /\ Len(b.holdout) = Cardinality(x.cases) - x.calibrationCount
             /\ Corpus!Range(b.calibration) \subseteq x.cases
             /\ Corpus!Range(b.holdout) \subseteq x.cases
             /\ IsFiniteSet(Corpus!Range(b.calibration))
             /\ Cardinality(Corpus!Range(b.calibration)) = x.calibrationCount
<1> DEFINE b == Corpus!Allocated(x, Strata, seed)
           t == Corpus!Arranged(x.cases, seed)
           n == Cardinality(x.cases)
           k == x.calibrationCount
<1>1. /\ b.sourceId = x.sourceId /\ b.identity = x.identity
      /\ b.calibrationCount = k /\ b.cases = x.cases
      /\ b.calibration = SubSeq(t, 1, k)
      /\ b.holdout = SubSeq(t, k + 1, Len(t))
  BY DEF Corpus!Allocated
<1>2. /\ x.sourceId \in DOMAIN Held /\ x.cases = Held[x.sourceId] /\ k = Calibrated[x.sourceId]
  BY StrataFinite
<1>3. /\ IsFiniteSet(x.cases) /\ x.cases \subseteq Nat \X Nat
      /\ \A c \in x.cases : Score(seed, c) \in Nat
  BY <1>2, CorpusAssumption
<1>4. n \in Nat /\ k \in 1 .. n - 1
  <2>1. n \in Nat
    BY <1>3, FS_CardinalityType
  <2>2. k \in 1 .. n - 1
    BY <1>2, StudyAssumption
  <2> QED BY <2>1, <2>2
<1>5. /\ t \in [1 .. n -> x.cases] /\ \A i, j \in 1 .. n : t[i] = t[j] => i = j
  BY <1>3, ArrangedInOrder
<1> HIDE DEF b, t, n, k
<1>6. k \in Nat /\ k < n
  BY <1>4
<1>7. t \in Seq(x.cases) /\ Len(t) = n
  BY <1>4, <1>5
<1>8. /\ SubSeq(t, 1, k) = [i \in 1 .. k |-> t[i]] /\ Len(SubSeq(t, 1, k)) = k
      /\ Len(SubSeq(t, k + 1, n)) = n - k
      /\ \A i \in 1 .. n - k : SubSeq(t, k + 1, n)[i] \in x.cases
      /\ DOMAIN SubSeq(t, k + 1, n) = 1 .. n - k
  <2>0. n \in Nat /\ k \in Nat /\ 1 <= k /\ k < n
    BY <1>4
  <2>1. SubSeq(t, 1, k) = [i \in 1 .. k |-> t[i]]
    BY <1>7, <2>0
  <2>2. Len(SubSeq(t, 1, k)) = k
    BY <1>7, <2>0
  <2>3. \A i \in 1 .. n - k : SubSeq(t, k + 1, n)[i] \in x.cases
    <3> SUFFICES ASSUME NEW i \in 1 .. n - k PROVE SubSeq(t, k + 1, n)[i] \in x.cases
      OBVIOUS
    <3>1. SubSeq(t, k + 1, n)[i] = t[k + i]
      BY <1>7, <2>0
    <3>2. k + i \in 1 .. n
      BY <2>0
    <3> QED BY <1>5, <3>1, <3>2
  <2>4. Len(SubSeq(t, k + 1, n)) = n - k
    BY <1>7, <2>0
  <2>5. DOMAIN SubSeq(t, k + 1, n) = 1 .. n - k
    BY <1>7, <2>0
  <2> QED BY <2>1, <2>2, <2>3, <2>4, <2>5
<1>9. Corpus!Range(SubSeq(t, 1, k)) = {t[i] : i \in 1 .. k}
  BY <1>8 DEF Corpus!Range
<1>10. Corpus!Range(SubSeq(t, k + 1, n)) \subseteq x.cases
  BY <1>8 DEF Corpus!Range
<1>13. \A i \in 1 .. k : i \in 1 .. n /\ t[i] \in x.cases
  <2>1. \A i \in 1 .. k : i \in 1 .. n
    BY <1>4
  <2> QED BY <1>5, <2>1
<1>11. {t[i] : i \in 1 .. k} \subseteq x.cases
  BY <1>13
<1>12. IsFiniteSet({t[i] : i \in 1 .. k}) /\ Cardinality({t[i] : i \in 1 .. k}) = k
  <2> DEFINE f == [i \in 1 .. k |-> t[i]]
             S == {t[i] : i \in 1 .. k}
  <2>1. f \in Surjection(1 .. k, S)
    BY DEF Surjection
  <2>2. f \in Injection(1 .. k, S)
    BY <1>5, <1>13 DEF Injection, IsInjective
  <2>3. IsFiniteSet(1 .. k) /\ Cardinality(1 .. k) = k
    BY <1>6, FS_Interval
  <2> HIDE DEF f, S
  <2>4. IsFiniteSet(S) /\ Cardinality(S) = Cardinality(1 .. k)
    BY <2>1, <2>2, <2>3, FS_Surjection
  <2> QED BY <2>3, <2>4 DEF S
<1> QED BY <1>1, <1>6, <1>7, <1>8, <1>9, <1>10, <1>11, <1>12 DEF b, k, n

(* The parts of an allocation. *)
LEMMA AllocationSays ==
  ASSUME NEW seed
  PROVE  LET a == Corpus!CreateAllocation(seed, Strata)
         IN  /\ a.seed = seed
             /\ a.strata = {Corpus!Allocated(x, Strata, seed) : x \in Strata}
             /\ a.calibration = Corpus!Arranged(Noted(seed), seed)
             /\ a.holdout = Corpus!Arranged(Corpus!AllCases \ Noted(seed), seed)
             /\ DOMAIN a.assignments = DOMAIN Corpus!Arranged(Corpus!AllCases, seed)
             /\ \A i \in DOMAIN a.assignments :
                  a.assignments[i].caseId = Corpus!Arranged(Corpus!AllCases, seed)[i]
             /\ a.digest = Corpus!AllocationDigest(a)
             /\ a = [a EXCEPT !.digest = a.digest]
<1> DEFINE a == Corpus!CreateAllocation(seed, Strata)
           cases == UNION {x.cases : x \in Strata}
<1>1. cases = Corpus!AllCases
  <2>1. \A x \in Strata : x.sourceId \in DOMAIN Held /\ x.cases = Held[x.sourceId]
    BY StrataFinite
  <2>2. ASSUME NEW s \in DOMAIN Held PROVE \E x \in Strata : x.cases = Held[s]
    <3> DEFINE x == [sourceId |-> s, identity |-> Corpus!IdentityOf(s),
                     calibrationCount |-> Calibrated[s], cases |-> Held[s]]
    <3>1. x \in Strata /\ x.cases = Held[s]
      BY DEF Strata
    <3> HIDE DEF x
    <3> QED BY <3>1
  <2>3. cases \subseteq Corpus!AllCases
    BY <2>1 DEF Corpus!AllCases
  <2>4. Corpus!AllCases \subseteq cases
    BY <2>2 DEF Corpus!AllCases
  <2> QED BY <2>3, <2>4
<1>2. /\ a.seed = seed
      /\ a.strata = {Corpus!Allocated(x, Strata, seed) : x \in Strata}
      /\ a.calibration = Corpus!Arranged(Noted(seed), seed)
      /\ a.holdout = Corpus!Arranged(cases \ Noted(seed), seed)
  BY DEF Corpus!CreateAllocation, Noted
<1>3. a.assignments =
        [i \in DOMAIN Corpus!Arranged(cases, seed) |->
          [caseId |-> Corpus!Arranged(cases, seed)[i],
           sourceId |-> (CHOOSE s \in Strata : Corpus!Arranged(cases, seed)[i] \in s.cases).sourceId,
           score |-> Score(seed, Corpus!Arranged(cases, seed)[i]),
           partition |-> IF Corpus!Arranged(cases, seed)[i] \in Noted(seed)
                         THEN "CALIBRATION" ELSE "HOLDOUT"]]
  BY DEF Corpus!CreateAllocation, Noted
<1>4. /\ DOMAIN a.assignments = DOMAIN Corpus!Arranged(cases, seed)
      /\ \A i \in DOMAIN a.assignments : a.assignments[i].caseId = Corpus!Arranged(cases, seed)[i]
  <2> HIDE DEF a, cases
  <2> QED BY <1>3
<1>5. a.digest = Corpus!AllocationDigest(a) /\ a = [a EXCEPT !.digest = a.digest]
  BY DEF Corpus!CreateAllocation, Corpus!AllocationDigest
<1> HIDE DEF a, cases
<1> QED BY <1>1, <1>2, <1>4, <1>5 DEF a

(* The strata of an allocation: each of its own source, and together they  *)
(* keep the sum of the agreed numbers.                                     *)
AllocatedStrata(seed) == {Corpus!Allocated(x, Strata, seed) : x \in Strata}

LEMMA AllocatedEach ==
  ASSUME NEW seed \in [{Author, Reviewer} -> Secrets], NEW b \in AllocatedStrata(seed)
  PROVE  /\ \E x \in Strata : /\ b = Corpus!Allocated(x, Strata, seed)
                              /\ b.sourceId = x.sourceId /\ b.identity = x.identity
                              /\ b.calibrationCount = x.calibrationCount /\ b.cases = x.cases
         /\ b.calibrationCount \in Nat /\ b.calibrationCount < Cardinality(b.cases)
         /\ Len(b.calibration) = b.calibrationCount
         /\ Len(b.holdout) = Cardinality(b.cases) - b.calibrationCount
         /\ Corpus!Range(b.calibration) \subseteq b.cases
         /\ Corpus!Range(b.holdout) \subseteq b.cases
         /\ IsFiniteSet(Corpus!Range(b.calibration))
         /\ Cardinality(Corpus!Range(b.calibration)) = b.calibrationCount
<1>1. PICK x \in Strata : b = Corpus!Allocated(x, Strata, seed)
  BY DEF AllocatedStrata
<1>2. /\ b.sourceId = x.sourceId /\ b.identity = x.identity
      /\ b.calibrationCount = x.calibrationCount /\ b.cases = x.cases
      /\ x.calibrationCount \in Nat /\ x.calibrationCount < Cardinality(x.cases)
      /\ Len(b.calibration) = x.calibrationCount
      /\ Len(b.holdout) = Cardinality(x.cases) - x.calibrationCount
      /\ Corpus!Range(b.calibration) \subseteq x.cases
      /\ Corpus!Range(b.holdout) \subseteq x.cases
      /\ IsFiniteSet(Corpus!Range(b.calibration))
      /\ Cardinality(Corpus!Range(b.calibration)) = x.calibrationCount
  BY <1>1, AllocatedSays
<1> QED BY <1>1, <1>2

LEMMA AllocatedFinite ==
  ASSUME NEW seed \in [{Author, Reviewer} -> Secrets]
  PROVE  IsFiniteSet(AllocatedStrata(seed))
<1> DEFINE S == AllocatedStrata(seed)
           f == [x \in Strata |-> Corpus!Allocated(x, Strata, seed)]
<1>1. f \in Surjection(Strata, S)
  BY DEF Surjection, AllocatedStrata
<1>2. IsFiniteSet(S)
  <2> HIDE DEF f, S
  <2> QED BY <1>1, StrataFinite, FS_Surjection
<1> QED BY <1>2

LEMMA AllocatedTwo ==
  ASSUME NEW seed \in [{Author, Reviewer} -> Secrets],
         NEW b \in AllocatedStrata(seed), NEW c \in AllocatedStrata(seed)
  PROVE  /\ b.sourceId = c.sourceId => b = c
         /\ b.identity = c.identity => b = c
         /\ b # c => b.cases \cap c.cases = {}
<1>1. PICK x \in Strata : /\ b = Corpus!Allocated(x, Strata, seed)
                          /\ b.sourceId = x.sourceId /\ b.identity = x.identity /\ b.cases = x.cases
  BY AllocatedEach
<1>2. PICK y \in Strata : /\ c = Corpus!Allocated(y, Strata, seed)
                          /\ c.sourceId = y.sourceId /\ c.identity = y.identity /\ c.cases = y.cases
  BY AllocatedEach
<1>3. x # y => x.cases \cap y.cases = {}
  BY StrataRequested DEF Corpus!RequestParses
<1>4. /\ x.sourceId = y.sourceId => x = y
      /\ x.identity = y.identity => x = y
  BY StrataFinite
<1> QED BY <1>1, <1>2, <1>3, <1>4

LEMMA CorpusSum == \A f, S : Corpus!SumFunctionOnSet(f, S) = SumFunctionOnSet(f, S)
BY DEF Corpus!SumFunctionOnSet, SumFunctionOnSet, Corpus!FoldFunctionOnSet, FoldFunctionOnSet,
       Corpus!MapThenFoldSet, MapThenFoldSet

LEMMA NotedCount ==
  ASSUME NEW seed \in [{Author, Reviewer} -> Secrets]
  PROVE  /\ Noted(seed) \subseteq Corpus!AllCases /\ IsFiniteSet(Noted(seed))
         /\ Cardinality(Noted(seed)) =
              SumFunctionOnSet([b \in AllocatedStrata(seed) |-> b.calibrationCount], AllocatedStrata(seed))
<1> DEFINE S == AllocatedStrata(seed)
           part == [b \in S |-> Corpus!Range(b.calibration)]
           f == [b \in S |-> b.calibrationCount]
<1>1. Noted(seed) = UNION {part[b] : b \in S}
  BY DEF Noted, AllocatedStrata
<1>2. \A b \in S : IsFiniteSet(part[b]) /\ f[b] = Cardinality(part[b])
  <2> SUFFICES ASSUME NEW b \in AllocatedStrata(seed)
               PROVE  IsFiniteSet(part[b]) /\ f[b] = Cardinality(part[b])
    OBVIOUS
  <2>1. /\ IsFiniteSet(Corpus!Range(b.calibration))
        /\ Cardinality(Corpus!Range(b.calibration)) = b.calibrationCount
    BY AllocatedEach
  <2>2. part[b] = Corpus!Range(b.calibration) /\ f[b] = b.calibrationCount
    OBVIOUS
  <2> QED BY <2>1, <2>2
<1>3. \A b, c \in S : b # c => part[b] \cap part[c] = {}
  <2> SUFFICES ASSUME NEW b \in AllocatedStrata(seed), NEW c \in AllocatedStrata(seed), b # c
               PROVE  part[b] \cap part[c] = {}
    OBVIOUS
  <2>1. Corpus!Range(b.calibration) \subseteq b.cases /\ Corpus!Range(c.calibration) \subseteq c.cases
    BY AllocatedEach
  <2>2. b.cases \cap c.cases = {}
    BY AllocatedTwo
  <2>3. part[b] = Corpus!Range(b.calibration) /\ part[c] = Corpus!Range(c.calibration)
    OBVIOUS
  <2> QED BY <2>1, <2>2, <2>3
<1>4. IsFiniteSet(S)
  BY AllocatedFinite
<1>5. \A b \in S : part[b] \subseteq Corpus!AllCases
  <2> SUFFICES ASSUME NEW b \in AllocatedStrata(seed) PROVE part[b] \subseteq Corpus!AllCases
    OBVIOUS
  <2>1. PICK x \in Strata : b.cases = x.cases
    BY AllocatedEach
  <2>2. x.cases \subseteq Corpus!AllCases
    BY StrataFinite DEF Corpus!AllCases
  <2>3. part[b] = Corpus!Range(b.calibration) /\ Corpus!Range(b.calibration) \subseteq b.cases
    BY AllocatedEach
  <2> QED BY <2>1, <2>2, <2>3
<1> HIDE DEF S, part, f
<1>6. /\ IsFiniteSet(UNION {part[b] : b \in S})
      /\ Cardinality(UNION {part[b] : b \in S}) = SumFunctionOnSet(f, S)
  BY <1>2, <1>3, <1>4, SumOfParts
<1> QED BY <1>1, <1>5, <1>6 DEF S, f

(* The two sides and the assignments have each case once. *)
Split(seed) == Corpus!CreateAllocation(seed, Strata)
All == Cardinality(Corpus!AllCases)
Kept(seed) == Cardinality(Noted(seed))

LEMMA SidesSay ==
  ASSUME NEW seed \in [{Author, Reviewer} -> Secrets]
  PROVE  /\ All \in Nat /\ Kept(seed) \in Nat /\ Kept(seed) <= All
         /\ Split(seed).calibration \in [1 .. Kept(seed) -> Noted(seed)]
         /\ \A i, j \in 1 .. Kept(seed) : Split(seed).calibration[i] = Split(seed).calibration[j] => i = j
         /\ Split(seed).holdout \in [1 .. All - Kept(seed) -> Corpus!AllCases \ Noted(seed)]
         /\ \A i, j \in 1 .. All - Kept(seed) : Split(seed).holdout[i] = Split(seed).holdout[j] => i = j
         /\ DOMAIN Split(seed).assignments = 1 .. All
         /\ \A i, j \in 1 .. All : Split(seed).assignments[i].caseId = Split(seed).assignments[j].caseId => i = j
<1> DEFINE order == Corpus!Arranged(Corpus!AllCases, seed)
<1>1. /\ IsFiniteSet(Corpus!AllCases) /\ Corpus!AllCases \subseteq Nat \X Nat
      /\ \A c \in Corpus!AllCases : Score(seed, c) \in Nat
  BY CasesAreScored
<1>2. Noted(seed) \subseteq Corpus!AllCases /\ IsFiniteSet(Noted(seed))
  BY NotedCount
<1>3. All \in Nat /\ Kept(seed) \in Nat /\ Kept(seed) <= All
  BY <1>1, <1>2, FS_CardinalityType, FS_Subset DEF All, Kept
<1>4. /\ IsFiniteSet(Corpus!AllCases \ Noted(seed))
      /\ Cardinality(Corpus!AllCases \ Noted(seed)) = All - Kept(seed)
  <2>1. Corpus!AllCases \cap Noted(seed) = Noted(seed)
    BY <1>2
  <2> QED BY <1>1, <2>1, FS_Difference DEF All, Kept
<1>5. /\ Split(seed).calibration = Corpus!Arranged(Noted(seed), seed)
      /\ Split(seed).holdout = Corpus!Arranged(Corpus!AllCases \ Noted(seed), seed)
      /\ DOMAIN Split(seed).assignments = DOMAIN order
      /\ \A i \in DOMAIN Split(seed).assignments : Split(seed).assignments[i].caseId = order[i]
  BY AllocationSays DEF Split
<1> HIDE DEF order
<1>6. /\ Split(seed).calibration \in [1 .. Kept(seed) -> Noted(seed)]
      /\ \A i, j \in 1 .. Kept(seed) : Split(seed).calibration[i] = Split(seed).calibration[j] => i = j
  <2>1. Noted(seed) \subseteq Nat \X Nat /\ \A c \in Noted(seed) : Score(seed, c) \in Nat
    BY <1>1, <1>2
  <2> QED BY <1>2, <1>5, <2>1, ArrangedInOrder DEF Kept
<1>7. /\ Split(seed).holdout \in [1 .. All - Kept(seed) -> Corpus!AllCases \ Noted(seed)]
      /\ \A i, j \in 1 .. All - Kept(seed) : Split(seed).holdout[i] = Split(seed).holdout[j] => i = j
  <2> DEFINE rest == Corpus!AllCases \ Noted(seed)
  <2>1. /\ rest \subseteq Nat \X Nat /\ \A c \in rest : Score(seed, c) \in Nat
        /\ IsFiniteSet(rest) /\ Cardinality(rest) = All - Kept(seed) /\ Split(seed).holdout = Corpus!Arranged(rest, seed)
    BY <1>1, <1>4, <1>5
  <2> HIDE DEF rest
  <2>2. /\ Split(seed).holdout \in [1 .. Cardinality(rest) -> rest]
        /\ \A i, j \in 1 .. Cardinality(rest) : Split(seed).holdout[i] = Split(seed).holdout[j] => i = j
    BY <2>1, ArrangedInOrder
  <2> QED BY <2>1, <2>2 DEF rest
<1>8. /\ order \in [1 .. All -> Corpus!AllCases]
      /\ \A i, j \in 1 .. All : order[i] = order[j] => i = j
  BY <1>1, ArrangedInOrder DEF order, All
<1>9. /\ DOMAIN Split(seed).assignments = 1 .. All
      /\ \A i, j \in 1 .. All :
           Split(seed).assignments[i].caseId = Split(seed).assignments[j].caseId => i = j
  <2>1. DOMAIN Split(seed).assignments = 1 .. All
    BY <1>5, <1>8
  <2>2. \A i \in 1 .. All : Split(seed).assignments[i].caseId = order[i]
    BY <1>5, <2>1
  <2> QED BY <1>8, <2>1, <2>2
<1> QED BY <1>3, <1>6, <1>7, <1>9

(* So the allocation parses and replays. *)
LEMMA AllocationParsed ==
  ASSUME NEW seed \in [{Author, Reviewer} -> Secrets]
  PROVE  Corpus!AllocationParses(Corpus!CreateAllocation(seed, Strata))
<1> DEFINE a == Corpus!CreateAllocation(seed, Strata)
           cases == UNION {b.cases : b \in a.strata}
<1>1. a.strata = AllocatedStrata(seed)
  BY AllocationSays DEF AllocatedStrata
<1>2. cases = Corpus!AllCases
  <2>1. \A b \in a.strata : \E s \in DOMAIN Held : b.cases = Held[s]
    <3> SUFFICES ASSUME NEW b \in AllocatedStrata(seed) PROVE \E s \in DOMAIN Held : b.cases = Held[s]
      BY <1>1
    <3>1. PICK x \in Strata : b.cases = x.cases
      BY AllocatedEach
    <3> QED BY <3>1, StrataFinite
  <2>2. ASSUME NEW s \in DOMAIN Held PROVE \E b \in a.strata : b.cases = Held[s]
    <3> DEFINE x == [sourceId |-> s, identity |-> Corpus!IdentityOf(s),
                     calibrationCount |-> Calibrated[s], cases |-> Held[s]]
    <3>1. x \in Strata /\ x.cases = Held[s]
      BY DEF Strata
    <3> HIDE DEF x
    <3>2. Corpus!Allocated(x, Strata, seed) \in a.strata /\ Corpus!Allocated(x, Strata, seed).cases = x.cases
      BY <1>1, <3>1, AllocatedSays DEF AllocatedStrata
    <3> QED BY <3>1, <3>2
  <2> HIDE DEF a
  <2>3. cases \subseteq Corpus!AllCases
    BY <2>1 DEF Corpus!AllCases
  <2>4. Corpus!AllCases \subseteq cases
    BY <2>2 DEF Corpus!AllCases
  <2> QED BY <2>3, <2>4
<1>3. /\ All \in Nat /\ Kept(seed) \in Nat /\ Kept(seed) <= All
      /\ a.calibration \in [1 .. Kept(seed) -> Noted(seed)]
      /\ \A i, j \in 1 .. Kept(seed) : a.calibration[i] = a.calibration[j] => i = j
      /\ a.holdout \in [1 .. All - Kept(seed) -> Corpus!AllCases \ Noted(seed)]
      /\ \A i, j \in 1 .. All - Kept(seed) : a.holdout[i] = a.holdout[j] => i = j
      /\ DOMAIN a.assignments = 1 .. All
      /\ \A i, j \in 1 .. All : a.assignments[i].caseId = a.assignments[j].caseId => i = j
  BY SidesSay DEF Split
<1> HIDE DEF a, cases
<1>4. Len(a.calibration) = Kept(seed) /\ Len(a.holdout) = All - Kept(seed)
  BY <1>3
<1>5. Len(a.assignments) = All
  BY <1>3
<1>6. Len(a.calibration) = Corpus!SumFunctionOnSet([b \in a.strata |-> b.calibrationCount], a.strata)
  BY <1>1, <1>4, NotedCount, CorpusSum DEF Kept
<1>7. Corpus!UniqueBy(a.strata, "sourceId") /\ Corpus!UniqueBy(a.strata, "identity")
  <2>1. IsFiniteSet(a.strata)
    BY <1>1, AllocatedFinite
  <2>2. \A b, c \in a.strata : b["sourceId"] = c["sourceId"] => b = c
    BY <1>1, AllocatedTwo
  <2>3. \A b, c \in a.strata : b["identity"] = c["identity"] => b = c
    BY <1>1, AllocatedTwo
  <2> QED BY <2>1, <2>2, <2>3, InjectiveUniqueBy
<1>8. \A b \in a.strata : /\ b.calibrationCount < Corpus!Cardinality(b.cases)
                          /\ Len(b.calibration) = b.calibrationCount
                          /\ Len(b.holdout) = Corpus!Cardinality(b.cases) - b.calibrationCount
  <2> SUFFICES ASSUME NEW b \in AllocatedStrata(seed)
               PROVE  /\ b.calibrationCount < Cardinality(b.cases)
                      /\ Len(b.calibration) = b.calibrationCount
                      /\ Len(b.holdout) = Cardinality(b.cases) - b.calibrationCount
    BY <1>1, CorpusCardinality
  <2> QED BY AllocatedEach
<1>9. ASSUME NEW b \in a.strata, NEW c \in a.strata, b # c
      PROVE  /\ b.cases \cap c.cases = {}
             /\ Corpus!Range(b.calibration) \cap Corpus!Range(c.calibration) = {}
             /\ Corpus!Range(b.holdout) \cap Corpus!Range(c.holdout) = {}
  <2>0. b \in AllocatedStrata(seed) /\ c \in AllocatedStrata(seed)
    BY <1>1
  <2>1. b.cases \cap c.cases = {}
    BY <1>9, <2>0, AllocatedTwo
  <2>2. /\ Corpus!Range(b.calibration) \subseteq b.cases
        /\ Corpus!Range(b.holdout) \subseteq b.cases
    BY <2>0, AllocatedEach
  <2>3. /\ Corpus!Range(c.calibration) \subseteq c.cases
        /\ Corpus!Range(c.holdout) \subseteq c.cases
    BY <2>0, AllocatedEach
  <2> QED BY <2>1, <2>2, <2>3
<1>10. Corpus!IsInjective(a.calibration \o a.holdout)
  <2> DEFINE one == a.calibration
             two == a.holdout
             both == one \o two
  <2>0. one \in Seq(Corpus!AllCases) /\ two \in Seq(Corpus!AllCases)
    <3>1. Noted(seed) \subseteq Corpus!AllCases
      BY NotedCount
    <3>2. All - Kept(seed) \in Nat /\ Kept(seed) \in Nat
      BY <1>3
    <3>3. \A n \in Nat : \A S, T, t : S \subseteq T /\ t \in [1 .. n -> S] => t \in Seq(T)
      <4> SUFFICES ASSUME NEW n \in Nat, NEW S, NEW T, NEW t, S \subseteq T, t \in [1 .. n -> S]
                   PROVE  t \in Seq(T)
        OBVIOUS
      <4>1. t \in [1 .. n -> T]
        OBVIOUS
      <4> QED BY <4>1
    <3>4. one \in Seq(Corpus!AllCases)
      BY <1>3, <3>1, <3>2, <3>3
    <3>5. two \in Seq(Corpus!AllCases)
      <4>1. Corpus!AllCases \ Noted(seed) \subseteq Corpus!AllCases
        OBVIOUS
      <4> QED BY <1>3, <3>2, <3>3, <4>1
    <3> QED BY <3>4, <3>5
  <2>1. /\ Len(one) = Kept(seed) /\ Len(two) = All - Kept(seed)
        /\ DOMAIN one = 1 .. Kept(seed) /\ DOMAIN two = 1 .. All - Kept(seed)
    BY <1>3, <1>4
  <2> HIDE DEF one, two
  <2>7. All \in Nat /\ Kept(seed) \in Nat /\ Kept(seed) <= All
    BY <1>3
  <2>2. DOMAIN both = 1 .. All
    <3>1. Len(both) = All /\ both \in Seq(Corpus!AllCases)
      BY <2>0, <2>1, <2>7
    <3> HIDE DEF both
    <3> QED BY <3>1
  <2>3. \A i \in 1 .. All : both[i] = IF i <= Kept(seed) THEN one[i] ELSE two[i - Kept(seed)]
    BY <2>0, <2>1, <2>7
  <2>4. /\ \A i \in 1 .. Kept(seed) : one[i] \in Noted(seed)
        /\ \A i \in 1 .. All - Kept(seed) : two[i] \notin Noted(seed)
        /\ \A i, j \in 1 .. Kept(seed) : one[i] = one[j] => i = j
        /\ \A i, j \in 1 .. All - Kept(seed) : two[i] = two[j] => i = j
    BY <1>3 DEF one, two
  <2> HIDE DEF both
  <2>5. ASSUME NEW i \in 1 .. All, NEW j \in 1 .. All, both[i] = both[j]
        PROVE  i = j
    <3>1. i <= Kept(seed) => i \in 1 .. Kept(seed) /\ both[i] = one[i]
      BY <1>3, <2>3
    <3>2. j <= Kept(seed) => j \in 1 .. Kept(seed) /\ both[j] = one[j]
      BY <1>3, <2>3
    <3>3. ~(i <= Kept(seed)) => i - Kept(seed) \in 1 .. All - Kept(seed) /\ both[i] = two[i - Kept(seed)]
      BY <1>3, <2>3
    <3>4. ~(j <= Kept(seed)) => j - Kept(seed) \in 1 .. All - Kept(seed) /\ both[j] = two[j - Kept(seed)]
      BY <1>3, <2>3
    <3> QED BY <1>3, <2>4, <2>5, <3>1, <3>2, <3>3, <3>4
  <2> QED BY <2>2, <2>5 DEF Corpus!IsInjective, both, one, two
<1>11. Corpus!IsInjective([i \in DOMAIN a.assignments |-> a.assignments[i].caseId])
  BY <1>3 DEF Corpus!IsInjective
<1>12. Len(a.holdout) = Corpus!Cardinality(cases) - Len(a.calibration)
       /\ Len(a.assignments) = Corpus!Cardinality(cases)
  BY <1>2, <1>4, <1>5, CorpusCardinality DEF All
<1> QED BY <1>6, <1>7, <1>8, <1>9, <1>10, <1>11, <1>12 DEF Corpus!AllocationParses, cases, a

LEMMA AllocationReplayed ==
  ASSUME NEW seed \in [{Author, Reviewer} -> Secrets]
  PROVE  Corpus!AllocationReplays(Corpus!CreateAllocation(seed, Strata))
<1> DEFINE a == Corpus!CreateAllocation(seed, Strata)
<1>1. Corpus!StrataOf(a) = Strata
  <2>1. a.strata = AllocatedStrata(seed)
    BY AllocationSays DEF AllocatedStrata
  <2>2. \A x \in Strata : x = [sourceId |-> x.sourceId, identity |-> x.identity,
                               calibrationCount |-> x.calibrationCount, cases |-> x.cases]
    BY DEF Strata
  <2>3. \A x \in Strata : LET b == Corpus!Allocated(x, Strata, seed)
                          IN  /\ b \in a.strata
                              /\ b.sourceId = x.sourceId /\ b.identity = x.identity
                              /\ b.calibrationCount = x.calibrationCount /\ b.cases = x.cases
    BY <2>1, AllocatedSays DEF AllocatedStrata
  <2> HIDE DEF a
  <2>4. Strata \subseteq Corpus!StrataOf(a)
    BY <2>2, <2>3 DEF Corpus!StrataOf
  <2>5. \A b \in a.strata : \E x \in Strata :
           /\ b.sourceId = x.sourceId /\ b.identity = x.identity
           /\ b.calibrationCount = x.calibrationCount /\ b.cases = x.cases
    <3> SUFFICES ASSUME NEW b \in AllocatedStrata(seed)
                 PROVE  \E x \in Strata : /\ b.sourceId = x.sourceId /\ b.identity = x.identity
                                          /\ b.calibrationCount = x.calibrationCount /\ b.cases = x.cases
      BY <2>1
    <3>1. PICK x \in Strata : /\ b.sourceId = x.sourceId /\ b.identity = x.identity
                              /\ b.calibrationCount = x.calibrationCount /\ b.cases = x.cases
      BY AllocatedEach
    <3> QED BY <3>1
  <2>6. Corpus!StrataOf(a) \subseteq Strata
    BY <2>2, <2>5 DEF Corpus!StrataOf
  <2> QED BY <2>4, <2>6
<1>2. a.seed = seed /\ a.digest = Corpus!AllocationDigest(a) /\ a = [a EXCEPT !.digest = a.digest]
  BY AllocationSays
<1>3. Corpus!AllocationParses(a)
  BY AllocationParsed
<1>4. a = [Corpus!CreateAllocation(a.seed, Corpus!StrataOf(a)) EXCEPT !.digest = a.digest]
  BY <1>1, <1>2
<1> HIDE DEF a
<1> QED BY <1>1, <1>2, <1>3, <1>4, StrataRequested DEF Corpus!AllocationReplays, a

(* Two different things are two. *)
LEMMA PairIsTwo ==
  ASSUME NEW a, NEW b, a # b
  PROVE  IsFiniteSet({a, b}) /\ Cardinality({a, b}) = 2
<1>1. IsFiniteSet({a}) /\ Cardinality({a}) = 1
  BY FS_Singleton
<1>2. {a, b} = {a} \cup {b} /\ b \notin {a}
  OBVIOUS
<1>3. IsFiniteSet({a} \cup {b}) /\ Cardinality({a} \cup {b}) = Cardinality({a}) + 1
  BY <1>1, <1>2, FS_AddElement
<1> QED BY <1>1, <1>2, <1>3

(* A commitment is sealed, and its signers sign all of it but the          *)
(* signatures and the seal.                                                *)
LEMMA CommitmentSealed ==
  ASSUME NEW drawn
  PROVE  LET c == Corpus!CommitmentTo(drawn)
         IN  /\ c.policyDigest = Policy.digest
             /\ c.digest = Corpus!CommitmentDigest(c)
             /\ c.signers = {SignerOf(drawn, y, Corpus!CommitmentProjection(c)) : y \in Corpus!Signers}
<1> DEFINE caseSet == {[caseId |-> x, caseDigest |-> Corpus!Sha256(Corpus!Document(x, "r1")),
                        provenanceDigest |-> Corpus!Provenance(x).digest,
                        sourceId |-> Corpus!SourceOf(x),
                        identity |-> Corpus!IdentityOf(Corpus!SourceOf(x))] : x \in Corpus!AllCases}
           strata == {[sourceId |-> s, identity |-> Corpus!IdentityOf(s),
                       calibrationCount |-> Calibrated[s]] : s \in DOMAIN Held}
           share(y) == Corpus!ShareCommitment(y[2], drawn[y[1]])
           named(y) == [role |-> y[1], keyId |-> y[2], share |-> share(y)]
           unsigned == [policyDigest |-> Policy.digest, caseSet |-> caseSet, strata |-> strata,
                        signers |-> {named(y) : y \in Corpus!Signers}]
           bytes == Corpus!CommitmentProjection(unsigned)
           signing(y) == [role |-> y[1], keyId |-> y[2], share |-> share(y),
                          signature |-> Corpus!Signed(Corpus!KeyOf(y[2]), bytes)]
           signed == [policyDigest |-> Policy.digest, caseSet |-> caseSet, strata |-> strata,
                      signers |-> {signing(y) : y \in Corpus!Signers}, digest |-> Absent]
           c == Corpus!CommitmentTo(drawn)
<1>1. c = [signed EXCEPT !.digest = Corpus!CommitmentDigest(signed)]
  BY Zenon DEF Corpus!CommitmentTo
<1>2. /\ signed.policyDigest = Policy.digest /\ signed.caseSet = caseSet /\ signed.strata = strata
      /\ signed.signers = {signing(y) : y \in Corpus!Signers}
      /\ DOMAIN signed = {"policyDigest", "caseSet", "strata", "signers", "digest"}
      /\ unsigned.policyDigest = Policy.digest /\ unsigned.caseSet = caseSet
      /\ unsigned.strata = strata /\ unsigned.signers = {named(y) : y \in Corpus!Signers}
  <2> HIDE DEF caseSet, strata, bytes, signing, named
  <2> QED OBVIOUS
<1>3. /\ \A y : /\ signing(y).role = named(y).role /\ signing(y).keyId = named(y).keyId
                /\ signing(y).share = named(y).share
      /\ \A y : signing(y) = SignerOf(drawn, y, bytes)
  <2> HIDE DEF bytes
  <2> QED BY DEF SignerOf
<1> HIDE DEF caseSet, strata, unsigned, signed, bytes, signing, named, c
<1>4. /\ c.policyDigest = Policy.digest /\ c.caseSet = caseSet /\ c.strata = strata
      /\ c.signers = {signing(y) : y \in Corpus!Signers}
      /\ c.digest = Corpus!CommitmentDigest(signed)
  BY <1>1, <1>2
<1>5. {[role |-> x.role, keyId |-> x.keyId, share |-> x.share] : x \in c.signers} =
        {[role |-> x.role, keyId |-> x.keyId, share |-> x.share] : x \in unsigned.signers}
  BY <1>2, <1>3, <1>4
<1>6. Corpus!CommitmentProjection(c) = bytes
  <2>1. /\ c.policyDigest = unsigned.policyDigest /\ c.caseSet = unsigned.caseSet
        /\ c.strata = unsigned.strata
    BY <1>2, <1>4
  <2> QED BY <1>5, <2>1 DEF Corpus!CommitmentProjection, bytes
<1>7. Corpus!CommitmentDigest(c) = Corpus!CommitmentDigest(signed)
  <2>1. /\ c.policyDigest = signed.policyDigest /\ c.caseSet = signed.caseSet
        /\ c.strata = signed.strata /\ c.signers = signed.signers
    BY <1>2, <1>4
  <2>2. Corpus!CommitmentProjection(c) = Corpus!CommitmentProjection(signed)
    BY <2>1 DEF Corpus!CommitmentProjection
  <2> QED BY <2>1, <2>2 DEF Corpus!CommitmentDigest
<1>8. c.signers = {SignerOf(drawn, y, Corpus!CommitmentProjection(c)) : y \in Corpus!Signers}
  BY <1>3, <1>4, <1>6
<1> QED BY <1>4, <1>7, <1>8 DEF c

(* Two people sign. *)
LEMMA TwoSign ==
  ASSUME NEW drawn, mishap # "ONE_SUBJECT"
  PROVE  LET c == Corpus!CommitmentTo(drawn)
             bytes == Corpus!CommitmentProjection(c)
             author == SignerOf(drawn, <<"AUTHOR", Author>>, bytes)
             reviewer == SignerOf(drawn, <<"REVIEWER", Reviewer>>, bytes)
         IN  /\ c.signers = {author, reviewer}
             /\ author.role = "AUTHOR" /\ author.keyId = Author
             /\ author.share = Corpus!ShareCommitment(Author, drawn["AUTHOR"])
             /\ author.signature = Corpus!Signed(Corpus!KeyOf(Author), bytes)
             /\ reviewer.role = "REVIEWER" /\ reviewer.keyId = Reviewer
             /\ reviewer.share = Corpus!ShareCommitment(Reviewer, drawn["REVIEWER"])
             /\ reviewer.signature = Corpus!Signed(Corpus!KeyOf(Reviewer), bytes)
<1> DEFINE c == Corpus!CommitmentTo(drawn)
           bytes == Corpus!CommitmentProjection(c)
<1>1. Corpus!Signers = {<<"AUTHOR", Author>>, <<"REVIEWER", Reviewer>>}
  BY DEF Corpus!Signers
<1>2. c.signers = {SignerOf(drawn, y, bytes) : y \in Corpus!Signers}
  BY CommitmentSealed
<1> HIDE DEF c, bytes
<1>3. c.signers = {SignerOf(drawn, <<"AUTHOR", Author>>, bytes),
                   SignerOf(drawn, <<"REVIEWER", Reviewer>>, bytes)}
  BY <1>1, <1>2
<1>4. \A y : /\ SignerOf(drawn, y, bytes).role = y[1] /\ SignerOf(drawn, y, bytes).keyId = y[2]
             /\ SignerOf(drawn, y, bytes).share = Corpus!ShareCommitment(y[2], drawn[y[1]])
             /\ SignerOf(drawn, y, bytes).signature = Corpus!Signed(Corpus!KeyOf(y[2]), bytes)
  BY DEF SignerOf
<1> QED BY <1>3, <1>4 DEF c, bytes

(* The committed cases and strata. *)
LEMMA CommittedCases ==
  ASSUME NEW drawn
  PROVE  LET c == Corpus!CommitmentTo(drawn)
         IN  /\ Corpus!UniqueBy(c.caseSet, "caseId")
             /\ Corpus!UniqueBy(c.strata, "sourceId") /\ Corpus!UniqueBy(c.strata, "identity")
             /\ {<<x.sourceId, x.identity>> : x \in c.caseSet} =
                  {<<s.sourceId, s.identity>> : s \in c.strata}
             /\ \A s \in c.strata : /\ Corpus!Cardinality(Corpus!CasesOf(c, s)) >= 2
                                    /\ s.calibrationCount < Corpus!Cardinality(Corpus!CasesOf(c, s))
<1> DEFINE c == Corpus!CommitmentTo(drawn)
           stratum(s) == [sourceId |-> s, identity |-> Corpus!IdentityOf(s),
                          calibrationCount |-> Calibrated[s]]
<1>1. c.caseSet = {Entry(x) : x \in Corpus!AllCases} /\ c.strata = {stratum(s) : s \in DOMAIN Held}
  BY CommitmentSays
<1>2. \A x : /\ Entry(x).caseId = x /\ Entry(x).sourceId = Corpus!SourceOf(x)
             /\ Entry(x).identity = Corpus!IdentityOf(Corpus!SourceOf(x))
  BY DEF Entry
<1>3. \A s : /\ stratum(s).sourceId = s /\ stratum(s).identity = Corpus!IdentityOf(s)
             /\ stratum(s).calibrationCount = Calibrated[s]
  OBVIOUS
<1>4. Corpus!CommittedStrata(c) = Strata
  BY StrataCommitted
<1> HIDE DEF c, stratum
<1>5. Corpus!UniqueBy(c.caseSet, "caseId")
  <2> DEFINE f == [x \in Corpus!AllCases |-> Entry(x)]
  <2>1. f \in Surjection(Corpus!AllCases, c.caseSet)
    BY <1>1 DEF Surjection
  <2>2. IsFiniteSet(c.caseSet)
    <3> HIDE DEF f
    <3> QED BY <2>1, CasesAreScored, FS_Surjection
  <2>3. \A x, y \in c.caseSet : x["caseId"] = y["caseId"] => x = y
    BY <1>1, <1>2
  <2> QED BY <2>2, <2>3, InjectiveUniqueBy
<1>6. Corpus!UniqueBy(c.strata, "sourceId") /\ Corpus!UniqueBy(c.strata, "identity")
  <2> DEFINE f == [s \in DOMAIN Held |-> stratum(s)]
  <2>1. f \in Surjection(DOMAIN Held, c.strata)
    BY <1>1 DEF Surjection
  <2>2. IsFiniteSet(c.strata)
    <3> HIDE DEF f
    <3> QED BY <2>1, CorpusAssumption, FS_Surjection
  <2>3. \A x, y \in c.strata : x["sourceId"] = y["sourceId"] => x = y
    BY <1>1, <1>3
  <2>4. \A x, y \in c.strata : x["identity"] = y["identity"] => x = y
    BY <1>1, <1>3, SourcesTrusted
  <2> QED BY <2>2, <2>3, <2>4, InjectiveUniqueBy
<1>7. ASSUME NEW s \in DOMAIN Held PROVE \E x \in Held[s] : TRUE
  <2>1. Calibrated[s] \in 1 .. Cardinality(Held[s]) - 1 /\ IsFiniteSet(Held[s])
    BY CorpusAssumption, StudyAssumption
  <2>2. Cardinality(Held[s]) # 0
    <3>1. Cardinality(Held[s]) \in Nat
      BY <2>1, FS_CardinalityType
    <3> QED BY <2>1, <3>1
  <2> QED BY <2>1, <2>2, FS_EmptySet
<1>8. {<<x.sourceId, x.identity>> : x \in c.caseSet} = {<<s.sourceId, s.identity>> : s \in c.strata}
  <2>1. {<<x.sourceId, x.identity>> : x \in c.caseSet} =
          {<<Corpus!SourceOf(x), Corpus!IdentityOf(Corpus!SourceOf(x))>> : x \in Corpus!AllCases}
    BY <1>1, <1>2
  <2>2. {<<s.sourceId, s.identity>> : s \in c.strata} = {<<s, Corpus!IdentityOf(s)>> : s \in DOMAIN Held}
    BY <1>1, <1>3
  <2>3. \A x \in Corpus!AllCases : Corpus!SourceOf(x) \in DOMAIN Held
    BY HeldBySource DEF Corpus!AllCases
  <2>4. \A s \in DOMAIN Held : \E x \in Corpus!AllCases : Corpus!SourceOf(x) = s
    BY <1>7, HeldBySource
  <2> QED BY <2>1, <2>2, <2>3, <2>4
<1>9. ASSUME NEW s \in c.strata
      PROVE  /\ Corpus!Cardinality(Corpus!CasesOf(c, s)) >= 2
             /\ s.calibrationCount < Corpus!Cardinality(Corpus!CasesOf(c, s))
  <2> DEFINE x == [sourceId |-> s.sourceId, identity |-> s.identity,
                   calibrationCount |-> s.calibrationCount, cases |-> Corpus!CasesOf(c, s)]
  <2>1. x \in Strata
    BY <1>4 DEF Corpus!CommittedStrata
  <2>2. x.cases = Corpus!CasesOf(c, s) /\ x.calibrationCount = s.calibrationCount
    OBVIOUS
  <2> HIDE DEF x
  <2>3. /\ Corpus!Cardinality(x.cases) >= 2
        /\ x.calibrationCount \in 1 .. Corpus!Cardinality(x.cases) - 1
    BY <2>1, StrataRequested DEF Corpus!RequestParses
  <2>4. Corpus!Cardinality(x.cases) \in Nat
    <3>1. x.cases = Held[x.sourceId] /\ x.sourceId \in DOMAIN Held
      BY <2>1, StrataFinite
    <3> QED BY <3>1, CorpusAssumption, CorpusCardinality, FS_CardinalityType
  <2>5. \A m \in Nat : \A k \in 1 .. m - 1 : k < m
    OBVIOUS
  <2> QED BY <2>2, <2>3, <2>4, <2>5
<1> QED BY <1>5, <1>6, <1>8, <1>9 DEF c

Undisturbed == stage = "EXECUTED" /\ StudyInv /\ mishap = "NONE"

(* The split of a study that nothing disturbed. *)
LEMMA SplitIs ==
  ASSUME Undisturbed
  PROVE  /\ Corpus!FinalSeed(reveal) = CommittedSeed
         /\ CommittedSeed \in [{Author, Reviewer} -> Secrets]
         /\ allocation = Split(CommittedSeed)
         /\ Corpus!Holdout \subseteq Corpus!AllCases /\ IsFiniteSet(Corpus!Holdout)
         /\ Corpus!Holdout # {}
<1>1. /\ Corpus!FinalSeed(reveal) = CommittedSeed
      /\ CommittedSeed \in [{Author, Reviewer} -> Secrets]
  BY SeedIs DEF Undisturbed
<1>2. allocation = Corpus!CreateAllocation(CommittedSeed, Corpus!CommittedStrata(commitment))
  BY <1>1 DEF Undisturbed, StudyInv, Corpus!AllocationFor
<1>3. Corpus!CommittedStrata(commitment) = Strata
  BY StrataCommitted DEF Undisturbed, StudyInv
<1>4. Splits(CommittedSeed, Corpus!Range(Split(CommittedSeed).holdout))
  BY <1>1, SeedSplits, StrataRequested DEF Split
<1>5. allocation = Split(CommittedSeed)
  BY <1>2, <1>3 DEF Split
<1>6. Splits(CommittedSeed, Corpus!Holdout)
  BY <1>4, <1>5 DEF Corpus!Holdout
<1> QED BY <1>1, <1>5, <1>6, CasesAreScored, FS_Subset DEF Splits

(* What is revealed. *)
LEMMA RevealSays ==
  /\ Corpus!Revealed.commitment = commitment.digest
  /\ Corpus!Revealed.digest = Corpus!RevealDigest(Corpus!Revealed)
<1> DEFINE secret(y) == IF mishap = "SHARE_CHANGED" /\ y[1] = "AUTHOR"
                        THEN CHOOSE x \in Secrets : x # secrets["AUTHOR"] ELSE secrets[y[1]]
           shares == {[keyId |-> y[2], secret |-> secret(y)] : y \in Corpus!Signers}
           unsealed == [commitment |-> commitment.digest, shares |-> shares, digest |-> Absent]
<1>1. Corpus!Revealed = [unsealed EXCEPT !.digest = Corpus!RevealDigest(unsealed)]
  BY Zenon DEF Corpus!Revealed
<1> HIDE DEF shares
<1>2. /\ unsealed.commitment = commitment.digest /\ unsealed.shares = shares
      /\ DOMAIN unsealed = {"commitment", "shares", "digest"}
  OBVIOUS
<1> HIDE DEF unsealed
<1>3. /\ Corpus!Revealed.commitment = commitment.digest /\ Corpus!Revealed.shares = shares
      /\ Corpus!Revealed.digest = Corpus!RevealDigest(unsealed)
  BY <1>1, <1>2
<1> QED BY <1>2, <1>3 DEF Corpus!RevealDigest

(* The signatures under the commitment are valid. *)
LEMMA SignedByTwo ==
  ASSUME Undisturbed
  PROVE  Corpus!SignaturesValid(commitment, Policy, Policy.digest)
<1> DEFINE bytes == Corpus!CommitmentProjection(commitment)
           author == SignerOf(secrets, <<"AUTHOR", Author>>, bytes)
           reviewer == SignerOf(secrets, <<"REVIEWER", Reviewer>>, bytes)
           sources(x) == {s \in Policy.sources : s.sourceId = x.sourceId /\ s.identity = x.identity}
<1>1. commitment = Corpus!CommitmentTo(secrets)
  BY DEF Undisturbed, StudyInv
<1>2. /\ author \in commitment.signers /\ reviewer \in commitment.signers
      /\ author.role = "AUTHOR" /\ author.keyId = Author
      /\ author.signature = Corpus!Signed(Corpus!KeyOf(Author), bytes)
      /\ reviewer.role = "REVIEWER" /\ reviewer.keyId = Reviewer
      /\ reviewer.signature = Corpus!Signed(Corpus!KeyOf(Reviewer), bytes)
  BY <1>1, TwoSign DEF Undisturbed
<1> HIDE DEF bytes, author, reviewer
<1>3. /\ Corpus!PolicyTrusted(Policy, Policy.digest)
      /\ Corpus!PrincipalsDistinct(Policy, author.keyId, reviewer.keyId)
  BY <1>2, StudyAssumption
<1>4. ASSUME NEW x \in commitment.caseSet
      PROVE  \E s \in sources(x) : Corpus!MayAuthor(Policy, author.keyId, s)
                                     /\ Corpus!MayReview(Policy, reviewer.keyId, s)
  <2>1. PICK y \in Corpus!AllCases : x = Entry(y)
    BY <1>1, CommitmentSays
  <2>2. x.sourceId = Corpus!SourceOf(y) /\ x.identity = Corpus!IdentityOf(Corpus!SourceOf(y))
    BY <2>1 DEF Entry
  <2>3. Corpus!SourceOf(y) \in DOMAIN Held
    BY <2>1, HeldBySource DEF Corpus!AllCases
  <2>4. PICK s \in Policy.sources :
          /\ s.sourceId = Corpus!SourceOf(y) /\ s.identity = Corpus!IdentityOf(Corpus!SourceOf(y))
          /\ Corpus!MayAuthor(Policy, Author, s) /\ Corpus!MayReview(Policy, Reviewer, s)
    BY <2>3, SourcesTrusted
  <2> QED BY <1>2, <2>2, <2>4
<1>5. /\ Corpus!SignatureValid(Policy, author.keyId, bytes, author.signature)
      /\ Corpus!SignatureValid(Policy, reviewer.keyId, bytes, reviewer.signature)
  BY <1>2, PrincipalsSign
<1> QED BY <1>2, <1>3, <1>4, <1>5 DEF Corpus!SignaturesValid, bytes

(* The commitment is revealed and replayed. *)
LEMMA CommitmentPasses ==
  ASSUME Undisturbed
  PROVE  Corpus!AllTrue(Corpus!CommitmentRails(commitment, reveal, allocation, Policy,
                                               Policy.digest, commitment.digest))
<1> DEFINE author == [keyId |-> Author, secret |-> secrets["AUTHOR"]]
           reviewer == [keyId |-> Reviewer, secret |-> secrets["REVIEWER"]]
           rails == Corpus!CommitmentRails(commitment, reveal, allocation, Policy,
                                           Policy.digest, commitment.digest)
<1>1. commitment = Corpus!CommitmentTo(secrets) /\ reveal = Corpus!Revealed /\ mishap = "NONE"
  BY DEF Undisturbed, StudyInv
<1>2. /\ reveal.shares = {author, reviewer} /\ Corpus!FinalSeed(reveal) = CommittedSeed
  BY SeedIs DEF Undisturbed
<1>3. /\ author.keyId = Author /\ author.secret = secrets["AUTHOR"]
      /\ reviewer.keyId = Reviewer /\ reviewer.secret = secrets["REVIEWER"]
      /\ Author # Reviewer
  BY CorpusAssumption
<1> HIDE DEF author, reviewer
<1>4. Corpus!CommitmentParses(commitment)
  <2>1. /\ Corpus!UniqueBy(commitment.caseSet, "caseId")
        /\ Corpus!UniqueBy(commitment.strata, "sourceId") /\ Corpus!UniqueBy(commitment.strata, "identity")
        /\ {<<x.sourceId, x.identity>> : x \in commitment.caseSet} =
             {<<s.sourceId, s.identity>> : s \in commitment.strata}
        /\ \A s \in commitment.strata :
             /\ Corpus!Cardinality(Corpus!CasesOf(commitment, s)) >= 2
             /\ s.calibrationCount < Corpus!Cardinality(Corpus!CasesOf(commitment, s))
    BY <1>1, CommittedCases
  <2>2. \E a, b : /\ commitment.signers = {a, b} /\ a.role = "AUTHOR" /\ b.role = "REVIEWER"
                  /\ a.keyId = Author /\ b.keyId = Reviewer
    BY <1>1, TwoSign
  <2>3. PICK a, b : /\ commitment.signers = {a, b} /\ a.role = "AUTHOR" /\ b.role = "REVIEWER"
                    /\ a.keyId = Author /\ b.keyId = Reviewer
    BY <2>2
  <2>4. a # b
    BY <2>3
  <2>5. IsFiniteSet(commitment.signers) /\ Corpus!Cardinality(commitment.signers) = 2
    <3>1. IsFiniteSet({a, b}) /\ Cardinality({a, b}) = 2
      BY <2>4, PairIsTwo
    <3> QED BY <2>3, <3>1, CorpusCardinality
  <2>6. \A x, y \in commitment.signers : x["keyId"] = y["keyId"] => x = y
    BY <1>3, <2>3
  <2>7. \A x, y \in commitment.signers : x["role"] = y["role"] => x = y
    BY <2>3
  <2>8. Corpus!UniqueBy(commitment.signers, "keyId") /\ Corpus!UniqueBy(commitment.signers, "role")
    BY <2>5, <2>6, <2>7, InjectiveUniqueBy
  <2> QED BY <2>1, <2>5, <2>8 DEF Corpus!CommitmentParses
<1>5. Corpus!RevealParses(reveal)
  <2>1. author # reviewer
    BY <1>3
  <2>2. IsFiniteSet(reveal.shares) /\ Corpus!Cardinality(reveal.shares) = 2
    BY <1>2, <2>1, PairIsTwo, CorpusCardinality
  <2>3. \A x, y \in reveal.shares : x["keyId"] = y["keyId"] => x = y
    BY <1>2, <1>3
  <2> QED BY <2>2, <2>3, InjectiveUniqueBy DEF Corpus!RevealParses
<1>6. Corpus!RevealValid(commitment, reveal)
  <2>1. reveal.commitment = commitment.digest /\ reveal.digest = Corpus!RevealDigest(reveal)
    BY <1>1, RevealSays
  <2>2. PICK a, b : /\ commitment.signers = {a, b} /\ a.keyId = Author /\ b.keyId = Reviewer
                    /\ a.share = Corpus!ShareCommitment(Author, secrets["AUTHOR"])
                    /\ b.share = Corpus!ShareCommitment(Reviewer, secrets["REVIEWER"])
    BY <1>1, TwoSign
  <2>3. \A s \in commitment.signers : \E share \in reveal.shares :
          share.keyId = s.keyId /\ s.share = Corpus!ShareCommitment(s.keyId, share.secret)
    BY <1>2, <1>3, <2>2
  <2> QED BY <2>1, <2>3 DEF Corpus!RevealValid
<1>7. Corpus!AllocationParses(allocation) /\ Corpus!AllocationReplays(allocation)
  BY SplitIs, AllocationParsed, AllocationReplayed DEF Split
<1>8. /\ Corpus!PolicyParses(Policy) /\ commitment.policyDigest = Policy.digest
      /\ commitment.digest = Corpus!CommitmentDigest(commitment)
      /\ Corpus!SignaturesValid(commitment, Policy, Policy.digest)
  BY <1>1, StudyAssumption, CommitmentSealed, SignedByTwo
<1>9. /\ allocation.seed = CommittedSeed
      /\ Corpus!CommittedStrata(commitment) = Strata
      /\ allocation = Corpus!CreateAllocation(CommittedSeed, Strata)
  BY <1>1, SplitIs, StrataCommitted, AllocationSays DEF Split
<1>10. /\ DOMAIN rails = {"schemaValid", "externalTrustAnchorValid", "externalCommitmentAnchorValid",
                          "commitmentDigestValid", "commitmentSignaturesValid", "revealValid",
                          "finalSeedDigestValid", "allocationReplayValid", "allocationBindingValid"}
       /\ rails.schemaValid = (/\ Corpus!CommitmentParses(commitment) /\ Corpus!RevealParses(reveal)
                               /\ Corpus!AllocationParses(allocation) /\ Corpus!PolicyParses(Policy))
       /\ rails.externalTrustAnchorValid =
            (Policy.digest = Policy.digest /\ commitment.policyDigest = Policy.digest)
       /\ rails.externalCommitmentAnchorValid = (commitment.digest = commitment.digest)
       /\ rails.commitmentDigestValid = (commitment.digest = Corpus!CommitmentDigest(commitment))
       /\ rails.commitmentSignaturesValid = Corpus!SignaturesValid(commitment, Policy, Policy.digest)
       /\ rails.revealValid = Corpus!RevealValid(commitment, reveal)
       /\ rails.finalSeedDigestValid = (allocation.seed = Corpus!FinalSeed(reveal))
       /\ rails.allocationReplayValid = Corpus!AllocationReplays(allocation)
       /\ rails.allocationBindingValid =
            (/\ Corpus!RequestParses(Corpus!CommittedStrata(commitment))
             /\ allocation = Corpus!CreateAllocation(Corpus!FinalSeed(reveal),
                                                     Corpus!CommittedStrata(commitment)))
  BY DEF Corpus!CommitmentRails
<1> HIDE DEF rails
<1>11. /\ rails.schemaValid /\ rails.externalTrustAnchorValid /\ rails.externalCommitmentAnchorValid
       /\ rails.commitmentDigestValid /\ rails.commitmentSignaturesValid /\ rails.revealValid
       /\ rails.finalSeedDigestValid /\ rails.allocationReplayValid /\ rails.allocationBindingValid
  BY <1>2, <1>4, <1>5, <1>6, <1>7, <1>8, <1>9, <1>10, StrataRequested
<1>12. \A rail \in DOMAIN rails : rails[rail]
  BY <1>10, <1>11
<1> QED BY <1>12 DEF Corpus!AllTrue, rails

(* The slots of finitely many cases are finitely many. *)
LEMMA SlotsFinite ==
  ASSUME NEW cases, IsFiniteSet(cases)
  PROVE  IsFiniteSet(Corpus!Slots(cases))
<1> DEFINE slots == Corpus!Slots(cases)
           quads == ((cases \X Corpus!Arms) \X (1 .. Corpus!Attempts)) \X Corpus!States
           flat == [x \in slots |-> <<<<<<x[1], x[2]>>, x[3]>>, x[4]>>]
<1>1. IsFiniteSet(Corpus!Arms) /\ IsFiniteSet(Corpus!States) /\ IsFiniteSet(1 .. Corpus!Attempts)
  <2>1. /\ IsFiniteSet({"BASELINE"} \cup {"PROFILE"})
        /\ IsFiniteSet({"BUGGY"} \cup {"FIXED"} \cup {"REQUIRED_SUITE"})
    BY FS_Singleton, FS_Union
  <2>2. /\ Corpus!Arms = {"BASELINE"} \cup {"PROFILE"}
        /\ Corpus!States = {"BUGGY"} \cup {"FIXED"} \cup {"REQUIRED_SUITE"}
    BY DEF Corpus!Arms, Corpus!States
  <2>3. IsFiniteSet(1 .. Corpus!Attempts)
    <3>1. 1 \in Int /\ 2 \in Int
      OBVIOUS
    <3>2. IsFiniteSet(1 .. 2)
      BY <3>1, FS_Interval
    <3> QED BY <3>2 DEF Corpus!Attempts
  <2> QED BY <2>1, <2>2, <2>3
<1>2. IsFiniteSet(quads)
  BY <1>1, FS_Product
<1>3. flat \in Injection(slots, quads)
  BY DEF Injection, IsInjective, Corpus!Slots
<1> HIDE DEF quads, flat, slots
<1>4. IsFiniteSet(slots)
  BY <1>2, <1>3, FS_Injection
<1> QED BY <1>4 DEF slots

(* The commands of a plan. *)
CommandOf(arm, state, changed) ==
  [commandId |-> <<arm, state>>, adapterId |-> "adapter", arm |-> arm, state |-> state,
   timeout |-> TimeoutFor(arm), maxStdout |-> 1, maxStderr |-> 1,
   suite |-> IF state = "REQUIRED_SUITE" THEN Corpus!RequiredSuite
             ELSE Corpus!SuiteDigest(Selected(arm, changed))]

LEMMA CommandsSay ==
  ASSUME NEW cases, NEW changed
  PROVE  LET p == Corpus!Declared(cases, changed)
         IN  /\ \A c \in p.commands : \E arm \in Corpus!Arms, state \in Corpus!States :
                  c = CommandOf(arm, state, changed)
             /\ \A arm \in Corpus!Arms, state \in Corpus!States :
                  CommandOf(arm, state, changed) \in p.commands
             /\ p.adapters = {"adapter"}
             /\ p.policyDigest = Policy.digest /\ p.commitmentDigest = commitment.digest
             /\ p.allocationDigest = allocation.digest
<1> DEFINE p == Corpus!Declared(cases, changed)
<1>1. p.commands = {CommandOf(arm, state, changed) : arm \in Corpus!Arms, state \in Corpus!States}
  BY DEF Corpus!Declared, Corpus!Drafted, CommandOf, TimeoutFor, Selected, Universe
<1>2. /\ p.adapters = {"adapter"}
      /\ p.policyDigest = Policy.digest /\ p.commitmentDigest = commitment.digest
      /\ p.allocationDigest = allocation.digest
  BY DEF Corpus!Declared, Corpus!Drafted
<1> HIDE DEF p
<1>3. ASSUME NEW c \in p.commands
      PROVE  \E arm \in Corpus!Arms, state \in Corpus!States : c = CommandOf(arm, state, changed)
  <2>1. c \in {CommandOf(arm, state, changed) : arm \in Corpus!Arms, state \in Corpus!States}
    BY <1>1
  <2> QED BY <2>1
<1>4. ASSUME NEW arm \in Corpus!Arms, NEW state \in Corpus!States
      PROVE  CommandOf(arm, state, changed) \in p.commands
  <2>1. CommandOf(arm, state, changed) \in
          {CommandOf(a, t, changed) : a \in Corpus!Arms, t \in Corpus!States}
    OBVIOUS
  <2> QED BY <1>1, <2>1
<1> QED BY <1>2, <1>3, <1>4 DEF p

LEMMA SuitesSay ==
  ASSUME NEW cases, NEW changed, NEW arm \in Corpus!Arms
  PROVE  LET p == Corpus!Declared(cases, changed)
         IN  /\ p.arms[arm].universe = Universe
             /\ p.arms[arm].selected = Selected(arm, changed)
             /\ p.arms[arm].suite = Corpus!SuiteDigest(Selected(arm, changed))
<1>1. Corpus!Declared(cases, changed).arms =
        [a \in Corpus!Arms |-> [universe |-> Universe, selected |-> Selected(a, changed),
                                suite |-> Corpus!SuiteDigest(Selected(a, changed))]]
  BY DEF Corpus!Declared, Corpus!Drafted, Universe, Selected
<1> QED BY <1>1

(* The plan of a study that nothing disturbed. *)
LEMMA DeclaredIs ==
  ASSUME Undisturbed
  PROVE  /\ declared = Corpus!Declared(Corpus!Holdout, FALSE) /\ pinned = declared.digest
         /\ declared.schedule = {RunOf(x) : x \in Corpus!Slots(Corpus!Holdout)}
         /\ declared.subjects = {SubjectOf(x) : x \in {y \in commitment.caseSet : y.caseId \in Corpus!Holdout}}
         /\ declared.attempts = 2 /\ declared.deficit = deficit
         /\ \A arm : TimeoutFor(arm) = 5
<1>1. mishap = "NONE" /\ declared = Corpus!DeclaredPlan /\ pinned = Corpus!DeclaredPlan.digest
  BY DEF Undisturbed, StudyInv
<1>2. declared = Corpus!Declared(Corpus!Holdout, FALSE)
  BY <1>1 DEF Corpus!DeclaredPlan
<1>3. SlotsOf(Corpus!Holdout) = Corpus!Slots(Corpus!Holdout)
  BY <1>1 DEF SlotsOf
<1>4. \A arm : TimeoutFor(arm) = 5
  BY <1>1 DEF TimeoutFor, Corpus!Timeout
<1>5. declared.schedule = {RunOf(x) : x \in SlotsOf(Corpus!Holdout)}
  BY <1>2, PlanSays
<1>6. declared.subjects = {SubjectOf(x) : x \in {y \in commitment.caseSet : y.caseId \in Corpus!Holdout}}
  BY <1>2, PlanSays
<1>7. declared.attempts = 2 /\ declared.deficit = deficit
  BY <1>2, PlanSays
<1> QED BY <1>1, <1>2, <1>3, <1>4, <1>5, <1>6, <1>7

LEMMA SubjectsAre ==
  ASSUME Undisturbed
  PROVE  /\ \A s \in declared.subjects : \E c \in Corpus!Holdout :
              /\ Entry(c) \in commitment.caseSet /\ s = SubjectOf(Entry(c))
              /\ s.caseId = c /\ s.caseDigest = Entry(c).caseDigest
              /\ s.provenanceDigest = Entry(c).provenanceDigest
              /\ s.sourceId = Entry(c).sourceId /\ s.identity = Entry(c).identity
         /\ \A c \in Corpus!Holdout : SubjectOf(Entry(c)) \in declared.subjects
         /\ {s.caseId : s \in declared.subjects} = Corpus!Holdout
         /\ \A s, t \in declared.subjects : s.caseId = t.caseId => s = t
         /\ IsFiniteSet(declared.subjects)
<1> DEFINE H == Corpus!Holdout
           f == [c \in H |-> SubjectOf(Entry(c))]
<1>1. /\ commitment.caseSet = {Entry(x) : x \in Corpus!AllCases} /\ H \subseteq Corpus!AllCases
      /\ IsFiniteSet(H)
  BY CommitmentSays, SplitIs DEF Undisturbed, StudyInv
<1>2. declared.subjects = {SubjectOf(x) : x \in {y \in commitment.caseSet : y.caseId \in H}}
  BY DeclaredIs
<1>3. \A x : Entry(x).caseId = x
  BY DEF Entry
<1>4. \A x : /\ SubjectOf(x).caseId = x.caseId /\ SubjectOf(x).caseDigest = x.caseDigest
             /\ SubjectOf(x).provenanceDigest = x.provenanceDigest
             /\ SubjectOf(x).sourceId = x.sourceId /\ SubjectOf(x).identity = x.identity
  BY DEF SubjectOf
<1>5. declared.subjects = {SubjectOf(Entry(c)) : c \in H}
  BY <1>1, <1>2, <1>3
<1>6. f \in Surjection(H, declared.subjects)
  BY <1>5 DEF Surjection
<1>7. IsFiniteSet(declared.subjects)
  <2> HIDE DEF f
  <2> QED BY <1>1, <1>6, FS_Surjection
<1>8. \A c : SubjectOf(Entry(c)).caseId = c
  BY <1>3, <1>4
<1>9. ASSUME NEW s \in declared.subjects
      PROVE  \E c \in H : /\ Entry(c) \in commitment.caseSet /\ s = SubjectOf(Entry(c))
                          /\ s.caseId = c /\ s.caseDigest = Entry(c).caseDigest
                          /\ s.provenanceDigest = Entry(c).provenanceDigest
                          /\ s.sourceId = Entry(c).sourceId /\ s.identity = Entry(c).identity
  <2>1. PICK c \in H : s = SubjectOf(Entry(c))
    BY <1>5
  <2>2. Entry(c) \in commitment.caseSet
    BY <1>1
  <2> QED BY <1>4, <1>8, <2>1, <2>2
<1>10. {s.caseId : s \in declared.subjects} = H
  BY <1>5, <1>8
<1> QED BY <1>5, <1>7, <1>8, <1>9, <1>10

(* The runs of a study that nothing disturbed, of one arm too. *)
LEMMA RunsAre ==
  ASSUME Undisturbed
  PROVE  /\ IsFiniteSet(declared.schedule)
         /\ \A x, y \in declared.schedule : x.runId = y.runId => x = y
         /\ \A x, y \in declared.schedule : Corpus!Slot(x) = Corpus!Slot(y) => x = y
         /\ {Corpus!Slot(x) : x \in declared.schedule} = Corpus!Slots(Corpus!Holdout)
         /\ \A arm \in Corpus!Arms :
              /\ IsFiniteSet(Corpus!Runs(declared, arm))
              /\ Cardinality(Corpus!Runs(declared, arm)) = Cardinality(SlotsFor(Corpus!Holdout, arm))
<1> DEFINE S == Corpus!Slots(Corpus!Holdout)
           f == [x \in S |-> RunOf(x)]
<1>1. declared.schedule = {RunOf(x) : x \in S} /\ IsFiniteSet(S) /\ SlotsOf(Corpus!Holdout) = S
  BY DeclaredIs, SlotsFinite, SplitIs DEF Undisturbed, SlotsOf
<1>2. \A x \in S : Corpus!Slot(RunOf(x)) = x /\ RunOf(x).runId = x /\ RunOf(x).arm = x[2]
  BY RunsAreSlots
<1> HIDE DEF S
<1>3. f \in Surjection(S, declared.schedule)
  BY <1>1 DEF Surjection
<1>4. IsFiniteSet(declared.schedule)
  <2> HIDE DEF f
  <2> QED BY <1>1, <1>3, FS_Surjection
<1>5. ASSUME NEW arm \in Corpus!Arms
      PROVE  /\ IsFiniteSet(Corpus!Runs(declared, arm))
             /\ Cardinality(Corpus!Runs(declared, arm)) = Cardinality(SlotsFor(Corpus!Holdout, arm))
  <2> DEFINE T == SlotsFor(Corpus!Holdout, arm)
             R == Corpus!Runs(declared, arm)
             g == [x \in T |-> RunOf(x)]
  <2>1. T = {x \in S : x[2] = arm} /\ R = {x \in declared.schedule : x.arm = arm}
    BY <1>1 DEF SlotsFor, Corpus!Runs
  <2>2. R = {RunOf(x) : x \in T}
    BY <1>1, <1>2, <2>1
  <2>3. g \in Surjection(T, R)
    BY <2>2 DEF Surjection
  <2>4. g \in Injection(T, R)
    BY <1>2, <2>1, <2>2 DEF Injection, IsInjective
  <2>5. IsFiniteSet(T)
    BY <1>1, <2>1, FS_Subset
  <2> HIDE DEF T, R, g
  <2>6. IsFiniteSet(R) /\ Cardinality(R) = Cardinality(T)
    BY <2>3, <2>4, <2>5, FS_Surjection
  <2> QED BY <2>6 DEF R, T
<1>6. /\ \A x, y \in declared.schedule : x.runId = y.runId => x = y
      /\ \A x, y \in declared.schedule : Corpus!Slot(x) = Corpus!Slot(y) => x = y
      /\ {Corpus!Slot(x) : x \in declared.schedule} = S
  BY <1>1, <1>2
<1> QED BY <1>4, <1>5, <1>6 DEF S

(* Its commands. *)
LEMMA CommandsAre ==
  ASSUME Undisturbed
  PROVE  /\ IsFiniteSet(declared.commands)
         /\ \A c, d \in declared.commands : c.commandId = d.commandId => c = d
         /\ \A c \in declared.commands : \E arm \in Corpus!Arms, state \in Corpus!States :
              c = CommandOf(arm, state, FALSE)
         /\ \A arm \in Corpus!Arms, state \in Corpus!States :
              Corpus!Commands(declared, <<arm, state>>) = {CommandOf(arm, state, FALSE)}
<1> DEFINE P == Corpus!Arms \X Corpus!States
           f == [z \in P |-> CommandOf(z[1], z[2], FALSE)]
<1>0. declared = Corpus!Declared(Corpus!Holdout, FALSE)
  BY DeclaredIs
<1>1. /\ \A c \in declared.commands : \E arm \in Corpus!Arms, state \in Corpus!States :
           c = CommandOf(arm, state, FALSE)
      /\ \A arm \in Corpus!Arms, state \in Corpus!States : CommandOf(arm, state, FALSE) \in declared.commands
  BY <1>0, CommandsSay
<1>2. \A arm, state : CommandOf(arm, state, FALSE).commandId = <<arm, state>>
  BY DEF CommandOf
<1>3. IsFiniteSet(P)
  <2>1. /\ IsFiniteSet({"BASELINE"} \cup {"PROFILE"})
        /\ IsFiniteSet({"BUGGY"} \cup {"FIXED"} \cup {"REQUIRED_SUITE"})
    BY FS_Singleton, FS_Union
  <2>2. /\ Corpus!Arms = {"BASELINE"} \cup {"PROFILE"}
        /\ Corpus!States = {"BUGGY"} \cup {"FIXED"} \cup {"REQUIRED_SUITE"}
    BY DEF Corpus!Arms, Corpus!States
  <2> QED BY <2>1, <2>2, FS_Product
<1>4. f \in Surjection(P, declared.commands)
  <2>1. f \in [P -> declared.commands]
    BY <1>1
  <2>2. ASSUME NEW c \in declared.commands PROVE \E z \in P : f[z] = c
    <3>1. PICK arm \in Corpus!Arms, state \in Corpus!States : c = CommandOf(arm, state, FALSE)
      BY <1>1
    <3>2. <<arm, state>> \in P /\ f[<<arm, state>>] = CommandOf(arm, state, FALSE)
      OBVIOUS
    <3> QED BY <3>1, <3>2
  <2> QED BY <2>1, <2>2 DEF Surjection
<1>5. IsFiniteSet(declared.commands)
  <2> HIDE DEF f, P
  <2> QED BY <1>3, <1>4, FS_Surjection
<1>6. ASSUME NEW arm \in Corpus!Arms, NEW state \in Corpus!States
      PROVE  Corpus!Commands(declared, <<arm, state>>) = {CommandOf(arm, state, FALSE)}
  <2>1. CommandOf(arm, state, FALSE) \in Corpus!Commands(declared, <<arm, state>>)
    BY <1>1, <1>2 DEF Corpus!Commands
  <2>2. ASSUME NEW c \in Corpus!Commands(declared, <<arm, state>>) PROVE c = CommandOf(arm, state, FALSE)
    <3>1. c \in declared.commands /\ c.commandId = <<arm, state>>
      BY DEF Corpus!Commands
    <3>2. PICK a \in Corpus!Arms, t \in Corpus!States : c = CommandOf(a, t, FALSE)
      BY <1>1, <3>1
    <3>3. <<a, t>> = <<arm, state>>
      BY <1>2, <3>1, <3>2
    <3> QED BY <3>2, <3>3
  <2> QED BY <2>1, <2>2
<1>7. ASSUME NEW c \in declared.commands, NEW d \in declared.commands, c.commandId = d.commandId
      PROVE  c = d
  <2>1. PICK arm \in Corpus!Arms, state \in Corpus!States : c = CommandOf(arm, state, FALSE)
    BY <1>1
  <2>2. PICK a \in Corpus!Arms, t \in Corpus!States : d = CommandOf(a, t, FALSE)
    BY <1>1
  <2>3. <<arm, state>> = <<a, t>>
    BY <1>2, <1>7, <2>1, <2>2
  <2> QED BY <2>1, <2>2, <2>3
<1> QED BY <1>1, <1>5, <1>6, <1>7

(* It parses. *)
LEMMA PlanParsed ==
  ASSUME Undisturbed
  PROVE  Corpus!PlanParses(declared)
<1>1. Corpus!UniqueBy(declared.subjects, "caseId")
  <2>1. \A s, t \in declared.subjects : s["caseId"] = t["caseId"] => s = t
    BY SubjectsAre
  <2> QED BY <2>1, SubjectsAre, InjectiveUniqueBy
<1>2. Corpus!UniqueBy(declared.commands, "commandId")
  <2>1. \A s, t \in declared.commands : s["commandId"] = t["commandId"] => s = t
    BY CommandsAre
  <2> QED BY <2>1, CommandsAre, InjectiveUniqueBy
<1>3. Corpus!UniqueBy(declared.schedule, "runId")
  <2>1. \A s, t \in declared.schedule : s["runId"] = t["runId"] => s = t
    BY RunsAre
  <2> QED BY <2>1, RunsAre, InjectiveUniqueBy
<1>4. ASSUME NEW arm \in Corpus!Arms
      PROVE  /\ declared.arms[arm].selected # {}
             /\ Corpus!UniqueBy(declared.arms[arm].universe, "candidateId")
             /\ declared.arms[arm].selected \subseteq declared.arms[arm].universe
  <2> DEFINE names == UNION {Suites[a] : a \in Corpus!Arms}
             f == [k \in names |-> [candidateId |-> k, digest |-> [candidate |-> k]]]
  <2>1. /\ declared.arms[arm].universe = Universe
        /\ declared.arms[arm].selected = {k \in Universe : k.candidateId \in Suites[arm]}
    <3>1. declared = Corpus!Declared(Corpus!Holdout, FALSE)
      BY DeclaredIs
    <3>2. Selected(arm, FALSE) = {k \in Universe : k.candidateId \in Suites[arm]}
      BY DEF Selected
    <3>3. /\ declared.arms[arm].universe = Universe
          /\ declared.arms[arm].selected = Selected(arm, FALSE)
      BY <3>1, SuitesSay
    <3> QED BY <3>2, <3>3
  <2>2. \A a \in Corpus!Arms : IsFiniteSet(Suites[a]) /\ Suites[a] # {}
    BY StudyAssumption DEF Corpus!Arms
  <2>3. IsFiniteSet(names)
    <3>1. IsFiniteSet(Suites["BASELINE"]) /\ IsFiniteSet(Suites["PROFILE"])
      BY <2>2 DEF Corpus!Arms
    <3>2. names = Suites["BASELINE"] \cup Suites["PROFILE"]
      BY DEF Corpus!Arms
    <3> QED BY <3>1, <3>2, FS_Union
  <2>4. f \in Surjection(names, Universe)
    BY DEF Surjection, Universe
  <2>5. IsFiniteSet(Universe)
    <3> HIDE DEF f, names
    <3> QED BY <2>3, <2>4, FS_Surjection
  <2>6. \A x, y \in Universe : x["candidateId"] = y["candidateId"] => x = y
    BY DEF Universe
  <2>7. Corpus!UniqueBy(Universe, "candidateId")
    BY <2>5, <2>6, InjectiveUniqueBy
  <2>8. PICK k : k \in Suites[arm]
    BY <2>2
  <2>9. [candidateId |-> k, digest |-> [candidate |-> k]] \in Universe
    BY <2>8 DEF Universe
  <2> QED BY <2>1, <2>7, <2>8, <2>9
<1>5. declared.attempts >= 2
  <2>1. declared.attempts = 2
    BY DeclaredIs
  <2> QED BY <2>1
<1> QED BY <1>1, <1>2, <1>3, <1>4, <1>5 DEF Corpus!PlanParses

(* Both arms have as many runs: one for every other. *)
LEMMA ArmsEqual ==
  ASSUME Undisturbed
  PROVE  /\ IsFiniteSet(SlotsFor(Corpus!Holdout, "BASELINE"))
         /\ Cardinality(SlotsFor(Corpus!Holdout, "BASELINE")) = Cardinality(SlotsFor(Corpus!Holdout, "PROFILE"))
<1> DEFINE S == Corpus!Slots(Corpus!Holdout)
           one == SlotsFor(Corpus!Holdout, "BASELINE")
           two == SlotsFor(Corpus!Holdout, "PROFILE")
           f == [x \in one |-> <<x[1], "PROFILE", x[3], x[4]>>]
<1>1. one = {x \in S : x[2] = "BASELINE"} /\ two = {x \in S : x[2] = "PROFILE"} /\ IsFiniteSet(S)
  BY SlotsFinite, SplitIs DEF Undisturbed, SlotsOf, SlotsFor
<1>2. IsFiniteSet(one)
  BY <1>1, FS_Subset
<1>3. \A x \in S : x = <<x[1], x[2], x[3], x[4]>>
  BY DEF Corpus!Slots
<1>4. ASSUME NEW x \in S PROVE <<x[1], "PROFILE", x[3], x[4]>> \in S /\ <<x[1], "BASELINE", x[3], x[4]>> \in S
  BY DEF Corpus!Slots, Corpus!Arms
<1> HIDE DEF S, one, two
<1>5. f \in [one -> two]
  BY <1>1, <1>4
<1>6. f \in Surjection(one, two)
  <2> SUFFICES ASSUME NEW y \in two PROVE \E x \in one : f[x] = y
    BY <1>5 DEF Surjection
  <2> DEFINE x == <<y[1], "BASELINE", y[3], y[4]>>
  <2>1. x \in one
    BY <1>1, <1>4
  <2>2. f[x] = <<y[1], "PROFILE", y[3], y[4]>>
    BY <2>1
  <2>3. <<y[1], "PROFILE", y[3], y[4]>> = y
    BY <1>1, <1>3
  <2> QED BY <2>1, <2>2, <2>3
<1>7. f \in Injection(one, two)
  <2> SUFFICES ASSUME NEW x \in one, NEW y \in one, f[x] = f[y] PROVE x = y
    BY <1>5 DEF Injection, IsInjective
  <2>1. <<x[1], "PROFILE", x[3], x[4]>> = <<y[1], "PROFILE", y[3], y[4]>>
    OBVIOUS
  <2>2. x = <<x[1], "BASELINE", x[3], x[4]>> /\ y = <<y[1], "BASELINE", y[3], y[4]>>
    BY <1>1, <1>3
  <2> QED BY <2>1, <2>2
<1> HIDE DEF f
<1> QED BY <1>2, <1>6, <1>7, FS_Surjection DEF one, two

(* Its budget is kept. *)
LEMMA BudgetKept ==
  ASSUME Undisturbed
  PROVE  Corpus!BudgetValid(declared)
<1>1. ASSUME NEW arm \in Corpus!Arms
      PROVE  /\ declared.budget.runs[arm] = Corpus!Cardinality(Corpus!Runs(declared, arm))
             /\ declared.budget.timeout[arm] = Corpus!TimeoutOf(declared, arm)
             /\ declared.budget.runs[arm] = Cardinality(SlotsFor(Corpus!Holdout, arm))
             /\ declared.budget.timeout[arm] = 5 * Cardinality(SlotsFor(Corpus!Holdout, arm))
  <2> DEFINE R == Corpus!Runs(declared, arm)
             ofCommand(id) == Corpus!SumFunctionOnSet([c \in Corpus!Commands(declared, id) |-> c.timeout],
                                                      Corpus!Commands(declared, id))
             f == [x \in R |-> ofCommand(x.commandId)]
  <2>1. IsFiniteSet(R) /\ Cardinality(R) = Cardinality(SlotsFor(Corpus!Holdout, arm))
    BY RunsAre
  <2>2. /\ declared.budget.runs[arm] = Cardinality(SlotsFor(Corpus!Holdout, arm))
        /\ declared.budget.timeout[arm] = 5 * Cardinality(SlotsFor(Corpus!Holdout, arm))
    <3>1. TimeoutFor(arm) = 5
      BY DeclaredIs
    <3>2. /\ declared.budget.runs[arm] = Corpus!Cardinality(SlotsFor(Corpus!Holdout, arm))
          /\ declared.budget.timeout[arm] =
               TimeoutFor(arm) * Corpus!Cardinality(SlotsFor(Corpus!Holdout, arm))
      <4>1. declared = Corpus!Declared(Corpus!Holdout, FALSE)
        BY DeclaredIs
      <4> QED BY <4>1, BudgetSays
    <3> QED BY <3>1, <3>2, CorpusCardinality
  <2>3. ASSUME NEW x \in R PROVE ofCommand(x.commandId) = 5
    <3>1. PICK z \in Corpus!Slots(Corpus!Holdout) : x = RunOf(z)
      BY DeclaredIs DEF Corpus!Runs
    <3>2. z[2] \in Corpus!Arms /\ z[4] \in Corpus!States /\ x.commandId = <<z[2], z[4]>>
      BY <3>1, RunsAreSlots DEF RunOf
    <3> DEFINE c == CommandOf(z[2], z[4], FALSE)
               g == [d \in {c} |-> d.timeout]
    <3>3. Corpus!Commands(declared, x.commandId) = {c}
      BY <3>2, CommandsAre
    <3>4. c.timeout = 5
      BY DeclaredIs DEF CommandOf
    <3> HIDE DEF c
    <3>5. ofCommand(x.commandId) = SumFunctionOnSet(g, {c})
      BY <3>3, CorpusSum
    <3>6. IsFiniteSet({c}) /\ Cardinality({c}) = 1 /\ \A d \in {c} : g[d] = 5
      BY <3>4, FS_Singleton
    <3> HIDE DEF g
    <3>7. SumFunctionOnSet(g, {c}) = 5 * 1
      BY <3>6, SumOfSame
    <3> QED BY <3>5, <3>7
  <2>4. Corpus!TimeoutOf(declared, arm) = SumFunctionOnSet(f, R)
    BY CorpusSum DEF Corpus!TimeoutOf
  <2> HIDE DEF ofCommand, R
  <2>5. \A x \in R : f[x] = 5
    BY <2>3
  <2> HIDE DEF f
  <2>6. SumFunctionOnSet(f, R) = 5 * Cardinality(R)
    BY <2>1, <2>5, SumOfSame
  <2> QED BY <2>1, <2>2, <2>4, <2>6, CorpusCardinality DEF R
<1>2. /\ declared.budget.runs["BASELINE"] = declared.budget.runs["PROFILE"]
      /\ declared.budget.timeout["BASELINE"] = declared.budget.timeout["PROFILE"]
  <2>1. "BASELINE" \in Corpus!Arms /\ "PROFILE" \in Corpus!Arms
    BY DEF Corpus!Arms
  <2> QED BY <1>1, <2>1, ArmsEqual
<1> QED BY <1>1, <1>2 DEF Corpus!BudgetValid

(* Its subjects, arms, commands and schedule are as they must be. *)
LEMMA PlanHolds ==
  ASSUME Undisturbed
  PROVE  /\ Corpus!SubjectsValid(declared, allocation, commitment)
         /\ Corpus!ArmsValid(declared)
         /\ Corpus!CommandsValid(declared)
         /\ Corpus!ScheduleValid(declared)
<1>0. declared = Corpus!Declared(Corpus!Holdout, FALSE)
  BY DeclaredIs
<1>1. Corpus!SubjectsValid(declared, allocation, commitment)
  <2>1. {s.caseId : s \in declared.subjects} = Corpus!Range(allocation.holdout)
    BY SubjectsAre DEF Corpus!Holdout
  <2>2. ASSUME NEW s \in declared.subjects
        PROVE  \E x \in commitment.caseSet :
                 /\ x.caseId = s.caseId
                 /\ x.caseDigest = s.caseDigest /\ x.provenanceDigest = s.provenanceDigest
                 /\ x.sourceId = s.sourceId /\ x.identity = s.identity
    <3>1. PICK c \in Corpus!Holdout :
            /\ Entry(c) \in commitment.caseSet
            /\ s.caseId = c /\ s.caseDigest = Entry(c).caseDigest
            /\ s.provenanceDigest = Entry(c).provenanceDigest
            /\ s.sourceId = Entry(c).sourceId /\ s.identity = Entry(c).identity
      BY SubjectsAre
    <3>2. Entry(c).caseId = c
      BY DEF Entry
    <3> QED BY <3>1, <3>2
  <2> QED BY <2>1, <2>2 DEF Corpus!SubjectsValid
<1>2. ASSUME NEW arm \in Corpus!Arms
      PROVE  /\ declared.arms[arm].universe = Universe
             /\ declared.arms[arm].suite = Corpus!SuiteDigest(declared.arms[arm].selected)
             /\ declared.arms[arm].suite = Corpus!SuiteDigest(Selected(arm, FALSE))
  BY <1>0, SuitesSay
<1>3. Corpus!ArmsValid(declared)
  <2>1. "BASELINE" \in Corpus!Arms /\ "PROFILE" \in Corpus!Arms
    BY DEF Corpus!Arms
  <2> QED BY <1>2, <2>1 DEF Corpus!ArmsValid
<1>4. Corpus!CommandsValid(declared)
  <2> SUFFICES ASSUME NEW c \in declared.commands
               PROVE  /\ c.adapterId \in declared.adapters
                      /\ c.state = "REQUIRED_SUITE" \/ c.suite = declared.arms[c.arm].suite
    BY DEF Corpus!CommandsValid
  <2>1. PICK arm \in Corpus!Arms, state \in Corpus!States : c = CommandOf(arm, state, FALSE)
    BY CommandsAre
  <2>2. /\ c.adapterId = "adapter" /\ c.arm = arm /\ c.state = state
        /\ state # "REQUIRED_SUITE" => c.suite = Corpus!SuiteDigest(Selected(arm, FALSE))
    BY <2>1 DEF CommandOf
  <2>3. declared.adapters = {"adapter"}
    BY <1>0, CommandsSay
  <2> QED BY <1>2, <2>2, <2>3
<1>5. Corpus!ScheduleValid(declared)
  <2>1. \A x, y \in declared.schedule : Corpus!Slot(x) = Corpus!Slot(y) => x = y
    BY RunsAre
  <2>2. {Corpus!Slot(x) : x \in declared.schedule} =
          {s.caseId : s \in declared.subjects} \X Corpus!Arms \X (1 .. declared.attempts) \X Corpus!States
    <3>1. declared.attempts = Corpus!Attempts
      <4>1. declared.attempts = 2
        BY DeclaredIs
      <4> QED BY <4>1 DEF Corpus!Attempts
    <3>2. {s.caseId : s \in declared.subjects} = Corpus!Holdout
      BY SubjectsAre
    <3>3. {Corpus!Slot(x) : x \in declared.schedule} = Corpus!Slots(Corpus!Holdout)
      BY RunsAre
    <3> QED BY <3>1, <3>2, <3>3 DEF Corpus!Slots
  <2>3. ASSUME NEW x \in declared.schedule
        PROVE  \E c \in Corpus!Commands(declared, x.commandId) : c.state = x.state /\ c.arm = x.arm
    <3>1. PICK z \in Corpus!Slots(Corpus!Holdout) : x = RunOf(z)
      BY DeclaredIs
    <3>2. /\ z[2] \in Corpus!Arms /\ z[4] \in Corpus!States /\ x.commandId = <<z[2], z[4]>>
          /\ x.arm = z[2] /\ x.state = z[4]
      BY <3>1, RunsAreSlots DEF RunOf
    <3>3. CommandOf(z[2], z[4], FALSE) \in Corpus!Commands(declared, x.commandId)
      BY <3>2, CommandsAre
    <3>4. CommandOf(z[2], z[4], FALSE).state = z[4] /\ CommandOf(z[2], z[4], FALSE).arm = z[2]
      BY DEF CommandOf
    <3> QED BY <3>2, <3>3, <3>4
  <2> QED BY <2>1, <2>2, <2>3 DEF Corpus!ScheduleValid
<1> QED BY <1>1, <1>3, <1>4, <1>5

(* The plan is replayed. *)
LEMMA PlanReplayed ==
  ASSUME Undisturbed,
         NEW pins, pins.plan = pinned, pins.policy = Policy.digest, pins.commitment = commitment.digest
  PROVE  Corpus!AllTrue(Corpus!PlanRails(declared, pins, allocation, commitment))
<1> DEFINE rails == Corpus!PlanRails(declared, pins, allocation, commitment)
<1>0. declared = Corpus!Declared(Corpus!Holdout, FALSE) /\ pinned = declared.digest
  BY DeclaredIs
<1>1. /\ DOMAIN rails = {"schemaValid", "externalPlanAnchorValid", "planDigestValid",
                         "allocationBindingValid", "subjectSetValid", "armsValid", "commandsValid",
                         "scheduleValid", "budgetValid"}
      /\ rails.schemaValid = Corpus!PlanParses(declared)
      /\ rails.externalPlanAnchorValid = (declared.digest = pins.plan)
      /\ rails.planDigestValid = (declared.digest = Corpus!PlanDigest(declared))
      /\ rails.allocationBindingValid = (/\ declared.policyDigest = pins.policy
                                         /\ declared.commitmentDigest = pins.commitment
                                         /\ declared.allocationDigest = allocation.digest)
      /\ rails.subjectSetValid = Corpus!SubjectsValid(declared, allocation, commitment)
      /\ rails.armsValid = Corpus!ArmsValid(declared)
      /\ rails.commandsValid = Corpus!CommandsValid(declared)
      /\ rails.scheduleValid = Corpus!ScheduleValid(declared)
      /\ rails.budgetValid = Corpus!BudgetValid(declared)
  BY DEF Corpus!PlanRails
<1> HIDE DEF rails
<1>2. declared.digest = Corpus!PlanDigest(declared)
  BY <1>0, ArmsSay
<1>3. /\ declared.policyDigest = Policy.digest /\ declared.commitmentDigest = commitment.digest
      /\ declared.allocationDigest = allocation.digest
  BY <1>0, CommandsSay
<1>4. /\ rails.schemaValid /\ rails.externalPlanAnchorValid /\ rails.planDigestValid
      /\ rails.allocationBindingValid
  BY <1>0, <1>1, <1>2, <1>3, PlanParsed
<1>5. /\ rails.subjectSetValid /\ rails.armsValid /\ rails.commandsValid
      /\ rails.scheduleValid /\ rails.budgetValid
  BY <1>1, PlanHolds, BudgetKept
<1>6. \A rail \in DOMAIN rails : rails[rail]
  BY <1>1, <1>4, <1>5
<1> QED BY <1>6 DEF Corpus!AllTrue, rails

(* The receipt of a run. *)
ReceiptOn(z) == Corpus!ReceiptFor(RunOf(z), behaviour)

LEMMA ReceiptIs ==
  ASSUME Undisturbed, NEW z \in Corpus!Slots(Corpus!Holdout)
  PROVE  LET r == ReceiptOn(z)
             s == SubjectOf(Entry(z[1]))
             c == CommandOf(z[2], z[4], FALSE)
         IN  /\ r.runId = z /\ "runId" \in DOMAIN r
             /\ r.planDigest = declared.digest
             /\ r.commandId = <<z[2], z[4]>> /\ r.command = Corpus!CommandDigest(c)
             /\ Corpus!Slot(r) = z /\ r.caseId = z[1] /\ r.state = z[4]
             /\ r.repository = Corpus!RequiredRepository(s, z[4])
             /\ r.suite = c.suite /\ r.timeout = c.timeout
             /\ r.stdout.size = 1 /\ r.stderr.size = 0
             /\ r.structured = Corpus!Observed(behaviour[<<z[1], z[2]>>], z[3], z[4])
             /\ r.process.timedOut = FALSE
             /\ r.process.exitCode = IF r.structured.outcome = "PASS" THEN 0 ELSE 1
             /\ r.digest = Corpus!ReceiptDigest(r)
<1> DEFINE x == RunOf(z)
           s == SubjectOf(Entry(z[1]))
           c == CommandOf(z[2], z[4], FALSE)
           structured == Corpus!Observed(behaviour[<<x.caseId, x.arm>>], x.attempt, x.state)
           late == mishap = "TIMED_OUT" /\ x = Corpus!Affected
           command == CHOOSE d \in declared.commands : d.commandId = x.commandId
           chosen == CHOOSE t \in declared.subjects : t.caseId = x.caseId
           unsealed ==
             [runId |-> x.runId, planDigest |-> declared.digest, commandId |-> x.commandId,
              command |-> Corpus!CommandDigest(command), caseId |-> x.caseId, arm |-> x.arm,
              attempt |-> x.attempt, state |-> x.state,
              repository |-> Corpus!RequiredRepository(chosen, x.state), suite |-> command.suite,
              timeout |-> command.timeout, stdout |-> [size |-> 1, text |-> x.runId],
              stderr |-> [size |-> 0, text |-> <<>>], structured |-> structured,
              process |-> [timedOut |-> late,
                           exitCode |-> IF late THEN Absent
                                        ELSE IF structured.outcome = "PASS" THEN 0 ELSE 1],
              digest |-> Absent]
           r == Corpus!ReceiptFor(x, behaviour)
<1>1. r = [unsealed EXCEPT !.digest = Corpus!ReceiptDigest(unsealed)]
  BY Zenon DEF Corpus!ReceiptFor
<1>2. /\ x.runId = z /\ x.caseId = z[1] /\ x.arm = z[2] /\ x.attempt = z[3] /\ x.state = z[4]
      /\ x.commandId = <<z[2], z[4]>> /\ z[1] \in Corpus!Holdout /\ z[2] \in Corpus!Arms
      /\ z[4] \in Corpus!States /\ z = <<z[1], z[2], z[3], z[4]>>
  BY DEF RunOf, Corpus!Slots
<1>3. ~late
  BY DEF Undisturbed
<1>4. command = c
  <2>1. Corpus!Commands(declared, <<z[2], z[4]>>) = {c}
    BY <1>2, CommandsAre
  <2>2. \A d : d \in declared.commands /\ d.commandId = x.commandId <=> d = c
    BY <1>2, <2>1 DEF Corpus!Commands
  <2> HIDE DEF c, x
  <2> QED BY <2>2
<1>5. chosen = s
  <2>1. s \in declared.subjects
    BY <1>2, SubjectsAre
  <2>2. s.caseId = z[1]
    BY DEF SubjectOf, Entry
  <2>3. \A t, u \in declared.subjects : t.caseId = u.caseId => t = u
    BY SubjectsAre
  <2> HIDE DEF s, x
  <2> QED BY <1>2, <2>1, <2>2, <2>3
<1> HIDE DEF structured, late, command, chosen, x
<1>6. /\ unsealed.runId = z /\ unsealed.planDigest = declared.digest
      /\ unsealed.commandId = <<z[2], z[4]>> /\ unsealed.command = Corpus!CommandDigest(c)
      /\ unsealed.caseId = z[1] /\ unsealed.arm = z[2] /\ unsealed.attempt = z[3] /\ unsealed.state = z[4]
      /\ unsealed.repository = Corpus!RequiredRepository(s, z[4])
      /\ unsealed.suite = c.suite /\ unsealed.timeout = c.timeout
      /\ unsealed.stdout.size = 1 /\ unsealed.stderr.size = 0
      /\ unsealed.structured = structured
      /\ unsealed.process.timedOut = late
      /\ unsealed.process.exitCode = IF late THEN Absent
                                     ELSE IF structured.outcome = "PASS" THEN 0 ELSE 1
      /\ "digest" \in DOMAIN unsealed /\ "runId" \in DOMAIN unsealed
  BY <1>2, <1>4, <1>5
<1> HIDE DEF unsealed, s, c, r
<1>7. /\ r.runId = z /\ r.planDigest = declared.digest
      /\ r.commandId = <<z[2], z[4]>> /\ r.command = Corpus!CommandDigest(c)
      /\ r.caseId = z[1] /\ r.arm = z[2] /\ r.attempt = z[3] /\ r.state = z[4]
      /\ r.repository = Corpus!RequiredRepository(s, z[4])
      /\ r.suite = c.suite /\ r.timeout = c.timeout
      /\ r.stdout.size = 1 /\ r.stderr.size = 0
      /\ r.structured = structured
      /\ r.process.timedOut = late
      /\ r.process.exitCode = IF late THEN Absent ELSE IF structured.outcome = "PASS" THEN 0 ELSE 1
      /\ r.digest = Corpus!ReceiptDigest(unsealed) /\ "runId" \in DOMAIN r
  BY <1>1, <1>6
<1>8. Corpus!ReceiptDigest(r) = Corpus!ReceiptDigest(unsealed)
  BY <1>1, SealIsOutside DEF Corpus!ReceiptDigest
<1>9. structured = Corpus!Observed(behaviour[<<z[1], z[2]>>], z[3], z[4])
  BY <1>2 DEF structured
<1>10. Corpus!Slot(r) = z
  BY <1>2, <1>7 DEF Corpus!Slot
<1>11. late = FALSE
  BY <1>3 DEF late
<1> QED BY <1>7, <1>8, <1>9, <1>10, <1>11 DEF r, s, c, x, ReceiptOn

(* What is at hand, and what is bound to each run: its own receipt. *)
BoundTo(z) == [runId |-> z, receiptDigest |-> ReceiptOn(z).digest, content |-> ReceiptOn(z)]

LEMMA ReceiptOfIs ==
  ASSUME Undisturbed, NEW z \in Corpus!Slots(Corpus!Holdout)
  PROVE  ReceiptOn(z) \in receipts /\ Corpus!ReceiptOfRun(RunOf(z)) = ReceiptOn(z)
<1>1. receipts = {Corpus!ReceiptFor(x, behaviour) : x \in declared.schedule}
  BY DEF Undisturbed, StudyInv
<1>2. declared.schedule = {RunOf(x) : x \in Corpus!Slots(Corpus!Holdout)}
  BY DeclaredIs
<1>3. receipts = {ReceiptOn(x) : x \in Corpus!Slots(Corpus!Holdout)}
  BY <1>1, <1>2 DEF ReceiptOn
<1>4. \A x \in Corpus!Slots(Corpus!Holdout) : ReceiptOn(x).runId = x
  <2> SUFFICES ASSUME NEW x \in Corpus!Slots(Corpus!Holdout) PROVE ReceiptOn(x).runId = x
    OBVIOUS
  <2> QED BY ReceiptIs
<1>5. RunOf(z).runId = z
  BY DEF RunOf
<1>6. \A r : r \in receipts /\ r.runId = RunOf(z).runId <=> r = ReceiptOn(z)
  BY <1>3, <1>4, <1>5
<1> QED BY <1>6 DEF Corpus!ReceiptOfRun

LEMMA StoreIs ==
  ASSUME Undisturbed
  PROVE  /\ \A z \in Corpus!Slots(Corpus!Holdout) : Corpus!Kept(ReceiptOn(z)) \subseteq Corpus!Store
         /\ {k.digest : k \in declared.arms["BASELINE"].universe} \subseteq Corpus!Store
<1>1. Corpus!Lost = {}
  BY DEF Undisturbed, Corpus!Lost
<1>2. ASSUME NEW z \in Corpus!Slots(Corpus!Holdout)
      PROVE  Corpus!Kept(ReceiptOn(z)) \subseteq Corpus!Store
  <2>1. ReceiptOn(z) \in receipts
    BY ReceiptOfIs
  <2> QED BY <1>1, <2>1 DEF Corpus!Store
<1>3. Corpus!Tests \subseteq Corpus!Store
  BY <1>1 DEF Corpus!Store
<1>4. Corpus!Tests = {k.digest : k \in declared.arms["BASELINE"].universe}
  BY DEF Corpus!Tests
<1> QED BY <1>2, <1>3, <1>4

LEMMA BoundIs ==
  ASSUME Undisturbed
  PROVE  /\ Corpus!Bindings = {BoundTo(z) : z \in Corpus!Slots(Corpus!Holdout)}
         /\ IsFiniteSet(Corpus!Bindings)
         /\ Cardinality(Corpus!Bindings) = Cardinality(declared.schedule)
         /\ {x.runId : x \in declared.schedule} = {b.runId : b \in Corpus!Bindings}
         /\ \A a, b \in Corpus!Bindings :
              a.runId = b.runId \/ a.receiptDigest = b.receiptDigest \/ a.content = b.content => a = b
<1> DEFINE S == Corpus!Slots(Corpus!Holdout)
           f == [z \in S |-> BoundTo(z)]
           g == [z \in S |-> RunOf(z)]
<1>1. Corpus!Bindings = {BindingOf(x, x) : x \in declared.schedule}
  BY BindingsSay DEF Undisturbed
<1>2. declared.schedule = {RunOf(x) : x \in S} /\ IsFiniteSet(S)
  BY DeclaredIs, SlotsFinite, SplitIs
<1>3. \A z \in S : BindingOf(RunOf(z), RunOf(z)) = BoundTo(z) /\ RunOf(z).runId = z
  BY ReceiptOfIs DEF BindingOf, BoundTo, RunOf
<1>4. Corpus!Bindings = {BoundTo(z) : z \in S}
  BY <1>1, <1>2, <1>3
<1>5. \A z : /\ BoundTo(z).runId = z /\ BoundTo(z).content = ReceiptOn(z)
             /\ BoundTo(z).receiptDigest = ReceiptOn(z).digest
  BY DEF BoundTo
<1> HIDE DEF S
<1>6. /\ f \in Surjection(S, Corpus!Bindings) /\ f \in Injection(S, Corpus!Bindings)
      /\ g \in Surjection(S, declared.schedule) /\ g \in Injection(S, declared.schedule)
  BY <1>2, <1>3, <1>4, <1>5 DEF Surjection, Injection, IsInjective
<1>7. IsFiniteSet(Corpus!Bindings) /\ Cardinality(Corpus!Bindings) = Cardinality(S)
      /\ Cardinality(declared.schedule) = Cardinality(S)
  <2> HIDE DEF f, g
  <2> QED BY <1>2, <1>6, FS_Surjection
<1>8. {x.runId : x \in declared.schedule} = {b.runId : b \in Corpus!Bindings}
  BY <1>2, <1>3, <1>4, <1>5
<1>9. ASSUME NEW a \in Corpus!Bindings, NEW b \in Corpus!Bindings,
             a.runId = b.runId \/ a.receiptDigest = b.receiptDigest \/ a.content = b.content
      PROVE  a = b
  <2>1. PICK y \in S : a = BoundTo(y)
    BY <1>4
  <2>2. PICK z \in S : b = BoundTo(z)
    BY <1>4
  <2>3. \A w \in S : /\ ReceiptOn(w).runId = w /\ "runId" \in DOMAIN ReceiptOn(w)
                     /\ ReceiptOn(w).digest = Corpus!ReceiptDigest(ReceiptOn(w))
    <3> SUFFICES ASSUME NEW w \in S
                 PROVE  /\ ReceiptOn(w).runId = w /\ "runId" \in DOMAIN ReceiptOn(w)
                        /\ ReceiptOn(w).digest = Corpus!ReceiptDigest(ReceiptOn(w))
      OBVIOUS
    <3> QED BY ReceiptIs DEF S
  <2>4. CASE a.runId = b.runId
    BY <1>5, <2>1, <2>2, <2>4
  <2>5. CASE a.content = b.content
    BY <1>5, <2>1, <2>2, <2>3, <2>5
  <2>6. CASE a.receiptDigest = b.receiptDigest
    <3>1. Corpus!ReceiptDigest(ReceiptOn(y)) = Corpus!ReceiptDigest(ReceiptOn(z))
      BY <1>5, <2>1, <2>2, <2>3, <2>6
    <3>2. [x \in DOMAIN ReceiptOn(y) \ {"digest"} |-> ReceiptOn(y)[x]] =
            [x \in DOMAIN ReceiptOn(z) \ {"digest"} |-> ReceiptOn(z)[x]]
      BY <3>1 DEF Corpus!ReceiptDigest, Corpus!Sha256
    <3>3. "runId" \in DOMAIN ReceiptOn(y) \ {"digest"} /\ "runId" \in DOMAIN ReceiptOn(z) \ {"digest"}
      BY <2>3
    <3>4. ReceiptOn(y)["runId"] = ReceiptOn(z)["runId"]
      <4>1. [x \in DOMAIN ReceiptOn(y) \ {"digest"} |-> ReceiptOn(y)[x]]["runId"] = ReceiptOn(y)["runId"]
        BY <3>3
      <4>2. [x \in DOMAIN ReceiptOn(z) \ {"digest"} |-> ReceiptOn(z)[x]]["runId"] = ReceiptOn(z)["runId"]
        BY <3>3
      <4> QED BY <3>2, <4>1, <4>2
    <3> QED BY <2>1, <2>2, <2>3, <3>4
  <2> QED BY <1>9, <2>4, <2>5, <2>6
<1> QED BY <1>4, <1>7, <1>8, <1>9 DEF S

(* Every binding is of a declared run, its command and its subject, with   *)
(* its outputs at hand, and with a report that fits how the run ended.     *)
LEMMA EachBound ==
  ASSUME Undisturbed, NEW z \in Corpus!Slots(Corpus!Holdout)
  PROVE  LET b == BoundTo(z)
         IN  /\ b.content \in Corpus!Store /\ "runId" \in DOMAIN b.content
             /\ RunOf(z) \in declared.schedule /\ RunOf(z).runId = b.runId
             /\ Corpus!Commands(declared, b.content.commandId) = {CommandOf(z[2], z[4], FALSE)}
             /\ SubjectOf(Entry(z[1])) \in declared.subjects
             /\ SubjectOf(Entry(z[1])).caseId = b.content.caseId
             /\ Corpus!ReceiptBound(declared, b, b.content)
             /\ Corpus!OutputsResolve(declared, Corpus!Store, b.content)
             /\ "outcome" \in DOMAIN b.content.structured
             /\ Corpus!ProcessConsistent(b.content.structured, b.content.process)
<1> DEFINE r == ReceiptOn(z)
           s == SubjectOf(Entry(z[1]))
           c == CommandOf(z[2], z[4], FALSE)
           x == RunOf(z)
           b == BoundTo(z)
<1>1. b.runId = z /\ b.content = r /\ b.receiptDigest = r.digest
  BY DEF BoundTo
<1>2. /\ r.runId = z /\ "runId" \in DOMAIN r
      /\ r.planDigest = declared.digest
      /\ r.commandId = <<z[2], z[4]>> /\ r.command = Corpus!CommandDigest(c)
      /\ Corpus!Slot(r) = z /\ r.caseId = z[1] /\ r.state = z[4]
      /\ r.repository = Corpus!RequiredRepository(s, z[4])
      /\ r.suite = c.suite /\ r.timeout = c.timeout
      /\ r.stdout.size = 1 /\ r.stderr.size = 0
      /\ r.structured = Corpus!Observed(behaviour[<<z[1], z[2]>>], z[3], z[4])
      /\ r.process.timedOut = FALSE
      /\ r.process.exitCode = IF r.structured.outcome = "PASS" THEN 0 ELSE 1
      /\ r.digest = Corpus!ReceiptDigest(r)
  BY ReceiptIs
<1>3. /\ x \in declared.schedule /\ x.runId = z /\ x.commandId = <<z[2], z[4]>> /\ Corpus!Slot(x) = z
  BY DeclaredIs, RunsAreSlots DEF RunOf
<1>4. z[1] \in Corpus!Holdout /\ z[2] \in Corpus!Arms /\ z[4] \in Corpus!States
  BY DEF Corpus!Slots
<1>5. /\ c.commandId = <<z[2], z[4]>> /\ c.state = z[4] /\ c.maxStdout = 1 /\ c.maxStderr = 1
      /\ z[4] = "REQUIRED_SUITE" => c.suite = Corpus!RequiredSuite
  BY DEF CommandOf
<1>6. Corpus!Commands(declared, <<z[2], z[4]>>) = {c}
  BY <1>4, CommandsAre
<1>7. c \in declared.commands
  <2> HIDE DEF c
  <2> QED BY <1>6 DEF Corpus!Commands
<1>8. s \in declared.subjects
  BY <1>4, SubjectsAre
<1>9. s.caseId = z[1] /\ s.requiredSuite = Corpus!RequiredSuite
  BY DEF SubjectOf, Entry
<1>10. {r, r.stdout, r.stderr, r.structured} \subseteq Corpus!Store
  <2>1. Corpus!Kept(r) \subseteq Corpus!Store
    BY StoreIs
  <2> HIDE DEF r
  <2> QED BY <2>1 DEF Corpus!Kept
<1> HIDE DEF r, s, c, x, b
<1>11. Corpus!ReceiptBound(declared, b, b.content)
  BY <1>1, <1>2, <1>3, <1>5, <1>7, <1>8, <1>9 DEF Corpus!ReceiptBound
<1>12. Corpus!OutputsResolve(declared, Corpus!Store, r)
  <2>1. Corpus!Resolved(Corpus!Store, {r.stdout, r.stderr, r.structured})
    BY <1>10 DEF Corpus!Resolved
  <2>2. \A d \in Corpus!Commands(declared, r.commandId) :
          r.stdout.size <= d.maxStdout /\ r.stderr.size <= d.maxStderr
    BY <1>2, <1>5, <1>6
  <2> QED BY <2>1, <2>2 DEF Corpus!OutputsResolve
<1>13. /\ "outcome" \in DOMAIN r.structured
       /\ r.structured.outcome \in {"COMPILE_FAILURE", "ASSERTION_FAILURE", "PASS"}
  BY <1>2 DEF Corpus!Observed
<1>14. Corpus!ProcessConsistent(r.structured, r.process)
  <2>1. Absent # 0 /\ Absent # 1
    BY StudyAssumption
  <2>2. CASE r.structured.outcome = "PASS"
    <3>1. r.process.exitCode = 0
      BY <1>2, <2>2
    <3> QED BY <1>2, <2>2, <3>1 DEF Corpus!ProcessConsistent, Corpus!Failures
  <2>3. CASE r.structured.outcome \in {"COMPILE_FAILURE", "ASSERTION_FAILURE"}
    <3>1. r.process.exitCode = 1 /\ r.process.exitCode \notin {Absent, 0}
      BY <1>2, <2>1, <2>3
    <3> QED BY <1>2, <2>3, <3>1 DEF Corpus!ProcessConsistent, Corpus!Failures
  <2> QED BY <1>13, <2>2, <2>3
<1> QED BY <1>1, <1>2, <1>3, <1>6, <1>8, <1>9, <1>10, <1>11, <1>12, <1>13, <1>14 DEF b, s, c, x

(* The artifact that is made of what was observed. *)
LEMMA ArtifactMade ==
  ASSUME Undisturbed
  PROVE  LET a == Corpus!Artifact
         IN  /\ a.bindings = Corpus!Bindings /\ a.payload = Corpus!Request.payload
             /\ a.planDigest = declared.digest /\ a.allocationDigest = allocation.digest
             /\ a.policyDigest = Policy.digest
             /\ a.candidateSet = Corpus!CandidateSetDigest(declared.arms["BASELINE"].universe)
             /\ a.evidenceSet = Corpus!Sha256(a.bindings)
             /\ a.payloadDigest = Corpus!Sha256(a.payload)
             /\ a.result = Corpus!DeriveResult(a.payload, declared)
             /\ a.digest = Corpus!ArtifactDigest(a)
<1> DEFINE request == Corpus!Request
           unsealed ==
             [planDigest |-> request.planDigest, allocationDigest |-> request.allocationDigest,
              policyDigest |-> request.policyDigest, bindings |-> request.bindings,
              payload |-> request.payload,
              candidateSet |-> Corpus!CandidateSetDigest(declared.arms["BASELINE"].universe),
              evidenceSet |-> Corpus!Sha256(request.bindings),
              payloadDigest |-> Corpus!Sha256(request.payload),
              result |-> Corpus!DeriveResult(request.payload, declared), digest |-> Absent]
           a == Corpus!Artifact
<1>1. a = Corpus!CreateArtifact(request, declared)
  BY DEF Undisturbed, Corpus!Artifact
<1>2. Corpus!CreateArtifact(request, declared) = [unsealed EXCEPT !.digest = Corpus!ArtifactDigest(unsealed)]
  <2> HIDE DEF request
  <2> QED BY Zenon DEF Corpus!CreateArtifact
<1>3. /\ request.planDigest = declared.digest /\ request.allocationDigest = allocation.digest
      /\ request.policyDigest = Policy.digest /\ request.bindings = Corpus!Bindings
  BY DEF Corpus!Request
<1> HIDE DEF request, a
<1>4. /\ unsealed.planDigest = request.planDigest
      /\ unsealed.allocationDigest = request.allocationDigest
      /\ unsealed.policyDigest = request.policyDigest /\ unsealed.bindings = request.bindings
      /\ unsealed.payload = request.payload
      /\ unsealed.candidateSet = Corpus!CandidateSetDigest(declared.arms["BASELINE"].universe)
      /\ unsealed.evidenceSet = Corpus!Sha256(request.bindings)
      /\ unsealed.payloadDigest = Corpus!Sha256(request.payload)
      /\ unsealed.result = Corpus!DeriveResult(request.payload, declared)
      /\ "digest" \in DOMAIN unsealed
  OBVIOUS
<1> HIDE DEF unsealed
<1>5. /\ a.planDigest = request.planDigest
      /\ a.allocationDigest = request.allocationDigest
      /\ a.policyDigest = request.policyDigest /\ a.bindings = request.bindings
      /\ a.payload = request.payload
      /\ a.candidateSet = Corpus!CandidateSetDigest(declared.arms["BASELINE"].universe)
      /\ a.evidenceSet = Corpus!Sha256(request.bindings)
      /\ a.payloadDigest = Corpus!Sha256(request.payload)
      /\ a.result = Corpus!DeriveResult(request.payload, declared)
      /\ a.digest = Corpus!ArtifactDigest(unsealed)
  BY <1>1, <1>2, <1>4
<1>6. Corpus!ArtifactDigest(a) = Corpus!ArtifactDigest(unsealed)
  BY <1>1, <1>2, SealIsOutside DEF Corpus!ArtifactDigest
<1> QED BY <1>3, <1>5, <1>6 DEF a, request

(* All of it is bound and observed. *)
LEMMA AllBound ==
  ASSUME Undisturbed
  PROVE  /\ Corpus!BoundRuns(declared, Corpus!ReceiptsAtHand(Corpus!Artifact, Corpus!Store)) = Corpus!Bindings
         /\ Corpus!Observing(declared, Corpus!Bindings, Corpus!Store) = Corpus!Bindings
<1>1. Corpus!Artifact.bindings = Corpus!Bindings
  BY ArtifactMade
<1>2. ASSUME NEW b \in Corpus!Bindings
      PROVE  /\ b.content \in Corpus!Store /\ "runId" \in DOMAIN b.content
             /\ \E x \in declared.schedule : x.runId = b.runId
             /\ Corpus!Commands(declared, b.content.commandId) # {}
             /\ \E s \in declared.subjects : s.caseId = b.content.caseId
             /\ Corpus!OutputsResolve(declared, Corpus!Store, b.content)
             /\ "outcome" \in DOMAIN b.content.structured
  <2>1. PICK z \in Corpus!Slots(Corpus!Holdout) : b = BoundTo(z)
    <3>1. Corpus!Bindings = {BoundTo(z) : z \in Corpus!Slots(Corpus!Holdout)}
      BY BoundIs
    <3> QED BY <3>1
  <2>2. /\ b.content \in Corpus!Store /\ "runId" \in DOMAIN b.content
        /\ RunOf(z) \in declared.schedule /\ RunOf(z).runId = b.runId
        /\ Corpus!Commands(declared, b.content.commandId) = {CommandOf(z[2], z[4], FALSE)}
        /\ SubjectOf(Entry(z[1])) \in declared.subjects
        /\ SubjectOf(Entry(z[1])).caseId = b.content.caseId
        /\ Corpus!OutputsResolve(declared, Corpus!Store, b.content)
        /\ "outcome" \in DOMAIN b.content.structured
    BY <2>1, EachBound
  <2> QED BY <2>2
<1>3. Corpus!ReceiptsAtHand(Corpus!Artifact, Corpus!Store) = Corpus!Bindings
  BY <1>1, <1>2 DEF Corpus!ReceiptsAtHand, Corpus!Resolved
<1>4. Corpus!BoundRuns(declared, Corpus!Bindings) = Corpus!Bindings
  BY <1>2 DEF Corpus!BoundRuns
<1>5. Corpus!Observing(declared, Corpus!Bindings, Corpus!Store) = Corpus!Bindings
  BY <1>2 DEF Corpus!Observing
<1> QED BY <1>3, <1>4, <1>5

(* The payload is the one that the evidence supports. *)
LEMMA PayloadDerived ==
  ASSUME Undisturbed
  PROVE  Corpus!Request.payload = Corpus!DerivedPayload(declared, Corpus!Bindings)
<1> DEFINE H == Corpus!Holdout
           seen(c, arm, i, state) ==
             {b \in Corpus!Bindings : \E x \in declared.schedule :
                x.runId = b.runId /\ Corpus!Slot(x) = <<c, arm, i, state>>}
           p(c, arm, i, state) == Corpus!Reported(<<c, arm, i, state>>)
           q(c, arm, i, state) ==
             IF seen(c, arm, i, state) = {} THEN [outcome |-> "INFRA_ERROR", attributed |-> FALSE]
             ELSE (CHOOSE b \in seen(c, arm, i, state) : TRUE).content.structured
<1>1. {s.caseId : s \in declared.subjects} = H
  BY SubjectsAre
<1>2. declared.attempts = 2
  BY DeclaredIs
<1>3. Corpus!Request.payload =
        [c \in H |-> [arm \in Corpus!Arms |-> [i \in 1 .. 2 |-> [state \in Corpus!States |-> p(c, arm, i, state)]]]]
  <2>1. Corpus!Request.payload =
          [c \in {s.caseId : s \in declared.subjects} |-> [arm \in Corpus!Arms |->
             [i \in 1 .. Corpus!Attempts |-> [state \in Corpus!States |-> p(c, arm, i, state)]]]]
    BY DEF Corpus!Request
  <2> QED BY <1>1, <2>1 DEF Corpus!Attempts
<1>4. Corpus!DerivedPayload(declared, Corpus!Bindings) =
        [c \in H |-> [arm \in Corpus!Arms |-> [i \in 1 .. 2 |-> [state \in Corpus!States |-> q(c, arm, i, state)]]]]
  BY <1>1, <1>2, Zenon DEF Corpus!DerivedPayload
<1>5. ASSUME NEW c \in H, NEW arm \in Corpus!Arms, NEW i \in 1 .. 2, NEW state \in Corpus!States
      PROVE  p(c, arm, i, state) = q(c, arm, i, state)
  <2> DEFINE z == <<c, arm, i, state>>
             S == seen(c, arm, i, state)
  <2>1. z \in Corpus!Slots(H) /\ z[1] = c /\ z[2] = arm /\ z[3] = i /\ z[4] = state
    BY DEF Corpus!Slots, Corpus!Attempts
  <2>2. p(c, arm, i, state) = Corpus!Observed(behaviour[<<c, arm>>], i, state)
    BY DEF Undisturbed, Corpus!Reported
  <2> HIDE DEF z
  <2>3. S = {BoundTo(z)}
    <3>1. \A x \in declared.schedule : Corpus!Slot(x) = x.runId
      <4> SUFFICES ASSUME NEW x \in declared.schedule PROVE Corpus!Slot(x) = x.runId
        OBVIOUS
      <4>1. PICK y \in Corpus!Slots(Corpus!Holdout) : x = RunOf(y)
        BY DeclaredIs
      <4> QED BY <4>1, RunsAreSlots
    <3>2. Corpus!Bindings = {BoundTo(y) : y \in Corpus!Slots(H)}
      BY BoundIs
    <3>3. \A y : BoundTo(y).runId = y
      BY DEF BoundTo
    <3>4. RunOf(z) \in declared.schedule /\ RunOf(z).runId = z
      BY <2>1, DeclaredIs, RunsAreSlots
    <3>5. S = {b \in Corpus!Bindings : \E x \in declared.schedule : x.runId = b.runId /\ Corpus!Slot(x) = z}
      BY DEF z
    <3> HIDE DEF S
    <3>6. BoundTo(z) \in S
      BY <2>1, <3>1, <3>2, <3>3, <3>4, <3>5
    <3>7. ASSUME NEW b \in S PROVE b = BoundTo(z)
      <4>1. PICK y \in Corpus!Slots(H) : b = BoundTo(y)
        BY <3>2, <3>5
      <4>2. PICK x \in declared.schedule : x.runId = b.runId /\ Corpus!Slot(x) = z
        BY <3>5
      <4> QED BY <3>1, <3>3, <4>1, <4>2
    <3> QED BY <3>6, <3>7
  <2>4. BoundTo(z).content.structured = Corpus!Observed(behaviour[<<c, arm>>], i, state)
    <3>1. ReceiptOn(z).structured = Corpus!Observed(behaviour[<<z[1], z[2]>>], z[3], z[4])
      BY <2>1, ReceiptIs
    <3>2. BoundTo(z).content = ReceiptOn(z)
      BY DEF BoundTo
    <3> QED BY <2>1, <3>1, <3>2
  <2>5. q(c, arm, i, state) = BoundTo(z).content.structured
    <3>1. q(c, arm, i, state) = IF S = {} THEN [outcome |-> "INFRA_ERROR", attributed |-> FALSE]
                                ELSE (CHOOSE b \in S : TRUE).content.structured
      OBVIOUS
    <3> HIDE DEF S, q
    <3> QED BY <2>3, <3>1
  <2> HIDE DEF p, q
  <2> QED BY <2>2, <2>4, <2>5
<1> HIDE DEF p, q, H
<1>6. ASSUME NEW c \in H
      PROVE  [arm \in Corpus!Arms |-> [i \in 1 .. 2 |-> [state \in Corpus!States |-> p(c, arm, i, state)]]]
               = [arm \in Corpus!Arms |-> [i \in 1 .. 2 |-> [state \in Corpus!States |-> q(c, arm, i, state)]]]
  <2>1. ASSUME NEW arm \in Corpus!Arms
        PROVE  [i \in 1 .. 2 |-> [state \in Corpus!States |-> p(c, arm, i, state)]]
                 = [i \in 1 .. 2 |-> [state \in Corpus!States |-> q(c, arm, i, state)]]
    <3>1. ASSUME NEW i \in 1 .. 2
          PROVE  [state \in Corpus!States |-> p(c, arm, i, state)] = [state \in Corpus!States |-> q(c, arm, i, state)]
      BY <1>5
    <3> QED BY <3>1, Zenon
  <2> QED BY <2>1, Zenon
<1> QED BY <1>3, <1>4, <1>6, Zenon

(* What the two principals vouch for a case. *)
LEMMA VouchedSays ==
  ASSUME NEW c
  PROVE  LET p == Corpus!Provenance(c)
         IN  /\ p.policyDigest = Policy.digest /\ p.caseId = c
             /\ p.caseDigest = Corpus!Sha256(Corpus!Document(c, "r1"))
             /\ p.source = [sourceId |-> Corpus!SourceOf(c), revision |-> "r1",
                            identity |-> Corpus!IdentityOf(Corpus!SourceOf(c))]
             /\ p.execution.evidence # {} /\ p.execution.receipt = Corpus!ReceiptOf(p.execution)
             /\ p.author.keyId = Author /\ p.reviewer.keyId = Reviewer
             /\ p.author.signature = Corpus!Signed(Corpus!KeyOf(Author), Corpus!ProvenanceProjection(p))
             /\ p.reviewer.signature = Corpus!Signed(Corpus!KeyOf(Reviewer), Corpus!ProvenanceProjection(p))
             /\ p.digest = Corpus!ProvenanceDigest(p)
<1> DEFINE document == Corpus!Document(c, "r1")
           execution == [protocolId |-> "protocol", evidence |-> {"log"}]
           performed == [protocolId |-> "protocol", evidence |-> {"log"},
                         receipt |-> Corpus!ReceiptOf(execution)]
           source == [sourceId |-> document.sourceId, revision |-> document.revision,
                      identity |-> Corpus!IdentityOf(document.sourceId)]
           unsigned == [policyDigest |-> Policy.digest, caseId |-> document.caseId,
                        caseDigest |-> Corpus!Sha256(document), source |-> source,
                        execution |-> performed,
                        author |-> [keyId |-> Author], reviewer |-> [keyId |-> Reviewer]]
           by(keyId) == [keyId |-> keyId,
                         signature |-> Corpus!Signed(Corpus!KeyOf(keyId),
                                                     Corpus!ProvenanceProjection(unsigned))]
           signed == [policyDigest |-> unsigned.policyDigest, caseId |-> unsigned.caseId,
                      caseDigest |-> unsigned.caseDigest, source |-> unsigned.source,
                      execution |-> unsigned.execution, author |-> by(Author),
                      reviewer |-> by(Reviewer), digest |-> Absent]
           p == Corpus!Provenance(c)
<1>1. p = [signed EXCEPT !.digest = Corpus!ProvenanceDigest(signed)]
  BY Zenon DEF Corpus!Provenance, Corpus!Vouched
<1>2. document.caseId = c /\ document.sourceId = Corpus!SourceOf(c) /\ document.revision = "r1"
  BY DEF Corpus!Document
<1>3. performed.evidence # {} /\ performed.receipt = Corpus!ReceiptOf(performed)
  BY DEF Corpus!ReceiptOf
<1>4. source = [sourceId |-> Corpus!SourceOf(c), revision |-> "r1",
                identity |-> Corpus!IdentityOf(Corpus!SourceOf(c))]
  BY <1>2
<1> HIDE DEF document, performed, source
<1>5. /\ unsigned.policyDigest = Policy.digest /\ unsigned.caseId = c
      /\ unsigned.caseDigest = Corpus!Sha256(document) /\ unsigned.source = source
      /\ unsigned.execution = performed
      /\ unsigned.author.keyId = Author /\ unsigned.reviewer.keyId = Reviewer
  BY <1>2
<1> HIDE DEF unsigned
<1>6. \A k : /\ by(k).keyId = k
             /\ by(k).signature = Corpus!Signed(Corpus!KeyOf(k), Corpus!ProvenanceProjection(unsigned))
  OBVIOUS
<1> HIDE DEF by
<1>7. /\ signed.policyDigest = unsigned.policyDigest /\ signed.caseId = unsigned.caseId
      /\ signed.caseDigest = unsigned.caseDigest /\ signed.source = unsigned.source
      /\ signed.execution = unsigned.execution
      /\ signed.author = by(Author) /\ signed.reviewer = by(Reviewer)
      /\ "digest" \in DOMAIN signed
  OBVIOUS
<1> HIDE DEF signed, p
<1>8. /\ p.policyDigest = signed.policyDigest /\ p.caseId = signed.caseId
      /\ p.caseDigest = signed.caseDigest /\ p.source = signed.source
      /\ p.execution = signed.execution /\ p.author = signed.author /\ p.reviewer = signed.reviewer
      /\ p.digest = Corpus!ProvenanceDigest(signed)
  BY <1>1, <1>7
<1>9. Corpus!ProvenanceProjection(p) = Corpus!ProvenanceProjection(unsigned)
  BY <1>5, <1>6, <1>7, <1>8 DEF Corpus!ProvenanceProjection
<1>10. Corpus!ProvenanceDigest(p) = Corpus!ProvenanceDigest(signed)
  <2>1. Corpus!ProvenanceProjection(p) = Corpus!ProvenanceProjection(signed)
    BY <1>8 DEF Corpus!ProvenanceProjection
  <2> QED BY <1>8, <2>1 DEF Corpus!ProvenanceDigest
<1>11. /\ p.policyDigest = Policy.digest /\ p.caseId = c /\ p.caseDigest = Corpus!Sha256(document)
       /\ p.source = source /\ p.execution = performed
       /\ p.author.keyId = Author /\ p.reviewer.keyId = Reviewer
       /\ p.author.signature = Corpus!Signed(Corpus!KeyOf(Author), Corpus!ProvenanceProjection(p))
       /\ p.reviewer.signature = Corpus!Signed(Corpus!KeyOf(Reviewer), Corpus!ProvenanceProjection(p))
  BY <1>5, <1>6, <1>7, <1>8, <1>9
<1> QED BY <1>3, <1>4, <1>8, <1>10, <1>11 DEF p, document

(* It replays. *)
LEMMA ProvenancePasses ==
  ASSUME NEW c \in Corpus!AllCases
  PROVE  Corpus!AllTrue(Corpus!ProvenanceRails(Corpus!Document(c, "r1"), Corpus!Provenance(c),
                                               Policy, Policy.digest))
<1> DEFINE document == Corpus!Document(c, "r1")
           p == Corpus!Provenance(c)
           registered == {s \in Policy.sources : s.sourceId = p.source.sourceId}
           bytes == Corpus!ProvenanceProjection(p)
           rails == Corpus!ProvenanceRails(document, p, Policy, Policy.digest)
<1>1. /\ p.policyDigest = Policy.digest /\ p.caseId = c
      /\ p.caseDigest = Corpus!Sha256(document)
      /\ p.source = [sourceId |-> Corpus!SourceOf(c), revision |-> "r1",
                     identity |-> Corpus!IdentityOf(Corpus!SourceOf(c))]
      /\ p.execution.evidence # {} /\ p.execution.receipt = Corpus!ReceiptOf(p.execution)
      /\ p.author.keyId = Author /\ p.reviewer.keyId = Reviewer
      /\ p.author.signature = Corpus!Signed(Corpus!KeyOf(Author), bytes)
      /\ p.reviewer.signature = Corpus!Signed(Corpus!KeyOf(Reviewer), bytes)
      /\ p.digest = Corpus!ProvenanceDigest(p)
  BY VouchedSays
<1>2. /\ document.caseId = c /\ document.sourceId = Corpus!SourceOf(c) /\ document.revision = "r1"
      /\ document.h2 = Absent /\ document.h3 = Absent /\ document.h4 = Absent
  BY DEF Corpus!Document
<1>3. /\ DOMAIN rails = {"schemaValid", "canonicalCaseDigestValid", "policyDigestValid", "sourceRegistered",
                         "sourceBindingValid", "executionReceiptDigestValid", "authorTrusted",
                         "reviewerTrusted", "principalsDistinct", "authorSignatureValid",
                         "reviewerSignatureValid", "provenanceDigestValid"}
      /\ rails.schemaValid = (/\ Corpus!CaseParses(document) /\ p.execution.evidence # {}
                              /\ Corpus!PolicyParses(Policy))
      /\ rails.canonicalCaseDigestValid = (p.caseDigest = Corpus!Sha256(document))
      /\ rails.policyDigestValid = Corpus!PolicyTrusted(Policy, Policy.digest)
      /\ rails.sourceRegistered = (registered # {})
      /\ rails.sourceBindingValid =
           (\E s \in registered : /\ p.policyDigest = Policy.digest
                                  /\ p.caseId = document.caseId
                                  /\ p.source.sourceId = document.sourceId
                                  /\ p.source.revision = document.revision
                                  /\ p.source.identity = s.identity)
      /\ rails.executionReceiptDigestValid = (p.execution.receipt = Corpus!ReceiptOf(p.execution))
      /\ rails.authorTrusted = (\E s \in registered : Corpus!MayAuthor(Policy, p.author.keyId, s))
      /\ rails.reviewerTrusted = (\E s \in registered : Corpus!MayReview(Policy, p.reviewer.keyId, s))
      /\ rails.principalsDistinct = Corpus!PrincipalsDistinct(Policy, p.author.keyId, p.reviewer.keyId)
      /\ rails.authorSignatureValid = Corpus!SignatureValid(Policy, p.author.keyId, bytes, p.author.signature)
      /\ rails.reviewerSignatureValid =
           Corpus!SignatureValid(Policy, p.reviewer.keyId, bytes, p.reviewer.signature)
      /\ rails.provenanceDigestValid = (p.digest = Corpus!ProvenanceDigest(p))
  BY DEF Corpus!ProvenanceRails
<1> HIDE DEF rails
<1>4. Corpus!SourceOf(c) \in DOMAIN Held
  BY HeldBySource DEF Corpus!AllCases
<1>5. PICK s \in Policy.sources :
        /\ s.sourceId = Corpus!SourceOf(c) /\ s.identity = Corpus!IdentityOf(Corpus!SourceOf(c))
        /\ Corpus!MayAuthor(Policy, Author, s) /\ Corpus!MayReview(Policy, Reviewer, s)
  BY <1>4, SourcesTrusted
<1> HIDE DEF document, p, bytes
<1>6. /\ p.source.sourceId = Corpus!SourceOf(c) /\ p.source.revision = "r1"
      /\ p.source.identity = Corpus!IdentityOf(Corpus!SourceOf(c))
  BY <1>1
<1>7. s \in registered
  BY <1>5, <1>6
<1> HIDE DEF registered
<1>8. rails.schemaValid /\ rails.canonicalCaseDigestValid /\ rails.policyDigestValid
  BY <1>1, <1>2, <1>3, StudyAssumption DEF Corpus!CaseParses
<1>9. rails.sourceRegistered /\ rails.sourceBindingValid /\ rails.authorTrusted /\ rails.reviewerTrusted
  <2>1. registered # {}
    BY <1>7
  <2>2. /\ p.policyDigest = Policy.digest /\ p.caseId = document.caseId
        /\ p.source.sourceId = document.sourceId /\ p.source.revision = document.revision
        /\ p.source.identity = s.identity
    BY <1>1, <1>2, <1>5, <1>6
  <2>3. Corpus!MayAuthor(Policy, p.author.keyId, s) /\ Corpus!MayReview(Policy, p.reviewer.keyId, s)
    BY <1>1, <1>5
  <2>4. rails.sourceRegistered
    BY <1>3, <2>1
  <2>5. rails.sourceBindingValid
    BY <1>3, <1>7, <2>2
  <2>6. rails.authorTrusted
    BY <1>3, <1>7, <2>3
  <2>7. rails.reviewerTrusted
    BY <1>3, <1>7, <2>3
  <2> QED BY <2>4, <2>5, <2>6, <2>7
<1>10. rails.executionReceiptDigestValid /\ rails.principalsDistinct /\ rails.provenanceDigestValid
  BY <1>1, <1>3, StudyAssumption
<1>11. rails.authorSignatureValid /\ rails.reviewerSignatureValid
  BY <1>1, <1>3, PrincipalsSign
<1>12. \A rail \in DOMAIN rails : rails[rail]
  BY <1>3, <1>8, <1>9, <1>10, <1>11
<1> QED BY <1>12 DEF Corpus!AllTrue, rails, document, p

(* The subjects are the documents and the provenance they were declared    *)
(* with.                                                                   *)
LEMMA SubjectsReplay ==
  ASSUME Undisturbed
  PROVE  /\ Corpus!SubjectDigestsValid(declared, Corpus!Dossier.subjects)
         /\ Corpus!ProvenanceReplays(declared, Corpus!Dossier.subjects, Policy, Policy.digest)
<1> DEFINE evidence == Corpus!Dossier.subjects
           of(s) == [document |-> Corpus!Document(s.caseId, "r1"), provenance |-> Corpus!Provenance(s.caseId)]
           f == [s \in declared.subjects |-> of(s)]
<1>1. evidence = {of(s) : s \in declared.subjects}
  BY DossierSays DEF Undisturbed
<1>2. \A s : /\ of(s).document = Corpus!Document(s.caseId, "r1")
             /\ of(s).provenance = Corpus!Provenance(s.caseId)
  OBVIOUS
<1> HIDE DEF of, evidence
<1>3. \A c : /\ Corpus!Document(c, "r1").caseId = c
             /\ \A metric \in {"h1", "h2", "h3", "h4"} : Corpus!Document(c, "r1")[metric] = Absent
  BY DEF Corpus!Document
<1>4. f \in Surjection(declared.subjects, evidence)
  BY <1>1 DEF Surjection
<1>5. f \in Injection(declared.subjects, evidence)
  <2>1. f \in [declared.subjects -> evidence]
    BY <1>1
  <2>2. \A s, t \in declared.subjects : s.caseId = t.caseId => s = t
    BY SubjectsAre
  <2>3. ASSUME NEW s \in declared.subjects, NEW t \in declared.subjects, f[s] = f[t]
        PROVE  s = t
    <3>1. of(s).document = of(t).document
      BY <2>3
    <3>2. Corpus!Document(s.caseId, "r1").caseId = Corpus!Document(t.caseId, "r1").caseId
      BY <1>2, <3>1
    <3> QED BY <1>3, <2>2, <3>2
  <2> QED BY <2>1, <2>3 DEF Injection, IsInjective
<1>6. Corpus!Cardinality(declared.subjects) = Corpus!Cardinality(evidence)
  <2> HIDE DEF f
  <2>1. IsFiniteSet(declared.subjects)
    BY SubjectsAre
  <2> QED BY <1>4, <1>5, <2>1, FS_Surjection, CorpusCardinality
<1>7. ASSUME NEW s \in declared.subjects
      PROVE  /\ of(s) \in evidence /\ of(s).document.caseId = s.caseId
             /\ \A metric \in {"h1", "h2", "h3", "h4"} : of(s).document[metric] = Absent
             /\ s.caseDigest = Corpus!Sha256(of(s).document)
             /\ s.provenanceDigest = of(s).provenance.digest
             /\ s.sourceId = of(s).provenance.source.sourceId
             /\ s.identity = of(s).provenance.source.identity
             /\ Corpus!AllTrue(Corpus!ProvenanceRails(of(s).document, of(s).provenance, Policy, Policy.digest))
  <2>1. PICK c \in Corpus!Holdout :
          /\ s.caseId = c /\ s.caseDigest = Entry(c).caseDigest
          /\ s.provenanceDigest = Entry(c).provenanceDigest
          /\ s.sourceId = Entry(c).sourceId /\ s.identity = Entry(c).identity
    BY SubjectsAre
  <2>2. /\ Entry(c).caseDigest = Corpus!Sha256(Corpus!Document(c, "r1"))
        /\ Entry(c).provenanceDigest = Corpus!Provenance(c).digest
        /\ Entry(c).sourceId = Corpus!SourceOf(c)
        /\ Entry(c).identity = Corpus!IdentityOf(Corpus!SourceOf(c))
    BY DEF Entry
  <2>3. /\ Corpus!Provenance(c).source.sourceId = Corpus!SourceOf(c)
        /\ Corpus!Provenance(c).source.identity = Corpus!IdentityOf(Corpus!SourceOf(c))
    <3>1. Corpus!Provenance(c).source = [sourceId |-> Corpus!SourceOf(c), revision |-> "r1",
                                         identity |-> Corpus!IdentityOf(Corpus!SourceOf(c))]
      BY VouchedSays
    <3> QED BY <3>1
  <2>4. Corpus!AllTrue(Corpus!ProvenanceRails(Corpus!Document(c, "r1"), Corpus!Provenance(c),
                                              Policy, Policy.digest))
    <3>1. c \in Corpus!AllCases
      BY SplitIs
    <3> QED BY <3>1, ProvenancePasses
  <2>5. of(s) \in evidence
    BY <1>1
  <2>6. /\ of(s).document = Corpus!Document(c, "r1") /\ of(s).provenance = Corpus!Provenance(c)
    BY <1>2, <2>1
  <2>7. /\ of(s).document.caseId = s.caseId
        /\ \A metric \in {"h1", "h2", "h3", "h4"} : of(s).document[metric] = Absent
    BY <1>3, <2>1, <2>6
  <2>8. /\ s.caseDigest = Corpus!Sha256(of(s).document)
        /\ s.provenanceDigest = of(s).provenance.digest
        /\ s.sourceId = of(s).provenance.source.sourceId
        /\ s.identity = of(s).provenance.source.identity
    BY <2>1, <2>2, <2>3, <2>6
  <2>9. Corpus!AllTrue(Corpus!ProvenanceRails(of(s).document, of(s).provenance, Policy, Policy.digest))
    BY <2>4, <2>6
  <2> QED BY <2>5, <2>7, <2>8, <2>9
<1>8. Corpus!SubjectDigestsValid(declared, evidence)
  BY <1>6, <1>7 DEF Corpus!SubjectDigestsValid
<1>9. Corpus!ProvenanceReplays(declared, evidence, Policy, Policy.digest)
  BY <1>7 DEF Corpus!ProvenanceReplays
<1> QED BY <1>8, <1>9 DEF evidence

(* So every rail of the artifact holds. *)
LEMMA UndisturbedValid ==
  ASSUME Undisturbed
  PROVE  Valid
<1> DEFINE a == Corpus!Artifact
           d == Corpus!Dossier
           rails == Corpus!ArtifactRails(a, d)
           commitmentRails == Corpus!CommitmentRails(d.commitment, d.reveal, d.allocation, d.policy,
                                                     d.pins.policy, d.pins.commitment)
           planRails == Corpus!PlanRails(d.plan, d.pins, d.allocation, d.commitment)
           bound == Corpus!BoundRuns(d.plan, Corpus!ReceiptsAtHand(a, d.store))
           payloads == Corpus!Payloads(d.plan, bound, d.store)
           universe == d.plan.arms["BASELINE"].universe
           replays == Corpus!ProvenanceReplays(d.plan, d.subjects, d.policy, d.pins.policy)
<1>1. /\ DOMAIN rails = {"schemaValid", "artifactDigestValid", "commitmentRevealValid",
                         "allocationBindingValid", "planSemanticsValid", "subjectDigestsValid",
                         "provenanceReplayValid", "scheduleValid", "budgetValid",
                         "evidenceSetDigestValid", "receiptBindingsValid", "candidateEvidenceValid",
                         "outputBytesResolved", "structuredResultsValid", "payloadDigestValid",
                         "observationSemanticsValid", "resultSemanticsValid"}
      /\ rails.schemaValid = Corpus!ArtifactParses(a)
      /\ rails.artifactDigestValid = (a.digest = Corpus!ArtifactDigest(a))
      /\ rails.commitmentRevealValid = Corpus!AllTrue(commitmentRails)
      /\ rails.allocationBindingValid = (/\ a.allocationDigest = d.allocation.digest
                                         /\ a.planDigest = d.plan.digest
                                         /\ a.policyDigest = d.pins.policy)
      /\ rails.planSemanticsValid = Corpus!AllTrue(planRails)
      /\ rails.subjectDigestsValid = Corpus!SubjectDigestsValid(d.plan, d.subjects)
      /\ rails.provenanceReplayValid = replays
      /\ rails.scheduleValid = ({x.runId : x \in d.plan.schedule} = {b.runId : b \in a.bindings})
      /\ rails.budgetValid = (Corpus!Cardinality(a.bindings) = Corpus!Cardinality(d.plan.schedule))
      /\ rails.evidenceSetDigestValid = (a.evidenceSet = Corpus!Sha256(a.bindings))
      /\ rails.receiptBindingsValid = (/\ bound = a.bindings
                                       /\ \A b \in bound : Corpus!ReceiptBound(d.plan, b, b.content))
      /\ rails.candidateEvidenceValid =
           (/\ a.candidateSet = Corpus!CandidateSetDigest(universe)
            /\ Corpus!Resolved(d.store, {c.digest : c \in universe}))
      /\ rails.outputBytesResolved = (\A b \in bound : Corpus!OutputsResolve(d.plan, d.store, b.content))
      /\ rails.structuredResultsValid =
           (\A b \in bound : Corpus!OutputsResolve(d.plan, d.store, b.content) =>
               /\ "outcome" \in DOMAIN b.content.structured
               /\ Corpus!ProcessConsistent(b.content.structured, b.content.process))
      /\ rails.payloadDigestValid = (a.payloadDigest = Corpus!Sha256(a.payload))
      /\ rails.observationSemanticsValid = (a.payload \in payloads)
      /\ rails.resultSemanticsValid = (\E payload \in payloads : a.result = Corpus!DeriveResult(payload, d.plan))
  <2> HIDE DEF a, d
  <2> QED BY Zenon DEF Corpus!ArtifactRails
<1>2. /\ d.commitment = commitment /\ d.reveal = reveal /\ d.allocation = allocation
      /\ d.policy = Policy /\ d.plan = declared /\ d.store = Corpus!Store
      /\ d.pins.policy = Policy.digest /\ d.pins.commitment = commitment.digest /\ d.pins.plan = pinned
  BY DossierSays
<1>3. /\ a.bindings = Corpus!Bindings /\ a.payload = Corpus!Request.payload
      /\ a.planDigest = declared.digest /\ a.allocationDigest = allocation.digest
      /\ a.policyDigest = Policy.digest
      /\ a.candidateSet = Corpus!CandidateSetDigest(declared.arms["BASELINE"].universe)
      /\ a.evidenceSet = Corpus!Sha256(a.bindings)
      /\ a.payloadDigest = Corpus!Sha256(a.payload)
      /\ a.result = Corpus!DeriveResult(a.payload, declared)
      /\ a.digest = Corpus!ArtifactDigest(a)
  BY ArtifactMade
<1>4. bound = Corpus!Bindings
  BY <1>2, AllBound
<1>5. payloads = {Corpus!Request.payload}
  <2>1. Corpus!Payloads(declared, Corpus!Bindings, Corpus!Store) =
          {Corpus!DerivedPayload(declared, Corpus!Observing(declared, Corpus!Bindings, Corpus!Store))}
    BY DEF Corpus!Payloads
  <2> QED BY <1>2, <1>4, <2>1, AllBound, PayloadDerived
<1> HIDE DEF a, d, rails, bound, payloads, commitmentRails, planRails, universe, replays
<1>6. rails.schemaValid
  <2>1. IsFiniteSet(Corpus!Bindings)
    BY BoundIs
  <2>2. \A x, y \in Corpus!Bindings :
          x.runId = y.runId \/ x.receiptDigest = y.receiptDigest \/ x.content = y.content => x = y
    BY BoundIs
  <2>3. \A x, y \in Corpus!Bindings : x["runId"] = y["runId"] => x = y
    BY <2>2
  <2>4. \A x, y \in Corpus!Bindings : x["receiptDigest"] = y["receiptDigest"] => x = y
    BY <2>2
  <2>5. \A x, y \in Corpus!Bindings : x["content"] = y["content"] => x = y
    BY <2>2
  <2>6. /\ Corpus!UniqueBy(Corpus!Bindings, "runId") /\ Corpus!UniqueBy(Corpus!Bindings, "receiptDigest")
        /\ Corpus!UniqueBy(Corpus!Bindings, "content")
    BY <2>1, <2>3, <2>4, <2>5, InjectiveUniqueBy
  <2> QED BY <1>1, <1>3, <2>6 DEF Corpus!ArtifactParses
<1>7. rails.artifactDigestValid /\ rails.allocationBindingValid
      /\ rails.evidenceSetDigestValid /\ rails.payloadDigestValid
  BY <1>1, <1>2, <1>3
<1>8. rails.commitmentRevealValid /\ rails.planSemanticsValid
  <2>1. Corpus!AllTrue(commitmentRails)
    BY <1>2, CommitmentPasses DEF commitmentRails
  <2>2. Corpus!AllTrue(planRails)
    BY <1>2, PlanReplayed DEF planRails
  <2> QED BY <1>1, <2>1, <2>2
<1>9. rails.subjectDigestsValid /\ rails.provenanceReplayValid
  <2>1. /\ Corpus!SubjectDigestsValid(declared, d.subjects)
        /\ Corpus!ProvenanceReplays(declared, d.subjects, Policy, Policy.digest)
    BY SubjectsReplay DEF d
  <2> QED BY <1>1, <1>2, <2>1 DEF replays
<1>10. rails.scheduleValid /\ rails.budgetValid
  <2>1. {x.runId : x \in declared.schedule} = {b.runId : b \in Corpus!Bindings}
    BY BoundIs
  <2>2. Corpus!Cardinality(Corpus!Bindings) = Corpus!Cardinality(declared.schedule)
    <3>1. Cardinality(Corpus!Bindings) = Cardinality(declared.schedule)
      BY BoundIs
    <3> QED BY <3>1, CorpusCardinality
  <2> QED BY <1>1, <1>2, <1>3, <2>1, <2>2
<1>11. ASSUME NEW b \in Corpus!Bindings
       PROVE  /\ Corpus!ReceiptBound(declared, b, b.content)
              /\ Corpus!OutputsResolve(declared, Corpus!Store, b.content)
              /\ "outcome" \in DOMAIN b.content.structured
              /\ Corpus!ProcessConsistent(b.content.structured, b.content.process)
  <2>1. Corpus!Bindings = {BoundTo(z) : z \in Corpus!Slots(Corpus!Holdout)}
    BY BoundIs
  <2>2. PICK z \in Corpus!Slots(Corpus!Holdout) : b = BoundTo(z)
    BY <2>1
  <2> QED BY <2>2, EachBound
<1>12. rails.receiptBindingsValid /\ rails.outputBytesResolved /\ rails.structuredResultsValid
  BY <1>1, <1>2, <1>3, <1>4, <1>11
<1>13. rails.candidateEvidenceValid
  <2>1. {c.digest : c \in declared.arms["BASELINE"].universe} \subseteq Corpus!Store
    BY StoreIs
  <2>2. universe = declared.arms["BASELINE"].universe
    BY <1>2 DEF universe
  <2>3. Corpus!Resolved(d.store, {c.digest : c \in universe})
    BY <1>2, <2>1, <2>2 DEF Corpus!Resolved
  <2> QED BY <1>1, <1>3, <2>2, <2>3
<1>14. rails.observationSemanticsValid /\ rails.resultSemanticsValid
  BY <1>1, <1>2, <1>3, <1>5
<1>15. \A rail \in DOMAIN rails : rails[rail]
  BY <1>1, <1>6, <1>7, <1>8, <1>9, <1>10, <1>12, <1>13, <1>14
<1> QED BY <1>15 DEF Corpus!AllTrue, Valid, rails, a, d

(* The artifact is replayed. *)
LEMMA ReplayStep ==
  ASSUME StudyInv, Corpus!Replay
  PROVE  StudyInv'
<1> DEFINE rails == Corpus!ArtifactRails(Corpus!Artifact, Corpus!Dossier)
<1>1. /\ stage = "EXECUTED" /\ stage' = "REPLAYED"
      /\ conclusion' = [result |-> Corpus!Artifact.result, failed |-> {r \in DOMAIN rails : ~rails[r]}]
      /\ mishap' = mishap /\ secrets' = secrets /\ commitment' = commitment /\ deficit' = deficit
      /\ reveal' = reveal /\ allocation' = allocation /\ declared' = declared /\ pinned' = pinned
      /\ behaviour' = behaviour /\ receipts' = receipts
  BY DEF Corpus!Replay, Corpus!documents
<1>2. conclusion'.failed = {} <=> Valid
  BY <1>1 DEF Valid, Corpus!AllTrue
<1>3. /\ Corpus!CommitmentTo(secrets)' = Corpus!CommitmentTo(secrets)
      /\ Corpus!Revealed' = Corpus!Revealed
      /\ Corpus!AllocationFor(reveal)' = Corpus!AllocationFor(reveal)
  BY <1>1, CommitmentStays, RevealStays, SplitStays
<1>4. /\ Corpus!Holdout' = Corpus!Holdout
      /\ Corpus!Declared(Corpus!Holdout, TRUE)' = Corpus!Declared(Corpus!Holdout, TRUE)
      /\ Corpus!DeclaredPlan' = Corpus!DeclaredPlan
  BY <1>1, PlanStays
<1>5. \A x : Corpus!ReceiptFor(x, behaviour)' = Corpus!ReceiptFor(x, behaviour)
  BY <1>1, ReceiptsStay
<1>6. Corpus!Judgement' = Corpus!Judgement
  BY <1>1, <1>4 DEF Corpus!Judgement, Corpus!Sound, Corpus!Caught
<1>7. ASSUME conclusion'.failed = {}
      PROVE  /\ mishap = "NONE" /\ conclusion'.result.status = Corpus!Judgement
             /\ Splits(CommittedSeed, Corpus!Holdout)
  <2>1. Replaying
    BY <1>1, <1>2, <1>7 DEF Replaying
  <2>2. conclusion'.result = Corpus!Artifact.result
    <3> HIDE DEF rails
    <3> QED BY <1>1
  <2> QED BY <2>1, <2>2, NothingWrong, StatusIs, SplitKept
<1>8. mishap = "NONE" => conclusion'.failed = {}
  BY <1>1, <1>2, UndisturbedValid DEF Undisturbed
<1>9. CommittedSeed' = CommittedSeed
  BY <1>1 DEF CommittedSeed
<1>10. Genuine'
  BY <1>1, <1>4, <1>6, <1>7, <1>8, <1>9 DEF Genuine
<1> HIDE DEF rails
<1> QED BY <1>1, <1>3, <1>4, <1>5, <1>10 DEF StudyInv

LEMMA StudyStep ==
  ASSUME StudyInv, Corpus!Next \/ UNCHANGED corpusVars
  PROVE  StudyInv'
BY CommitStep, RevealStep, DeclareStep, ExecuteStep, MishapStep, ReplayStep, EvaluateStep, StudyStays
   DEF Corpus!Next

-----------------------------------------------------------------------------
(* The theorems.                                                           *)

(* The inductive invariant: that of the one conclusion there is. *)
ConclusionsInv ==
  /\ subject = "selection" => SelectionInv
  /\ subject = "corpus" => EvaluationInv /\ StudyInv
  /\ subject = "runtime" => ProbesInv

LEMMA ConclusionsStart == EvidenceInit => ConclusionsInv
<1> SUFFICES ASSUME EvidenceInit PROVE ConclusionsInv
  OBVIOUS
<1>1. CASE subject = "selection"
  <2>1. Rounds!Init
    BY <1>1 DEF EvidenceInit
  <2> QED BY <1>1, <2>1, SelectionStart DEF ConclusionsInv
<1>2. CASE subject = "corpus"
  <2>1. Corpus!Init
    BY <1>2 DEF EvidenceInit
  <2> QED BY <1>2, <2>1, EvaluationStart, StudyStart DEF ConclusionsInv
<1>3. CASE subject = "runtime"
  <2>1. Runtime!Init
    BY <1>3 DEF EvidenceInit
  <2> QED BY <1>3, <2>1, ProbesStart DEF ConclusionsInv
<1> QED BY <1>1, <1>2, <1>3 DEF ConclusionsInv

LEMMA ConclusionsStep ==
  ConclusionsInv /\ [EvidenceNext]_<<subject, vars, corpusVars, roundVars, probeVars>> => ConclusionsInv'
<1> SUFFICES ASSUME ConclusionsInv,
                    [EvidenceNext]_<<subject, vars, corpusVars, roundVars, probeVars>>
             PROVE  ConclusionsInv'
  OBVIOUS
<1>1. /\ subject' = subject
      /\ subject = "selection" => [Rounds!Next]_roundVars
      /\ subject = "corpus" => [Corpus!Next]_corpusVars
      /\ subject = "runtime" => [Runtime!Next]_probeVars
  BY DEF EvidenceNext
<1>2. subject = "selection" => SelectionInv'
  BY <1>1, SelectionStep DEF ConclusionsInv
<1>3. subject = "corpus" => EvaluationInv' /\ StudyInv'
  BY <1>1, EvaluationStep, StudyStep DEF ConclusionsInv
<1>4. subject = "runtime" => ProbesInv'
  BY <1>1, ProbesStep DEF ConclusionsInv
<1> QED BY <1>1, <1>2, <1>3, <1>4 DEF ConclusionsInv

(* In every state of whatever is being concluded, its inductive invariant  *)
(* holds: of the greedy selection and of the experiment of                 *)
(* src/core/index.ts, of the evaluation of                                 *)
(* src/evaluation/agentic-corpus.ts, and of the probes of                  *)
(* src/engine/runtime-doctor.ts and src/engine/index.ts.                   *)
THEOREM ConclusionsInvariant == EvidenceSpec => []ConclusionsInv
<1>1. EvidenceInit => ConclusionsInv
  BY ConclusionsStart
<1>2. ConclusionsInv /\ [EvidenceNext]_<<subject, vars, corpusVars, roundVars, probeVars>> => ConclusionsInv'
  BY ConclusionsStep
<1> QED BY <1>1, <1>2, PTL DEF EvidenceSpec

(* The greedy loop, with its sorted rounds, early exit and budget, always  *)
(* ends with the one sequence of candidates of which each is the choice of *)
(* its round, and never ends before.                                       *)
THEOREM SelectedRightly == EvidenceSpec => []SelectsRightly
<1>1. ConclusionsInv => SelectsRightly
  BY SelectionHolds DEF ConclusionsInv, SelectsRightly
<1> QED BY <1>1, ConclusionsInvariant, PTL

(* What is evaluated of a corpus is vouched for by two subjects of the     *)
(* policy for each case, and counts every case once.                       *)
THEOREM EvaluatedVouched == EvidenceSpec => []EvaluatedIsVouched
<1>1. ConclusionsInv => EvaluatedIsVouched
  BY EvaluationHolds DEF ConclusionsInv, EvaluatedIsVouched
<1> QED BY <1>1, ConclusionsInvariant, PTL

(* The doctor, or a campaign, admits an executable only when nothing is    *)
(* left of the probes and, unless it was replaced meanwhile, only one that *)
(* is supported and credits exactly the genuine assertion failures; the    *)
(* identity it notes is of one executable; and the doctor blames the first *)
(* check at which something is wrong, and none when nothing is.            *)
THEOREM AdmissionEarned == EvidenceSpec => []AdmissionIsEarned
<1>1. ConclusionsInv => AdmissionIsEarned
  BY ProbesHold DEF ConclusionsInv, AdmissionIsEarned
<1> QED BY <1>1, ConclusionsInvariant, PTL

(* An artifact replays without a failed rail                               *)
(* (replayAgenticCorpusExperimentArtifact) exactly when nothing went wrong *)
(* between the commitment and the replay, whichever document could have    *)
(* been edited, exchanged, dropped or lost.  Its status is then what the   *)
(* suites really showed: inconclusive when one of them is flaky or broken, *)
(* and supported only without a loss on any single source.  And it is      *)
(* about the split that the committed shares determine                     *)
(* (createAgenticCorpusAllocation): of every source as many cases as were  *)
(* agreed on for calibration, some for the holdout, and none of the        *)
(* calibration with a higher score than one of the holdout.                *)
THEOREM VerdictGenuine == EvidenceSpec => []VerdictIsGenuine
<1>1. ConclusionsInv => VerdictIsGenuine
  <2> SUFFICES ASSUME ConclusionsInv, subject = "corpus"
               PROVE  Corpus!VerdictIsGenuine /\ Corpus!SplitIsCommitted
    BY DEF VerdictIsGenuine
  <2>1. stage = "REPLAYED" => Genuine
    BY DEF ConclusionsInv, StudyInv
  <2>2. Corpus!VerdictIsGenuine
    BY <2>1 DEF Genuine, Corpus!VerdictIsGenuine
  <2>3. ASSUME stage = "REPLAYED", conclusion.failed = {}
        PROVE  \A s \in DOMAIN Held :
                 /\ Corpus!Cardinality(Held[s] \ Corpus!Holdout) = Calibrated[s]
                 /\ Held[s] \cap Corpus!Holdout # {}
                 /\ \A c \in Held[s] \ Corpus!Holdout, d \in Held[s] \cap Corpus!Holdout :
                      Score(CommittedSeed, c) <= Score(CommittedSeed, d)
    <3>1. Splits(CommittedSeed, Corpus!Holdout)
      BY <2>1, <2>3 DEF Genuine
    <3> QED BY <3>1, CorpusCardinality DEF Splits
  <2> QED BY <2>2, <2>3 DEF Corpus!SplitIsCommitted, CommittedSeed
<1> QED BY <1>1, ConclusionsInvariant, PTL
=============================================================================
