---------------------------- MODULE Sums_proofs ----------------------------
(***************************************************************************)
(* Sums over finite sets: what SumFunctionOnSet of the community module    *)
(* Functions computes, for every function and finite set.                  *)
(*                                                                         *)
(* Its definition folds over the set in the order CHOOSE gives, through a  *)
(* table of the sums over all its subsets.  The first lemmas show that     *)
(* there is such a table, that two of them agree, and so that the sum over *)
(* a set begins with the element that is picked; the others, that any      *)
(* element may come first, and what follows from that.  In place of an     *)
(* induction over the set each of them looks at a minimal subset for which *)
(* it fails (LeastSubset).                                                 *)
(***************************************************************************)
EXTENDS Integers, FiniteSets, Functions, FiniteSetTheorems, WellFoundedInduction, TLAPS

(* The element that the fold takes first. *)
Pick(s) == CHOOSE x \in s : TRUE

(* g is the table of the sums of f over the subsets of S. *)
Tabulates(g, f, S) ==
  g = [s \in SUBSET S |-> IF s = {} THEN 0 ELSE f[Pick(s)] + g[s \ {Pick(s)}]]

(* The sum is read from such a table. *)
LEMMA SumIsTabulated ==
  ASSUME NEW f, NEW S
  PROVE  SumFunctionOnSet(f, S) = (CHOOSE g : Tabulates(g, f, S))[S]
BY DEF SumFunctionOnSet, FoldFunctionOnSet, MapThenFoldSet, Tabulates, Pick

(* A set of natural numbers has a least one. *)
LEMMA LeastNatural ==
  ASSUME NEW B, B \subseteq Nat, B # {}
  PROVE  \E n \in B : \A m \in B : n <= m
<1>1. PICK n \in B : \A m \in B : ~(<<m, n>> \in OpToRel(<, Nat))
  BY NatLessThanWellFounded, WFMin
<1>2. ASSUME NEW m \in B PROVE n <= m
  <2>1. m \in Nat /\ n \in Nat /\ <<m, n>> \in Nat \X Nat
    OBVIOUS
  <2>2. m < n => <<m, n>> \in OpToRel(<, Nat)
    BY <2>1 DEF OpToRel
  <2>3. ~(m < n)
    BY <2>2, <1>1
  <2> QED BY <2>1, <2>3
<1> QED BY <1>2

(* A function into the naturals has a least value on a set. *)
LEMMA LeastExists ==
  ASSUME NEW S, S # {}, NEW f, \A x \in S : f[x] \in Nat
  PROVE  \E x \in S : \A y \in S : f[x] <= f[y]
<1> DEFINE values == {f[x] : x \in S}
<1>1. values \subseteq Nat /\ values # {}
  OBVIOUS
<1>2. PICK least \in values : \A v \in values : least <= v
  <2> HIDE DEF values
  <2> QED BY <1>1, LeastNatural
<1>3. PICK x \in S : f[x] = least
  BY <1>2
<1> QED BY <1>2, <1>3

(* Of any subsets of a finite set, one is minimal. *)
LEMMA LeastSubset ==
  ASSUME NEW S, IsFiniteSet(S), NEW B, B \subseteq SUBSET S, B # {}
  PROVE  \E s \in B : \A t \in B : t \subseteq s => t = s
<1> DEFINE sizes == {Cardinality(s) : s \in B}
<1>1. \A s \in B : IsFiniteSet(s) /\ Cardinality(s) \in Nat
  BY FS_Subset, FS_CardinalityType
<1>2. sizes \subseteq Nat /\ sizes # {}
  BY <1>1
<1>3. PICK n \in sizes : \A m \in sizes : n <= m
  BY <1>2, LeastNatural
<1>4. PICK s \in B : Cardinality(s) = n
  BY <1>3
<1>5. ASSUME NEW t \in B, t \subseteq s PROVE t = s
  <2>1. Cardinality(s) <= Cardinality(t)
    BY <1>3, <1>4
  <2>2. Cardinality(t) <= Cardinality(s) /\ (Cardinality(s) = Cardinality(t) => s = t)
    BY <1>1, <1>5, FS_Subset
  <2> QED BY <2>1, <2>2, <1>1
<1> QED BY <1>5

(* What is picked is in the set. *)
LEMMA Picked ==
  ASSUME NEW s, s # {}
  PROVE  Pick(s) \in s
BY DEF Pick

(* What a table holds for one set. *)
LEMMA TableAt ==
  ASSUME NEW g, NEW f, NEW S, Tabulates(g, f, S), NEW s \in SUBSET S
  PROVE  g[s] = IF s = {} THEN 0 ELSE f[Pick(s)] + g[s \ {Pick(s)}]
<1> DEFINE entry(h, t) == IF t = {} THEN 0 ELSE f[Pick(t)] + h[t \ {Pick(t)}]
<1>1. g = [t \in SUBSET S |-> entry(g, t)]
  BY DEF Tabulates
<1> HIDE DEF entry
<1>2. g[s] = entry(g, s)
  BY <1>1
<1> QED BY <1>2 DEF entry

(* Two tables agree where both of them are defined. *)
LEMMA TablesAgree ==
  ASSUME NEW f, NEW S, NEW T, NEW g, NEW h, Tabulates(g, f, S), Tabulates(h, f, T),
         IsFiniteSet(S), NEW s \in SUBSET S, s \in SUBSET T
  PROVE  g[s] = h[s]
<1> DEFINE bad == {t \in SUBSET S : t \subseteq T /\ g[t] # h[t]}
<1> SUFFICES ASSUME bad # {} PROVE FALSE
  OBVIOUS
<1>0. bad \subseteq SUBSET S
  OBVIOUS
<1>1. PICK t \in bad : \A u \in bad : u \subseteq t => u = t
  <2> HIDE DEF bad
  <2> QED BY <1>0, LeastSubset
<1>2. t # {}
  BY TableAt
<1>3. Pick(t) \in t
  BY <1>2, Picked
<1>4. g[t \ {Pick(t)}] = h[t \ {Pick(t)}]
  BY <1>1, <1>3
<1> QED BY <1>1, <1>2, <1>4, TableAt

(* Every finite set has its table: the first n levels have one, for        *)
(* every n.                                                                *)
LEMMA TableExists ==
  ASSUME NEW f, NEW S, IsFiniteSet(S)
  PROVE  \E g : Tabulates(g, f, S)
<1> DEFINE entry(h, t) == IF t = {} THEN 0 ELSE f[Pick(t)] + h[t \ {Pick(t)}]
           upTo(n, g) == \A t \in SUBSET S : Cardinality(t) <= n => g[t] = entry(g, t)
           missing == {n \in Nat : ~ \E g : DOMAIN g = SUBSET S /\ g = [t \in SUBSET S |-> g[t]] /\ upTo(n, g)}
<1>0. \A t \in SUBSET S : IsFiniteSet(t) /\ Cardinality(t) \in Nat
  BY FS_Subset, FS_CardinalityType
<1>1. ASSUME NEW n \in Nat PROVE \E g : DOMAIN g = SUBSET S /\ g = [t \in SUBSET S |-> g[t]] /\ upTo(n, g)
  <2>1. SUFFICES ASSUME missing # {} PROVE FALSE
    OBVIOUS
  <2>2. PICK k \in missing : \A m \in missing : k <= m
    BY <2>1, LeastNatural
  <2> HIDE DEF upTo
  <2>3. k # 0
    <3> DEFINE g == [t \in SUBSET S |-> 0]
    <3>1. \A t \in SUBSET S : Cardinality(t) <= 0 => t = {}
      BY <1>0, FS_EmptySet
    <3>2. upTo(0, g)
      BY <3>1 DEF upTo
    <3>3. DOMAIN g = SUBSET S /\ g = [t \in SUBSET S |-> g[t]]
      OBVIOUS
    <3> QED BY <3>2, <3>3
  <2>4. k - 1 \in Nat /\ k - 1 \notin missing
    <3>1. k \in Nat
      BY <2>2
    <3>2. k - 1 \in Nat /\ ~(k <= k - 1)
      BY <3>1, <2>3
    <3> HIDE DEF missing
    <3> QED BY <3>2, <2>2
  <2>5. PICK g : DOMAIN g = SUBSET S /\ g = [t \in SUBSET S |-> g[t]] /\ upTo(k - 1, g)
    BY <2>4
  <2> DEFINE h == [t \in SUBSET S |-> entry(g, t)]
  <2>6. upTo(k, h)
    <3> SUFFICES ASSUME NEW t \in SUBSET S, Cardinality(t) <= k PROVE h[t] = entry(h, t)
      BY DEF upTo
    <3>1. CASE t = {}
      BY <3>1
    <3>2. CASE t # {}
      <4>1. Pick(t) \in t
        BY <3>2, Picked
      <4> DEFINE u == t \ {Pick(t)}
      <4>2. u \in SUBSET S /\ Cardinality(u) <= k - 1
        BY <4>1, <1>0, FS_RemoveElement
      <4>3. h[u] = entry(g, u) /\ g[u] = entry(g, u)
        BY <4>2, <2>5 DEF upTo
      <4> QED BY <4>3, <3>2
    <3> QED BY <3>1, <3>2
  <2>7. DOMAIN h = SUBSET S /\ h = [t \in SUBSET S |-> h[t]]
    OBVIOUS
  <2> QED BY <2>6, <2>7, <2>2
<1>2. Cardinality(S) \in Nat /\ \A t \in SUBSET S : Cardinality(t) <= Cardinality(S)
  BY FS_Subset, FS_CardinalityType
<1>3. PICK g : DOMAIN g = SUBSET S /\ g = [t \in SUBSET S |-> g[t]] /\ upTo(Cardinality(S), g)
  BY <1>1, <1>2
<1>4. \A t \in SUBSET S : g[t] = entry(g, t)
  BY <1>2, <1>3
<1> HIDE DEF entry
<1>5. g = [t \in SUBSET S |-> entry(g, t)]
  BY <1>3, <1>4
<1>6. Tabulates(g, f, S)
  BY <1>5 DEF entry, Tabulates
<1> QED BY <1>6

(* The sum over a set, from any of its tables. *)
LEMMA SumFromTable ==
  ASSUME NEW f, NEW S, IsFiniteSet(S), NEW g, Tabulates(g, f, S), NEW s \in SUBSET S
  PROVE  SumFunctionOnSet(f, s) = g[s]
<1>1. IsFiniteSet(s)
  BY FS_Subset
<1>2. Tabulates(CHOOSE h : Tabulates(h, f, s), f, s)
  BY <1>1, TableExists
<1>3. (CHOOSE h : Tabulates(h, f, s))[s] = g[s]
  BY <1>1, <1>2, TablesAgree
<1> QED BY <1>3, SumIsTabulated

(* The sum over the empty set. *)
LEMMA SumOfNone ==
  ASSUME NEW f
  PROVE  SumFunctionOnSet(f, {}) = 0
<1>1. IsFiniteSet({})
  BY FS_EmptySet
<1>2. PICK g : Tabulates(g, f, {})
  BY <1>1, TableExists
<1>3. g[{}] = 0
  BY <1>2, TableAt
<1> QED BY <1>1, <1>2, <1>3, SumFromTable

(* The sum over any other set begins with the element that is picked. *)
LEMMA SumFromPicked ==
  ASSUME NEW f, NEW S, IsFiniteSet(S), S # {}
  PROVE  SumFunctionOnSet(f, S) = f[Pick(S)] + SumFunctionOnSet(f, S \ {Pick(S)})
<1>1. PICK g : Tabulates(g, f, S)
  BY TableExists
<1>2. g[S] = f[Pick(S)] + g[S \ {Pick(S)}]
  BY <1>1, TableAt
<1>3. SumFunctionOnSet(f, S) = g[S]
  BY <1>1, SumFromTable
<1>4. SumFunctionOnSet(f, S \ {Pick(S)}) = g[S \ {Pick(S)}]
  BY <1>1, SumFromTable
<1> QED BY <1>2, <1>3, <1>4

(* A sum of integers is one. *)
LEMMA SumIsInteger ==
  ASSUME NEW f, NEW S, IsFiniteSet(S), \A x \in S : f[x] \in Int
  PROVE  SumFunctionOnSet(f, S) \in Int
<1> DEFINE bad == {t \in SUBSET S : SumFunctionOnSet(f, t) \notin Int}
<1> SUFFICES ASSUME bad # {} PROVE FALSE
  OBVIOUS
<1>0. bad \subseteq SUBSET S
  OBVIOUS
<1>1. PICK t \in bad : \A u \in bad : u \subseteq t => u = t
  <2> HIDE DEF bad
  <2> QED BY <1>0, LeastSubset
<1>2. t # {}
  BY SumOfNone
<1>3. Pick(t) \in t /\ IsFiniteSet(t)
  BY <1>2, Picked, FS_Subset
<1>4. SumFunctionOnSet(f, t \ {Pick(t)}) \in Int
  BY <1>1, <1>3
<1> QED BY <1>1, <1>2, <1>3, <1>4, SumFromPicked

(* Any element of the set may come first. *)
LEMMA SumWithout ==
  ASSUME NEW f, NEW S, IsFiniteSet(S), \A x \in S : f[x] \in Int, NEW x \in S
  PROVE  SumFunctionOnSet(f, S) = f[x] + SumFunctionOnSet(f, S \ {x})
<1> DEFINE from(t, y) == SumFunctionOnSet(f, t) = f[y] + SumFunctionOnSet(f, t \ {y})
           bad == {t \in SUBSET S : \E y \in t : ~from(t, y)}
<1> SUFFICES ASSUME bad # {} PROVE FALSE
  OBVIOUS
<1>0. bad \subseteq SUBSET S
  OBVIOUS
<1>1. PICK t \in bad : \A u \in bad : u \subseteq t => u = t
  <2> HIDE DEF bad
  <2> QED BY <1>0, LeastSubset
<1>2. PICK y \in t : ~from(t, y)
  BY <1>1
<1> DEFINE p == Pick(t)
<1>3. p \in t /\ IsFiniteSet(t)
  BY <1>2, Picked, FS_Subset
<1>4. from(t, p)
  BY <1>2, <1>3, SumFromPicked
<1>5. y # p
  BY <1>2, <1>4
<1> HIDE DEF p, from
<1>6. from(t \ {p}, y) /\ from(t \ {y}, p)
  <2>1. t \ {p} \in SUBSET S /\ t \ {y} \in SUBSET S /\ t \ {p} # t /\ t \ {y} # t
    BY <1>2, <1>3
  <2>2. t \ {p} \notin bad /\ t \ {y} \notin bad
    BY <2>1, <1>1
  <2> QED BY <2>1, <2>2, <1>2, <1>3, <1>5
<1>7. (t \ {p}) \ {y} = (t \ {y}) \ {p}
  OBVIOUS
<1>8. f[y] \in Int /\ f[p] \in Int /\ SumFunctionOnSet(f, (t \ {p}) \ {y}) \in Int
  <2>1. IsFiniteSet((t \ {p}) \ {y}) /\ \A z \in (t \ {p}) \ {y} : f[z] \in Int
    BY <1>3, FS_RemoveElement
  <2> QED BY <2>1, SumIsInteger, <1>2, <1>3
<1> QED BY <1>2, <1>4, <1>6, <1>7, <1>8 DEF from

(* The same with an element that is added. *)
LEMMA SumWith ==
  ASSUME NEW f, NEW S, IsFiniteSet(S), NEW x, x \notin S, \A y \in S \cup {x} : f[y] \in Int
  PROVE  SumFunctionOnSet(f, S \cup {x}) = f[x] + SumFunctionOnSet(f, S)
<1>1. IsFiniteSet(S \cup {x})
  BY FS_AddElement
<1>2. (S \cup {x}) \ {x} = S
  OBVIOUS
<1> QED BY <1>1, <1>2, SumWithout

(* Functions that agree on a set have the same sum over it. *)
LEMMA SumOfEqual ==
  ASSUME NEW f, NEW g, NEW S, IsFiniteSet(S), \A x \in S : f[x] = g[x]
  PROVE  SumFunctionOnSet(f, S) = SumFunctionOnSet(g, S)
<1> DEFINE bad == {t \in SUBSET S : SumFunctionOnSet(f, t) # SumFunctionOnSet(g, t)}
<1> SUFFICES ASSUME bad # {} PROVE FALSE
  OBVIOUS
<1>0. bad \subseteq SUBSET S
  OBVIOUS
<1>1. PICK t \in bad : \A u \in bad : u \subseteq t => u = t
  <2> HIDE DEF bad
  <2> QED BY <1>0, LeastSubset
<1>2. t # {}
  BY SumOfNone
<1>3. Pick(t) \in t /\ IsFiniteSet(t)
  BY <1>2, Picked, FS_Subset
<1>4. SumFunctionOnSet(f, t \ {Pick(t)}) = SumFunctionOnSet(g, t \ {Pick(t)})
  BY <1>1, <1>3
<1>5. f[Pick(t)] = g[Pick(t)]
  BY <1>3
<1> QED BY <1>1, <1>2, <1>3, <1>4, <1>5, SumFromPicked

(* A sum of zeros is zero. *)
LEMMA SumOfZeros ==
  ASSUME NEW f, NEW S, IsFiniteSet(S), \A x \in S : f[x] = 0
  PROVE  SumFunctionOnSet(f, S) = 0
<1> DEFINE bad == {t \in SUBSET S : SumFunctionOnSet(f, t) # 0}
<1> SUFFICES ASSUME bad # {} PROVE FALSE
  OBVIOUS
<1>0. bad \subseteq SUBSET S
  OBVIOUS
<1>1. PICK t \in bad : \A u \in bad : u \subseteq t => u = t
  <2> HIDE DEF bad
  <2> QED BY <1>0, LeastSubset
<1>2. t # {}
  BY SumOfNone
<1>3. Pick(t) \in t /\ IsFiniteSet(t)
  BY <1>2, Picked, FS_Subset
<1>4. SumFunctionOnSet(f, t \ {Pick(t)}) = 0
  BY <1>1, <1>3
<1>5. f[Pick(t)] = 0
  BY <1>3
<1> QED BY <1>1, <1>2, <1>3, <1>4, <1>5, SumFromPicked

(* A sum of natural numbers is one. *)
LEMMA SumIsNatural ==
  ASSUME NEW f, NEW S, IsFiniteSet(S), \A x \in S : f[x] \in Nat
  PROVE  SumFunctionOnSet(f, S) \in Nat
<1> DEFINE bad == {t \in SUBSET S : SumFunctionOnSet(f, t) \notin Nat}
<1> SUFFICES ASSUME bad # {} PROVE FALSE
  OBVIOUS
<1>0. bad \subseteq SUBSET S
  OBVIOUS
<1>1. PICK t \in bad : \A u \in bad : u \subseteq t => u = t
  <2> HIDE DEF bad
  <2> QED BY <1>0, LeastSubset
<1>2. t # {}
  BY SumOfNone
<1>3. Pick(t) \in t /\ IsFiniteSet(t)
  BY <1>2, Picked, FS_Subset
<1>4. SumFunctionOnSet(f, t \ {Pick(t)}) \in Nat
  BY <1>1, <1>3
<1> QED BY <1>1, <1>2, <1>3, <1>4, SumFromPicked

(* It is at least each of them. *)
LEMMA SumAtLeast ==
  ASSUME NEW f, NEW S, IsFiniteSet(S), \A x \in S : f[x] \in Nat, NEW x \in S
  PROVE  SumFunctionOnSet(f, S) \in Nat /\ SumFunctionOnSet(f, S) >= f[x]
<1>1. SumFunctionOnSet(f, S) = f[x] + SumFunctionOnSet(f, S \ {x})
  BY SumWithout
<1>2. IsFiniteSet(S \ {x})
  BY FS_RemoveElement
<1>3. SumFunctionOnSet(f, S \ {x}) \in Nat
  BY <1>2, SumIsNatural
<1> QED BY <1>1, <1>3

(* What is split into parts has as many elements as its parts together. *)
LEMMA SumOfParts ==
  ASSUME NEW f, NEW S, IsFiniteSet(S), NEW part,
         \A x \in S : IsFiniteSet(part[x]) /\ f[x] = Cardinality(part[x]),
         \A x, y \in S : x # y => part[x] \cap part[y] = {}
  PROVE  /\ IsFiniteSet(UNION {part[x] : x \in S})
         /\ Cardinality(UNION {part[x] : x \in S}) = SumFunctionOnSet(f, S)
<1> DEFINE whole(t) == UNION {part[x] : x \in t}
           holds(t) == IsFiniteSet(whole(t)) /\ Cardinality(whole(t)) = SumFunctionOnSet(f, t)
           bad == {t \in SUBSET S : ~holds(t)}
<1> SUFFICES ASSUME bad # {} PROVE FALSE
  <2>1. bad = {} => holds(S)
    OBVIOUS
  <2> QED BY <2>1
<1>0. bad \subseteq SUBSET S
  OBVIOUS
<1>1. PICK t \in bad : \A u \in bad : u \subseteq t => u = t
  <2> HIDE DEF bad
  <2> QED BY <1>0, LeastSubset
<1>2. t # {}
  <2>1. whole({}) = {}
    OBVIOUS
  <2>2. holds({})
    <3> HIDE DEF whole
    <3> QED BY <2>1, SumOfNone, FS_EmptySet
  <2> QED BY <2>2
<1>3. Pick(t) \in t /\ IsFiniteSet(t)
  BY <1>2, Picked, FS_Subset
<1> DEFINE x == Pick(t)
           rest == t \ {x}
<1>4. holds(rest)
  <2>1. rest \in SUBSET S /\ rest \subseteq t /\ rest # t
    BY <1>3
  <2> HIDE DEF holds, rest
  <2> QED BY <1>1, <2>1
<1>5. whole(t) = whole(rest) \cup part[x] /\ whole(rest) \cap part[x] = {}
  BY <1>3
<1>6. IsFiniteSet(part[x]) /\ f[x] = Cardinality(part[x]) /\ Cardinality(part[x]) \in Nat
  BY <1>3, FS_CardinalityType
<1>7. SumFunctionOnSet(f, t) = f[x] + SumFunctionOnSet(f, rest)
  BY <1>2, <1>3, SumFromPicked
<1>8. ~holds(t)
  OBVIOUS
<1>9. /\ IsFiniteSet(whole(rest)) /\ Cardinality(whole(rest)) = SumFunctionOnSet(f, rest)
      /\ Cardinality(whole(rest)) \in Nat
  BY <1>4, FS_CardinalityType
<1> HIDE DEF whole, x, rest
<1>10. IsFiniteSet(whole(t)) /\ Cardinality(whole(t)) = Cardinality(whole(rest)) + Cardinality(part[x])
  <2>1. Cardinality(whole(rest) \cap part[x]) = 0
    BY <1>5, FS_EmptySet
  <2>2. /\ IsFiniteSet(whole(rest) \cup part[x])
        /\ Cardinality(whole(rest) \cup part[x]) =
              Cardinality(whole(rest)) + Cardinality(part[x]) - Cardinality(whole(rest) \cap part[x])
    BY <1>6, <1>9, FS_Union
  <2> QED BY <1>5, <1>6, <1>9, <2>1, <2>2
<1>11. holds(t)
  BY <1>6, <1>7, <1>9, <1>10
<1> QED BY <1>8, <1>11

(* Equal values add up to a product. *)
LEMMA SumOfSame ==
  ASSUME NEW f, NEW S, IsFiniteSet(S), NEW v \in Nat, \A x \in S : f[x] = v
  PROVE  SumFunctionOnSet(f, S) = v * Cardinality(S)
<1> DEFINE bad == {t \in SUBSET S : SumFunctionOnSet(f, t) # v * Cardinality(t)}
<1> SUFFICES ASSUME bad # {} PROVE FALSE
  OBVIOUS
<1>0. bad \subseteq SUBSET S
  OBVIOUS
<1>1. PICK t \in bad : \A u \in bad : u \subseteq t => u = t
  <2> HIDE DEF bad
  <2> QED BY <1>0, LeastSubset
<1>2. t # {}
  <2>1. SumFunctionOnSet(f, {}) = 0 /\ Cardinality({}) = 0
    BY SumOfNone, FS_EmptySet
  <2> QED BY <2>1
<1>3. Pick(t) \in t /\ IsFiniteSet(t) /\ Pick(t) \in S
  BY <1>2, Picked, FS_Subset
<1> DEFINE rest == t \ {Pick(t)}
<1>4. SumFunctionOnSet(f, rest) = v * Cardinality(rest)
  BY <1>1, <1>3
<1>5. Cardinality(rest) = Cardinality(t) - 1 /\ Cardinality(t) \in Nat
  BY <1>3, FS_RemoveElement, FS_CardinalityType
<1>6. SumFunctionOnSet(f, t) = v + SumFunctionOnSet(f, rest)
  BY <1>2, <1>3, SumFromPicked
<1> HIDE DEF rest
<1>7. \A n \in Nat : v + v * (n - 1) = v * n
  OBVIOUS
<1>8. SumFunctionOnSet(f, t) = v * Cardinality(t)
  BY <1>4, <1>5, <1>6, <1>7
<1> QED BY <1>8
=============================================================================
