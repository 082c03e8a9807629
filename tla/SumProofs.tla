------------------------------ MODULE SumProofs ------------------------------
(***************************************************************************)
(* Facts about sums over finite sets, for the proofs that a wallet's       *)
(* pending_amount covers the reservations made on it.  SumOf is a fold, a  *)
(* function defined by recursion on subsets.  An induction on the size of  *)
(* a set is a choice of the least natural number that is a counterexample. *)
(***************************************************************************)
EXTENDS Sums, FiniteSetTheorems, WellFoundedInduction, TLAPS

LEMMA NatLeast ==
  ASSUME NEW B, B \subseteq Nat, B # {}
  PROVE  \E n \in B : \A m \in B : n <= m
<1>1. \E n \in B : \A m \in B : ~(<<m, n>> \in OpToRel(<, Nat))
  BY NatLessThanWellFounded, WFMin
<1>2. PICK n \in B : \A m \in B : ~(<<m, n>> \in OpToRel(<, Nat))
  BY <1>1
<1>3. \A m \in B : m \in Nat /\ n \in Nat /\ ~(m < n)
  BY <1>2 DEF OpToRel
<1> QED
  BY <1>3

-----------------------------------------------------------------------------
(* The recursion equation. *)

Pick(s) == CHOOSE x \in s : TRUE

Body(f, g, s) == IF s = {} THEN 0 ELSE f[Pick(s)] + g[s \ {Pick(s)}]

Fold(f, S) == CHOOSE g : g = [s \in SUBSET S |-> Body(f, g, s)]

LEMMA SumIsFold == \A f, S : SumOf(f, S) = Fold(f, S)[S]
BY DEF SumOf, MapThenSumSet, MapThenFoldSet, Fold, Body, Pick

LEMMA PickIsIn == \A s : s # {} => Pick(s) \in s
BY DEF Pick

LEMMA Smaller ==
  ASSUME NEW s, IsFiniteSet(s), NEW x \in s
  PROVE  /\ IsFiniteSet(s \ {x}) /\ Cardinality(s \ {x}) = Cardinality(s) - 1
         /\ Cardinality(s) \in Nat /\ Cardinality(s \ {x}) \in Nat
BY FS_RemoveElement, FS_CardinalityType

(* Up to any size there is a function that satisfies the equation. *)
UpTo(f, S, n, g) ==
  /\ g = [s \in SUBSET S |-> g[s]]
  /\ \A s \in SUBSET S : Cardinality(s) <= n => g[s] = Body(f, g, s)

LEMMA UpToNext ==
  ASSUME NEW f, NEW S, IsFiniteSet(S), NEW n \in Nat, NEW g, UpTo(f, S, n, g)
  PROVE  \E h : UpTo(f, S, n + 1, h)
<1> DEFINE h == [s \in SUBSET S |-> IF Cardinality(s) <= n THEN g[s] ELSE Body(f, g, s)]
<1>1. ASSUME NEW s \in SUBSET S, Cardinality(s) <= n + 1
      PROVE  h[s] = Body(f, h, s)
  <2>1. IsFiniteSet(s) /\ Cardinality(s) \in Nat
    BY FS_Subset, FS_CardinalityType
  <2>2. h[s] = Body(f, g, s)
    BY DEF UpTo
  <2>3. CASE s = {}
    BY <2>2, <2>3 DEF Body
  <2>4. CASE s # {}
    <3> DEFINE t == s \ {Pick(s)}
    <3>1. t \in SUBSET S /\ Cardinality(t) <= n
      BY <1>1, <2>1, <2>4, PickIsIn, Smaller
    <3>2. h[t] = g[t]
      BY <3>1
    <3> QED
      BY <2>2, <2>4, <3>2 DEF Body
  <2> QED
    BY <2>3, <2>4
<1>2. h = [s \in SUBSET S |-> h[s]]
  OBVIOUS
<1>3. UpTo(f, S, n + 1, h)
  BY <1>1, <1>2 DEF UpTo
<1> QED
  BY <1>3

LEMMA UpToAll ==
  ASSUME NEW f, NEW S, IsFiniteSet(S), NEW n \in Nat
  PROVE  \E g : UpTo(f, S, n, g)
<1> DEFINE Bad == {m \in Nat : ~\E g : UpTo(f, S, m, g)}
<1>1. SUFFICES ASSUME Bad # {} PROVE FALSE
  OBVIOUS
<1>2. PICK m \in Bad : \A k \in Bad : m <= k
  BY <1>1, NatLeast
<1>3. 0 \notin Bad
  <2> DEFINE g == [s \in SUBSET S |-> 0]
  <2>1. ASSUME NEW s \in SUBSET S, Cardinality(s) <= 0 PROVE g[s] = Body(f, g, s)
    <3>1. IsFiniteSet(s) /\ Cardinality(s) \in Nat
      BY FS_Subset, FS_CardinalityType
    <3>2. s = {}
      BY <2>1, <3>1, FS_EmptySet
    <3> QED
      BY <3>2 DEF Body
  <2>2. g = [s \in SUBSET S |-> g[s]]
    OBVIOUS
  <2>3. UpTo(f, S, 0, g)
    BY <2>1, <2>2 DEF UpTo
  <2> QED
    BY <2>3
<1>4. m \in Nat /\ m # 0 /\ m - 1 \in Nat /\ m - 1 \notin Bad
  <2>1. m \in Nat /\ m # 0
    BY <1>3
  <2>2. m - 1 \in Nat /\ ~(m <= m - 1)
    BY <2>1
  <2> QED
    BY <1>2, <2>1, <2>2
<1>5. PICK g : UpTo(f, S, m - 1, g)
  BY <1>4
<1>6. \E h : UpTo(f, S, (m - 1) + 1, h)
  BY <1>4, <1>5, UpToNext
<1>7. (m - 1) + 1 = m
  BY <1>4
<1> QED
  BY <1>6, <1>7

LEMMA FoldEquation ==
  ASSUME NEW f, NEW S, IsFiniteSet(S)
  PROVE  \A s \in SUBSET S : Fold(f, S)[s] = Body(f, Fold(f, S), s)
<1>1. Cardinality(S) \in Nat /\ \A s \in SUBSET S : Cardinality(s) <= Cardinality(S)
  BY FS_CardinalityType, FS_Subset
<1>2. PICK g : UpTo(f, S, Cardinality(S), g)
  BY <1>1, UpToAll
<1>3. \A s \in SUBSET S : g[s] = Body(f, g, s)
  BY <1>1, <1>2 DEF UpTo
<1>4. g = [s \in SUBSET S |-> g[s]]
  BY <1>2 DEF UpTo
<1>5. g = [s \in SUBSET S |-> Body(f, g, s)]
  BY <1>3, <1>4
<1>6. Fold(f, S) = [s \in SUBSET S |-> Body(f, Fold(f, S), s)]
  BY <1>5 DEF Fold
<1> HIDE DEF Fold
<1> QED
  BY <1>6

-----------------------------------------------------------------------------
(* Induction on finite sets. *)

LEMMA Minimal ==
  ASSUME NEW C, \A s \in C : IsFiniteSet(s), C # {}
  PROVE  \E s \in C : \A x \in s : s \ {x} \notin C
<1> DEFINE B == {Cardinality(s) : s \in C}
<1>1. B \subseteq Nat /\ B # {}
  BY FS_CardinalityType
<1>2. PICK n \in B : \A m \in B : n <= m
  BY <1>1, NatLeast
<1>3. PICK s \in C : n = Cardinality(s)
  OBVIOUS
<1>4. ASSUME NEW x \in s, s \ {x} \in C PROVE FALSE
  <2>1. n <= Cardinality(s \ {x})
    BY <1>2, <1>4
  <2>2. Cardinality(s) \in Nat /\ Cardinality(s \ {x}) = Cardinality(s) - 1
    BY Smaller
  <2> QED
    BY <1>3, <2>1, <2>2
<1> QED
  BY <1>4

LEMMA FoldSame ==
  ASSUME NEW f, NEW S, IsFiniteSet(S), NEW T, T \subseteq S
  PROVE  Fold(f, T)[T] = Fold(f, S)[T]
<1> DEFINE C == {s \in SUBSET T : Fold(f, T)[s] # Fold(f, S)[s]}
<1>1. SUFFICES ASSUME C # {} PROVE FALSE
  OBVIOUS
<1>2. IsFiniteSet(T) /\ \A s \in C : IsFiniteSet(s)
  BY FS_Subset
<1>3. PICK s \in C : \A x \in s : s \ {x} \notin C
  <2> HIDE DEF C
  <2> QED
    BY <1>1, <1>2, Minimal
<1>4. /\ Fold(f, T)[s] = Body(f, Fold(f, T), s)
      /\ Fold(f, S)[s] = Body(f, Fold(f, S), s)
  BY <1>2, FoldEquation
<1>5. s # {} => Fold(f, T)[s \ {Pick(s)}] = Fold(f, S)[s \ {Pick(s)}]
  BY <1>3, PickIsIn
<1> QED
  BY <1>3, <1>4, <1>5 DEF Body

LEMMA SumEmpty == ASSUME NEW f PROVE SumOf(f, {}) = 0
<1>1. IsFiniteSet({}) /\ {} \in SUBSET {}
  BY FS_EmptySet
<1>2. Fold(f, {})[{}] = Body(f, Fold(f, {}), {})
  BY <1>1, FoldEquation
<1> QED
  BY <1>2, SumIsFold DEF Body

LEMMA SumStep ==
  ASSUME NEW f, NEW S, IsFiniteSet(S), S # {}
  PROVE  SumOf(f, S) = f[Pick(S)] + SumOf(f, S \ {Pick(S)})
<1>1. Fold(f, S)[S] = Body(f, Fold(f, S), S)
  BY FoldEquation
<1>2. Fold(f, S)[S \ {Pick(S)}] = SumOf(f, S \ {Pick(S)})
  <2>1. S \ {Pick(S)} \subseteq S
    OBVIOUS
  <2> QED
    BY <2>1, FoldSame, SumIsFold
<1> QED
  BY <1>1, <1>2, SumIsFold DEF Body

-----------------------------------------------------------------------------
(* What the proofs use. *)

LEMMA SumNat ==
  ASSUME NEW f, NEW S, IsFiniteSet(S), \A x \in S : f[x] \in Nat
  PROVE  SumOf(f, S) \in Nat
<1> DEFINE C == {s \in SUBSET S : SumOf(f, s) \notin Nat}
<1>1. SUFFICES ASSUME C # {} PROVE FALSE
  OBVIOUS
<1>2. \A s \in C : IsFiniteSet(s)
  BY FS_Subset
<1>3. PICK s \in C : \A x \in s : s \ {x} \notin C
  <2> HIDE DEF C
  <2> QED
    BY <1>1, <1>2, Minimal
<1>4. CASE s = {}
  BY <1>3, <1>4, SumEmpty
<1>5. CASE s # {}
  <2>1. Pick(s) \in s /\ f[Pick(s)] \in Nat
    BY <1>5, PickIsIn
  <2>2. SumOf(f, s \ {Pick(s)}) \in Nat
    BY <1>3, <2>1
  <2>3. SumOf(f, s) = f[Pick(s)] + SumOf(f, s \ {Pick(s)})
    BY <1>2, <1>5, SumStep
  <2> QED
    BY <2>1, <2>2, <2>3
<1> QED
  BY <1>4, <1>5

LEMMA SumRemove ==
  ASSUME NEW f, NEW S, IsFiniteSet(S), \A y \in S : f[y] \in Nat, NEW x \in S
  PROVE  SumOf(f, S) = f[x] + SumOf(f, S \ {x})
<1> DEFINE C == {s \in SUBSET S : \E y \in s : SumOf(f, s) # f[y] + SumOf(f, s \ {y})}
<1>1. SUFFICES ASSUME C # {} PROVE FALSE
  OBVIOUS
<1>2. \A s \in SUBSET S : IsFiniteSet(s)
  BY FS_Subset
<1>3. PICK s \in C : \A y \in s : s \ {y} \notin C
  <2>1. \A s \in C : IsFiniteSet(s)
    BY <1>2
  <2> HIDE DEF C
  <2> QED
    BY <1>1, <2>1, Minimal
<1>4. PICK y \in s : SumOf(f, s) # f[y] + SumOf(f, s \ {y})
  BY <1>3
<1> DEFINE p == Pick(s)
<1>5. p \in s /\ SumOf(f, s) = f[p] + SumOf(f, s \ {p})
  BY <1>2, <1>3, <1>4, PickIsIn, SumStep
<1>6. p # y
  BY <1>4, <1>5
<1> HIDE DEF p
<1> DEFINE r == (s \ {p}) \ {y}
<1>7. SumOf(f, s \ {p}) = f[y] + SumOf(f, r)
  <2>1. s \ {p} \notin C /\ y \in s \ {p}
    BY <1>3, <1>5, <1>6
  <2> QED
    BY <2>1
<1>8. SumOf(f, s \ {y}) = f[p] + SumOf(f, r)
  <2>1. s \ {y} \notin C /\ p \in s \ {y}
    BY <1>3, <1>5, <1>6
  <2>2. (s \ {y}) \ {p} = r
    OBVIOUS
  <2> QED
    BY <2>1, <2>2
<1>9. f[p] \in Nat /\ f[y] \in Nat /\ SumOf(f, r) \in Nat
  <2>1. r \in SUBSET S
    OBVIOUS
  <2>2. SumOf(f, r) \in Nat
    <3> HIDE DEF r
    <3> QED
      BY <1>2, <2>1, SumNat
  <2> QED
    BY <1>5, <2>2
<1> QED
  BY <1>4, <1>5, <1>7, <1>8, <1>9

LEMMA SumAdd ==
  ASSUME NEW f, NEW S, IsFiniteSet(S), \A y \in S : f[y] \in Nat,
         NEW x, x \notin S, f[x] \in Nat
  PROVE  /\ SumOf(f, S \cup {x}) = SumOf(f, S) + f[x]
         /\ IsFiniteSet(S \cup {x})
<1> DEFINE T == S \cup {x}
<1>1. IsFiniteSet(T)
  BY FS_AddElement
<1>2. T \ {x} = S /\ x \in T /\ \A y \in T : f[y] \in Nat
  OBVIOUS
<1>3. SumOf(f, S) \in Nat
  BY SumNat
<1> HIDE DEF T
<1>4. SumOf(f, T) = f[x] + SumOf(f, S)
  BY <1>1, <1>2, SumRemove
<1>5. SumOf(f, T) = SumOf(f, S) + f[x]
  BY <1>3, <1>4
<1> QED
  BY <1>1, <1>5 DEF T

LEMMA SumMonotone ==
  ASSUME NEW f, NEW S, IsFiniteSet(S), \A y \in S : f[y] \in Nat, NEW T, T \subseteq S
  PROVE  SumOf(f, T) <= SumOf(f, S)
<1> DEFINE C == {s \in SUBSET S : ~(SumOf(f, s \cap T) <= SumOf(f, s))}
<1>1. SUFFICES ASSUME C # {} PROVE FALSE
  <2>1. S \notin C /\ S \cap T = T
    OBVIOUS
  <2> QED
    BY <2>1
<1>2. \A s \in SUBSET S : IsFiniteSet(s) /\ SumOf(f, s) \in Nat
  BY FS_Subset, SumNat
<1>3. PICK s \in C : \A y \in s : s \ {y} \notin C
  <2>1. \A s \in C : IsFiniteSet(s)
    BY <1>2
  <2> HIDE DEF C
  <2> QED
    BY <1>1, <2>1, Minimal
<1>4. s # {}
  <2>1. SUFFICES ASSUME s = {} PROVE FALSE
    OBVIOUS
  <2>2. s \cap T = s
    BY <2>1
  <2>3. SumOf(f, s) \in Nat
    BY <1>2, <1>3
  <2> QED
    BY <1>3, <2>2, <2>3
<1>5. PICK y \in s : TRUE
  BY <1>4
<1> DEFINE r == s \ {y}
<1>6. SumOf(f, r \cap T) <= SumOf(f, r)
  BY <1>3, <1>5
<1>7. SumOf(f, s) = f[y] + SumOf(f, r)
  BY <1>2, <1>3, <1>5, SumRemove
<1>8. f[y] \in Nat /\ SumOf(f, r) \in Nat /\ SumOf(f, r \cap T) \in Nat
  BY <1>2, <1>5
<1>9. ~(SumOf(f, s \cap T) <= SumOf(f, s))
  BY <1>3
<1>10. CASE y \in T
  <2>1. y \in s \cap T /\ s \cap T \in SUBSET S /\ (s \cap T) \ {y} = r \cap T
    BY <1>10
  <2>2. IsFiniteSet(s \cap T) /\ \A z \in s \cap T : f[z] \in Nat
    BY <1>2, <2>1
  <2>3. SumOf(f, s \cap T) = f[y] + SumOf(f, (s \cap T) \ {y})
    BY <2>1, <2>2, SumRemove
  <2>4. SumOf(f, s \cap T) = f[y] + SumOf(f, r \cap T)
    BY <2>1, <2>3
  <2> HIDE DEF r
  <2> QED
    BY <1>6, <1>7, <1>8, <1>9, <2>4
<1>11. CASE y \notin T
  <2>1. s \cap T = r \cap T
    BY <1>11
  <2> HIDE DEF r
  <2> QED
    BY <1>6, <1>7, <1>8, <1>9, <2>1
<1> QED
  BY <1>10, <1>11

LEMMA SumUnion ==
  ASSUME NEW f, NEW S, NEW T, IsFiniteSet(S), IsFiniteSet(T),
         \A y \in S \cup T : f[y] \in Nat
  PROVE  SumOf(f, S \cup T) <= SumOf(f, S) + SumOf(f, T)
<1> DEFINE C == {s \in SUBSET T : ~(SumOf(f, S \cup s) <= SumOf(f, S) + SumOf(f, s))}
<1>1. SUFFICES ASSUME C # {} PROVE FALSE
  <2>1. T \notin C
    OBVIOUS
  <2> QED
    BY <2>1
<1>2. \A s \in SUBSET T : /\ IsFiniteSet(s) /\ IsFiniteSet(S \cup s)
                          /\ SumOf(f, s) \in Nat /\ SumOf(f, S \cup s) \in Nat
  <2> SUFFICES ASSUME NEW s \in SUBSET T
               PROVE  /\ IsFiniteSet(s) /\ IsFiniteSet(S \cup s)
                      /\ SumOf(f, s) \in Nat /\ SumOf(f, S \cup s) \in Nat
    OBVIOUS
  <2>1. IsFiniteSet(s) /\ \A y \in s : f[y] \in Nat
    BY FS_Subset
  <2>2. IsFiniteSet(S \cup s) /\ \A y \in S \cup s : f[y] \in Nat
    BY <2>1, FS_Union
  <2> QED
    BY <2>1, <2>2, SumNat
<1>3. SumOf(f, S) \in Nat
  BY SumNat
<1>4. PICK s \in C : \A y \in s : s \ {y} \notin C
  <2>1. \A s \in C : IsFiniteSet(s)
    BY <1>2
  <2> HIDE DEF C
  <2> QED
    BY <1>1, <2>1, Minimal
<1>5. s \in SUBSET T /\ ~(SumOf(f, S \cup s) <= SumOf(f, S) + SumOf(f, s))
  BY <1>4
<1>6. CASE s = {}
  <2>1. S \cup s = S /\ SumOf(f, s) = 0
    BY <1>6, SumEmpty
  <2> QED
    BY <1>3, <1>5, <2>1
<1>7. CASE s # {}
  <2>1. PICK y \in s : TRUE
    BY <1>7
  <2> DEFINE r == s \ {y}
  <2>2. r \in SUBSET T /\ SumOf(f, S \cup r) <= SumOf(f, S) + SumOf(f, r)
    BY <1>4, <1>5, <2>1
  <2>3. SumOf(f, s) = f[y] + SumOf(f, r) /\ f[y] \in Nat
    BY <1>2, <1>5, <2>1, SumRemove
  <2>4. S \cup s = (S \cup r) \cup {y}
    BY <2>1
  <2> HIDE DEF r
  <2>5. /\ SumOf(f, S \cup r) \in Nat /\ SumOf(f, r) \in Nat
        /\ SumOf(f, S \cup s) \in Nat /\ SumOf(f, s) \in Nat
    BY <1>2, <1>5, <2>2
  <2>6. SumOf(f, S \cup s) <= SumOf(f, S \cup r) + f[y]
    <3>1. CASE y \in S \cup r
      <4>1. S \cup s = S \cup r
        BY <2>4, <3>1
      <4>2. SumOf(f, S \cup s) = SumOf(f, S \cup r)
        BY <4>1, Zenon
      <4> QED
        BY <2>3, <2>5, <4>2
    <3>2. CASE y \notin S \cup r
      <4>1. IsFiniteSet(S \cup r) /\ \A z \in S \cup r : f[z] \in Nat
        BY <1>2, <2>2
      <4>2. SumOf(f, (S \cup r) \cup {y}) = SumOf(f, S \cup r) + f[y]
        BY <2>3, <3>2, <4>1, SumAdd
      <4>3. SumOf(f, S \cup s) = SumOf(f, S \cup r) + f[y]
        BY <2>4, <4>2, Zenon
      <4> QED
        BY <2>3, <2>5, <4>3
    <3> QED
      BY <3>1, <3>2
  <2> QED
    BY <1>3, <1>5, <2>2, <2>3, <2>5, <2>6
<1> QED
  BY <1>6, <1>7

\* A bound on a sum, after its set has gained at most one member.
LEMMA SumGrows ==
  ASSUME NEW f, NEW S, IsFiniteSet(S), \A y \in S : f[y] \in Nat,
         NEW x, f[x] \in Nat, NEW T, T \subseteq S \cup {x}
  PROVE  SumOf(f, T) <= SumOf(f, S) + f[x] /\ IsFiniteSet(T)
<1>1. SumOf(f, S) \in Nat
  BY SumNat
<1>2. CASE x \in S
  <2>1. T \subseteq S
    BY <1>2
  <2>2. SumOf(f, T) <= SumOf(f, S) /\ IsFiniteSet(T) /\ \A y \in T : f[y] \in Nat
    BY <2>1, SumMonotone, FS_Subset
  <2>3. SumOf(f, T) \in Nat
    BY <2>2, SumNat
  <2> QED
    BY <1>1, <2>2, <2>3
<1>3. CASE x \notin S
  <2> DEFINE A == S \cup {x}
  <2>1. SumOf(f, A) = SumOf(f, S) + f[x] /\ IsFiniteSet(A) /\ \A y \in A : f[y] \in Nat
    BY <1>3, SumAdd
  <2> HIDE DEF A
  <2>2. T \subseteq A
    BY DEF A
  <2>3. SumOf(f, T) <= SumOf(f, A) /\ IsFiniteSet(T)
    BY <2>1, <2>2, SumMonotone, FS_Subset
  <2> QED
    BY <2>1, <2>3
<1> QED
  BY <1>2, <1>3
=============================================================================
