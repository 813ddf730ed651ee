------------------------------ MODULE DataLemmas ------------------------------
(***************************************************************************)
(* Induction over data, and what it shows of sums over finite sets.  The   *)
(* induction theorems of the library quantify over a predicate; here the   *)
(* predicate is the set of the values that satisfy it, so each theorem is  *)
(* a statement of first-order logic.                                       *)
(***************************************************************************)
EXTENDS Integers, SequencesExt, TLAPS, FiniteSetTheorems, SequenceTheorems, WellFoundedInduction

-------------------------------------------------------------------------------
\* Induction

\* The order of the naturals is well founded, written without an operator
\* parameter.
LEMMA NatOrder == IsWellFoundedOn({ss \in Nat \X Nat : ss[1] < ss[2]}, Nat)
  BY NatLessThanWellFounded DEF OpToRel

\* A set of naturals that is not empty has a least element.
LEMMA LeastNatural ==
  ASSUME NEW T \in SUBSET Nat, T # {}
  PROVE  \E m \in T : \A k \in T : m <= k
<1>1. PICK R : R = {ss \in Nat \X Nat : ss[1] < ss[2]}
  OBVIOUS
<1>2. PICK m \in T : \A y \in T : <<y, m>> \notin R
  BY <1>1, NatOrder, WFMin
<1>3. ASSUME NEW k \in T, k < m PROVE FALSE
  BY <1>1, <1>2, <1>3
<1> QED
  BY <1>2, <1>3

\* A set that has 0, and n + 1 with each n, has every natural.
LEMMA Induction ==
  ASSUME NEW S, 0 \in S, \A n \in Nat : n \in S => n + 1 \in S
  PROVE  \A n \in Nat : n \in S
<1> DEFINE T == {n \in Nat : n \notin S}
<1> SUFFICES ASSUME T # {} PROVE FALSE
  OBVIOUS
<1>1. PICK m \in T : \A k \in T : m <= k
  BY LeastNatural
<1>2. m - 1 \in Nat /\ m - 1 \in S
  BY <1>1
<1> QED
  BY <1>1, <1>2, (m - 1) + 1 = m

\* A family that has the empty set, and with each of its subsets of S the ones
\* that have one more element, has S.
LEMMA FiniteInduction ==
  ASSUME NEW S, IsFiniteSet(S), NEW F, {} \in F,
         \A T \in SUBSET S, x \in S : T \in F /\ x \notin T => T \cup {x} \in F
  PROVE  S \in F
<1> DEFINE Small == {n \in Nat : \A T \in SUBSET S : Cardinality(T) = n => T \in F}
<1>1. 0 \in Small
  BY FS_Subset, FS_EmptySet
<1>2. ASSUME NEW n \in Nat, n \in Small PROVE n + 1 \in Small
  <2> SUFFICES ASSUME NEW T \in SUBSET S, Cardinality(T) = n + 1 PROVE T \in F
    OBVIOUS
  <2>1. IsFiniteSet(T) /\ T # {}
    BY FS_Subset, FS_EmptySet
  <2>2. PICK x : x \in T
    BY <2>1
  <2>3. Cardinality(T \ {x}) = n
    <3>1. Cardinality(T \ {x}) = Cardinality(T) - 1
      BY <2>1, <2>2, FS_RemoveElement
    <3> QED
      BY <3>1
  <2>4. T \ {x} \in F
    BY <1>2, <2>3
  <2>5. T = (T \ {x}) \cup {x}
    BY <2>2
  <2> QED
    BY <2>2, <2>4, <2>5
<1>3. \A n \in Nat : n \in Small
  <2> HIDE DEF Small
  <2> QED
    BY <1>1, <1>2, Induction
<1>4. Cardinality(S) \in Nat
  BY FS_CardinalityType
<1> QED
  BY <1>3, <1>4

\* A set that holds the empty sequence, and each of its sequences with one element
\* more, holds every sequence.
LEMMA SequenceInduction ==
  ASSUME NEW S, NEW A, << >> \in A,
         \A s \in Seq(S), e \in S : s \in A => Append(s, e) \in A
  PROVE  \A s \in Seq(S) : s \in A
<1> DEFINE B == {n \in Nat : \A s \in Seq(S) : Len(s) = n => s \in A}
<1>1. 0 \in B
  BY EmptySeq
<1>2. ASSUME NEW n \in Nat, n \in B PROVE n + 1 \in B
  <2> SUFFICES ASSUME NEW s \in Seq(S), Len(s) = n + 1 PROVE s \in A
    OBVIOUS
  <2>1. s # << >>
    BY EmptySeq
  <2>2. PICK t \in Seq(S), e \in S : s = Append(t, e)
    BY <2>1, SequenceEmptyOrAppend
  <2>3. Len(s) = Len(t) + 1 /\ Len(t) \in Nat
    BY <2>2, AppendProperties, LenProperties
  <2>4. t \in A
    BY <1>2, <2>3
  <2> QED
    BY <2>2, <2>4
<1>3. \A n \in Nat : n \in B
  <2> HIDE DEF B
  <2> QED
    BY <1>1, <1>2, Induction
<1> QED
  BY <1>3, LenProperties

-------------------------------------------------------------------------------
\* Sums over finite sets

Pick(s) == CHOOSE x \in s : TRUE

\* it adds w up over the subsets of S of at most n elements.
AddsUpTo(it, w, S, n) ==
  it = [s \in {t \in SUBSET S : Cardinality(t) <= n} |->
          IF s = {} THEN 0 ELSE w[Pick(s)] + it[s \ {Pick(s)}]]

AddsUp(it, w, S) ==
  it = [s \in SUBSET S |-> IF s = {} THEN 0 ELSE w[Pick(s)] + it[s \ {Pick(s)}]]

LEMMA SumUnfolds ==
  ASSUME NEW w, NEW S
  PROVE  SumFunctionOnSet(w, S) = (CHOOSE it : AddsUp(it, w, S))[S]
  BY Zenon DEF SumFunctionOnSet, FoldFunctionOnSet, MapThenFoldSet, AddsUp, Pick

\* Smaller sets first: the recursive definition has a solution.
LEMMA AddsUpExists ==
  ASSUME NEW w, NEW S, IsFiniteSet(S)
  PROVE  \E it : AddsUp(it, w, S)
<1> DEFINE A == {n \in Nat : \E it : AddsUpTo(it, w, S, n)}
<1>1. \A s \in SUBSET S : IsFiniteSet(s) /\ Cardinality(s) \in Nat
  BY FS_Subset, FS_CardinalityType
<1>2. \A s \in SUBSET S : s # {} =>
        Pick(s) \in s /\ Cardinality(s \ {Pick(s)}) = Cardinality(s) - 1
  BY <1>1, FS_RemoveElement DEF Pick
<1>3. \A s \in SUBSET S : Cardinality(s) = 0 <=> s = {}
  BY <1>1, FS_EmptySet
<1>4. 0 \in A
  <2> DEFINE it == [s \in {t \in SUBSET S : Cardinality(t) <= 0} |-> 0]
  <2>1. AddsUpTo(it, w, S, 0)
    BY <1>1, <1>3 DEF AddsUpTo
  <2> QED
    BY <2>1
<1>5. ASSUME NEW n \in Nat, n \in A PROVE n + 1 \in A
  <2>1. PICK it : AddsUpTo(it, w, S, n)
    BY <1>5
  <2> DEFINE next == [s \in {t \in SUBSET S : Cardinality(t) <= n + 1} |->
                        IF Cardinality(s) <= n THEN it[s]
                        ELSE w[Pick(s)] + it[s \ {Pick(s)}]]
  <2> DEFINE val(s) == IF s = {} THEN 0 ELSE w[Pick(s)] + next[s \ {Pick(s)}]
  <2>2. ASSUME NEW s \in SUBSET S, Cardinality(s) <= n + 1
        PROVE  next[s] = val(s)
    <3>1. CASE s = {}
      BY <1>1, <1>3, <2>1, <2>2, <3>1 DEF AddsUpTo
    <3>2. CASE s # {}
      <4>1. /\ s \ {Pick(s)} \in SUBSET S
            /\ Cardinality(s \ {Pick(s)}) <= n
            /\ Cardinality(s \ {Pick(s)}) <= n + 1
        BY <1>1, <1>2, <2>2, <3>2
      <4>2. next[s \ {Pick(s)}] = it[s \ {Pick(s)}]
        BY <4>1
      <4>3. CASE Cardinality(s) <= n
        <5>1. it[s] = w[Pick(s)] + it[s \ {Pick(s)}]
          BY <2>1, <3>2, <4>3 DEF AddsUpTo
        <5> QED
          BY <2>2, <3>2, <4>2, <4>3, <5>1
      <4>4. CASE ~(Cardinality(s) <= n)
        BY <2>2, <3>2, <4>2, <4>4
      <4> QED
        BY <4>3, <4>4
    <3> QED
      BY <3>1, <3>2
  <2>3. next = [s \in {t \in SUBSET S : Cardinality(t) <= n + 1} |-> val(s)]
    BY <2>2
  <2>4. AddsUpTo(next, w, S, n + 1)
    BY <2>3, Zenon DEF AddsUpTo
  <2> QED
    BY <2>4
<1>6. Cardinality(S) \in A
  <2> HIDE DEF A
  <2> QED
    BY <1>1, <1>4, <1>5, Induction
<1>7. {t \in SUBSET S : Cardinality(t) <= Cardinality(S)} = SUBSET S
  BY FS_Subset
<1> QED
  BY <1>6, <1>7 DEF AddsUpTo, AddsUp

\* The solutions for two sets agree where both are defined.
LEMMA AddsUpAgree ==
  ASSUME NEW w, NEW S, IsFiniteSet(S), NEW U \in SUBSET S,
         NEW f, AddsUp(f, w, S), NEW g, AddsUp(g, w, U)
  PROVE  f[U] = g[U]
<1> DEFINE A == {n \in Nat : \A s \in SUBSET U : Cardinality(s) = n => f[s] = g[s]}
<1>1. \A s \in SUBSET U : IsFiniteSet(s) /\ Cardinality(s) \in Nat
  BY FS_Subset, FS_CardinalityType
<1>2. ASSUME NEW s \in SUBSET U, s # {}
      PROVE  Pick(s) \in s /\ Cardinality(s \ {Pick(s)}) = Cardinality(s) - 1
  BY <1>1, <1>2, FS_RemoveElement DEF Pick
<1>3. 0 \in A
  <2>1. \A s \in SUBSET U : Cardinality(s) = 0 => s = {}
    BY <1>1, FS_EmptySet
  <2> QED
    BY <2>1 DEF AddsUp
<1>4. ASSUME NEW n \in Nat, n \in A PROVE n + 1 \in A
  <2> SUFFICES ASSUME NEW s \in SUBSET U, Cardinality(s) = n + 1 PROVE f[s] = g[s]
    OBVIOUS
  <2>1. s # {} /\ s \in SUBSET S
    BY FS_EmptySet
  <2>2. s \ {Pick(s)} \in SUBSET U /\ Cardinality(s \ {Pick(s)}) = n
    BY <1>1, <1>2, <2>1
  <2>3. f[s \ {Pick(s)}] = g[s \ {Pick(s)}]
    BY <1>4, <2>2
  <2>4. f[s] = w[Pick(s)] + f[s \ {Pick(s)}]
    BY <2>1 DEF AddsUp
  <2>5. g[s] = w[Pick(s)] + g[s \ {Pick(s)}]
    BY <2>1 DEF AddsUp
  <2> QED
    BY <2>3, <2>4, <2>5
<1>5. Cardinality(U) \in A
  <2> HIDE DEF A
  <2> QED
    BY <1>1, <1>3, <1>4, Induction
<1> QED
  BY <1>5

LEMMA SumOfSome ==
  ASSUME NEW w, NEW S, IsFiniteSet(S), S # {}
  PROVE  SumFunctionOnSet(w, S) = w[Pick(S)] + SumFunctionOnSet(w, S \ {Pick(S)})
<1> DEFINE U == S \ {Pick(S)}
<1>1. IsFiniteSet(U) /\ U \in SUBSET S
  BY FS_Subset
<1>2. PICK f : f = (CHOOSE it : AddsUp(it, w, S)) /\ AddsUp(f, w, S)
  BY AddsUpExists, Zenon
<1>3. PICK g : g = (CHOOSE it : AddsUp(it, w, U)) /\ AddsUp(g, w, U)
  BY <1>1, AddsUpExists, Zenon
<1>4. f[U] = g[U]
  BY <1>1, <1>2, <1>3, AddsUpAgree
<1>5. f[S] = w[Pick(S)] + f[U]
  BY <1>2 DEF AddsUp
<1>6. SumFunctionOnSet(w, S) = f[S] /\ SumFunctionOnSet(w, U) = g[U]
  BY <1>2, <1>3, SumUnfolds
<1> QED
  BY <1>4, <1>5, <1>6

LEMMA SumOfNone ==
  ASSUME NEW w
  PROVE  SumFunctionOnSet(w, {}) = 0
<1>1. IsFiniteSet({})
  BY FS_EmptySet
<1>2. PICK f : f = (CHOOSE it : AddsUp(it, w, {})) /\ AddsUp(f, w, {})
  BY <1>1, AddsUpExists, Zenon
<1> QED
  BY <1>2, SumUnfolds DEF AddsUp

\* A sum of naturals is a natural.
LEMMA SumType ==
  ASSUME NEW w, NEW S, IsFiniteSet(S), \A x \in S : w[x] \in Nat
  PROVE  SumFunctionOnSet(w, S) \in Nat
<1> DEFINE A == {n \in Nat : \A s \in SUBSET S :
                   Cardinality(s) = n => SumFunctionOnSet(w, s) \in Nat}
<1>1. \A s \in SUBSET S : IsFiniteSet(s) /\ Cardinality(s) \in Nat
  BY FS_Subset, FS_CardinalityType
<1>2. 0 \in A
  <2>1. \A s \in SUBSET S : Cardinality(s) = 0 => s = {}
    BY <1>1, FS_EmptySet
  <2> QED
    BY <2>1, SumOfNone
<1>3. ASSUME NEW n \in Nat, n \in A PROVE n + 1 \in A
  <2> SUFFICES ASSUME NEW s \in SUBSET S, Cardinality(s) = n + 1
               PROVE  SumFunctionOnSet(w, s) \in Nat
    OBVIOUS
  <2>1. s # {} /\ IsFiniteSet(s)
    BY <1>1, FS_EmptySet
  <2>2. Pick(s) \in s
    BY <2>1 DEF Pick
  <2>3. Cardinality(s \ {Pick(s)}) = Cardinality(s) - 1
    BY <2>1, <2>2, FS_RemoveElement
  <2>4. SumFunctionOnSet(w, s \ {Pick(s)}) \in Nat
    BY <1>3, <2>3
  <2> QED
    BY <2>1, <2>2, <2>4, SumOfSome
<1>4. Cardinality(S) \in A
  <2> HIDE DEF A
  <2> QED
    BY <1>1, <1>2, <1>3, Induction
<1> QED
  BY <1>4

\* Whichever element is taken out first, the sum is the same.
LEMMA SumTakesOut ==
  ASSUME NEW w, NEW S, IsFiniteSet(S), \A x \in S : w[x] \in Nat, NEW e \in S
  PROVE  SumFunctionOnSet(w, S) = w[e] + SumFunctionOnSet(w, S \ {e})
<1> DEFINE Sum(s) == SumFunctionOnSet(w, s)
<1> DEFINE A == {n \in Nat : \A s \in SUBSET S : Cardinality(s) = n =>
                   \A x \in s : Sum(s) = w[x] + Sum(s \ {x})}
<1>1. \A s \in SUBSET S : IsFiniteSet(s) /\ Cardinality(s) \in Nat
  BY FS_Subset, FS_CardinalityType
<1>2. 0 \in A
  <2>1. \A s \in SUBSET S : Cardinality(s) = 0 => s = {}
    BY <1>1, FS_EmptySet
  <2> QED
    BY <2>1
<1>3. ASSUME NEW n \in Nat, n \in A PROVE n + 1 \in A
  <2> SUFFICES ASSUME NEW s \in SUBSET S, Cardinality(s) = n + 1, NEW x \in s
               PROVE  Sum(s) = w[x] + Sum(s \ {x})
    OBVIOUS
  <2>1. IsFiniteSet(s) /\ s # {}
    BY <1>1
  <2>2. PICK y : y = Pick(s) /\ y \in s
    BY <2>1 DEF Pick
  <2>3. Sum(s) = w[y] + Sum(s \ {y})
    BY <2>1, <2>2, SumOfSome
  <2>4. CASE x = y
    BY <2>3, <2>4
  <2>5. CASE x # y
    <3>1. Cardinality(s \ {y}) = Cardinality(s) - 1 /\ Cardinality(s \ {x}) = Cardinality(s) - 1
      BY <2>1, <2>2, FS_RemoveElement
    <3>2. Cardinality(s \ {y}) = n /\ Cardinality(s \ {x}) = n
      BY <3>1
    <3>3. Sum(s \ {y}) = w[x] + Sum((s \ {y}) \ {x})
      BY <1>3, <2>5, <3>2
    <3>4. Sum(s \ {x}) = w[y] + Sum((s \ {x}) \ {y})
      BY <1>3, <2>2, <2>5, <3>2
    <3>5. Sum((s \ {y}) \ {x}) = Sum((s \ {x}) \ {y})
      <4>1. (s \ {y}) \ {x} = (s \ {x}) \ {y}
        OBVIOUS
      <4> QED
        BY <4>1
    <3>6. Sum((s \ {x}) \ {y}) \in Nat /\ w[x] \in Nat /\ w[y] \in Nat
      <4>1. (s \ {x}) \ {y} \in SUBSET S
        OBVIOUS
      <4> QED
        BY <1>1, <2>2, <4>1, SumType
    <3>7. PICK r \in Nat : r = Sum((s \ {x}) \ {y})
      BY <3>6
    <3>8. Sum(s) = w[y] + (w[x] + r) /\ Sum(s \ {x}) = w[y] + r
      BY <2>3, <3>3, <3>4, <3>5, <3>7
    <3> QED
      BY <3>6, <3>8
  <2> QED
    BY <2>4, <2>5
<1>4. Cardinality(S) \in A
  <2> HIDE DEF A
  <2> QED
    BY <1>1, <1>2, <1>3, Induction
<1> QED
  BY <1>4

\* One element more.
LEMMA SumAdds ==
  ASSUME NEW w, NEW S, IsFiniteSet(S), \A x \in S : w[x] \in Nat,
         NEW e, e \notin S, w[e] \in Nat
  PROVE  SumFunctionOnSet(w, S \cup {e}) = SumFunctionOnSet(w, S) + w[e]
<1>1. IsFiniteSet(S \cup {e})
  BY FS_AddElement
<1>2. SumFunctionOnSet(w, (S \cup {e}) \ {e}) = SumFunctionOnSet(w, S)
  <2>1. (S \cup {e}) \ {e} = S
    OBVIOUS
  <2> QED
    BY <2>1
<1>3. SumFunctionOnSet(w, S \cup {e}) = w[e] + SumFunctionOnSet(w, (S \cup {e}) \ {e})
  BY <1>1, SumTakesOut
<1>4. SumFunctionOnSet(w, S) \in Nat
  BY SumType
<1> QED
  BY <1>2, <1>3, <1>4

\* A sum looks at no other weights than those of the set's elements.
LEMMA SumAgrees ==
  ASSUME NEW w, NEW v, NEW S, IsFiniteSet(S), \A x \in S : w[x] = v[x]
  PROVE  SumFunctionOnSet(w, S) = SumFunctionOnSet(v, S)
<1> DEFINE A == {n \in Nat : \A s \in SUBSET S : Cardinality(s) = n =>
                   SumFunctionOnSet(w, s) = SumFunctionOnSet(v, s)}
<1>1. \A s \in SUBSET S : IsFiniteSet(s) /\ Cardinality(s) \in Nat
  BY FS_Subset, FS_CardinalityType
<1>2. 0 \in A
  <2>1. \A s \in SUBSET S : Cardinality(s) = 0 => s = {}
    BY <1>1, FS_EmptySet
  <2> QED
    BY <2>1, SumOfNone
<1>3. ASSUME NEW n \in Nat, n \in A PROVE n + 1 \in A
  <2> SUFFICES ASSUME NEW s \in SUBSET S, Cardinality(s) = n + 1
               PROVE  SumFunctionOnSet(w, s) = SumFunctionOnSet(v, s)
    OBVIOUS
  <2>1. s # {} /\ IsFiniteSet(s)
    BY <1>1, FS_EmptySet
  <2>2. Pick(s) \in s
    BY <2>1 DEF Pick
  <2>3. Cardinality(s \ {Pick(s)}) = Cardinality(s) - 1
    BY <2>1, <2>2, FS_RemoveElement
  <2>4. SumFunctionOnSet(w, s \ {Pick(s)}) = SumFunctionOnSet(v, s \ {Pick(s)})
    BY <1>3, <2>3
  <2>5. w[Pick(s)] = v[Pick(s)]
    BY <2>2
  <2>6. /\ SumFunctionOnSet(w, s) = w[Pick(s)] + SumFunctionOnSet(w, s \ {Pick(s)})
        /\ SumFunctionOnSet(v, s) = v[Pick(s)] + SumFunctionOnSet(v, s \ {Pick(s)})
    BY <2>1, SumOfSome
  <2> QED
    BY <2>4, <2>5, <2>6
<1>4. Cardinality(S) \in A
  <2> HIDE DEF A
  <2> QED
    BY <1>1, <1>2, <1>3, Induction
<1> QED
  BY <1>4

\* Fewer elements, a smaller sum.
LEMMA SumMonotone ==
  ASSUME NEW w, NEW S, IsFiniteSet(S), \A x \in S : w[x] \in Nat, NEW U \in SUBSET S
  PROVE  SumFunctionOnSet(w, U) <= SumFunctionOnSet(w, S)
<1> DEFINE F == {T \in SUBSET (S \ U) :
                   SumFunctionOnSet(w, U) <= SumFunctionOnSet(w, U \cup T)}
<1>1. IsFiniteSet(S \ U) /\ IsFiniteSet(U)
  BY FS_Subset
<1>2. {} \in F
  <2>1. U \cup {} = U
    OBVIOUS
  <2>2. SumFunctionOnSet(w, U) \in Nat
    BY <1>1, SumType
  <2> QED
    BY <2>1, <2>2
<1>3. ASSUME NEW T \in SUBSET (S \ U), NEW x \in S \ U, T \in F, x \notin T
      PROVE  T \cup {x} \in F
  <2>1. IsFiniteSet(U \cup T) /\ U \cup T \in SUBSET S
    BY FS_Subset
  <2>2. SumFunctionOnSet(w, (U \cup T) \cup {x}) = SumFunctionOnSet(w, U \cup T) + w[x]
    BY <1>3, <2>1, SumAdds
  <2>3. U \cup (T \cup {x}) = (U \cup T) \cup {x}
    OBVIOUS
  <2>4. SumFunctionOnSet(w, U) \in Nat /\ SumFunctionOnSet(w, U \cup T) \in Nat
    BY <1>1, <2>1, SumType
  <2>5. SumFunctionOnSet(w, U) <= SumFunctionOnSet(w, U \cup T) + w[x]
    BY <1>3, <2>4
  <2> QED
    BY <2>2, <2>3, <2>5
<1>4. S \ U \in F
  <2> HIDE DEF F
  <2> QED
    BY <1>1, <1>2, <1>3, FiniteInduction
<1>5. U \cup (S \ U) = S
  OBVIOUS
<1> QED
  BY <1>4, <1>5

\* Sums are linear.
LEMMA SumLinear ==
  ASSUME NEW S, IsFiniteSet(S), NEW u, NEW v, NEW w, NEW k \in Nat,
         \A x \in S : v[x] \in Nat /\ w[x] \in Nat /\ u[x] = k * v[x] + w[x]
  PROVE  SumFunctionOnSet(u, S) = k * SumFunctionOnSet(v, S) + SumFunctionOnSet(w, S)
<1> DEFINE Good(T) ==
      SumFunctionOnSet(u, T) = k * SumFunctionOnSet(v, T) + SumFunctionOnSet(w, T)
           F == {T \in SUBSET S : Good(T)}
<1>1. Good({})
  BY SumOfNone
<1>2. ASSUME NEW T \in SUBSET S, NEW x \in S, Good(T), x \notin T PROVE Good(T \cup {x})
  <2>1. IsFiniteSet(T) /\ \A y \in T : v[y] \in Nat /\ w[y] \in Nat /\ u[y] \in Nat
    BY FS_Subset
  <2>2. v[x] \in Nat /\ w[x] \in Nat /\ u[x] \in Nat /\ u[x] = k * v[x] + w[x]
    OBVIOUS
  <2>3. /\ SumFunctionOnSet(u, T \cup {x}) = SumFunctionOnSet(u, T) + u[x]
        /\ SumFunctionOnSet(v, T \cup {x}) = SumFunctionOnSet(v, T) + v[x]
        /\ SumFunctionOnSet(w, T \cup {x}) = SumFunctionOnSet(w, T) + w[x]
    BY <1>2, <2>1, <2>2, SumAdds
  <2>4. /\ SumFunctionOnSet(u, T) \in Nat /\ SumFunctionOnSet(v, T) \in Nat
        /\ SumFunctionOnSet(w, T) \in Nat
    BY <2>1, SumType
  <2>5. \A a, b, c, d \in Nat : (k * a + b) + (k * c + d) = k * (a + c) + (b + d)
    OBVIOUS
  <2> QED
    BY <1>2, <2>2, <2>3, <2>4, <2>5
<1>3. S \in F
  <2> HIDE DEF Good
  <2>1. {} \in F /\ \A T \in SUBSET S, x \in S : T \in F /\ x \notin T => T \cup {x} \in F
    BY <1>1, <1>2
  <2> HIDE DEF F
  <2> QED
    BY <2>1, FiniteInduction
<1> QED
  BY <1>3

\* Sums compare as their terms do.
LEMMA SumCompare ==
  ASSUME NEW S, IsFiniteSet(S), NEW v, NEW w,
         \A x \in S : v[x] \in Nat /\ w[x] \in Nat /\ v[x] <= w[x]
  PROVE  SumFunctionOnSet(v, S) <= SumFunctionOnSet(w, S)
<1> DEFINE Good(T) == SumFunctionOnSet(v, T) <= SumFunctionOnSet(w, T)
           F == {T \in SUBSET S : Good(T)}
<1>1. Good({})
  BY SumOfNone
<1>2. ASSUME NEW T \in SUBSET S, NEW x \in S, Good(T), x \notin T PROVE Good(T \cup {x})
  <2>1. IsFiniteSet(T) /\ \A y \in T : v[y] \in Nat /\ w[y] \in Nat
    BY FS_Subset
  <2>2. /\ SumFunctionOnSet(v, T \cup {x}) = SumFunctionOnSet(v, T) + v[x]
        /\ SumFunctionOnSet(w, T \cup {x}) = SumFunctionOnSet(w, T) + w[x]
    BY <1>2, <2>1, SumAdds
  <2>3. SumFunctionOnSet(v, T) \in Nat /\ SumFunctionOnSet(w, T) \in Nat
    BY <2>1, SumType
  <2> QED
    BY <1>2, <2>2, <2>3
<1>3. S \in F
  <2> HIDE DEF Good
  <2>1. {} \in F /\ \A T \in SUBSET S, x \in S : T \in F /\ x \notin T => T \cup {x} \in F
    BY <1>1, <1>2
  <2> HIDE DEF F
  <2> QED
    BY <2>1, FiniteInduction
<1> QED
  BY <1>3

\* A sum of ones and zeroes counts the ones.
LEMMA SumCounts ==
  ASSUME NEW S, IsFiniteSet(S), NEW C \in SUBSET S, NEW w,
         \A x \in S : w[x] = IF x \in C THEN 1 ELSE 0
  PROVE  SumFunctionOnSet(w, S) = Cardinality(C)
<1> DEFINE Good(T) == SumFunctionOnSet(w, T) = Cardinality(C \cap T)
           F == {T \in SUBSET S : Good(T)}
<1>1. Good({})
  <2>1. C \cap {} = {}
    OBVIOUS
  <2> QED
    BY <2>1, SumOfNone, FS_EmptySet
<1>2. ASSUME NEW T \in SUBSET S, NEW x \in S, Good(T), x \notin T PROVE Good(T \cup {x})
  <2>1. IsFiniteSet(T) /\ IsFiniteSet(C \cap T) /\ \A y \in T : w[y] \in Nat
    BY FS_Subset, FS_Intersection
  <2>2. SumFunctionOnSet(w, T \cup {x}) = SumFunctionOnSet(w, T) + w[x]
    BY <1>2, <2>1, SumAdds
  <2>3. Cardinality(C \cap T) \in Nat
    BY <2>1, FS_CardinalityType
  <2>4. CASE x \in C
    <3>1. C \cap (T \cup {x}) = (C \cap T) \cup {x}
      BY <2>4
    <3>2. Cardinality((C \cap T) \cup {x}) = Cardinality(C \cap T) + 1
      BY <1>2, <2>1, FS_AddElement
    <3> QED
      BY <1>2, <2>2, <2>3, <2>4, <3>1, <3>2
  <2>5. CASE x \notin C
    <3>1. C \cap (T \cup {x}) = C \cap T
      BY <2>5
    <3>2. Cardinality(C \cap (T \cup {x})) = Cardinality(C \cap T) /\ w[x] = 0
      BY <2>5, <3>1
    <3>3. SumFunctionOnSet(w, T \cup {x}) = Cardinality(C \cap T)
      BY <1>2, <2>2, <2>3, <3>2
    <3> QED
      BY <3>2, <3>3
  <2> QED
    BY <2>4, <2>5
<1>3. S \in F
  <2> HIDE DEF Good
  <2>1. {} \in F /\ \A T \in SUBSET S, x \in S : T \in F /\ x \notin T => T \cup {x} \in F
    BY <1>1, <1>2
  <2> HIDE DEF F
  <2> QED
    BY <2>1, FiniteInduction
<1>4. C \cap S = C
  OBVIOUS
<1> QED
  BY <1>3, <1>4

\* Renaming the elements of a set, one to one, keeps its size and its sums.
LEMMA SumOfImage ==
  ASSUME NEW S, IsFiniteSet(S), NEW f, NEW v, NEW w,
         \A x, y \in S : f[x] = f[y] => x = y,
         \A x \in S : w[f[x]] = v[x] /\ v[x] \in Nat
  PROVE  LET T == {f[x] : x \in S}
         IN  /\ IsFiniteSet(T) /\ Cardinality(T) = Cardinality(S)
             /\ SumFunctionOnSet(w, T) = SumFunctionOnSet(v, S)
<1> DEFINE Im(U) == {f[x] : x \in U}
           Good(U) == /\ IsFiniteSet(Im(U)) /\ Cardinality(Im(U)) = Cardinality(U)
                      /\ SumFunctionOnSet(w, Im(U)) = SumFunctionOnSet(v, U)
           F == {U \in SUBSET S : Good(U)}
<1>1. {} \in F
  <2>1. Im({}) = {}
    OBVIOUS
  <2> HIDE DEF Im
  <2>2. Good({})
    BY <2>1, FS_EmptySet, SumOfNone
  <2> QED
    BY <2>2
<1>2. ASSUME NEW U \in SUBSET S, NEW x \in S, U \in F, x \notin U PROVE U \cup {x} \in F
  <2>1. PICK I : I = Im(U)
    OBVIOUS
  <2>2. Im(U \cup {x}) = I \cup {f[x]}
    BY <2>1
  <2>3. f[x] \notin I /\ (\A y \in I : w[y] \in Nat) /\ w[f[x]] = v[x] /\ v[x] \in Nat
    BY <1>2, <2>1
  <2>4. IsFiniteSet(U) /\ \A y \in U : v[y] \in Nat
    BY FS_Subset
  <2>5. Good(U)
    BY <1>2
  <2> HIDE DEF Im
  <2>6. IsFiniteSet(I) /\ Cardinality(I) = Cardinality(U)
        /\ SumFunctionOnSet(w, I) = SumFunctionOnSet(v, U)
    BY <2>1, <2>5
  <2>7. /\ Cardinality(I \cup {f[x]}) = Cardinality(I) + 1 /\ IsFiniteSet(I \cup {f[x]})
        /\ Cardinality(U \cup {x}) = Cardinality(U) + 1
    BY <1>2, <2>3, <2>4, <2>6, FS_AddElement
  <2>8. SumFunctionOnSet(w, I \cup {f[x]}) = SumFunctionOnSet(w, I) + w[f[x]]
    BY <2>3, <2>6, SumAdds
  <2>9. SumFunctionOnSet(v, U \cup {x}) = SumFunctionOnSet(v, U) + v[x]
    BY <1>2, <2>3, <2>4, SumAdds
  <2>10. Good(U \cup {x})
    BY <2>2, <2>3, <2>6, <2>7, <2>8, <2>9
  <2> QED
    BY <2>10
<1>3. S \in F
  <2> HIDE DEF F
  <2> QED
    BY <1>1, <1>2, FiniteInduction
<1> QED
  BY <1>3

-------------------------------------------------------------------------------
\* Concatenating the sequences of a sequence: FlattenSeq is a recursive function.

Grown(f, ss, i) == IF i = 1 THEN ss[i] ELSE f[i - 1] \o ss[i]

Grows(f, ss, n) == f = [i \in 1..n |-> Grown(f, ss, i)]

LEMMA FlattenUnfolds ==
  ASSUME NEW ss, Len(ss) # 0
  PROVE  FlattenSeq(ss) = (CHOOSE f : Grows(f, ss, Len(ss)))[Len(ss)]
BY Zenon DEF FlattenSeq, Grows, Grown

LEMMA GrowsExists ==
  ASSUME NEW ss, NEW n \in Nat
  PROVE  \E f : Grows(f, ss, n)
<1> DEFINE A == {m \in Nat : \E f : Grows(f, ss, m)}
<1>1. 0 \in A
  <2>1. Grows([i \in 1..0 |-> 0], ss, 0)
    BY DEF Grows
  <2> QED
    BY <2>1
<1>2. ASSUME NEW m \in Nat, m \in A PROVE m + 1 \in A
  <2>1. PICK f : Grows(f, ss, m)
    BY <1>2
  <2>2. PICK g : g = [i \in 1..(m + 1) |-> IF i <= m THEN f[i]
                                           ELSE Grown(f, ss, i)]
    OBVIOUS
  <2>3. ASSUME NEW i \in 1..(m + 1) PROVE g[i] = Grown(g, ss, i)
    <3>1. i # 1 => i - 1 \in 1..m /\ g[i - 1] = f[i - 1]
      BY <2>2
    <3>2. g[i] = Grown(f, ss, i)
      BY <2>1, <2>2 DEF Grows
    <3> QED
      BY <3>1, <3>2 DEF Grown
  <2>4. Grows(g, ss, m + 1)
    BY <2>2, <2>3 DEF Grows
  <2> QED
    BY <2>4
<1> HIDE DEF A
<1>3. \A m \in Nat : m \in A
  BY <1>1, <1>2, Induction
<1> QED
  BY <1>3 DEF A

LEMMA GrowsAgree ==
  ASSUME NEW n \in Nat, NEW m \in Nat, n <= m, NEW ss, NEW tt, \A i \in 1..n : ss[i] = tt[i],
         NEW f, Grows(f, ss, n), NEW g, Grows(g, tt, m)
  PROVE  \A i \in 1..n : f[i] = g[i]
<1> DEFINE A == {i \in Nat : i \in 1..n => f[i] = g[i]}
<1>1. 0 \in A
  OBVIOUS
<1>2. ASSUME NEW i \in Nat, i \in A PROVE i + 1 \in A
  <2> SUFFICES ASSUME i + 1 \in 1..n PROVE f[i + 1] = g[i + 1]
    OBVIOUS
  <2>1. i + 1 \in 1..m /\ (i + 1) - 1 = i /\ (i + 1 # 1 => i \in 1..n)
    OBVIOUS
  <2>2. f[i + 1] = Grown(f, ss, i + 1)
    BY DEF Grows
  <2>3. g[i + 1] = Grown(g, tt, i + 1)
    BY <2>1 DEF Grows
  <2> QED
    BY <1>2, <2>1, <2>2, <2>3 DEF Grown
<1> HIDE DEF A
<1>3. \A i \in Nat : i \in A
  BY <1>1, <1>2, Induction
<1> QED
  BY <1>3 DEF A

LEMMA GrowsOn ==
  \A n \in Nat : \A ss, tt, f, g :
    (\A i \in 1..n : ss[i] = tt[i]) /\ Grows(f, ss, n) /\ Grows(g, tt, n + 1)
    => \A i \in 1..n : f[i] = g[i]
<1> SUFFICES ASSUME NEW n \in Nat, NEW ss, NEW tt, \A i \in 1..n : ss[i] = tt[i],
                    NEW f, Grows(f, ss, n), NEW g, Grows(g, tt, n + 1)
             PROVE  \A i \in 1..n : f[i] = g[i]
  OBVIOUS
<1>1. PICK m \in Nat : m = n + 1
  OBVIOUS
<1>2. n <= m /\ Grows(g, tt, m)
  BY <1>1
<1> QED
  BY <1>2, GrowsAgree

LEMMA GrowsType ==
  ASSUME NEW S, NEW n \in Nat, NEW ss, \A i \in 1..n : ss[i] \in Seq(S), NEW f, Grows(f, ss, n)
  PROVE  \A i \in 1..n : f[i] \in Seq(S)
<1> DEFINE A == {i \in Nat : i \in 1..n => f[i] \in Seq(S)}
<1>1. 0 \in A
  OBVIOUS
<1>2. ASSUME NEW i \in Nat, i \in A PROVE i + 1 \in A
  <2> SUFFICES ASSUME i + 1 \in 1..n PROVE f[i + 1] \in Seq(S)
    OBVIOUS
  <2>1. f[i + 1] = Grown(f, ss, i + 1)
    BY DEF Grows
  <2>2. (i + 1) - 1 = i /\ (i + 1 # 1 => i \in 1..n)
    OBVIOUS
  <2>3. CASE i + 1 = 1
    BY <2>1, <2>3 DEF Grown
  <2>4. CASE i + 1 # 1
    <3>1. f[i] \in Seq(S) /\ ss[i + 1] \in Seq(S)
      BY <1>2, <2>2, <2>4
    <3>2. f[i + 1] = f[i] \o ss[i + 1]
      BY <2>1, <2>2, <2>4 DEF Grown
    <3> QED
      BY <3>1, <3>2, ConcatProperties
  <2> QED
    BY <2>3, <2>4
<1> HIDE DEF A
<1>3. \A i \in Nat : i \in A
  BY <1>1, <1>2, Induction
<1> QED
  BY <1>3 DEF A

\* Nothing to flatten, and what flattening gives.
LEMMA FlattenType ==
  ASSUME NEW S, NEW ss \in Seq(Seq(S))
  PROVE  /\ FlattenSeq(ss) \in Seq(S)
         /\ Len(ss) = 0 => FlattenSeq(ss) = << >>
<1>1. Len(ss) \in Nat /\ \A i \in 1..Len(ss) : ss[i] \in Seq(S)
  BY LenProperties, ElementOfSeq
<1>2. CASE Len(ss) = 0
  <2>1. FlattenSeq(ss) = ss
    BY <1>2 DEF FlattenSeq
  <2>2. ss = << >>
    BY <1>2, EmptySeq
  <2> QED
    BY <2>1, <2>2, EmptySeq
<1>3. CASE Len(ss) # 0
  <2>1. PICK f : f = CHOOSE g : Grows(g, ss, Len(ss))
    OBVIOUS
  <2>2. Grows(f, ss, Len(ss))
    BY <1>1, <2>1, GrowsExists
  <2>3. f[Len(ss)] \in Seq(S)
    BY <1>1, <1>3, <2>2, GrowsType
  <2> QED
    BY <1>3, <2>1, <2>3, FlattenUnfolds
<1> QED
  BY <1>2, <1>3

\* A sequence more comes at the end.
LEMMA FlattenAppend ==
  ASSUME NEW S, NEW ss \in Seq(Seq(S)), NEW s \in Seq(S)
  PROVE  FlattenSeq(Append(ss, s)) = FlattenSeq(ss) \o s
<1>1. PICK tt : tt = Append(ss, s)
  OBVIOUS
<1>2. PICK n : n = Len(ss)
  OBVIOUS
<1>3. /\ n \in Nat /\ tt \in Seq(Seq(S)) /\ Len(tt) = n + 1 /\ n + 1 # 0
      /\ tt[n + 1] = s /\ \A i \in 1..n : tt[i] = ss[i]
  BY <1>1, <1>2, AppendProperties, LenProperties
<1>4. PICK g : g = CHOOSE f : Grows(f, tt, n + 1)
  OBVIOUS
<1>5. Grows(g, tt, n + 1) /\ FlattenSeq(tt) = g[n + 1]
  <2>1. n + 1 \in Nat
    BY <1>3
  <2>2. Grows(g, tt, n + 1)
    BY <1>4, <2>1, GrowsExists
  <2>3. FlattenSeq(tt) = (CHOOSE f : Grows(f, tt, Len(tt)))[Len(tt)]
    BY <1>3, FlattenUnfolds
  <2> QED
    BY <1>3, <1>4, <2>2, <2>3
<1>6. g[n + 1] = IF n + 1 = 1 THEN s ELSE g[(n + 1) - 1] \o s
  <2>1. n + 1 \in 1..(n + 1)
    BY <1>3
  <2>2. g[n + 1] = Grown(g, tt, n + 1)
    BY <1>5, <2>1 DEF Grows
  <2> QED
    BY <1>3, <2>2 DEF Grown
<1>7. CASE n = 0
  <2>1. FlattenSeq(ss) = << >>
    BY <1>2, <1>7, FlattenType
  <2>2. << >> \o s = s
    BY ConcatEmptySeq
  <2> QED
    BY <1>1, <1>5, <1>6, <1>7, <2>1, <2>2
<1>8. CASE n # 0
  <2>1. PICK f : f = CHOOSE h : Grows(h, ss, n)
    OBVIOUS
  <2>2. Grows(f, ss, n)
    BY <1>3, <2>1, GrowsExists
  <2>3. FlattenSeq(ss) = f[n]
    BY <1>2, <1>8, <2>1, FlattenUnfolds
  <2>4. \A i \in 1..n : f[i] = g[i]
    <3>1. n \in Nat
      BY <1>3
    <3>2. \A i \in 1..n : ss[i] = tt[i]
      BY <1>3
    <3>3. Grows(g, tt, n + 1)
      BY <1>5
    <3> QED
      BY <2>2, <3>1, <3>2, <3>3, GrowsOn
  <2>5. (n + 1) - 1 = n /\ n \in 1..n /\ n + 1 # 1
    BY <1>3, <1>8
  <2> QED
    BY <1>1, <1>5, <1>6, <2>3, <2>4, <2>5
<1> QED
  BY <1>7, <1>8
===============================================================================
