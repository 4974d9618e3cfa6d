--------------------------- MODULE PreviewFitProofs ---------------------------
(***************************************************************************)
(* Proofs about the fit of a timeline, allocate_timeline_durations, for    *)
(* any number of clips, any weights and any bounds; and, as the durations  *)
(* it gives must be durations, the types of Previews.                      *)
(*                                                                         *)
(* Sums over sets are recursive: what is said of them is shown for the     *)
(* family of the subsets of which it holds, which contains the empty set   *)
(* and grows by one element (FiniteSetInduction).                          *)
(*                                                                         *)
(* A bisection needs no correction (CorrectedSame), so the shares of its   *)
(* free clips are between the bounds; rounding them down loses no more     *)
(* frames than there are uneven shares (LostBounded), and as many clips,   *)
(* all of them uneven, are rounded up (RoundedUpFacts): the sum is the     *)
(* target (AllocatedSum), and nobody is pushed past a bound                *)
(* (AllocatedWithin) or past a heavier clip (AllocatedMonotone).           *)
(*                                                                         *)
(* Two bisections have two scales p/q and r/s.  With the larger one no     *)
(* clip takes less, and the sums are the same: each clip takes the same    *)
(* with both (ScalesOrdered, SumsTight), and the same is rounded the same  *)
(* (RoundedSame).  A bisection exists: in parts of one q-th of a frame     *)
(* that all the weights divide, no clip meets a bound between two scales   *)
(* that follow each other, and the first scale that takes enough frames    *)
(* and the one before it enclose one that takes the target                 *)
(* (BisectionOfScale).                                                     *)
(***************************************************************************)
EXTENDS PreviewsProofs, FiniteSetTheorems, WellFoundedInduction

-----------------------------------------------------------------------------
(* Induction over sets of numbers and over finite sets *)

LessNat == OpToRel(<, Nat)

LEMMA LessNatDef == \A x, y \in Nat : <<x, y>> \in LessNat <=> x < y
BY DEF LessNat, OpToRel

LEMMA LessNatWF == IsWellFoundedOn(LessNat, Nat)
BY NatLessThanWellFounded DEF LessNat

LEMMA LeastNat ==
  ASSUME NEW T \in SUBSET Nat, T # {}
  PROVE  \E x \in T : \A y \in T : x <= y
<1>1. \E x \in T : \A y \in T : ~ (<<y, x>> \in LessNat)
  BY LessNatWF, WFMin
<1>2. PICK x \in T : \A y \in T : ~ (<<y, x>> \in LessNat)
  BY <1>1
<1>3. ASSUME NEW y \in T PROVE x <= y
  <2>1. x \in Nat /\ y \in Nat
    OBVIOUS
  <2>2. ~ (y < x)
    BY <1>2, <2>1, LessNatDef
  <2>3. QED
    BY <2>1, <2>2
<1>4. QED
  BY <1>3

LEMMA NatSetInduction ==
  ASSUME NEW S, 0 \in S, \A n \in Nat : n \in S => n + 1 \in S
  PROVE  Nat \subseteq S
<1>1. SUFFICES ASSUME Nat \ S # {} PROVE FALSE
  OBVIOUS
<1>2. PICK x \in Nat \ S : \A y \in Nat \ S : x <= y
  BY <1>1, LeastNat
<1>3. x # 0 /\ x - 1 \in Nat
  BY <1>2
<1>4. x - 1 \in S
  BY <1>2, <1>3
<1>5. QED
  BY <1>2, <1>3, <1>4

\* A family of subsets of a finite set that contains the empty set, and with a
\* set every set that has one element more, contains them all.
LEMMA FiniteSetInduction ==
  ASSUME NEW S, IsFiniteSet(S), NEW P, {} \in P,
         \A T \in SUBSET S : \A x \in S \ T : T \in P => T \union {x} \in P
  PROVE  \A T \in SUBSET S : T \in P
<1> DEFINE N == {n \in Nat : \A T \in SUBSET S : Cardinality(T) = n => T \in P}
<1>1. 0 \in N
  BY FS_Subset, FS_EmptySet
<1>2. ASSUME NEW n \in Nat, n \in N PROVE n + 1 \in N
  <2>1. SUFFICES ASSUME NEW T \in SUBSET S, Cardinality(T) = n + 1 PROVE T \in P
    OBVIOUS
  <2>2. IsFiniteSet(T)
    BY FS_Subset
  <2>3. PICK x : x \in T
    BY <2>1, <2>2, FS_EmptySet
  <2>4. Cardinality(T \ {x}) = n
    <3>1. Cardinality(T \ {x}) = Cardinality(T) - 1
      BY <2>2, <2>3, FS_RemoveElement
    <3>2. QED
      BY <2>1, <3>1
  <2>5. T \ {x} \in SUBSET S /\ x \in S \ (T \ {x}) /\ (T \ {x}) \union {x} = T
    BY <2>3
  <2>6. T \ {x} \in P
    BY <1>2, <2>4, <2>5
  <2>7. QED
    BY <2>5, <2>6
<1>3. Nat \subseteq N
  <2> HIDE DEF N
  <2> QED BY <1>1, <1>2, NatSetInduction
<1>4. QED
  BY <1>3, FS_Subset, FS_CardinalityType

-----------------------------------------------------------------------------
(* Sums over finite sets *)

Some(s) == CHOOSE x \in s : TRUE

\* f is the function that SumFunctionOnSet evaluates.
IsSum(w, D, f) ==
  f = [s \in D |-> IF s = {} THEN 0 ELSE w[Some(s)] + f[s \ {Some(s)}]]

LEMMA SumUnfolded ==
  ASSUME NEW w, NEW S
  PROVE  SumFunctionOnSet(w, S) = (CHOOSE f : IsSum(w, SUBSET S, f))[S]
BY DEF SumFunctionOnSet, FoldFunctionOnSet, MapThenFoldSet, IsSum, Some

LEMMA SomeIn ==
  ASSUME NEW s, s # {}
  PROVE  Some(s) \in s
BY DEF Some

LEMMA SumExists ==
  ASSUME NEW w, NEW S, IsFiniteSet(S)
  PROVE  \E f : IsSum(w, SUBSET S, f)
<1> DEFINE Small(n) == {s \in SUBSET S : Cardinality(s) <= n}
           N == {n \in Nat : \E f : IsSum(w, Small(n), f)}
<1>1. 0 \in N
  <2>1. \A s \in Small(0) : s = {}
    BY FS_Subset, FS_EmptySet, FS_CardinalityType
  <2>2. IsSum(w, Small(0), [s \in Small(0) |-> 0])
    BY <2>1 DEF IsSum
  <2>3. QED
    BY <2>2
<1>2. ASSUME NEW n \in Nat, n \in N PROVE n + 1 \in N
  <2>1. PICK f : IsSum(w, Small(n), f)
    BY <1>2
  <2> DEFINE g == [s \in Small(n + 1) |->
                     IF s = {} THEN 0 ELSE w[Some(s)] + f[s \ {Some(s)}]]
  <2>2. ASSUME NEW s \in Small(n) PROVE s \in Small(n + 1) /\ g[s] = f[s]
    <3>1. Cardinality(s) \in Nat
      BY FS_Subset, FS_CardinalityType
    <3>2. s \in Small(n + 1)
      BY <3>1
    <3>3. f[s] = IF s = {} THEN 0 ELSE w[Some(s)] + f[s \ {Some(s)}]
      <4> HIDE DEF Small
      <4> QED BY <2>1 DEF IsSum
    <3>4. QED
      BY <3>2, <3>3
  <2>3. ASSUME NEW s \in Small(n + 1), s # {} PROVE s \ {Some(s)} \in Small(n)
    <3>1. Some(s) \in s
      BY <2>3, SomeIn
    <3>2. IsFiniteSet(s) /\ Cardinality(s) \in Nat
      BY FS_Subset, FS_CardinalityType
    <3>3. Cardinality(s \ {Some(s)}) = Cardinality(s) - 1
      BY <3>1, <3>2, FS_RemoveElement
    <3>4. QED
      BY <3>2, <3>3
  <2>4. IsSum(w, Small(n + 1), g)
    <3> DEFINE A(s) == IF s = {} THEN 0 ELSE w[Some(s)] + f[s \ {Some(s)}]
               B(s) == IF s = {} THEN 0 ELSE w[Some(s)] + g[s \ {Some(s)}]
    <3>1. ASSUME NEW s \in Small(n + 1) PROVE A(s) = B(s)
      <4> HIDE DEF Small, g
      <4> QED BY <2>2, <2>3
    <3>2. g = [s \in Small(n + 1) |-> A(s)]
      OBVIOUS
    <3>3. g = [s \in Small(n + 1) |-> B(s)]
      <4> HIDE DEF Small, g, A, B
      <4> QED BY <3>1, <3>2
    <3>4. QED
      <4> HIDE DEF Small, g
      <4> QED BY <3>3 DEF IsSum
  <2>5. \E h : IsSum(w, Small(n + 1), h)
    <3> HIDE DEF Small, g
    <3> QED BY <2>4
  <2>6. QED
    <3> HIDE DEF Small
    <3> QED BY <2>5
<1>3. Nat \subseteq N
  <2> HIDE DEF N
  <2> QED BY <1>1, <1>2, NatSetInduction
<1>4. PICK f : IsSum(w, Small(Cardinality(S)), f)
  BY <1>3, FS_CardinalityType
<1>5. Small(Cardinality(S)) = SUBSET S
  BY FS_Subset
<1>6. QED
  BY <1>4, <1>5

\* What the recursion of SumFunctionOnSet computes for a subset is its sum.
LEMMA SumsAgree ==
  ASSUME NEW w, NEW S, IsFiniteSet(S), NEW T \in SUBSET S, NEW f, NEW g,
         IsSum(w, SUBSET S, f), IsSum(w, SUBSET T, g)
  PROVE  \A u \in SUBSET T : f[u] = g[u]
<1> DEFINE N == {n \in Nat : \A u \in SUBSET T : Cardinality(u) = n => f[u] = g[u]}
<1>f. \A u \in SUBSET T : f[u] = IF u = {} THEN 0 ELSE w[Some(u)] + f[u \ {Some(u)}]
  BY DEF IsSum
<1>g. \A u \in SUBSET T : g[u] = IF u = {} THEN 0 ELSE w[Some(u)] + g[u \ {Some(u)}]
  BY DEF IsSum
<1>c. \A u \in SUBSET T : IsFiniteSet(u) /\ Cardinality(u) \in Nat
  BY FS_Subset, FS_CardinalityType
<1>1. 0 \in N
  BY <1>f, <1>g, <1>c, FS_EmptySet
<1>2. ASSUME NEW n \in Nat, n \in N PROVE n + 1 \in N
  <2>1. SUFFICES ASSUME NEW u \in SUBSET T, Cardinality(u) = n + 1 PROVE f[u] = g[u]
    OBVIOUS
  <2>2. u # {}
    <3>1. Cardinality(u) # 0
      BY <2>1
    <3>2. QED
      BY <3>1, FS_EmptySet
  <2>3. Some(u) \in u
    BY <2>2, SomeIn
  <2>4. Cardinality(u \ {Some(u)}) = Cardinality(u) - 1
    BY <1>c, <2>3, FS_RemoveElement
  <2>5. f[u \ {Some(u)}] = g[u \ {Some(u)}]
    BY <1>2, <2>1, <2>4
  <2>6. QED
    BY <1>f, <1>g, <2>2, <2>5
<1>3. Nat \subseteq N
  <2> HIDE DEF N
  <2> QED BY <1>1, <1>2, NatSetInduction
<1>4. QED
  BY <1>3, <1>c

LEMMA SumEmpty ==
  ASSUME NEW w
  PROVE  SumFunctionOnSet(w, {}) = 0
<1>1. PICK f : IsSum(w, SUBSET {}, f)
  BY SumExists, FS_EmptySet
<1>2. IsSum(w, SUBSET {}, CHOOSE g : IsSum(w, SUBSET {}, g))
  BY <1>1
<1>3. QED
  BY <1>2, SumUnfolded DEF IsSum

LEMMA SumStep ==
  ASSUME NEW w, NEW S, IsFiniteSet(S), S # {}
  PROVE  SumFunctionOnSet(w, S) = w[Some(S)] + SumFunctionOnSet(w, S \ {Some(S)})
<1> DEFINE T == S \ {Some(S)}
           f == CHOOSE f : IsSum(w, SUBSET S, f)
           g == CHOOSE g : IsSum(w, SUBSET T, g)
<1>1. IsFiniteSet(T)
  BY FS_Subset
<1>2. IsSum(w, SUBSET S, f)
  BY SumExists
<1>3. IsSum(w, SUBSET T, g)
  <2> HIDE DEF T
  <2> QED BY <1>1, SumExists
<1>4. SumFunctionOnSet(w, S) = f[S] /\ SumFunctionOnSet(w, T) = g[T]
  BY SumUnfolded
<1>5. T \in SUBSET S
  OBVIOUS
<1>6. f[T] = g[T]
  <2> HIDE DEF T, f, g
  <2>1. \A u \in SUBSET T : f[u] = g[u]
    BY <1>2, <1>3, <1>5, SumsAgree
  <2>2. QED
    BY <2>1
<1>7. f[S] = w[Some(S)] + f[T]
  <2> HIDE DEF f
  <2> QED BY <1>2 DEF IsSum
<1>8. QED
  BY <1>4, <1>6, <1>7

\* The sum of integers is an integer, and any element may be taken out first.
LEMMA SumOut ==
  ASSUME NEW S, IsFiniteSet(S), NEW w, \A i \in S : w[i] \in Int
  PROVE  /\ SumFunctionOnSet(w, S) \in Int
         /\ \A x \in S : SumFunctionOnSet(w, S) = w[x] + SumFunctionOnSet(w, S \ {x})
<1> DEFINE Good(T) == /\ SumFunctionOnSet(w, T) \in Int
                      /\ \A x \in T : SumFunctionOnSet(w, T) = w[x] + SumFunctionOnSet(w, T \ {x})
           N == {n \in Nat : \A T \in SUBSET S : Cardinality(T) <= n => Good(T)}
<1>c. \A T \in SUBSET S : IsFiniteSet(T) /\ Cardinality(T) \in Nat
  BY FS_Subset, FS_CardinalityType
<1>1. 0 \in N
  <2>1. \A T \in SUBSET S : Cardinality(T) <= 0 => T = {}
    BY <1>c, FS_EmptySet
  <2>2. Good({})
    BY SumEmpty
  <2>3. QED
    BY <2>1, <2>2
<1>2. ASSUME NEW n \in Nat, n \in N PROVE n + 1 \in N
  <2>1. SUFFICES ASSUME NEW T \in SUBSET S, Cardinality(T) <= n + 1 PROVE Good(T)
    OBVIOUS
  <2> DEFINE c == Some(T)
  <2>2. CASE T = {}
    BY <2>2, SumEmpty
  <2>3. CASE T # {}
    <3>1. c \in T
      BY <2>3, SomeIn
    <3>r. \A x \in T : Cardinality(T \ {x}) <= n
      <4>1. \A x \in T : Cardinality(T \ {x}) = Cardinality(T) - 1
        BY <1>c, FS_RemoveElement
      <4>2. QED
        BY <2>1, <4>1, <1>c
    <3>2. SumFunctionOnSet(w, T) = w[c] + SumFunctionOnSet(w, T \ {c})
      BY <1>c, <2>3, SumStep
    <3>3. \A x \in T : Good(T \ {x})
      <4>1. \A x \in T : T \ {x} \in SUBSET S
        OBVIOUS
      <4> HIDE DEF Good
      <4> QED BY <1>2, <3>r, <4>1
    <3>4. SumFunctionOnSet(w, T) \in Int
      <4>1. w[c] \in Int
        BY <3>1
      <4> HIDE DEF c
      <4> QED BY <3>1, <3>2, <3>3, <4>1
    <3>5. ASSUME NEW x \in T PROVE SumFunctionOnSet(w, T) = w[x] + SumFunctionOnSet(w, T \ {x})
      <4>1. CASE x = c
        BY <3>2, <4>1
      <4>2. CASE x # c
        <5>1. (T \ {x}) \ {c} = (T \ {c}) \ {x}
          OBVIOUS
        <5>2. x \in T \ {c} /\ c \in T \ {x}
          BY <3>1, <4>2
        <5>3. SumFunctionOnSet(w, T \ {c}) = w[x] + SumFunctionOnSet(w, (T \ {c}) \ {x})
          <6> HIDE DEF c
          <6> QED BY <3>1, <3>3, <5>2
        <5>4. SumFunctionOnSet(w, T \ {x}) = w[c] + SumFunctionOnSet(w, (T \ {x}) \ {c})
          <6> HIDE DEF c
          <6> QED BY <3>3, <5>2
        <5>5. SumFunctionOnSet(w, T \ {c}) \in Int /\ SumFunctionOnSet(w, T \ {x}) \in Int
          <6> HIDE DEF c
          <6> QED BY <3>1, <3>3
        <5>6. w[c] \in Int /\ w[x] \in Int
          <6> HIDE DEF c
          <6> QED BY <3>1
        <5>7. SumFunctionOnSet(w, (T \ {x}) \ {c}) \in Int
          <6>1. (T \ {x}) \ {c} \in SUBSET S
            OBVIOUS
          <6>2. Cardinality((T \ {x}) \ {c}) <= n
            <7>1. Cardinality((T \ {x}) \ {c}) <= Cardinality(T \ {x})
              BY <1>c, FS_Subset
            <7>2. QED
              BY <7>1, <3>r, <1>c
          <6>3. Good((T \ {x}) \ {c})
            <7> HIDE DEF Good, c
            <7> QED BY <1>2, <6>1, <6>2
          <6>4. QED
            BY <6>3
        <5>8. SumFunctionOnSet(w, T)
                = w[x] + (w[c] + SumFunctionOnSet(w, (T \ {x}) \ {c}))
          <6> HIDE DEF c
          <6>1. SumFunctionOnSet(w, T)
                  = w[c] + (w[x] + SumFunctionOnSet(w, (T \ {x}) \ {c}))
            BY <3>2, <5>1, <5>3
          <6>2. QED
            BY <6>1, <5>6, <5>7
        <5>9. QED
          BY <5>4, <5>8
      <4>3. QED
        BY <4>1, <4>2
    <3>6. QED
      BY <3>4, <3>5
  <2>4. QED
    BY <2>2, <2>3
<1>3. Nat \subseteq N
  <2> HIDE DEF N
  <2> QED BY <1>1, <1>2, NatSetInduction
<1>4. Good(S)
  <2> HIDE DEF Good
  <2> QED BY <1>3, <1>c
<1>5. QED
  BY <1>4

\* An inequality that holds of the values holds of the sums.
LEMMA SumLinear ==
  ASSUME NEW S, IsFiniteSet(S), NEW p \in Int, NEW q \in Int, NEW r \in Int,
         NEW a, NEW b, NEW c, \A i \in S : a[i] \in Int /\ b[i] \in Int /\ c[i] \in Int,
         \A i \in S : p * a[i] + q * b[i] + r * c[i] >= 0
  PROVE  p * SumFunctionOnSet(a, S) + q * SumFunctionOnSet(b, S) + r * SumFunctionOnSet(c, S) >= 0
<1> DEFINE Good(T) == p * SumFunctionOnSet(a, T) + q * SumFunctionOnSet(b, T)
                      + r * SumFunctionOnSet(c, T) >= 0
           P == {T \in SUBSET S : Good(T)}
<1>1. {} \in P
  BY SumEmpty
<1>2. ASSUME NEW T \in SUBSET S, NEW x \in S \ T, T \in P PROVE T \union {x} \in P
  <2>1. IsFiniteSet(T) /\ IsFiniteSet(T \union {x}) /\ (T \union {x}) \ {x} = T
    BY FS_Subset, FS_AddElement
  <2> DEFINE U == T \union {x}
  <2>i. \A i \in U : a[i] \in Int /\ b[i] \in Int /\ c[i] \in Int
    OBVIOUS
  <2>2. /\ SumFunctionOnSet(a, U) = a[x] + SumFunctionOnSet(a, T)
        /\ SumFunctionOnSet(b, U) = b[x] + SumFunctionOnSet(b, T)
        /\ SumFunctionOnSet(c, U) = c[x] + SumFunctionOnSet(c, T)
    <3>1. x \in U /\ IsFiniteSet(U) /\ U \ {x} = T
      BY <2>1
    <3>2. QED
      <4> HIDE DEF U
      <4> QED BY <3>1, <2>i, SumOut
  <2>3. /\ SumFunctionOnSet(a, T) \in Int /\ SumFunctionOnSet(b, T) \in Int
        /\ SumFunctionOnSet(c, T) \in Int
    BY <2>1, SumOut
  <2>4. Good(U)
    <3> DEFINE A == SumFunctionOnSet(a, T)
               B == SumFunctionOnSet(b, T)
               C == SumFunctionOnSet(c, T)
    <3>1. p * A + q * B + r * C >= 0
      BY <1>2
    <3>2. p * a[x] + q * b[x] + r * c[x] >= 0
      OBVIOUS
    <3>3. a[x] \in Int /\ b[x] \in Int /\ c[x] \in Int /\ A \in Int /\ B \in Int /\ C \in Int
      BY <2>3
    <3>4. p * (a[x] + A) + q * (b[x] + B) + r * (c[x] + C) >= 0
      <4> HIDE DEF A, B, C
      <4> QED BY <3>1, <3>2, <3>3
    <3>5. QED
      BY <2>2, <3>4
  <2>5. QED
    BY <2>4
<1>3. \A T \in SUBSET S : T \in P
  <2> HIDE DEF P
  <2> QED BY <1>1, <1>2, FiniteSetInduction
<1>4. QED
  BY <1>3

LEMMA SumOnes ==
  ASSUME NEW S, IsFiniteSet(S), NEW a, \A i \in S : a[i] = 1
  PROVE  SumFunctionOnSet(a, S) = Cardinality(S)
<1> DEFINE P == {T \in SUBSET S : SumFunctionOnSet(a, T) = Cardinality(T)}
<1>1. {} \in P
  BY SumEmpty, FS_EmptySet
<1>2. ASSUME NEW T \in SUBSET S, NEW x \in S \ T, T \in P PROVE T \union {x} \in P
  <2> DEFINE U == T \union {x}
  <2>1. IsFiniteSet(T) /\ Cardinality(T) \in Nat
    BY FS_Subset, FS_CardinalityType
  <2>2. IsFiniteSet(U) /\ Cardinality(U) = Cardinality(T) + 1
    BY <2>1, FS_AddElement
  <2>3. x \in U /\ U \ {x} = T /\ \A i \in U : a[i] = 1
    OBVIOUS
  <2>4. SumFunctionOnSet(a, U) = a[x] + SumFunctionOnSet(a, T)
    <3> HIDE DEF U
    <3> QED BY <2>2, <2>3, SumOut
  <2>5. QED
    BY <1>2, <2>1, <2>2, <2>3, <2>4
<1>3. \A T \in SUBSET S : T \in P
  <2> HIDE DEF P
  <2> QED BY <1>1, <1>2, FiniteSetInduction
<1>4. QED
  BY <1>3

LEMMA SumUnion ==
  ASSUME NEW A, IsFiniteSet(A), NEW B, IsFiniteSet(B), A \intersect B = {},
         NEW a, \A i \in A \union B : a[i] \in Int
  PROVE  SumFunctionOnSet(a, A \union B) = SumFunctionOnSet(a, A) + SumFunctionOnSet(a, B)
<1> DEFINE P == {T \in SUBSET B :
                   SumFunctionOnSet(a, A \union T)
                   = SumFunctionOnSet(a, A) + SumFunctionOnSet(a, T)}
<1>1. {} \in P
  BY SumEmpty, SumOut
<1>2. ASSUME NEW T \in SUBSET B, NEW x \in B \ T, T \in P PROVE T \union {x} \in P
  <2> DEFINE U == T \union {x}
             V == A \union U
  <2>1. IsFiniteSet(T) /\ IsFiniteSet(U) /\ IsFiniteSet(V) /\ IsFiniteSet(A \union T)
    BY FS_Subset, FS_Union
  <2>2. x \in U /\ x \in V /\ U \ {x} = T /\ V \ {x} = A \union T
    OBVIOUS
  <2>3. \A i \in V : a[i] \in Int
    OBVIOUS
  <2>4. \A i \in U : a[i] \in Int
    OBVIOUS
  <2>5. SumFunctionOnSet(a, V) = a[x] + SumFunctionOnSet(a, A \union T)
    <3> HIDE DEF U, V
    <3> QED BY <2>1, <2>2, <2>3, SumOut
  <2>6. SumFunctionOnSet(a, U) = a[x] + SumFunctionOnSet(a, T)
    <3> HIDE DEF U, V
    <3> QED BY <2>1, <2>2, <2>4, SumOut
  <2>7. SumFunctionOnSet(a, A) \in Int /\ SumFunctionOnSet(a, T) \in Int /\ a[x] \in Int
    BY <2>1, SumOut
  <2>8. SumFunctionOnSet(a, A \union T) = SumFunctionOnSet(a, A) + SumFunctionOnSet(a, T)
    BY <1>2
  <2>9. SumFunctionOnSet(a, V) = SumFunctionOnSet(a, A) + SumFunctionOnSet(a, U)
    <3> HIDE DEF U, V
    <3> QED BY <2>5, <2>6, <2>7, <2>8
  <2>10. QED
    BY <2>9
<1>3. \A T \in SUBSET B : T \in P
  <2> HIDE DEF P
  <2> QED BY <1>1, <1>2, FiniteSetInduction
<1>4. QED
  BY <1>3

LEMMA SumSame ==
  ASSUME NEW S, IsFiniteSet(S), NEW a, NEW b, \A i \in S : a[i] \in Int /\ a[i] = b[i]
  PROVE  SumFunctionOnSet(a, S) = SumFunctionOnSet(b, S)
<1>1. SumFunctionOnSet(a, S) \in Int /\ SumFunctionOnSet(b, S) \in Int
  BY SumOut
<1>2. 1 * SumFunctionOnSet(a, S) + (-1) * SumFunctionOnSet(b, S) + 0 * SumFunctionOnSet(a, S) >= 0
  <2>1. 1 \in Int /\ -1 \in Int /\ 0 \in Int
    OBVIOUS
  <2>2. \A i \in S : 1 * a[i] + (-1) * b[i] + 0 * a[i] >= 0
    OBVIOUS
  <2>3. \A i \in S : a[i] \in Int /\ b[i] \in Int /\ a[i] \in Int
    OBVIOUS
  <2>4. QED
    BY <2>1, <2>2, <2>3, SumLinear
<1>3. (-1) * SumFunctionOnSet(a, S) + 1 * SumFunctionOnSet(b, S) + 0 * SumFunctionOnSet(a, S) >= 0
  <2>1. 1 \in Int /\ -1 \in Int /\ 0 \in Int
    OBVIOUS
  <2>2. \A i \in S : (-1) * a[i] + 1 * b[i] + 0 * a[i] >= 0
    OBVIOUS
  <2>3. \A i \in S : a[i] \in Int /\ b[i] \in Int /\ a[i] \in Int
    OBVIOUS
  <2>4. QED
    BY <2>1, <2>2, <2>3, SumLinear
<1>4. QED
  BY <1>1, <1>2, <1>3

LEMMA SumMarks ==
  ASSUME NEW S, IsFiniteSet(S), NEW Z \in SUBSET S,
         NEW a, \A i \in S : a[i] = IF i \in Z THEN 1 ELSE 0
  PROVE  SumFunctionOnSet(a, S) = Cardinality(Z)
<1>1. IsFiniteSet(Z) /\ IsFiniteSet(S \ Z) /\ Z \union (S \ Z) = S /\ Z \intersect (S \ Z) = {}
  BY FS_Subset
<1>2. SumFunctionOnSet(a, Z) = Cardinality(Z)
  BY <1>1, SumOnes
<1>3. 0 * SumFunctionOnSet(a, S \ Z) + 1 * SumFunctionOnSet(a, S \ Z)
        + 0 * SumFunctionOnSet(a, S \ Z) >= 0
  <2>1. 1 \in Int /\ 0 \in Int
    OBVIOUS
  <2>2. \A i \in S \ Z : a[i] \in Int /\ 0 * a[i] + 1 * a[i] + 0 * a[i] >= 0
    OBVIOUS
  <2>3. QED
    BY <1>1, <2>1, <2>2, SumLinear
<1>4. 0 * SumFunctionOnSet(a, S \ Z) + (-1) * SumFunctionOnSet(a, S \ Z)
        + 0 * SumFunctionOnSet(a, S \ Z) >= 0
  <2>1. -1 \in Int /\ 0 \in Int
    OBVIOUS
  <2>2. \A i \in S \ Z : a[i] \in Int /\ 0 * a[i] + (-1) * a[i] + 0 * a[i] >= 0
    OBVIOUS
  <2>3. QED
    BY <1>1, <2>1, <2>2, SumLinear
<1>5. SumFunctionOnSet(a, S \ Z) \in Int /\ Cardinality(Z) \in Int
  <2>1. \A i \in S \ Z : a[i] \in Int
    OBVIOUS
  <2>2. SumFunctionOnSet(a, S \ Z) \in Int
    BY <1>1, <2>1, SumOut
  <2>3. QED
    BY <1>1, <2>2, FS_CardinalityType
<1>6. SumFunctionOnSet(a, Z \union (S \ Z)) = SumFunctionOnSet(a, Z) + SumFunctionOnSet(a, S \ Z)
  <2>1. \A i \in Z \union (S \ Z) : a[i] \in Int
    OBVIOUS
  <2>2. QED
    BY <1>1, <2>1, SumUnion
<1>7. SumFunctionOnSet(a, S \ Z) = 0
  <2> DEFINE A == SumFunctionOnSet(a, S \ Z)
  <2>1. A \in Int /\ 0 * A + 1 * A + 0 * A >= 0 /\ 0 * A + (-1) * A + 0 * A >= 0
    BY <1>3, <1>4, <1>5
  <2> HIDE DEF A
  <2>2. A = 0
    BY <2>1
  <2>3. QED
    BY <2>2 DEF A
<1>8. SumFunctionOnSet(a, Z) \in Int
  BY <1>2, <1>5
<1>9. SumFunctionOnSet(a, S) = SumFunctionOnSet(a, Z) + SumFunctionOnSet(a, S \ Z)
  BY <1>1, <1>6
<1>10. QED
  BY <1>2, <1>7, <1>8, <1>9

LEMMA SumPlus ==
  ASSUME NEW S, IsFiniteSet(S), NEW a, NEW b, NEW c,
         \A i \in S : a[i] \in Int /\ b[i] \in Int /\ c[i] = a[i] + b[i]
  PROVE  SumFunctionOnSet(c, S) = SumFunctionOnSet(a, S) + SumFunctionOnSet(b, S)
<1>1. \A i \in S : a[i] \in Int /\ b[i] \in Int /\ c[i] \in Int
  OBVIOUS
<1>2. 1 * SumFunctionOnSet(a, S) + 1 * SumFunctionOnSet(b, S) + (-1) * SumFunctionOnSet(c, S) >= 0
  <2>1. 1 \in Int /\ -1 \in Int /\ \A i \in S : 1 * a[i] + 1 * b[i] + (-1) * c[i] >= 0
    BY <1>1
  <2>2. QED
    BY <1>1, <2>1, SumLinear
<1>3. (-1) * SumFunctionOnSet(a, S) + (-1) * SumFunctionOnSet(b, S) + 1 * SumFunctionOnSet(c, S) >= 0
  <2>1. 1 \in Int /\ -1 \in Int /\ \A i \in S : (-1) * a[i] + (-1) * b[i] + 1 * c[i] >= 0
    BY <1>1
  <2>2. QED
    BY <1>1, <2>1, SumLinear
<1>4. /\ SumFunctionOnSet(a, S) \in Int /\ SumFunctionOnSet(b, S) \in Int
      /\ SumFunctionOnSet(c, S) \in Int
  BY <1>1, SumOut
<1>5. QED
  BY <1>2, <1>3, <1>4

LEMMA SumScaled ==
  ASSUME NEW S, IsFiniteSet(S), NEW v \in Int, NEW a, NEW b,
         \A i \in S : b[i] \in Int /\ a[i] = v * b[i]
  PROVE  SumFunctionOnSet(a, S) = v * SumFunctionOnSet(b, S)
<1>1. \A i \in S : a[i] \in Int /\ b[i] \in Int
  OBVIOUS
<1>2. 1 * SumFunctionOnSet(a, S) + (-v) * SumFunctionOnSet(b, S) + 0 * SumFunctionOnSet(a, S) >= 0
  <2>1. 1 \in Int /\ -v \in Int /\ 0 \in Int
    OBVIOUS
  <2>2. \A i \in S : 1 * a[i] + (-v) * b[i] + 0 * a[i] >= 0
    BY <1>1
  <2>3. QED
    BY <1>1, <2>1, <2>2, SumLinear
<1>3. (-1) * SumFunctionOnSet(a, S) + v * SumFunctionOnSet(b, S) + 0 * SumFunctionOnSet(a, S) >= 0
  <2>1. -1 \in Int /\ v \in Int /\ 0 \in Int
    OBVIOUS
  <2>2. \A i \in S : (-1) * a[i] + v * b[i] + 0 * a[i] >= 0
    BY <1>1
  <2>3. QED
    BY <1>1, <2>1, <2>2, SumLinear
<1> DEFINE A == SumFunctionOnSet(a, S)
           B == SumFunctionOnSet(b, S)
<1>4. A \in Int /\ B \in Int
  BY <1>1, SumOut
<1>5. 1 * A + (-v) * B + 0 * A >= 0 /\ (-1) * A + v * B + 0 * A >= 0
  BY <1>2, <1>3
<1>6. A = v * B
  <2> HIDE DEF A, B
  <2> QED BY <1>4, <1>5
<1>7. QED
  BY <1>6

LEMMA SumConstant ==
  ASSUME NEW S, IsFiniteSet(S), NEW v \in Int, NEW a, \A i \in S : a[i] = v
  PROVE  SumFunctionOnSet(a, S) = v * Cardinality(S)
<1> DEFINE one == [i \in S |-> 1]
<1>1. \A i \in S : one[i] = 1 /\ one[i] \in Int /\ a[i] = v * one[i]
  OBVIOUS
<1> HIDE DEF one
<1>2. SumFunctionOnSet(one, S) = Cardinality(S)
  BY <1>1, SumOnes
<1>3. SumFunctionOnSet(a, S) = v * SumFunctionOnSet(one, S)
  BY <1>1, SumScaled
<1>4. QED
  BY <1>2, <1>3

\* Values that are no greater and have the same sum are the same.
LEMMA SumsTight ==
  ASSUME NEW S, IsFiniteSet(S), NEW a, NEW b,
         \A i \in S : a[i] \in Int /\ b[i] \in Int /\ a[i] <= b[i],
         SumFunctionOnSet(a, S) = SumFunctionOnSet(b, S)
  PROVE  \A i \in S : a[i] = b[i]
<1>1. SUFFICES ASSUME NEW x \in S PROVE a[x] = b[x]
  OBVIOUS
<1> DEFINE T == S \ {x}
           A == SumFunctionOnSet(a, T)
           B == SumFunctionOnSet(b, T)
<1>2. IsFiniteSet(T) /\ \A i \in T : a[i] \in Int /\ b[i] \in Int /\ a[i] <= b[i]
  BY FS_Subset
<1>3. SumFunctionOnSet(a, S) = a[x] + A /\ SumFunctionOnSet(b, S) = b[x] + B
  BY SumOut
<1>4. A \in Int /\ B \in Int
  <2> HIDE DEF T
  <2> QED BY <1>2, SumOut
<1>5. (-1) * A + 1 * B + 0 * A >= 0
  <2>1. -1 \in Int /\ 1 \in Int /\ 0 \in Int
    OBVIOUS
  <2>2. \A i \in T : /\ (-1) * a[i] + 1 * b[i] + 0 * a[i] >= 0
                     /\ a[i] \in Int /\ b[i] \in Int
    <3> HIDE DEF T
    <3> QED BY <1>2
  <2> HIDE DEF T
  <2>3. QED
    BY <1>2, <2>1, <2>2, SumLinear
<1>6. a[x] \in Int /\ b[x] \in Int /\ a[x] <= b[x] /\ a[x] + A = b[x] + B
  BY <1>3
<1>7. A <= B
  <2> HIDE DEF A, B
  <2> QED BY <1>4, <1>5
<1>8. QED
  <2> DEFINE u == a[x]
             v == b[x]
  <2>1. u \in Int /\ v \in Int /\ u <= v /\ u + A = v + B
    BY <1>6
  <2> HIDE DEF A, B, u, v
  <2>2. u = v
    BY <1>4, <1>7, <2>1
  <2>3. QED
    BY <2>2 DEF u, v

-----------------------------------------------------------------------------
(* The first elements of an order *)

Preceding(S, order, i) == {k \in S : <<k, i>> \in order}
First(S, order, m) == {i \in S : Cardinality(Preceding(S, order, i)) < m}

StrictOrder(S, order) ==
  /\ \A i \in S : <<i, i>> \notin order
  /\ \A i, j, k \in S : <<i, j>> \in order /\ <<j, k>> \in order => <<i, k>> \in order
  /\ \A i, j \in S : i # j => <<i, j>> \in order \/ <<j, i>> \in order

LEMMA PrecedingMonotone ==
  ASSUME NEW S, IsFiniteSet(S), NEW order, StrictOrder(S, order),
         NEW i \in S, NEW j \in S, <<i, j>> \in order
  PROVE  Cardinality(Preceding(S, order, i)) + 1 <= Cardinality(Preceding(S, order, j))
<1> DEFINE U == Preceding(S, order, i) \union {i}
<1>1. U \subseteq Preceding(S, order, j) /\ i \notin Preceding(S, order, i)
  BY DEF Preceding, StrictOrder
<1>2. IsFiniteSet(Preceding(S, order, i)) /\ IsFiniteSet(Preceding(S, order, j))
  BY FS_Subset DEF Preceding
<1>3. IsFiniteSet(U) /\ Cardinality(U) = Cardinality(Preceding(S, order, i)) + 1
  BY <1>1, <1>2, FS_AddElement
<1>4. Cardinality(U) <= Cardinality(Preceding(S, order, j))
  BY <1>1, <1>2, FS_Subset
<1>5. QED
  BY <1>3, <1>4

LEMMA FirstCount ==
  ASSUME NEW S, IsFiniteSet(S), NEW order, StrictOrder(S, order),
         NEW m \in Nat, m <= Cardinality(S)
  PROVE  Cardinality(First(S, order, m)) = m
<1> DEFINE rank(i) == Cardinality(Preceding(S, order, i))
           N == {n \in Nat : n <= Cardinality(S) => Cardinality(First(S, order, n)) = n}
<1>r. \A i \in S : rank(i) \in Nat
  BY FS_Subset, FS_CardinalityType DEF Preceding
<1>s. Cardinality(S) \in Nat
  BY FS_CardinalityType
<1>1. 0 \in N
  <2>1. First(S, order, 0) = {}
    BY <1>r DEF First
  <2>2. QED
    BY <2>1, FS_EmptySet
<1>2. ASSUME NEW n \in Nat, n \in N PROVE n + 1 \in N
  <2>1. SUFFICES ASSUME n + 1 <= Cardinality(S) PROVE Cardinality(First(S, order, n + 1)) = n + 1
    OBVIOUS
  <2> DEFINE A == First(S, order, n)
             C == S \ A
  <2>2. A \subseteq S /\ IsFiniteSet(A) /\ Cardinality(A) = n
    <3>1. A \subseteq S
      BY DEF First
    <3>2. n <= Cardinality(S)
      BY <1>s, <2>1
    <3>3. QED
      BY <1>2, <3>1, <3>2, FS_Subset
  <2>3. C # {}
    <3>1. C = {} => A = S
      BY <2>2
    <3>2. A # S
      <4> HIDE DEF A
      <4> QED BY <1>s, <2>1, <2>2
    <3>3. QED
      BY <3>1, <3>2
  <2>4. PICK x \in C : \A y \in C : rank(x) <= rank(y)
    <3> DEFINE ranks == {rank(y) : y \in C}
    <3>1. ranks \in SUBSET Nat /\ ranks # {}
      BY <1>r, <2>3
    <3>2. PICK r \in ranks : \A q \in ranks : r <= q
      <4> HIDE DEF ranks
      <4> QED BY <3>1, LeastNat
    <3>3. QED
      BY <3>2
  <2>5. \A y \in C : y # x => <<x, y>> \in order
    <3>1. SUFFICES ASSUME NEW y \in C, y # x, <<y, x>> \in order PROVE FALSE
      BY DEF StrictOrder
    <3>2. rank(y) + 1 <= rank(x)
      BY <3>1, PrecedingMonotone
    <3>3. QED
      BY <1>r, <2>4, <3>2
  <2>6. Preceding(S, order, x) \subseteq A
    <3>1. SUFFICES ASSUME NEW k \in S, <<k, x>> \in order, k \in C PROVE FALSE
      BY DEF Preceding
    <3>2. QED
      BY <2>5, <3>1 DEF StrictOrder
  <2>7. rank(x) = n
    <3>1. rank(x) <= n
      BY <2>2, <2>6, FS_Subset
    <3>2. ~ (rank(x) < n)
      BY DEF First
    <3>3. QED
      BY <1>r, <3>1, <3>2
  <2>8. ASSUME NEW y \in S PROVE rank(y) < n + 1 <=> y \in A \union {x}
    <3>1. CASE y \in A
      BY <1>r, <3>1 DEF First
    <3>2. CASE y = x
      BY <2>7, <3>2
    <3>3. CASE y \notin A /\ y # x
      <4>1. rank(x) + 1 <= rank(y)
        BY <2>5, <3>3, PrecedingMonotone
      <4>2. QED
        BY <1>r, <2>7, <3>3, <4>1
    <3>4. QED
      BY <3>1, <3>2, <3>3
  <2>9. First(S, order, n + 1) = A \union {x}
    BY <2>2, <2>8 DEF First
  <2>10. Cardinality(A \union {x}) = n + 1
    BY <2>2, FS_AddElement
  <2>11. QED
    BY <2>9, <2>10
<1>3. Nat \subseteq N
  <2> HIDE DEF N
  <2> QED BY <1>1, <1>2, NatSetInduction
<1>4. QED
  BY <1>3

-----------------------------------------------------------------------------
(* Integers *)

LEMMA Division ==
  ASSUME NEW a \in Int, NEW d \in Nat \ {0}
  PROVE  /\ a \div d \in Int /\ a % d \in Int
         /\ 0 <= a % d /\ a % d < d
         /\ d * (a \div d) + (a % d) = a
OBVIOUS

LEMMA ProductOrder ==
  ASSUME NEW x \in Int, NEW y \in Int, NEW z \in Nat \ {0}
  PROVE  /\ x < y => z * x < z * y
         /\ x <= y => z * x <= z * y
         /\ z * x < z * y => x < y
         /\ z * x <= z * y => x <= y
OBVIOUS

-----------------------------------------------------------------------------
(* One bisection of a fit *)

FitInput(w, target, b) ==
  w \in [Positions -> Nat \ {0}] /\ target \in Int /\ b \in Bisections(w, target)

Weight(w, b) == SumFunctionOnSet(w, Free(w, b))

LEMMA PositionsFinite == IsFiniteSet(Positions) /\ Positions \subseteq Nat
<1>1. Cardinality(Segments) \in Nat
  BY PreviewAssumption, FS_CardinalityType
<1>2. QED
  BY <1>1, FS_Interval DEF Positions

\* A sum over all clips, of which those at a bound have one value each.
LEMMA SumOfParts ==
  ASSUME NEW L \in SUBSET Positions, NEW H \in SUBSET Positions, L \intersect H = {},
         NEW w \in [Positions -> Int], NEW x \in Int, NEW y \in Int, NEW z \in Int, NEW a,
         \A i \in L : a[i] = x, \A i \in H : a[i] = y,
         \A i \in Positions \ (L \union H) : a[i] = z * w[i]
  PROVE  SumFunctionOnSet(a, Positions)
         = x * Cardinality(L) + y * Cardinality(H)
           + z * SumFunctionOnSet(w, Positions \ (L \union H))
<1> DEFINE F == Positions \ (L \union H)
<1>1. IsFiniteSet(L) /\ IsFiniteSet(H) /\ IsFiniteSet(F) /\ IsFiniteSet(L \union H)
  BY PositionsFinite, FS_Subset
<1>2. \A i \in Positions : a[i] \in Int
  <2>1. \A i \in F : a[i] \in Int
    OBVIOUS
  <2>2. QED
    BY <2>1
<1>3. SumFunctionOnSet(a, L \union H) = SumFunctionOnSet(a, L) + SumFunctionOnSet(a, H)
  <2>1. \A i \in L \union H : a[i] \in Int
    BY <1>2
  <2>2. QED
    BY <1>1, <2>1, SumUnion
<1>4. SumFunctionOnSet(a, (L \union H) \union F)
      = SumFunctionOnSet(a, L \union H) + SumFunctionOnSet(a, F)
  <2>1. (L \union H) \intersect F = {} /\ \A i \in (L \union H) \union F : a[i] \in Int
    BY <1>2
  <2> HIDE DEF F
  <2>2. QED
    BY <1>1, <2>1, SumUnion
<1>5. (L \union H) \union F = Positions
  OBVIOUS
<1>6. SumFunctionOnSet(a, L) = x * Cardinality(L) /\ SumFunctionOnSet(a, H) = y * Cardinality(H)
  BY <1>1, SumConstant
<1>7. SumFunctionOnSet(a, F) = z * SumFunctionOnSet(w, F)
  <2>1. \A i \in F : w[i] \in Int /\ a[i] = z * w[i]
    OBVIOUS
  <2> HIDE DEF F
  <2>2. QED
    BY <1>1, <2>1, SumScaled
<1>8. QED
  <2> HIDE DEF F
  <2>1. SumFunctionOnSet(a, Positions) = x * Cardinality(L) + y * Cardinality(H) + z * SumFunctionOnSet(w, F)
    BY <1>3, <1>4, <1>5, <1>6, <1>7
  <2>2. QED
    BY <2>1 DEF F

LEMMA BisectionShape ==
  ASSUME NEW w, NEW target, NEW b, FitInput(w, target, b)
  PROVE  /\ b \in [low: SUBSET Positions, high: SUBSET Positions]
         /\ b.low \intersect b.high = {}
         /\ Free(w, b) \subseteq Positions /\ DOMAIN w = Positions
         /\ Free(w, b) = Positions \ (b.low \union b.high)
         /\ IsFiniteSet(Free(w, b)) /\ IsFiniteSet(b.low) /\ IsFiniteSet(b.high)
         /\ Remaining(target, b) \in Int
BY FS_Subset, FS_CardinalityType, PositionsFinite, PreviewAssumption
   DEF FitInput, Bisections, Free, Remaining

LEMMA WeightPositive ==
  ASSUME NEW w, NEW target, NEW b, FitInput(w, target, b), Free(w, b) # {}
  PROVE  Weight(w, b) \in Nat \ {0}
<1> DEFINE F == Free(w, b)
<1>1. IsFiniteSet(F) /\ \A i \in F : w[i] \in Nat \ {0}
  BY BisectionShape DEF FitInput
<1>2. SumFunctionOnSet(w, F) \in Int
  BY <1>1, SumOut
<1> DEFINE one == [i \in F |-> 1]
<1>3. 1 * SumFunctionOnSet(w, F) + (-1) * SumFunctionOnSet(one, F) + 0 * SumFunctionOnSet(w, F) >= 0
  <2>1. 1 \in Int /\ -1 \in Int /\ 0 \in Int
    OBVIOUS
  <2>2. \A i \in F : w[i] \in Int /\ one[i] \in Int /\ w[i] \in Int
    BY <1>1
  <2>3. \A i \in F : 1 * w[i] + (-1) * one[i] + 0 * w[i] >= 0
    BY <1>1
  <2> HIDE DEF F, one
  <2>4. QED
    BY <1>1, <2>1, <2>2, <2>3, SumLinear
<1>4. SumFunctionOnSet(one, F) = Cardinality(F)
  <2>1. \A i \in F : one[i] = 1
    OBVIOUS
  <2> HIDE DEF F, one
  <2>2. QED
    BY <1>1, <2>1, SumOnes
<1>5. Cardinality(F) \in Nat \ {0}
  BY <1>1, FS_EmptySet, FS_CardinalityType
<1>6. QED
  <2> HIDE DEF one
  <2> QED BY <1>2, <1>3, <1>4, <1>5 DEF Weight

\* The share of a clip that is at no bound is between the bounds.
LEMMA SharesBounded ==
  ASSUME NEW w, NEW target, NEW b, FitInput(w, target, b), Free(w, b) # {}
  PROVE  /\ Remaining(target, b) > 0
         /\ \A i \in Free(w, b) : /\ MinFrames * Weight(w, b) <= Remaining(target, b) * w[i]
                                  /\ Remaining(target, b) * w[i] <= MaxFrames * Weight(w, b)
         /\ \A i \in b.low : Remaining(target, b) * w[i] <= MinFrames * Weight(w, b)
         /\ \A i \in b.high : Remaining(target, b) * w[i] >= MaxFrames * Weight(w, b)
<1> DEFINE R == Remaining(target, b)
           W == Weight(w, b)
<1>1. R \in Int /\ W \in Nat \ {0} /\ \A i \in Positions : w[i] \in Nat \ {0}
  BY BisectionShape, WeightPositive DEF FitInput
<1>2. Below(w, target, b) = {} /\ Above(w, target, b) = {}
  BY DEF FitInput, Bisections
<1>3. \A i \in Free(w, b) : ~ (R * w[i] < MinFrames * W) /\ ~ (R * w[i] > MaxFrames * W)
  BY <1>2 DEF Below, Above, Weight
<1>m. MinFrames \in Nat \ {0} /\ MaxFrames \in Nat
  BY PreviewAssumption
<1>4. \A i \in Free(w, b) : R * w[i] \in Int /\ MinFrames * W \in Int /\ MaxFrames * W \in Int
  <2>1. \A i \in Free(w, b) : w[i] \in Int
    BY <1>1, BisectionShape
  <2> HIDE DEF R, W
  <2> QED BY <1>1, <1>m, <2>1
<1>5. \A i \in Free(w, b) : MinFrames * W <= R * w[i] /\ R * w[i] <= MaxFrames * W
  <2> HIDE DEF R, W
  <2> QED BY <1>3, <1>4
<1>6. R > 0
  <2>1. PICK i \in Free(w, b) : TRUE
    OBVIOUS
  <2>2. w[i] \in Nat \ {0} /\ MinFrames * W <= R * w[i]
    BY <1>1, <1>5, BisectionShape
  <2> HIDE DEF R, W
  <2>3. MinFrames * W > 0
    BY <1>1, <1>m
  <2>4. R * w[i] > 0
    BY <1>1, <1>m, <2>2, <2>3
  <2>5. QED
    BY <1>1, <2>2, <2>4
<1>7. /\ \A i \in b.low : R * w[i] <= MinFrames * W
      /\ \A i \in b.high : R * w[i] >= MaxFrames * W
  BY DEF FitInput, Bisections, Weight
<1>8. QED
  BY <1>5, <1>6, <1>7

\* A bisection needs no correction.
LEMMA CorrectedSame ==
  ASSUME NEW w, NEW target, NEW b, FitInput(w, target, b)
  PROVE  Corrected(w, target, b) = b
<1>1. Below(w, target, b) = {} /\ Above(w, target, b) = {}
  <2>1. CASE Free(w, b) = {}
    BY <2>1 DEF Below, Above
  <2>2. CASE Free(w, b) # {}
    BY <2>2 DEF FitInput, Bisections
  <2>3. QED
    BY <2>1, <2>2
<1>2. b = [low |-> b.low \union {}, high |-> b.high \union {}]
  BY BisectionShape
<1> DEFINE M == Cardinality(DOMAIN w)
           round(f) == f = [n \in 0..M |->
                  IF n = 0 THEN b
                  ELSE [low  |-> f[n - 1].low \union Below(w, target, f[n - 1]),
                        high |-> f[n - 1].high \union Above(w, target, f[n - 1])]]
           r == CHOOSE f : round(f)
<1>3. M \in Nat
  BY BisectionShape, PositionsFinite, FS_CardinalityType
<1>4. round([n \in 0..M |-> b])
  <2> DEFINE c == [n \in 0..M |-> b]
  <2>1. \A n \in 0..M : n # 0 => c[n - 1] = b
    BY <1>3
  <2>2. \A n \in 0..M :
          b = IF n = 0 THEN b
              ELSE [low  |-> c[n - 1].low \union Below(w, target, c[n - 1]),
                    high |-> c[n - 1].high \union Above(w, target, c[n - 1])]
    <3> HIDE DEF c
    <3> QED BY <1>1, <1>2, <2>1
  <2>3. QED
    BY <2>2
<1>5. round(r)
  <2> HIDE DEF round
  <2> QED BY <1>4
<1> DEFINE N == {n \in Nat : n <= M => r[n] = b}
<1>6. 0 \in N
  <2>1. 0 \in 0..M
    BY <1>3
  <2> HIDE DEF r, M
  <2> QED BY <1>5, <2>1
<1>7. ASSUME NEW n \in Nat, n \in N PROVE n + 1 \in N
  <2>1. SUFFICES ASSUME n + 1 <= M PROVE r[n + 1] = b
    <3> HIDE DEF r, M
    <3> QED OBVIOUS
  <2>2. r[n] = b /\ n + 1 \in 0..M /\ n + 1 # 0 /\ (n + 1) - 1 = n
    <3> HIDE DEF r, M
    <3> QED BY <1>3, <1>7, <2>1
  <2>3. r[n + 1] = [low  |-> r[n].low \union Below(w, target, r[n]),
                    high |-> r[n].high \union Above(w, target, r[n])]
    <3> HIDE DEF r, M
    <3> QED BY <1>5, <2>2
  <2>4. QED
    <3> HIDE DEF r, M
    <3> QED BY <1>1, <1>2, <2>2, <2>3
<1>8. Nat \subseteq N
  <2> HIDE DEF N
  <2> QED BY <1>6, <1>7, NatSetInduction
<1>9. r[M] = b
  <2> HIDE DEF r, M
  <2> QED BY <1>3, <1>8
<1>10. QED
  BY <1>9 DEF Corrected

-----------------------------------------------------------------------------
(* Rounding *)

Share(w, target, b, i) == Remaining(target, b) * w[i]
Lost(w, target, b) == Remaining(target, b) - SumFunctionOnSet(Floors(w, target, b), Free(w, b))

\* The clips whose share is not a whole number of frames.
Uneven(w, target, b) == {i \in Free(w, b) : Remainder(w, target, b, i) > 0}

\* Larger remainders first, then the first positions.
ByRemainder(w, target, b) ==
  {p \in Free(w, b) \X Free(w, b) :
     \/ Remainder(w, target, b, p[1]) > Remainder(w, target, b, p[2])
     \/ Remainder(w, target, b, p[1]) = Remainder(w, target, b, p[2]) /\ p[1] < p[2]}

LEMMA FloorFacts ==
  ASSUME NEW w, NEW target, NEW b, FitInput(w, target, b), NEW i \in Free(w, b)
  PROVE  /\ Weight(w, b) \in Nat \ {0}
         /\ Share(w, target, b, i) \in Nat
         /\ Floors(w, target, b)[i] \in Int /\ Remainder(w, target, b, i) \in Nat
         /\ Remainder(w, target, b, i) < Weight(w, b)
         /\ Weight(w, b) * Floors(w, target, b)[i] + Remainder(w, target, b, i)
            = Share(w, target, b, i)
<1>1. Weight(w, b) \in Nat \ {0}
  BY WeightPositive
<1>2. Remaining(target, b) \in Int /\ Remaining(target, b) > 0 /\ w[i] \in Nat \ {0}
  BY BisectionShape, SharesBounded DEF FitInput
<1>3. Share(w, target, b, i) \in Nat
  BY <1>2 DEF Share
<1>4. /\ Floors(w, target, b)[i] = Share(w, target, b, i) \div Weight(w, b)
      /\ Remainder(w, target, b, i) = Share(w, target, b, i) % Weight(w, b)
  BY DEF Floors, Remainder, Share, Weight
<1> DEFINE s == Share(w, target, b, i)
           W == Weight(w, b)
<1>5. /\ s \div W \in Int /\ s % W \in Int
      /\ 0 <= s % W /\ s % W < W
      /\ W * (s \div W) + (s % W) = s
  <2>1. s \in Int /\ W \in Nat \ {0}
    BY <1>1, <1>3
  <2> HIDE DEF s, W
  <2>2. QED
    BY <2>1, Division
<1>6. QED
  BY <1>1, <1>3, <1>4, <1>5

LEMMA FloorBounds ==
  ASSUME NEW w, NEW target, NEW b, FitInput(w, target, b), NEW i \in Free(w, b)
  PROVE  /\ Floors(w, target, b)[i] \in MinFrames..MaxFrames
         /\ Floors(w, target, b)[i] = MaxFrames => Remainder(w, target, b, i) = 0
<1> DEFINE W == Weight(w, b)
           f == Floors(w, target, b)[i]
           r == Remainder(w, target, b, i)
           s == Share(w, target, b, i)
<1>1. /\ W \in Nat \ {0} /\ f \in Int /\ r \in Nat /\ r < W /\ s \in Nat
      /\ W * f + r = s
  BY FloorFacts
<1>2. MinFrames * W <= s /\ s <= MaxFrames * W
  BY SharesBounded DEF Share
<1>3. MinFrames \in Int /\ MaxFrames \in Int
  BY PreviewAssumption
<1> HIDE DEF W, f, r, s
<1>4. W * MinFrames < W * (f + 1)
  BY <1>1, <1>2, <1>3
<1>5. MinFrames < f + 1
  BY <1>1, <1>3, <1>4, ProductOrder
<1>6. W * f <= W * MaxFrames
  BY <1>1, <1>2, <1>3
<1>7. f <= MaxFrames
  BY <1>1, <1>3, <1>6, ProductOrder
<1>8. f = MaxFrames => r = 0
  BY <1>1, <1>2, <1>3
<1>9. QED
  <2>1. f \in MinFrames..MaxFrames
    BY <1>1, <1>3, <1>5, <1>7
  <2>2. QED
    BY <1>8, <2>1 DEF f, r

\* The frames lost by rounding down are no more than the clips that lost some.
LEMMA LostBounded ==
  ASSUME NEW w, NEW target, NEW b, FitInput(w, target, b)
  PROVE  /\ Lost(w, target, b) \in Nat
         /\ IsFiniteSet(Uneven(w, target, b)) /\ Cardinality(Uneven(w, target, b)) \in Nat
         /\ Lost(w, target, b) <= Cardinality(Uneven(w, target, b))
<1> DEFINE F == Free(w, b)
           W == Weight(w, b)
           R == Remaining(target, b)
           floors == Floors(w, target, b)
           rem == [i \in F |-> Remainder(w, target, b, i)]
           Z == Uneven(w, target, b)
           mark == [i \in F |-> IF i \in Z THEN 1 ELSE 0]
<1>1. IsFiniteSet(F) /\ R \in Int /\ Z \subseteq F /\ F \subseteq Positions
  BY BisectionShape DEF Uneven
<1>2. IsFiniteSet(Z) /\ Cardinality(Z) \in Nat
  BY <1>1, FS_Subset, FS_CardinalityType
<1>3. CASE F = {}
  <2>1. R = 0
    BY <1>3 DEF FitInput, Bisections
  <2>2. SumFunctionOnSet(floors, F) = 0
    BY <1>3, SumEmpty
  <2>3. Lost(w, target, b) = 0
    BY <2>1, <2>2 DEF Lost
  <2>4. QED
    BY <1>2, <2>3
<1>4. CASE F # {}
  <2>1. W \in Nat \ {0} /\ R > 0
    BY <1>4, WeightPositive, SharesBounded
  <2>2. \A i \in F : /\ floors[i] \in Int /\ rem[i] \in Nat /\ rem[i] < W
                     /\ W * floors[i] + rem[i] = R * w[i]
                     /\ w[i] \in Int
    <3>1. \A i \in F : w[i] \in Int
      BY <1>1 DEF FitInput
    <3>2. QED
      BY <3>1, FloorFacts DEF Share
  <2>3. \A i \in F : mark[i] \in Int /\ rem[i] <= (W - 1) * mark[i]
    <3>1. \A i \in F : i \notin Z => rem[i] = 0
      BY <2>2 DEF Uneven
    <3>2. ASSUME NEW i \in F PROVE mark[i] \in Int /\ rem[i] <= (W - 1) * mark[i]
      <4>1. CASE i \in Z
        <5>1. mark[i] = 1
          BY <4>1
        <5> HIDE DEF mark, rem, W
        <5>2. QED
          BY <2>1, <2>2, <5>1
      <4>2. CASE i \notin Z
        <5>1. mark[i] = 0 /\ rem[i] = 0
          BY <3>1, <4>2
        <5> HIDE DEF mark, rem, W
        <5>2. QED
          BY <2>1, <5>1
      <4>3. QED
        BY <4>1, <4>2
    <3>3. QED
      BY <3>2
  <2>4. SumFunctionOnSet(mark, F) = Cardinality(Z)
    <3>1. \A i \in F : mark[i] = IF i \in Z THEN 1 ELSE 0
      OBVIOUS
    <3> HIDE DEF mark, Z, F
    <3>2. QED
      BY <1>1, <3>1, SumMarks
  <2> DEFINE A == SumFunctionOnSet(floors, F)
             B == SumFunctionOnSet(rem, F)
             C == SumFunctionOnSet(mark, F)
  <2>5. W = SumFunctionOnSet(w, F)
    BY DEF Weight
  <2>6. A \in Int /\ B \in Int /\ C \in Int
    <3> HIDE DEF F, floors, rem, mark
    <3> QED BY <1>1, <2>2, <2>3, SumOut
  <2>7. W * A + 1 * B + (-R) * W >= 0
    <3>1. \A i \in F : W * floors[i] + 1 * rem[i] + (-R) * w[i] >= 0
      <4> HIDE DEF F, W, R, floors, rem
      <4> QED BY <1>1, <2>1, <2>2
    <3>2. W \in Int /\ 1 \in Int /\ -R \in Int
      <4> HIDE DEF W, R
      <4> QED BY <1>1, <2>1
    <3>3. \A i \in F : floors[i] \in Int /\ rem[i] \in Int /\ w[i] \in Int
      BY <2>2
    <3>4. W * SumFunctionOnSet(floors, F) + 1 * SumFunctionOnSet(rem, F)
            + (-R) * SumFunctionOnSet(w, F) >= 0
      <4> HIDE DEF F, W, R, floors, rem
      <4> QED BY <1>1, <3>1, <3>2, <3>3, SumLinear
    <3>5. QED
      BY <2>5, <3>4
  <2>8. (-W) * A + (-1) * B + R * W >= 0
    <3>1. \A i \in F : (-W) * floors[i] + (-1) * rem[i] + R * w[i] >= 0
      <4> HIDE DEF F, W, R, floors, rem
      <4> QED BY <1>1, <2>1, <2>2
    <3>2. -W \in Int /\ -1 \in Int /\ R \in Int
      <4> HIDE DEF W, R
      <4> QED BY <1>1, <2>1
    <3>3. \A i \in F : floors[i] \in Int /\ rem[i] \in Int /\ w[i] \in Int
      BY <2>2
    <3>4. (-W) * SumFunctionOnSet(floors, F) + (-1) * SumFunctionOnSet(rem, F)
            + R * SumFunctionOnSet(w, F) >= 0
      <4> HIDE DEF F, W, R, floors, rem
      <4> QED BY <1>1, <3>1, <3>2, <3>3, SumLinear
    <3>5. QED
      BY <2>5, <3>4
  <2>9. B >= 0
    <3>1. 0 \in Int /\ 1 \in Int /\ 0 \in Int
      OBVIOUS
    <3>2. \A i \in F : 0 * rem[i] + 1 * rem[i] + 0 * rem[i] >= 0 /\ rem[i] \in Int
      <4> HIDE DEF F, W, rem
      <4> QED BY <2>2
    <3>3. 0 * B + 1 * B + 0 * B >= 0
      <4> HIDE DEF F, rem
      <4> QED BY <1>1, <3>1, <3>2, SumLinear
    <3> HIDE DEF B
    <3>4. QED
      BY <2>6, <3>3
  <2>10. (-1) * B + (W - 1) * C + 0 * B >= 0
    <3>1. -1 \in Int /\ W - 1 \in Int /\ 0 \in Int
      BY <2>1
    <3>2. \A i \in F : /\ (-1) * rem[i] + (W - 1) * mark[i] + 0 * rem[i] >= 0
                       /\ rem[i] \in Int /\ mark[i] \in Int
      <4> HIDE DEF F, W, rem, mark
      <4> QED BY <2>1, <2>2, <2>3
    <3> HIDE DEF F, W, rem, mark
    <3>3. QED
      BY <1>1, <3>1, <3>2, SumLinear
  <2>11. W * (R - A) = B
    <3> HIDE DEF W, R, A, B
    <3> QED BY <1>1, <2>1, <2>6, <2>7, <2>8
  <2>12. W * 0 <= W * (R - A)
    <3> HIDE DEF W, R, A, B
    <3> QED BY <2>1, <2>9, <2>11
  <2>13. W * (R - A) <= W * C
    <3>1. C \in Nat
      BY <1>2, <2>4
    <3> HIDE DEF W, R, A, B, C
    <3>2. B <= (W - 1) * C
      BY <2>1, <2>6, <2>10
    <3>3. (W - 1) * C <= W * C
      BY <2>1, <3>1
    <3>4. QED
      BY <2>1, <2>6, <2>11, <3>2, <3>3
  <2>14. 0 <= R - A /\ R - A <= C
    <3>1. R - A \in Int /\ 0 \in Int
      <4> HIDE DEF W, R, A, C
      <4> QED BY <1>1, <2>6
    <3> HIDE DEF W, R, A, C
    <3>2. QED
      BY <2>1, <2>6, <2>12, <2>13, <3>1, ProductOrder
  <2>15. QED
    <3>1. Lost(w, target, b) = R - A
      BY DEF Lost
    <3> HIDE DEF R, A, C, Z
    <3>2. QED
      BY <1>1, <1>2, <2>4, <2>6, <2>14, <3>1 DEF C, Z
<1>5. QED
  BY <1>3, <1>4

LEMMA RemainderOrder ==
  ASSUME NEW w, NEW target, NEW b, FitInput(w, target, b)
  PROVE  StrictOrder(Free(w, b), ByRemainder(w, target, b))
<1> DEFINE F == Free(w, b)
           rem(i) == Remainder(w, target, b, i)
           O == ByRemainder(w, target, b)
<1>1. \A i \in F : rem(i) \in Nat /\ i \in Nat
  BY FloorFacts, BisectionShape, PositionsFinite
<1>2. \A i, k \in F : <<i, k>> \in O <=> rem(i) > rem(k) \/ (rem(i) = rem(k) /\ i < k)
  BY DEF ByRemainder
<1> HIDE DEF F, rem, O
<1>3. StrictOrder(F, O)
  BY <1>1, <1>2 DEF StrictOrder
<1>4. QED
  BY <1>3 DEF F, O

LEMMA RoundedUpFirst ==
  ASSUME NEW w, NEW target, NEW b, FitInput(w, target, b)
  PROVE  RoundedUp(w, target, b)
         = First(Free(w, b), ByRemainder(w, target, b), Lost(w, target, b))
<1>1. \A i \in Free(w, b) :
        {k \in Free(w, b) : \/ Remainder(w, target, b, k) > Remainder(w, target, b, i)
                            \/ Remainder(w, target, b, k) = Remainder(w, target, b, i) /\ k < i}
        = Preceding(Free(w, b), ByRemainder(w, target, b), i)
  BY DEF Preceding, ByRemainder
<1>2. Lost(w, target, b) = Remaining(target, b) - SumFunction(Floors(w, target, b))
  BY DEF Lost, SumFunction, Floors
<1>3. QED
  BY <1>1, <1>2 DEF RoundedUp, First

\* As many clips are rounded up as frames were lost, and only clips that lost some.
LEMMA RoundedUpFacts ==
  ASSUME NEW w, NEW target, NEW b, FitInput(w, target, b)
  PROVE  /\ RoundedUp(w, target, b) \subseteq Uneven(w, target, b)
         /\ Cardinality(RoundedUp(w, target, b)) = Lost(w, target, b)
<1> DEFINE F == Free(w, b)
           Z == Uneven(w, target, b)
           m == Lost(w, target, b)
           O == ByRemainder(w, target, b)
<1>1. /\ m \in Nat /\ IsFiniteSet(Z) /\ Cardinality(Z) \in Nat /\ m <= Cardinality(Z)
      /\ Z \subseteq F /\ IsFiniteSet(F)
  BY LostBounded, BisectionShape DEF Uneven
<1>2. m <= Cardinality(F)
  <2>1. Cardinality(Z) <= Cardinality(F) /\ Cardinality(F) \in Nat
    BY <1>1, FS_Subset, FS_CardinalityType
  <2> HIDE DEF m, Z, F
  <2>2. QED
    BY <1>1, <2>1
<1>3. Cardinality(First(F, O, m)) = m
  <2>1. StrictOrder(F, O)
    BY RemainderOrder
  <2> HIDE DEF m, F, O
  <2>2. QED
    BY <1>1, <1>2, <2>1, FirstCount
<1>4. ASSUME NEW i \in First(F, O, m), i \notin Z PROVE FALSE
  <2>1. i \in F /\ Cardinality(Preceding(F, O, i)) < m
    BY <1>4 DEF First
  <2>2. Remainder(w, target, b, i) = 0
    BY <1>4, <2>1, FloorFacts DEF Uneven
  <2>3. Z \subseteq Preceding(F, O, i)
    BY <1>4, <2>1, <2>2 DEF Uneven, Preceding, ByRemainder
  <2>4. IsFiniteSet(Preceding(F, O, i))
    BY <1>1, FS_Subset DEF Preceding
  <2>5. Cardinality(Z) <= Cardinality(Preceding(F, O, i)) /\ Cardinality(Preceding(F, O, i)) \in Nat
    BY <2>3, <2>4, FS_Subset, FS_CardinalityType
  <2> HIDE DEF m, Z, F, O
  <2>6. QED
    BY <1>1, <2>1, <2>5
<1>5. First(F, O, m) \subseteq Z
  BY <1>4 DEF First
<1>6. QED
  BY <1>3, <1>5, RoundedUpFirst

-----------------------------------------------------------------------------
(* What is allocated *)

LEMMA AllocatedCases ==
  ASSUME NEW w, NEW target, NEW b, FitInput(w, target, b)
  PROVE  /\ DOMAIN Allocated(w, target, b) = Positions
         /\ \A i \in b.low : Allocated(w, target, b)[i] = MinFrames
         /\ \A i \in b.high : Allocated(w, target, b)[i] = MaxFrames
         /\ \A i \in Free(w, b) :
              Allocated(w, target, b)[i]
              = Floors(w, target, b)[i] + (IF i \in RoundedUp(w, target, b) THEN 1 ELSE 0)
<1>1. Corrected(w, target, b) = b
  BY CorrectedSame
<1>2. Allocated(w, target, b)
      = [i \in Positions |->
           CASE i \in b.low  -> MinFrames
             [] i \in b.high -> MaxFrames
             [] OTHER -> Floors(w, target, b)[i] + (IF i \in RoundedUp(w, target, b) THEN 1 ELSE 0)]
  BY <1>1, BisectionShape DEF Allocated
<1>3. /\ b.low \subseteq Positions /\ b.high \subseteq Positions /\ b.low \intersect b.high = {}
      /\ Free(w, b) = Positions \ (b.low \union b.high)
  BY BisectionShape
<1> HIDE DEF Allocated
<1>4. QED
  BY <1>2, <1>3

LEMMA AllocatedWithin ==
  ASSUME NEW w, NEW target, NEW b, FitInput(w, target, b), NEW i \in Positions
  PROVE  Allocated(w, target, b)[i] \in MinFrames..MaxFrames
<1>1. MinFrames \in Int /\ MaxFrames \in Int /\ MinFrames <= MaxFrames
  BY PreviewAssumption
<1>2. CASE i \in b.low \union b.high
  BY <1>1, <1>2, AllocatedCases
<1>3. CASE i \in Free(w, b)
  <2> DEFINE f == Floors(w, target, b)[i]
  <2>1. f \in MinFrames..MaxFrames /\ (f = MaxFrames => i \notin RoundedUp(w, target, b))
    <3>1. f \in MinFrames..MaxFrames /\ (f = MaxFrames => Remainder(w, target, b, i) = 0)
      BY <1>3, FloorBounds
    <3>2. Remainder(w, target, b, i) = 0 => i \notin RoundedUp(w, target, b)
      BY RoundedUpFacts DEF Uneven
    <3>3. QED
      BY <3>1, <3>2
  <2>2. Allocated(w, target, b)[i] = f + (IF i \in RoundedUp(w, target, b) THEN 1 ELSE 0)
    BY <1>3, AllocatedCases
  <2> HIDE DEF f
  <2>3. QED
    BY <1>1, <2>1, <2>2
<1>4. QED
  BY <1>2, <1>3, BisectionShape

LEMMA AllocatedSum ==
  ASSUME NEW w, NEW target, NEW b, FitInput(w, target, b)
  PROVE  SumFunctionOnSet(Allocated(w, target, b), Positions) = target
<1> DEFINE F == Free(w, b)
           d == Allocated(w, target, b)
           floors == Floors(w, target, b)
           U == RoundedUp(w, target, b)
           up == [i \in F |-> IF i \in U THEN 1 ELSE 0]
<1>1. /\ IsFiniteSet(F) /\ IsFiniteSet(b.low) /\ IsFiniteSet(b.high)
      /\ F \subseteq Positions /\ b.low \subseteq Positions /\ b.high \subseteq Positions
      /\ b.low \intersect b.high = {} /\ F = Positions \ (b.low \union b.high)
      /\ Remaining(target, b) \in Int /\ target \in Int
  BY BisectionShape DEF FitInput
<1>2. \A i \in Positions : d[i] \in Int
  BY AllocatedWithin, PreviewAssumption
<1>3. SumFunctionOnSet(d, Positions)
      = SumFunctionOnSet(d, b.low) + SumFunctionOnSet(d, b.high) + SumFunctionOnSet(d, F)
  <2>1. SumFunctionOnSet(d, b.low \union b.high)
        = SumFunctionOnSet(d, b.low) + SumFunctionOnSet(d, b.high)
    <3>1. \A i \in b.low \union b.high : d[i] \in Int
      BY <1>1, <1>2
    <3> HIDE DEF d
    <3>2. QED
      BY <1>1, <3>1, SumUnion
  <2>2. SumFunctionOnSet(d, (b.low \union b.high) \union F)
        = SumFunctionOnSet(d, b.low \union b.high) + SumFunctionOnSet(d, F)
    <3>1. \A i \in (b.low \union b.high) \union F : d[i] \in Int
      BY <1>1, <1>2
    <3>2. IsFiniteSet(b.low \union b.high)
      BY <1>1, FS_Union
    <3>3. (b.low \union b.high) \intersect F = {}
      BY <1>1
    <3> HIDE DEF d, F
    <3>4. QED
      BY <1>1, <3>1, <3>2, <3>3, SumUnion
  <2>3. Positions = (b.low \union b.high) \union F
    BY <1>1
  <2> HIDE DEF d, F
  <2>4. QED
    BY <2>1, <2>2, <2>3
<1>4. SumFunctionOnSet(d, b.low) = MinFrames * Cardinality(b.low)
  <2>1. \A i \in b.low : d[i] = MinFrames
    BY AllocatedCases
  <2> HIDE DEF d
  <2>2. QED
    BY <1>1, <2>1, PreviewAssumption, SumConstant
<1>5. SumFunctionOnSet(d, b.high) = MaxFrames * Cardinality(b.high)
  <2>1. \A i \in b.high : d[i] = MaxFrames
    BY AllocatedCases
  <2> HIDE DEF d
  <2>2. QED
    BY <1>1, <2>1, PreviewAssumption, SumConstant
<1>6. SumFunctionOnSet(d, F) = SumFunctionOnSet(floors, F) + SumFunctionOnSet(up, F)
  <2>1. \A i \in F : floors[i] \in Int /\ up[i] \in Int /\ d[i] = floors[i] + up[i]
    BY AllocatedCases, FloorFacts
  <2> HIDE DEF d, floors, up, F
  <2>2. QED
    BY <1>1, <2>1, SumPlus
<1>7. SumFunctionOnSet(up, F) = Lost(w, target, b)
  <2>1. U \subseteq F /\ Cardinality(U) = Lost(w, target, b)
    BY RoundedUpFacts DEF Uneven
  <2>2. \A i \in F : up[i] = IF i \in U THEN 1 ELSE 0
    OBVIOUS
  <2> HIDE DEF U, up, F
  <2>3. QED
    BY <1>1, <2>1, <2>2, SumMarks
<1>8. SumFunctionOnSet(floors, F) \in Int
  <2>1. \A i \in F : floors[i] \in Int
    BY FloorFacts
  <2> HIDE DEF floors, F
  <2>2. QED
    BY <1>1, <2>1, SumOut
<1>9. SumFunctionOnSet(d, F) = Remaining(target, b)
  <2>1. Lost(w, target, b) = Remaining(target, b) - SumFunctionOnSet(floors, F)
    BY DEF Lost
  <2> HIDE DEF d, floors, up, F
  <2>2. QED
    BY <1>1, <1>6, <1>7, <1>8, <2>1
<1>10. /\ Remaining(target, b) = target - MinFrames * Cardinality(b.low) - MaxFrames * Cardinality(b.high)
       /\ MinFrames * Cardinality(b.low) \in Int /\ MaxFrames * Cardinality(b.high) \in Int
  <2>1. Cardinality(b.low) \in Nat /\ Cardinality(b.high) \in Nat
    BY <1>1, FS_CardinalityType
  <2>2. QED
    BY <2>1, PreviewAssumption DEF Remaining
<1>11. QED
  <2> HIDE DEF d, F
  <2>1. SumFunctionOnSet(d, Positions) = target
    BY <1>1, <1>3, <1>4, <1>5, <1>9, <1>10
  <2>2. QED
    BY <2>1 DEF d

\* A heavier clip gets no less than a lighter one.
LEMMA AllocatedMonotone ==
  ASSUME NEW w, NEW target, NEW b, FitInput(w, target, b),
         NEW i \in Positions, NEW k \in Positions, w[i] > w[k]
  PROVE  Allocated(w, target, b)[i] >= Allocated(w, target, b)[k]
<1> DEFINE F == Free(w, b)
           W == Weight(w, b)
           R == Remaining(target, b)
           d == Allocated(w, target, b)
<1>1. /\ MinFrames \in Nat \ {0} /\ MaxFrames \in Nat /\ MinFrames <= MaxFrames
      /\ w[i] \in Nat \ {0} /\ w[k] \in Nat \ {0} /\ R \in Int
      /\ d[i] \in MinFrames..MaxFrames /\ d[k] \in MinFrames..MaxFrames
  BY PreviewAssumption, AllocatedWithin, BisectionShape DEF FitInput
<1>2. CASE i \in b.high \/ k \in b.low
  <2>1. d[i] = MaxFrames \/ d[k] = MinFrames
    BY <1>2, AllocatedCases
  <2> HIDE DEF d
  <2>2. d[i] >= d[k]
    BY <1>1, <2>1
  <2>3. QED
    BY <2>2 DEF d
<1>3. CASE F = {} /\ i \in b.low /\ k \in b.high
  <2>1. MaxFrames * w[i] <= MinFrames * w[k]
    BY <1>3 DEF FitInput, Bisections
  <2>2. MinFrames * w[k] < MaxFrames * w[i]
    <3>1. MinFrames * w[k] < MinFrames * w[i]
      BY <1>1, ProductOrder
    <3>2. w[i] * MinFrames <= w[i] * MaxFrames
      BY <1>1, ProductOrder
    <3> HIDE DEF F, W, R, d
    <3>3. QED
      BY <1>1, <3>1, <3>2
  <2> HIDE DEF F, W, R, d
  <2>3. QED
    BY <1>1, <2>1, <2>2
<1>4. CASE F # {} /\ i \in b.low \union F /\ k \in F \union b.high
  <2>1. /\ W \in Nat \ {0} /\ R > 0
        /\ i \in b.low => R * w[i] <= MinFrames * W
        /\ k \in b.high => MaxFrames * W <= R * w[k]
        /\ i \in F => R * w[i] <= MaxFrames * W
        /\ k \in F => MinFrames * W <= R * w[k]
    BY <1>4, WeightPositive, SharesBounded
  <2>2. R * w[k] < R * w[i]
    <3> HIDE DEF W, R
    <3>1. R \in Nat \ {0}
      BY <1>1, <2>1
    <3>2. QED
      BY <1>1, <3>1, ProductOrder
  <2>3. W * MinFrames <= W * MaxFrames
    BY <1>1, <2>1, ProductOrder
  <2>4. i \in F /\ k \in F
    <3>1. i \in b.low => FALSE
      <4> HIDE DEF F, W, R
      <4> QED BY <1>1, <1>4, <2>1, <2>2, <2>3
    <3>2. k \in b.high => FALSE
      <4> HIDE DEF F, W, R
      <4> QED BY <1>1, <1>4, <2>1, <2>2, <2>3, <3>1
    <3>3. QED
      BY <1>4, <3>1, <3>2
  <2> DEFINE fi == Floors(w, target, b)[i]
             fk == Floors(w, target, b)[k]
             ri == Remainder(w, target, b, i)
             rk == Remainder(w, target, b, k)
             U == RoundedUp(w, target, b)
  <2>5. /\ fi \in Int /\ fk \in Int /\ ri \in Nat /\ rk \in Nat /\ ri < W /\ rk < W
        /\ W * fi + ri = R * w[i] /\ W * fk + rk = R * w[k]
    BY <2>4, FloorFacts DEF Share
  <2>6. d[i] = fi + (IF i \in U THEN 1 ELSE 0) /\ d[k] = fk + (IF k \in U THEN 1 ELSE 0)
    BY <2>4, AllocatedCases
  <2>7. fi >= fk
    <3> HIDE DEF W, R, fi, fk, ri, rk
    <3>1. W * fk < W * (fi + 1)
      BY <1>1, <2>1, <2>2, <2>5
    <3>2. fk < fi + 1
      BY <2>1, <2>5, <3>1, ProductOrder
    <3>3. QED
      BY <2>5, <3>2
  <2>8. fi = fk /\ k \in U => i \in U
    <3>1. SUFFICES ASSUME fi = fk, k \in U PROVE i \in U
      OBVIOUS
    <3>2. ri > rk
      <4> HIDE DEF W, R, fi, fk, ri, rk
      <4> QED BY <1>1, <2>1, <2>2, <2>5, <3>1
    <3>3. <<i, k>> \in ByRemainder(w, target, b)
      BY <2>4, <3>2 DEF ByRemainder
    <3>4. i # k
      BY <2>5, <3>2
    <3> DEFINE O == ByRemainder(w, target, b)
               m == Lost(w, target, b)
    <3>5. Cardinality(Preceding(F, O, k)) < m
      BY <3>1, RoundedUpFirst DEF First
    <3>6. Cardinality(Preceding(F, O, i)) + 1 <= Cardinality(Preceding(F, O, k))
      <4>1. StrictOrder(F, O) /\ IsFiniteSet(F)
        BY RemainderOrder, BisectionShape
      <4> HIDE DEF F, O
      <4>2. QED
        BY <2>4, <3>3, <4>1, PrecedingMonotone DEF O
    <3>7. /\ Cardinality(Preceding(F, O, i)) \in Nat /\ Cardinality(Preceding(F, O, k)) \in Nat
          /\ m \in Nat
      BY LostBounded, BisectionShape, FS_Subset, FS_CardinalityType DEF Preceding
    <3>8. Cardinality(Preceding(F, O, i)) < m
      <4> HIDE DEF F, O, m
      <4> QED BY <3>5, <3>6, <3>7
    <3>9. QED
      BY <2>4, <3>8, RoundedUpFirst DEF First
  <2>9. d[i] >= d[k]
    <3> HIDE DEF d, fi, fk, U
    <3> QED BY <2>5, <2>6, <2>7, <2>8
  <2>10. QED
    BY <2>9
<1>5. QED
  BY <1>2, <1>3, <1>4, BisectionShape

-----------------------------------------------------------------------------
(* Every bisection of a fit allocates the same *)

LEMMA SameDivision ==
  ASSUME NEW d \in Nat \ {0}, NEW f \in Int, NEW g \in Int, NEW r \in Int, NEW s \in Int,
         0 <= r, r < d, 0 <= s, s < d, d * f + r = d * g + s
  PROVE  f = g /\ r = s
<1>1. d * f < d * (g + 1) /\ d * g < d * (f + 1)
  OBVIOUS
<1>2. f < g + 1 /\ g < f + 1
  BY <1>1, ProductOrder
<1>3. QED
  BY <1>2

Quotient(a, d) == a \div d

\* Fractions that are the same have the same whole part and, but for the scale,
\* the same remainder.
LEMMA SameFraction ==
  ASSUME NEW a \in Nat, NEW d \in Nat \ {0}, NEW b \in Nat, NEW e \in Nat \ {0}, e * a = d * b
  PROVE  Quotient(a, d) = Quotient(b, e) /\ e * (a % d) = d * (b % e)
<1> DEFINE f == a \div d
           r == a % d
           g == b \div e
           s == b % e
<1>1. /\ f \in Int /\ r \in Int /\ 0 <= r /\ r < d /\ d * f + r = a
      /\ g \in Int /\ s \in Int /\ 0 <= s /\ s < e /\ e * g + s = b
  BY Division
<1> HIDE DEF f, r, g, s
<1>2. /\ e * d \in Nat \ {0} /\ e * r \in Int /\ d * s \in Int
      /\ 0 <= e * r /\ 0 <= d * s
  BY <1>1
<1>3. e * r < e * d /\ d * s < d * e
  BY <1>1, ProductOrder
<1>4. (e * d) * f + (e * r) = (e * d) * g + (d * s)
  <2>1. e * (d * f + r) = d * (e * g + s)
    BY <1>1
  <2>2. QED
    BY <1>1, <2>1
<1>5. d * e = e * d
  OBVIOUS
<1>6. f = g /\ e * r = d * s
  <2> DEFINE m == e * d
             u == e * r
             v == d * s
  <2>1. /\ m \in Nat \ {0} /\ u \in Int /\ v \in Int /\ 0 <= u /\ 0 <= v /\ u < m /\ v < m
        /\ m * f + u = m * g + v
    BY <1>2, <1>3, <1>4, <1>5
  <2> HIDE DEF m, u, v
  <2>2. f = g /\ u = v
    BY <1>1, <2>1, SameDivision
  <2>3. QED
    BY <2>2 DEF u, v
<1>7. f = g
  BY <1>6
<1>8. QED
  BY <1>6, <1>7 DEF f, r, g, s, Quotient

LEMMA MultipleDivision ==
  ASSUME NEW d \in Nat \ {0}, NEW m \in Nat
  PROVE  (d * m) \div d = m /\ (d * m) % d = 0
<1>1. d * m \in Nat /\ 1 * (d * m) = d * m
  OBVIOUS
<1>2. m \div 1 = m /\ m % 1 = 0
  BY Division
<1> DEFINE f == (d * m) \div d
           r == (d * m) % d
<1>3. f \in Int /\ r \in Int /\ 0 <= r /\ r < d /\ d * f + r = d * m
  BY <1>1, Division
<1> HIDE DEF f, r
<1>4. f = m /\ r = 0
  <2>1. d * f + r = d * m + 0
    BY <1>3
  <2>2. QED
    BY <1>3, <2>1, SameDivision
<1>5. QED
  BY <1>4 DEF f, r

\* The clips of which the frames are not whole, in parts of one q-th of a frame.
Split(c, q) == {i \in Positions : c[i] % q > 0}
BySplit(c, q) ==
  {p \in Split(c, q) \X Split(c, q) :
     c[p[1]] % q > c[p[2]] % q \/ (c[p[1]] % q = c[p[2]] % q /\ p[1] < p[2])}
Whole(c, q) == [i \in Positions |-> c[i] \div q]

\* The frames of c rounded to whole ones that sum up to target.
Rounded(c, q, target) ==
  [i \in Positions |->
     Whole(c, q)[i]
     + (IF i \in First(Split(c, q), BySplit(c, q),
                       target - SumFunctionOnSet(Whole(c, q), Positions))
        THEN 1 ELSE 0)]

\* With the scale p/q each clip takes c/q frames.
Scaled(w, target, b, c, p, q) ==
  /\ p \in Nat /\ q \in Nat \ {0}
  /\ c \in [Positions -> Nat]
  /\ \A i \in b.low : c[i] = q * MinFrames /\ p * w[i] <= q * MinFrames
  /\ \A i \in b.high : c[i] = q * MaxFrames /\ p * w[i] >= q * MaxFrames
  /\ \A i \in Free(w, b) : /\ c[i] = p * w[i]
                           /\ q * MinFrames <= c[i] /\ c[i] <= q * MaxFrames
  /\ SumFunctionOnSet(c, Positions) = q * target

\* The larger scale gives no clip less: with the same sum they give each the same.
LEMMA ScalesOrdered ==
  ASSUME NEW w, NEW target, NEW b, NEW e, FitInput(w, target, b), FitInput(w, target, e),
         NEW c, NEW p, NEW q, NEW d, NEW r, NEW s,
         Scaled(w, target, b, c, p, q), Scaled(w, target, e, d, r, s), p * s <= r * q
  PROVE  \A i \in Positions : s * c[i] = q * d[i]
<1>1. /\ p \in Nat /\ q \in Nat \ {0} /\ r \in Nat /\ s \in Nat \ {0}
      /\ c \in [Positions -> Nat] /\ d \in [Positions -> Nat]
      /\ MinFrames \in Nat \ {0} /\ MaxFrames \in Nat /\ MinFrames <= MaxFrames
      /\ w \in [Positions -> Nat \ {0}] /\ target \in Int
  BY PreviewAssumption DEF Scaled, FitInput
<1>2. ASSUME NEW i \in Positions PROVE s * c[i] <= q * d[i]
  <2> DEFINE x == c[i]
             y == d[i]
             v == w[i]
  <2>1. /\ x \in Nat /\ y \in Nat /\ v \in Nat \ {0}
        /\ \/ x = q * MinFrames
           \/ x = q * MaxFrames /\ x <= p * v
           \/ x = p * v /\ x <= q * MaxFrames
        /\ \/ y = s * MaxFrames
           \/ y = s * MinFrames /\ r * v <= y
           \/ y = r * v /\ y >= s * MinFrames
    BY <1>1, BisectionShape DEF Scaled
  <2>2. x <= q * MaxFrames /\ y >= s * MinFrames
    <3>1. q * MinFrames <= q * MaxFrames /\ s * MinFrames <= s * MaxFrames
      BY <1>1, ProductOrder
    <3> HIDE DEF x, y, v
    <3>2. QED
      BY <1>1, <2>1, <3>1
  <2> HIDE DEF x, y, v
  <2>3. s * x <= s * (q * MaxFrames) /\ q * y >= q * (s * MinFrames)
    BY <1>1, <2>1, <2>2, ProductOrder
  <2>m. s * (q * MinFrames) = q * (s * MinFrames) /\ s * (q * MaxFrames) = q * (s * MaxFrames)
    BY <1>1
  <2>4. x = q * MinFrames => s * x <= q * y
    BY <1>1, <2>1, <2>3, <2>m
  <2>5. y = s * MaxFrames => s * x <= q * y
    BY <1>1, <2>1, <2>3, <2>m
  <2>6. ASSUME x <= p * v, r * v <= y PROVE s * x <= q * y
    <3>1. s * x <= s * (p * v)
      BY <1>1, <2>1, <2>6, ProductOrder
    <3>2. q * (r * v) <= q * y
      BY <1>1, <2>1, <2>6, ProductOrder
    <3>3. v * (p * s) <= v * (r * q)
      <4>1. p * s \in Int /\ r * q \in Int
        BY <1>1
      <4>2. QED
        BY <2>1, <4>1, ProductOrder
    <3>4. s * (p * v) = v * (p * s) /\ q * (r * v) = v * (r * q)
      BY <1>1, <2>1
    <3>5. s * x \in Int /\ q * y \in Int /\ v * (p * s) \in Int /\ v * (r * q) \in Int
      BY <1>1, <2>1
    <3>6. QED
      BY <3>1, <3>2, <3>3, <3>4, <3>5
  <2>7. s * x <= q * y
    BY <1>1, <2>1, <2>4, <2>5, <2>6
  <2>8. QED
    BY <2>7 DEF x, y
<1> DEFINE a == [i \in Positions |-> s * c[i]]
           f == [i \in Positions |-> q * d[i]]
<1>3. /\ SumFunctionOnSet(a, Positions) = s * SumFunctionOnSet(c, Positions)
      /\ SumFunctionOnSet(f, Positions) = q * SumFunctionOnSet(d, Positions)
  <2>1. /\ \A i \in Positions : c[i] \in Int /\ a[i] = s * c[i]
        /\ \A i \in Positions : d[i] \in Int /\ f[i] = q * d[i]
        /\ s \in Int /\ q \in Int /\ IsFiniteSet(Positions)
    BY <1>1, PositionsFinite
  <2> HIDE DEF a, f
  <2>2. SumFunctionOnSet(a, Positions) = s * SumFunctionOnSet(c, Positions)
    BY <2>1, SumScaled
  <2>3. SumFunctionOnSet(f, Positions) = q * SumFunctionOnSet(d, Positions)
    BY <2>1, SumScaled
  <2>4. QED
    BY <2>2, <2>3
<1>4. SumFunctionOnSet(a, Positions) = SumFunctionOnSet(f, Positions)
  <2>1. s * (q * target) = q * (s * target)
    BY <1>1
  <2> HIDE DEF a, f
  <2>2. QED
    BY <1>3, <2>1 DEF Scaled
<1>5. \A i \in Positions : a[i] \in Int /\ f[i] \in Int /\ a[i] <= f[i]
  BY <1>1, <1>2
<1>6. \A i \in Positions : a[i] = f[i]
  <2> HIDE DEF a, f
  <2>1. IsFiniteSet(Positions)
    BY PositionsFinite
  <2>2. QED
    BY <1>4, <1>5, <2>1, SumsTight
<1>7. QED
  BY <1>6

LEMMA ScalesAgree ==
  ASSUME NEW w, NEW target, NEW b, NEW e, FitInput(w, target, b), FitInput(w, target, e),
         NEW c, NEW p, NEW q, NEW d, NEW r, NEW s,
         Scaled(w, target, b, c, p, q), Scaled(w, target, e, d, r, s)
  PROVE  \A i \in Positions : s * c[i] = q * d[i]
<1>1. p * s <= r * q \/ r * q <= p * s
  BY DEF Scaled
<1>2. CASE p * s <= r * q
  BY <1>2, ScalesOrdered
<1>3. CASE r * q <= p * s
  <2>1. \A i \in Positions : q * d[i] = s * c[i]
    BY <1>3, ScalesOrdered
  <2>2. QED
    BY <2>1
<1>4. QED
  BY <1>1, <1>2, <1>3

LEMMA RoundedSame ==
  ASSUME NEW c \in [Positions -> Nat], NEW q \in Nat \ {0},
         NEW d \in [Positions -> Nat], NEW s \in Nat \ {0},
         \A i \in Positions : s * c[i] = q * d[i], NEW target
  PROVE  Rounded(c, q, target) = Rounded(d, s, target)
<1>1. \A i \in Positions : c[i] \div q = d[i] \div s /\ s * (c[i] % q) = q * (d[i] % s)
  <2>1. \A i \in Positions : c[i] \in Nat /\ d[i] \in Nat
    OBVIOUS
  <2>2. ASSUME NEW i \in Positions
        PROVE  c[i] \div q = d[i] \div s /\ s * (c[i] % q) = q * (d[i] % s)
    <3> DEFINE x == c[i]
               y == d[i]
    <3>1. x \in Nat /\ y \in Nat /\ s * x = q * y
      BY <2>1
    <3> HIDE DEF x, y
    <3>2. Quotient(x, q) = Quotient(y, s)
      BY <3>1, SameFraction
    <3>3. s * (x % q) = q * (y % s)
      BY <3>1, SameFraction
    <3>4. QED
      BY <3>2, <3>3 DEF x, y, Quotient
  <2>3. QED
    BY <2>2
<1>2. \A i \in Positions : /\ c[i] % q \in Int /\ 0 <= c[i] % q
                           /\ d[i] % s \in Int /\ 0 <= d[i] % s
  BY Division
<1>3. Whole(c, q) = Whole(d, s)
  BY <1>1 DEF Whole
<1>4. \A i, k \in Positions : c[i] % q > c[k] % q <=> d[i] % s > d[k] % s
  <2>1. SUFFICES ASSUME NEW i \in Positions, NEW k \in Positions
                 PROVE  c[i] % q > c[k] % q <=> d[i] % s > d[k] % s
    OBVIOUS
  <2> DEFINE x == c[i] % q
             y == c[k] % q
             u == d[i] % s
             v == d[k] % s
  <2>2. /\ x \in Int /\ y \in Int /\ u \in Int /\ v \in Int
        /\ s * x = q * u /\ s * y = q * v
    BY <1>1, <1>2
  <2> HIDE DEF x, y, u, v
  <2>3. x > y <=> u > v
    <3>1. x > y <=> s * y < s * x
      BY <2>2, ProductOrder
    <3>2. u > v <=> q * v < q * u
      BY <2>2, ProductOrder
    <3>3. QED
      BY <2>2, <3>1, <3>2
  <2>4. QED
    BY <2>3 DEF x, y, u, v
<1>5. \A i, k \in Positions : c[i] % q = c[k] % q <=> d[i] % s = d[k] % s
  <2>1. SUFFICES ASSUME NEW i \in Positions, NEW k \in Positions
                 PROVE  c[i] % q = c[k] % q <=> d[i] % s = d[k] % s
    OBVIOUS
  <2> DEFINE x == c[i] % q
             y == c[k] % q
             u == d[i] % s
             v == d[k] % s
  <2>2. x \in Int /\ y \in Int /\ u \in Int /\ v \in Int
    BY <1>2
  <2>3. (x > y <=> u > v) /\ (y > x <=> v > u)
    BY <1>4
  <2> HIDE DEF x, y, u, v
  <2>4. x = y <=> u = v
    BY <2>2, <2>3
  <2>5. QED
    BY <2>4 DEF x, y, u, v
<1>6. \A i \in Positions : c[i] % q > 0 <=> d[i] % s > 0
  <2>1. SUFFICES ASSUME NEW i \in Positions PROVE c[i] % q > 0 <=> d[i] % s > 0
    OBVIOUS
  <2> DEFINE x == c[i] % q
             u == d[i] % s
  <2>2. x \in Int /\ u \in Int /\ s * x = q * u
    BY <1>1, <1>2
  <2> HIDE DEF x, u
  <2>3. x > 0 <=> u > 0
    <3>1. x > 0 <=> s * 0 < s * x
      BY <2>2, ProductOrder
    <3>2. u > 0 <=> q * 0 < q * u
      BY <2>2, ProductOrder
    <3>3. QED
      BY <2>2, <3>1, <3>2
  <2>4. QED
    BY <2>3 DEF x, u
<1>7. Split(c, q) = Split(d, s)
  BY <1>6 DEF Split
<1>8. BySplit(c, q) = BySplit(d, s)
  <2>1. \A x \in Split(d, s) \X Split(d, s) :
          /\ c[x[1]] % q > c[x[2]] % q <=> d[x[1]] % s > d[x[2]] % s
          /\ c[x[1]] % q = c[x[2]] % q <=> d[x[1]] % s = d[x[2]] % s
    BY <1>4, <1>5 DEF Split
  <2>2. QED
    BY <1>7, <2>1 DEF BySplit
<1>9. QED
  BY <1>3, <1>7, <1>8 DEF Rounded

\* The bounded clips and the weight left give the scale.
LEMMA ScaleOfFree ==
  ASSUME NEW w, NEW target, NEW b, FitInput(w, target, b), Free(w, b) # {}
  PROVE  \E c : /\ Scaled(w, target, b, c, Remaining(target, b), Weight(w, b))
                /\ Allocated(w, target, b) = Rounded(c, Weight(w, b), target)
<1> DEFINE F == Free(w, b)
           W == Weight(w, b)
           R == Remaining(target, b)
           c == [i \in Positions |->
                   IF i \in b.low THEN W * MinFrames ELSE IF i \in b.high THEN W * MaxFrames ELSE R * w[i]]
<1>1. /\ W \in Nat \ {0} /\ R \in Nat /\ MinFrames \in Nat /\ MaxFrames \in Nat
      /\ w \in [Positions -> Nat \ {0}] /\ target \in Int /\ MinFrames <= MaxFrames
      /\ b.low \subseteq Positions /\ b.high \subseteq Positions
      /\ b.low \intersect b.high = {} /\ F = Positions \ (b.low \union b.high)
      /\ IsFiniteSet(F) /\ IsFiniteSet(b.low) /\ IsFiniteSet(b.high)
  BY WeightPositive, SharesBounded, BisectionShape, PreviewAssumption DEF FitInput
<1>2. /\ \A i \in b.low : c[i] = W * MinFrames
      /\ \A i \in b.high : c[i] = W * MaxFrames
      /\ \A i \in F : c[i] = R * w[i]
  BY <1>1
<1>3. c \in [Positions -> Nat]
  <2>1. W * MinFrames \in Nat /\ W * MaxFrames \in Nat /\ \A i \in Positions : R * w[i] \in Nat
    <3>1. \A i \in Positions : w[i] \in Nat
      BY <1>1
    <3> HIDE DEF W, R
    <3>2. QED
      BY <1>1, <3>1
  <2> HIDE DEF W, R
  <2>2. QED
    BY <2>1
<1>4. SumFunctionOnSet(c, Positions) = W * target
  <2>1. SumFunctionOnSet(c, Positions)
        = (W * MinFrames) * Cardinality(b.low) + (W * MaxFrames) * Cardinality(b.high) + R * W
    <3>1. /\ w \in [Positions -> Int]
          /\ W * MinFrames \in Int /\ W * MaxFrames \in Int /\ R \in Int
      BY <1>1
    <3>2. SumFunctionOnSet(c, Positions)
          = (W * MinFrames) * Cardinality(b.low) + (W * MaxFrames) * Cardinality(b.high)
            + R * SumFunctionOnSet(w, Positions \ (b.low \union b.high))
      <4>1. \A i \in Positions \ (b.low \union b.high) : c[i] = R * w[i]
        BY <1>1, <1>2
      <4> HIDE DEF c, W, R, F
      <4>2. QED
        BY <1>1, <1>2, <3>1, <4>1, SumOfParts
    <3>3. QED
      BY <1>1, <3>2 DEF Weight
  <2>2. Cardinality(b.low) \in Nat /\ Cardinality(b.high) \in Nat
    BY <1>1, FS_CardinalityType
  <2>3. R = target - MinFrames * Cardinality(b.low) - MaxFrames * Cardinality(b.high)
    BY DEF Remaining
  <2> DEFINE l == Cardinality(b.low)
             h == Cardinality(b.high)
  <2> HIDE DEF c, W, R, F, l, h
  <2>4. (W * MinFrames) * l + (W * MaxFrames) * h + (target - MinFrames * l - MaxFrames * h) * W
        = W * target
    BY <1>1, <2>2 DEF l, h
  <2>5. QED
    BY <2>1, <2>3, <2>4 DEF l, h
<1>5. Scaled(w, target, b, c, R, W)
  <2>1. \A i \in b.low : R * w[i] <= W * MinFrames
    <3>1. MinFrames * W = W * MinFrames
      <4> HIDE DEF W
      <4> QED BY <1>1
    <3>2. QED
      BY <3>1, SharesBounded
  <2>2. /\ \A i \in b.high : R * w[i] >= W * MaxFrames
        /\ \A i \in F : W * MinFrames <= R * w[i] /\ R * w[i] <= W * MaxFrames
    <3>1. MaxFrames * W = W * MaxFrames /\ MinFrames * W = W * MinFrames
      <4> HIDE DEF W
      <4> QED BY <1>1
    <3>2. QED
      BY <3>1, SharesBounded
  <2> HIDE DEF c, W, R
  <2>3. QED
    BY <1>1, <1>2, <1>3, <1>4, <2>1, <2>2 DEF Scaled
<1>6. /\ \A i \in b.low : c[i] \div W = MinFrames /\ c[i] % W = 0
      /\ \A i \in b.high : c[i] \div W = MaxFrames /\ c[i] % W = 0
      /\ \A i \in F : /\ c[i] \div W = Floors(w, target, b)[i]
                      /\ c[i] % W = Remainder(w, target, b, i)
  <2>1. /\ (W * MinFrames) \div W = MinFrames /\ (W * MinFrames) % W = 0
        /\ (W * MaxFrames) \div W = MaxFrames /\ (W * MaxFrames) % W = 0
    <3> HIDE DEF W
    <3> QED BY <1>1, MultipleDivision
  <2>2. \A i \in F : /\ Floors(w, target, b)[i] = (R * w[i]) \div W
                     /\ Remainder(w, target, b, i) = (R * w[i]) % W
    BY DEF Floors, Remainder, Weight
  <2> HIDE DEF c, W, R, F
  <2>3. QED
    BY <1>2, <2>1, <2>2
<1>7. Split(c, W) = Uneven(w, target, b)
  <2>1. \A i \in Positions : i \in F /\ Remainder(w, target, b, i) > 0 <=> c[i] % W > 0
    <3>1. \A i \in Positions : i \in b.low \/ i \in b.high \/ i \in F
      BY <1>1
    <3>2. \A i \in b.low \union b.high : i \notin F
      BY <1>1
    <3> HIDE DEF c, W, F
    <3>3. QED
      BY <1>6, <3>1, <3>2
  <2>2. F \subseteq Positions
    BY <1>1
  <2> HIDE DEF c, W
  <2>3. QED
    BY <2>1, <2>2 DEF Split, Uneven
<1>8. target - SumFunctionOnSet(Whole(c, W), Positions) = Lost(w, target, b)
  <2> DEFINE v == Whole(c, W)
             A == SumFunctionOnSet(Floors(w, target, b), F)
  <2>1. \A i \in Positions : v[i] = c[i] \div W
    BY DEF Whole
  <2>2. /\ \A i \in b.low : v[i] = MinFrames
        /\ \A i \in b.high : v[i] = MaxFrames
        /\ \A i \in F : v[i] = 1 * Floors(w, target, b)[i]
    <3>1. \A i \in F : Floors(w, target, b)[i] \in Int
      BY FloorFacts
    <3>2. F \subseteq Positions
      BY <1>1
    <3> HIDE DEF c, W, F, v
    <3>3. QED
      BY <1>1, <1>6, <2>1, <3>1, <3>2
  <2>3. SumFunctionOnSet(v, Positions)
        = MinFrames * Cardinality(b.low) + MaxFrames * Cardinality(b.high) + 1 * A
    <3> DEFINE g == [i \in Positions |-> IF i \in F THEN Floors(w, target, b)[i] ELSE 0]
    <3>1. g \in [Positions -> Int] /\ \A i \in F : g[i] = Floors(w, target, b)[i]
      BY <1>1, FloorFacts
    <3>2. \A i \in Positions \ (b.low \union b.high) : v[i] = 1 * g[i]
      <4> HIDE DEF g, v
      <4> QED BY <1>1, <2>2, <3>1
    <3>3. MinFrames \in Int /\ MaxFrames \in Int /\ 1 \in Int
      BY <1>1
    <3>4. SumFunctionOnSet(v, Positions)
          = MinFrames * Cardinality(b.low) + MaxFrames * Cardinality(b.high)
            + 1 * SumFunctionOnSet(g, Positions \ (b.low \union b.high))
      <4> HIDE DEF g, v, F
      <4> QED BY <1>1, <2>2, <3>1, <3>2, <3>3, SumOfParts
    <3>5. SumFunctionOnSet(g, F) = A
      <4>1. \A i \in F : g[i] \in Int /\ g[i] = Floors(w, target, b)[i]
        BY <1>1, <3>1
      <4> HIDE DEF g, F
      <4>2. QED
        BY <1>1, <4>1, SumSame
    <3>6. F = Positions \ (b.low \union b.high)
      BY <1>1
    <3> HIDE DEF g, v, A, F
    <3>7. QED
      BY <3>4, <3>5, <3>6
  <2>4. Lost(w, target, b) = R - A /\ A \in Int
    <3>1. \A i \in F : Floors(w, target, b)[i] \in Int
      BY FloorFacts
    <3>2. A \in Int
      <4> HIDE DEF F
      <4> QED BY <1>1, <3>1, SumOut
    <3>3. QED
      BY <3>2 DEF Lost
  <2>5. Cardinality(b.low) \in Nat /\ Cardinality(b.high) \in Nat
    BY <1>1, FS_CardinalityType
  <2>6. R = target - MinFrames * Cardinality(b.low) - MaxFrames * Cardinality(b.high)
    BY DEF Remaining
  <2>7. MinFrames * Cardinality(b.low) \in Int /\ MaxFrames * Cardinality(b.high) \in Int
    BY <1>1, <2>5
  <2> HIDE DEF c, W, R, F, A, v
  <2>8. target - SumFunctionOnSet(v, Positions) = R - A
    BY <1>1, <2>3, <2>4, <2>6, <2>7
  <2>9. QED
    BY <2>4, <2>8 DEF v
<1>9. RoundedUp(w, target, b) = First(Split(c, W), BySplit(c, W), Lost(w, target, b))
  <2> DEFINE Z == Uneven(w, target, b)
             O == ByRemainder(w, target, b)
             m == Lost(w, target, b)
  <2>1. Z \subseteq F
    BY DEF Uneven
  <2>2. \A i \in Z : c[i] % W = Remainder(w, target, b, i)
    BY <1>6, <2>1
  <2>3. BySplit(c, W) = {p \in Z \X Z : p \in O}
    <3>1. \A p \in Z \X Z : p \in O <=>
            \/ c[p[1]] % W > c[p[2]] % W
            \/ c[p[1]] % W = c[p[2]] % W /\ p[1] < p[2]
      <4>1. \A p \in Z \X Z : p \in F \X F /\ p[1] \in Z /\ p[2] \in Z
        BY <2>1
      <4> HIDE DEF c, W, Z
      <4>2. QED
        BY <2>2, <4>1 DEF ByRemainder
    <3>2. Split(c, W) = Z
      BY <1>7
    <3> HIDE DEF c, W, Z, O
    <3>3. QED
      BY <3>1, <3>2 DEF BySplit
  <2>4. \A i \in Z : Preceding(Z, BySplit(c, W), i) = Preceding(F, O, i)
    <3>1. SUFFICES ASSUME NEW i \in Z, NEW k \in F, <<k, i>> \in O PROVE k \in Z
      <4> HIDE DEF c, W, Z, O, F
      <4> QED BY <2>1, <2>3 DEF Preceding
    <3>2. /\ Remainder(w, target, b, k) \in Nat /\ Remainder(w, target, b, i) \in Nat
          /\ Remainder(w, target, b, i) > 0
      BY <2>1, FloorFacts DEF Uneven
    <3>3. Remainder(w, target, b, k) >= Remainder(w, target, b, i)
      BY <3>1, <3>2 DEF ByRemainder
    <3>4. QED
      BY <3>2, <3>3 DEF Uneven
  <2>5. RoundedUp(w, target, b) = First(F, O, m) /\ RoundedUp(w, target, b) \subseteq Z
    BY RoundedUpFirst, RoundedUpFacts
  <2>6. First(F, O, m) = First(Z, BySplit(c, W), m)
    <3> HIDE DEF c, W, Z, O, F, m
    <3> QED BY <2>1, <2>4, <2>5 DEF First
  <2>7. QED
    BY <1>7, <2>5, <2>6
<1>10. Allocated(w, target, b) = Rounded(c, W, target)
  <2> DEFINE U == RoundedUp(w, target, b)
             d == Allocated(w, target, b)
  <2>1. /\ \A i \in b.low : d[i] = MinFrames
        /\ \A i \in b.high : d[i] = MaxFrames
        /\ \A i \in F : d[i] = Floors(w, target, b)[i] + (IF i \in U THEN 1 ELSE 0)
        /\ DOMAIN d = Positions
    BY AllocatedCases
  <2>2. U \subseteq F
    BY RoundedUpFacts DEF Uneven
  <2>3. \A i \in Positions : i \in b.low \/ i \in b.high \/ i \in F
    BY <1>1
  <2>4. \A i \in b.low \union b.high : i \notin U
    BY <1>1, <2>2
  <2>5. \A i \in Positions : d[i] = (c[i] \div W) + (IF i \in U THEN 1 ELSE 0)
    <3> HIDE DEF c, W, F, U, d
    <3> QED BY <1>1, <1>6, <2>1, <2>3, <2>4
  <2>6. Rounded(c, W, target)
        = [i \in Positions |-> (c[i] \div W) + (IF i \in U THEN 1 ELSE 0)]
    <3>1. U = First(Split(c, W), BySplit(c, W),
                    target - SumFunctionOnSet(Whole(c, W), Positions))
      BY <1>8, <1>9
    <3>2. \A i \in Positions : Whole(c, W)[i] = c[i] \div W
      BY DEF Whole
    <3> HIDE DEF c, W, U
    <3>3. QED
      BY <3>1, <3>2 DEF Rounded
  <2>7. d = [i \in Positions |-> d[i]]
    BY <2>1 DEF Allocated
  <2>8. QED
    <3> HIDE DEF c, W, U, d
    <3>1. d = Rounded(c, W, target)
      BY <2>5, <2>6, <2>7
    <3>2. QED
      BY <3>1 DEF d
<1>11. QED
  <2> HIDE DEF c
  <2> QED BY <1>5, <1>10

\* When every clip is at a bound, some scale separates the two kinds.
LEMMA ScaleOfFull ==
  ASSUME NEW w, NEW target, NEW b, FitInput(w, target, b), Free(w, b) = {}
  PROVE  \E c, p, q : /\ Scaled(w, target, b, c, p, q)
                      /\ Allocated(w, target, b) = Rounded(c, q, target)
<1>1. /\ MinFrames \in Nat \ {0} /\ MaxFrames \in Nat /\ MinFrames <= MaxFrames
      /\ w \in [Positions -> Nat \ {0}] /\ target \in Int
      /\ b.low \subseteq Positions /\ b.high \subseteq Positions
      /\ b.low \intersect b.high = {} /\ Positions = b.low \union b.high
  BY BisectionShape, PreviewAssumption DEF FitInput
<1>2. \A i \in b.low, k \in b.high : MaxFrames * w[i] <= MinFrames * w[k]
  BY DEF FitInput, Bisections
<1>3. PICK p \in Nat, q \in Nat \ {0} : /\ \A i \in b.low : p * w[i] <= q * MinFrames
                                        /\ \A k \in b.high : p * w[k] >= q * MaxFrames
  <2>1. CASE b.high = {}
    <3>1. \A i \in b.low : 0 * w[i] <= 1 * MinFrames
      BY <1>1
    <3>2. 0 \in Nat /\ 1 \in Nat \ {0}
      OBVIOUS
    <3>3. QED
      BY <2>1, <3>1, <3>2
  <2>2. CASE b.high # {}
    <3> DEFINE weights == {w[k] : k \in b.high}
    <3>1. weights \in SUBSET Nat /\ weights # {}
      BY <1>1, <2>2
    <3>2. PICK v \in weights : \A u \in weights : v <= u
      <4> HIDE DEF weights
      <4> QED BY <3>1, LeastNat
    <3>3. PICK k \in b.high : v = w[k]
      OBVIOUS
    <3>4. v \in Nat \ {0} /\ \A i \in b.low : w[i] \in Nat \ {0}
      BY <1>1, <3>3
    <3>5. \A i \in b.low : MaxFrames * w[i] <= v * MinFrames
      <4>1. MinFrames * v = v * MinFrames
        BY <1>1, <3>4
      <4>2. QED
        BY <1>2, <3>3, <4>1
    <3>6. \A j \in b.high : MaxFrames * w[j] >= v * MaxFrames
      <4>1. SUFFICES ASSUME NEW j \in b.high PROVE MaxFrames * w[j] >= v * MaxFrames
        OBVIOUS
      <4>2. v <= w[j] /\ w[j] \in Nat
        BY <1>1, <3>2
      <4>3. MaxFrames \in Nat \ {0}
        BY <1>1
      <4>4. MaxFrames * v <= MaxFrames * w[j]
        BY <3>4, <4>2, <4>3, ProductOrder
      <4>5. QED
        BY <1>1, <3>4, <4>2, <4>4
    <3>7. QED
      BY <1>1, <3>4, <3>5, <3>6
  <2>3. QED
    BY <2>1, <2>2
<1> DEFINE c == [i \in Positions |-> IF i \in b.low THEN q * MinFrames ELSE q * MaxFrames]
           d == Allocated(w, target, b)
<1>4. /\ \A i \in b.low : c[i] = q * MinFrames
      /\ \A i \in b.high : c[i] = q * MaxFrames
      /\ c \in [Positions -> Nat]
  <2>1. q * MinFrames \in Nat /\ q * MaxFrames \in Nat
    BY <1>1
  <2>2. QED
    BY <1>1, <2>1
<1>5. /\ \A i \in b.low : d[i] = MinFrames
      /\ \A i \in b.high : d[i] = MaxFrames
  BY AllocatedCases
<1>6. \A i \in Positions : d[i] \in Int /\ c[i] = q * d[i]
  <2>1. \A i \in Positions : i \in b.low \/ i \in b.high
    BY <1>1
  <2> HIDE DEF c, d
  <2>2. QED
    BY <1>1, <1>4, <1>5, <2>1
<1>7. SumFunctionOnSet(c, Positions) = q * target
  <2>1. SumFunctionOnSet(c, Positions) = q * SumFunctionOnSet(d, Positions)
    <3>1. q \in Int /\ IsFiniteSet(Positions)
      BY PositionsFinite
    <3> HIDE DEF c, d
    <3>2. QED
      BY <1>6, <3>1, SumScaled
  <2>2. QED
    BY <2>1, AllocatedSum
<1>8. Scaled(w, target, b, c, p, q)
  <2> HIDE DEF c
  <2> QED BY <1>3, <1>4, <1>7 DEF Scaled
<1>9. \A i \in Positions : c[i] \div q = d[i] /\ c[i] % q = 0
  <2>1. /\ (q * MinFrames) \div q = MinFrames /\ (q * MinFrames) % q = 0
        /\ (q * MaxFrames) \div q = MaxFrames /\ (q * MaxFrames) % q = 0
    BY <1>1, MultipleDivision
  <2> HIDE DEF c, d
  <2>2. QED
    BY <1>1, <1>4, <1>5, <2>1
<1>10. Split(c, q) = {}
  <2> HIDE DEF c
  <2> QED BY <1>9 DEF Split
<1>11. \A m : First(Split(c, q), BySplit(c, q), m) = {}
  <2> HIDE DEF c
  <2> QED BY <1>10 DEF First
<1>12. \A i \in Positions :
         d[i] = Whole(c, q)[i]
                + (IF i \in First(Split(c, q), BySplit(c, q),
                                  target - SumFunctionOnSet(Whole(c, q), Positions))
                   THEN 1 ELSE 0)
  <2>1. \A i \in Positions : Whole(c, q)[i] = c[i] \div q
    BY DEF Whole
  <2> HIDE DEF c, d
  <2>2. QED
    BY <1>6, <1>9, <1>11, <2>1
<1>13. d = Rounded(c, q, target)
  <2>1. d = [i \in Positions |-> d[i]]
    BY AllocatedCases DEF Allocated
  <2> HIDE DEF c, d
  <2>2. QED
    BY <1>12, <2>1 DEF Rounded
<1>14. QED
  <2> HIDE DEF c
  <2> QED BY <1>8, <1>13

\* Whichever bisection the floats of the scale lead to.
LEMMA AllocatedOnce ==
  ASSUME NEW w, NEW target, NEW b, NEW e, FitInput(w, target, b), FitInput(w, target, e)
  PROVE  Allocated(w, target, b) = Allocated(w, target, e)
<1>1. \A f : FitInput(w, target, f) =>
        \E c, p, q : /\ Scaled(w, target, f, c, p, q)
                     /\ Allocated(w, target, f) = Rounded(c, q, target)
  BY ScaleOfFree, ScaleOfFull
<1>2. PICK c, p, q : /\ Scaled(w, target, b, c, p, q)
                     /\ Allocated(w, target, b) = Rounded(c, q, target)
  BY <1>1
<1>3. PICK d, r, s : /\ Scaled(w, target, e, d, r, s)
                     /\ Allocated(w, target, e) = Rounded(d, s, target)
  BY <1>1
<1>4. \A i \in Positions : s * c[i] = q * d[i]
  BY <1>2, <1>3, ScalesAgree
<1>5. /\ c \in [Positions -> Nat] /\ q \in Nat \ {0}
      /\ d \in [Positions -> Nat] /\ s \in Nat \ {0}
  BY <1>2, <1>3 DEF Scaled
<1>6. Rounded(c, q, target) = Rounded(d, s, target)
  BY <1>4, <1>5, RoundedSame
<1>7. QED
  BY <1>2, <1>3, <1>6

-----------------------------------------------------------------------------
(* Every target between the bounds has a bisection *)

\* A number of parts of a frame in which the bounds are met at whole scales.
Divisible(q, w) == \A i \in Positions : \E m \in Nat \ {0} : q = w[i] * m

LEMMA CommonMultiple ==
  ASSUME NEW w \in [Positions -> Nat \ {0}]
  PROVE  \E q \in Nat \ {0} : Divisible(q, w)
<1> DEFINE Multiple(q, T) == \A i \in T : \E m \in Nat \ {0} : q = w[i] * m
           P == {T \in SUBSET Positions : \E q \in Nat \ {0} : Multiple(q, T)}
<1>1. {} \in P
  <2>1. 1 \in Nat \ {0} /\ Multiple(1, {})
    OBVIOUS
  <2>2. QED
    BY <2>1
<1>2. ASSUME NEW T \in SUBSET Positions, NEW x \in Positions \ T, T \in P PROVE T \union {x} \in P
  <2>1. PICK q \in Nat \ {0} : Multiple(q, T)
    BY <1>2
  <2> DEFINE r == w[x] * q
  <2>2. r \in Nat \ {0} /\ w[x] \in Nat \ {0}
    OBVIOUS
  <2>3. ASSUME NEW i \in T PROVE \E m \in Nat \ {0} : r = w[i] * m
    <3>1. PICK m \in Nat \ {0} : q = w[i] * m
      BY <2>1
    <3>2. w[i] \in Nat /\ w[x] \in Nat \ {0}
      OBVIOUS
    <3>3. w[x] * m \in Nat \ {0}
      BY <3>2
    <3>4. r = w[i] * (w[x] * m)
      BY <3>1, <3>2
    <3>5. QED
      BY <3>3, <3>4
  <2>4. Multiple(r, T \union {x})
    <3> HIDE DEF r
    <3> QED BY <2>3 DEF r
  <2>5. QED
    <3> HIDE DEF r
    <3> QED BY <2>2, <2>4
<1>3. \A T \in SUBSET Positions : T \in P
  <2>1. IsFiniteSet(Positions)
    BY PositionsFinite
  <2> HIDE DEF P
  <2>2. QED
    BY <1>1, <1>2, <2>1, FiniteSetInduction
<1>4. QED
  BY <1>3 DEF Divisible

\* The frames of a clip with the scale p/q, in parts of one q-th of a frame.
Clamped(w, p, q) ==
  [i \in Positions |-> IF p * w[i] <= q * MinFrames THEN q * MinFrames
                       ELSE IF p * w[i] >= q * MaxFrames THEN q * MaxFrames ELSE p * w[i]]

\* Between one scale and the next no clip meets a bound.
LEMMA BoundsMetAtScales ==
  ASSUME NEW v \in Nat \ {0}, NEW m \in Nat \ {0}, NEW q \in Nat \ {0}, q = v * m,
         NEW p \in Nat \ {0}, NEW x \in Nat
  PROVE  /\ p * v <= q * x \/ (p - 1) * v >= q * x
         /\ (p - 1) * v >= q * x \/ p * v <= q * x
<1>1. q * x = v * (m * x) /\ p * v = v * p /\ (p - 1) * v = v * (p - 1)
  <2>1. (v * m) * x = v * (m * x)
    OBVIOUS
  <2>2. QED
    BY <2>1
<1>2. m * x \in Nat /\ p - 1 \in Nat
  OBVIOUS
<1>3. p <= m * x \/ m * x <= p - 1
  BY <1>2
<1>4. v * p <= v * (m * x) \/ v * (m * x) <= v * (p - 1)
  BY <1>2, <1>3, ProductOrder
<1>5. QED
  BY <1>1, <1>4

\* The clips at a bound both with the scale (p - 1)/q and with p/q.
LowAt(w, p, q) == {i \in Positions : p * w[i] <= q * MinFrames}
HighAt(w, p, q) == {i \in Positions : (p - 1) * w[i] >= q * MaxFrames}

ClampedInParts(w, p, q, L, H) ==
  /\ L \intersect H = {}
  /\ \A i \in L : Clamped(w, p, q)[i] = q * MinFrames /\ Clamped(w, p - 1, q)[i] = q * MinFrames
  /\ \A i \in H : Clamped(w, p, q)[i] = q * MaxFrames /\ Clamped(w, p - 1, q)[i] = q * MaxFrames
  /\ \A i \in Positions \ (L \union H) :
       /\ Clamped(w, p, q)[i] = p * w[i] /\ Clamped(w, p - 1, q)[i] = (p - 1) * w[i]
       /\ q * MinFrames <= (p - 1) * w[i] /\ p * w[i] <= q * MaxFrames

LEMMA ClampedParts ==
  ASSUME NEW w \in [Positions -> Nat \ {0}], NEW q \in Nat \ {0}, Divisible(q, w),
         NEW p \in Nat \ {0}
  PROVE  ClampedInParts(w, p, q, LowAt(w, p, q), HighAt(w, p, q))
<1> DEFINE L == LowAt(w, p, q)
           H == HighAt(w, p, q)
<1>1. /\ MinFrames \in Nat \ {0} /\ MaxFrames \in Nat /\ MinFrames <= MaxFrames
      /\ q * MinFrames <= q * MaxFrames
      /\ q * MinFrames \in Int /\ q * MaxFrames \in Int
  BY PreviewAssumption, ProductOrder
<1>2. SUFFICES ASSUME NEW i \in Positions
               PROVE  /\ ~ (i \in L /\ i \in H)
                      /\ i \in L => /\ Clamped(w, p, q)[i] = q * MinFrames
                                    /\ Clamped(w, p - 1, q)[i] = q * MinFrames
                      /\ i \in H => /\ Clamped(w, p, q)[i] = q * MaxFrames
                                    /\ Clamped(w, p - 1, q)[i] = q * MaxFrames
                      /\ i \notin L \union H =>
                           /\ Clamped(w, p, q)[i] = p * w[i]
                           /\ Clamped(w, p - 1, q)[i] = (p - 1) * w[i]
                           /\ q * MinFrames <= (p - 1) * w[i] /\ p * w[i] <= q * MaxFrames
  <2> HIDE DEF L, H
  <2>1. (\A i \in Positions : i \in L \union H <=> i \in L \/ i \in H)
        /\ L \subseteq Positions /\ H \subseteq Positions
    BY DEF L, H, LowAt, HighAt
  <2>2. ClampedInParts(w, p, q, L, H)
    BY <1>2, <2>1 DEF ClampedInParts
  <2>3. QED
    BY <2>2 DEF L, H
<1> DEFINE x == q * MinFrames
           y == q * MaxFrames
           a == p * w[i]
           z == (p - 1) * w[i]
<1>3. w[i] \in Nat \ {0} /\ p - 1 \in Nat
  OBVIOUS
<1>4. a \in Int /\ z \in Int /\ z < a /\ x \in Int /\ y \in Int /\ x <= y
  <2>1. w[i] * (p - 1) < w[i] * p
    BY <1>3, ProductOrder
  <2>2. QED
    BY <1>1, <1>3, <2>1
<1>5. (a <= x \/ z >= x) /\ (z >= y \/ a <= y)
  <2>1. PICK m \in Nat \ {0} : q = w[i] * m
    BY DEF Divisible
  <2>2. QED
    BY <1>1, <1>3, <2>1, BoundsMetAtScales
<1>6. /\ Clamped(w, p, q)[i] = IF a <= x THEN x ELSE IF a >= y THEN y ELSE a
      /\ Clamped(w, p - 1, q)[i] = IF z <= x THEN x ELSE IF z >= y THEN y ELSE z
  BY DEF Clamped
<1>7. (i \in L <=> a <= x) /\ (i \in H <=> z >= y)
  BY DEF LowAt, HighAt
<1> HIDE DEF x, y, a, z, L, H
<1>8. /\ ~ (i \in L /\ i \in H)
      /\ i \in L => Clamped(w, p, q)[i] = x /\ Clamped(w, p - 1, q)[i] = x
      /\ i \in H => Clamped(w, p, q)[i] = y /\ Clamped(w, p - 1, q)[i] = y
      /\ i \notin L /\ i \notin H =>
           Clamped(w, p, q)[i] = a /\ Clamped(w, p - 1, q)[i] = z /\ x <= z /\ a <= y
  BY <1>4, <1>5, <1>6, <1>7
<1>9. QED
  BY <1>8 DEF x, y, a, z

LEMMA BisectionOfScale ==
  ASSUME NEW w \in [Positions -> Nat \ {0}], NEW target \in Int, NEW q \in Nat \ {0},
         Divisible(q, w),
         NEW p \in Nat \ {0},
         SumFunctionOnSet(Clamped(w, p - 1, q), Positions) < q * target,
         q * target <= SumFunctionOnSet(Clamped(w, p, q), Positions)
  PROVE  Bisections(w, target) # {}
<1> DEFINE L == LowAt(w, p, q)
           H == HighAt(w, p, q)
           b == [low |-> L, high |-> H]
           F == Positions \ (L \union H)
           W == SumFunctionOnSet(w, F)
           R == Remaining(target, b)
           l == Cardinality(L)
           h == Cardinality(H)
<1>1. /\ MinFrames \in Nat \ {0} /\ MaxFrames \in Nat /\ MinFrames <= MaxFrames
      /\ L \subseteq Positions /\ H \subseteq Positions
  BY PreviewAssumption DEF LowAt, HighAt
<1>2. /\ IsFiniteSet(F) /\ W \in Int /\ l \in Nat /\ h \in Nat
  <2>1. IsFiniteSet(L) /\ IsFiniteSet(H) /\ IsFiniteSet(F)
    BY <1>1, PositionsFinite, FS_Subset
  <2>2. \A i \in F : w[i] \in Int
    OBVIOUS
  <2>3. l \in Nat /\ h \in Nat
    <3> HIDE DEF L, H
    <3> QED BY <2>1, FS_CardinalityType
  <2>4. W \in Int
    <3> HIDE DEF F
    <3> QED BY <2>1, <2>2, SumOut
  <2>5. QED
    BY <2>1, <2>3, <2>4
<1>3. /\ L \intersect H = {}
      /\ \A i \in L : Clamped(w, p, q)[i] = q * MinFrames /\ Clamped(w, p - 1, q)[i] = q * MinFrames
      /\ \A i \in H : Clamped(w, p, q)[i] = q * MaxFrames /\ Clamped(w, p - 1, q)[i] = q * MaxFrames
      /\ \A i \in F : /\ Clamped(w, p, q)[i] = p * w[i] /\ Clamped(w, p - 1, q)[i] = (p - 1) * w[i]
                      /\ q * MinFrames <= (p - 1) * w[i] /\ p * w[i] <= q * MaxFrames
  BY ClampedParts DEF ClampedInParts
<1>4. /\ SumFunctionOnSet(Clamped(w, p, q), Positions)
         = (q * MinFrames) * l + (q * MaxFrames) * h + p * W
      /\ SumFunctionOnSet(Clamped(w, p - 1, q), Positions)
         = (q * MinFrames) * l + (q * MaxFrames) * h + (p - 1) * W
  <2>1. /\ w \in [Positions -> Int] /\ q * MinFrames \in Int /\ q * MaxFrames \in Int
        /\ p \in Int /\ p - 1 \in Int
    BY <1>1
  <2>2. L \in SUBSET Positions /\ H \in SUBSET Positions
    BY <1>1
  <2>3. SumFunctionOnSet(Clamped(w, p, q), Positions)
        = (q * MinFrames) * l + (q * MaxFrames) * h + p * W
    <3> HIDE DEF L, H
    <3> QED BY <1>3, <2>1, <2>2, SumOfParts
  <2>4. SumFunctionOnSet(Clamped(w, p - 1, q), Positions)
        = (q * MinFrames) * l + (q * MaxFrames) * h + (p - 1) * W
    <3> HIDE DEF L, H
    <3> QED BY <1>3, <2>1, <2>2, SumOfParts
  <2>5. QED
    BY <2>3, <2>4
<1>5. R \in Int /\ (p - 1) * W < q * R /\ q * R <= p * W
  <2>1. R = target - MinFrames * l - MaxFrames * h
    BY DEF Remaining
  <2> HIDE DEF L, H, F, W, R, l, h
  <2>2. /\ (q * MinFrames) * l = q * (MinFrames * l)
        /\ (q * MaxFrames) * h = q * (MaxFrames * h)
    BY <1>1, <1>2
  <2> DEFINE x == MinFrames * l
             y == MaxFrames * h
  <2>3. x \in Int /\ y \in Int
    BY <1>1, <1>2
  <2>4. q * R = q * target - q * x - q * y
    <3> HIDE DEF x, y
    <3>1. R = target - x - y
      BY <2>1 DEF x, y
    <3>2. QED
      BY <2>3, <3>1
  <2>5. R \in Int
    <3> HIDE DEF x, y
    <3> QED BY <2>1, <2>3 DEF x, y
  <2>6. /\ q * x + q * y + (p - 1) * W < q * target
        /\ q * target <= q * x + q * y + p * W
    BY <1>4, <2>2
  <2>7. /\ q * x \in Int /\ q * y \in Int /\ q * target \in Int
        /\ p * W \in Int /\ (p - 1) * W \in Int
    <3> HIDE DEF x, y
    <3> QED BY <1>2, <2>3
  <2>8. QED
    <3> HIDE DEF x, y
    <3> QED BY <2>4, <2>5, <2>6, <2>7
<1>6. F # {}
  <2>1. SUFFICES ASSUME F = {} PROVE FALSE
    OBVIOUS
  <2>2. W = 0
    BY <2>1, SumEmpty
  <2> HIDE DEF F, W, R
  <2>3. QED
    BY <1>5, <2>2
<1>7. b \in [low: SUBSET DOMAIN w, high: SUBSET DOMAIN w] /\ Free(w, b) = F
      /\ b.low = L /\ b.high = H
  BY <1>1 DEF Free
<1>8. W \in Nat \ {0}
  <2> HIDE DEF F, W, R
  <2>1. p * W = (p - 1) * W + W
    BY <1>2
  <2>2. (p - 1) * W < p * W
    <3>1. p * W \in Int /\ (p - 1) * W \in Int /\ q * R \in Int
      BY <1>2, <1>5
    <3>2. QED
      BY <1>5, <3>1
  <2>3. (p - 1) * W \in Int
    BY <1>2
  <2>4. QED
    BY <1>2, <2>1, <2>2, <2>3
<1>l. \A i \in L : p * w[i] <= q * MinFrames
  BY DEF LowAt
<1>h. \A i \in H : (p - 1) * w[i] >= q * MaxFrames
  BY DEF HighAt
<1>9. ASSUME NEW i \in Positions
      PROVE  /\ p * w[i] <= q * MinFrames => R * w[i] <= MinFrames * W
             /\ p * w[i] <= q * MaxFrames => R * w[i] <= MaxFrames * W
             /\ (p - 1) * w[i] >= q * MinFrames => R * w[i] >= MinFrames * W
             /\ (p - 1) * w[i] >= q * MaxFrames => R * w[i] >= MaxFrames * W
  <2> DEFINE v == w[i]
  <2>1. v \in Nat \ {0} /\ p - 1 \in Nat
    OBVIOUS
  <2> HIDE DEF F, W, R, v
  <2>2. v * (q * R) <= v * (p * W) /\ v * ((p - 1) * W) <= v * (q * R)
    <3>1. q * R \in Int /\ p * W \in Int /\ (p - 1) * W \in Int
      BY <1>2, <1>5
    <3>2. (p - 1) * W <= q * R /\ q * R <= p * W
      BY <1>5, <3>1
    <3>3. QED
      BY <2>1, <3>1, <3>2, ProductOrder
  <2>3. /\ v * (q * R) = q * (R * v)
        /\ v * (p * W) = W * (p * v)
        /\ v * ((p - 1) * W) = W * ((p - 1) * v)
    BY <1>2, <1>5, <2>1
  <2>4. ASSUME NEW x \in Nat
        PROVE  /\ p * v <= q * x => R * v <= x * W
               /\ (p - 1) * v >= q * x => R * v >= x * W
    <3>1. /\ R * v \in Int /\ x * W \in Int /\ q * x \in Int /\ p * v \in Int
          /\ (p - 1) * v \in Int /\ W * (q * x) = q * (x * W)
      BY <1>2, <1>5, <2>1
    <3>2. ASSUME p * v <= q * x PROVE R * v <= x * W
      <4>1. W * (p * v) <= W * (q * x)
        BY <1>8, <3>1, <3>2, ProductOrder
      <4>2. q * (R * v) <= q * (x * W)
        <5> DEFINE f == v * (q * R)
                   g == W * (p * v)
        <5>1. f \in Int /\ g \in Int /\ W * (q * x) \in Int
          BY <1>2, <1>5, <2>1
        <5>2. f <= g /\ g <= W * (q * x)
          BY <2>2, <2>3, <4>1
        <5>3. f <= W * (q * x)
          <6> HIDE DEF f, g
          <6> QED BY <5>1, <5>2
        <5>4. QED
          BY <2>3, <3>1, <5>3
      <4>3. QED
        BY <3>1, <4>2, ProductOrder
    <3>3. ASSUME (p - 1) * v >= q * x PROVE R * v >= x * W
      <4>1. W * (q * x) <= W * ((p - 1) * v)
        BY <1>8, <3>1, <3>3, ProductOrder
      <4>2. q * (x * W) <= q * (R * v)
        <5> DEFINE f == v * (q * R)
                   g == W * ((p - 1) * v)
        <5>1. f \in Int /\ g \in Int /\ W * (q * x) \in Int
          BY <1>2, <1>5, <2>1
        <5>2. g <= f /\ W * (q * x) <= g
          BY <2>2, <2>3, <4>1
        <5>3. W * (q * x) <= f
          <6> HIDE DEF f, g
          <6> QED BY <5>1, <5>2
        <5>4. QED
          BY <2>3, <3>1, <5>3
      <4>3. x * W <= R * v
        BY <3>1, <4>2, ProductOrder
      <4>4. QED
        BY <3>1, <4>3
    <3>4. QED
      BY <3>2, <3>3
  <2>5. QED
    BY <1>1, <2>4 DEF v
<1>10. /\ \A i \in L : R * w[i] <= MinFrames * W
       /\ \A i \in H : R * w[i] >= MaxFrames * W
       /\ \A i \in F : R * w[i] >= MinFrames * W /\ R * w[i] <= MaxFrames * W
  BY <1>1, <1>3, <1>l, <1>h, <1>9
<1>11. Below(w, target, b) = {} /\ Above(w, target, b) = {}
  <2>1. \A i \in F : ~ (R * w[i] < MinFrames * W) /\ ~ (R * w[i] > MaxFrames * W)
    <3>1. \A i \in F : R * w[i] \in Int
      <4>1. \A i \in F : w[i] \in Int
        OBVIOUS
      <4> HIDE DEF R, F
      <4>2. QED
        BY <1>5, <4>1
    <3>2. MinFrames * W \in Int /\ MaxFrames * W \in Int
      <4> HIDE DEF W
      <4> QED BY <1>1, <1>2
    <3> HIDE DEF R, F, W
    <3>3. QED
      BY <1>10, <3>1, <3>2
  <2> HIDE DEF L, H, F, R, b
  <2>2. QED
    BY <1>7, <2>1 DEF Below, Above, R
<1>12. b \in Bisections(w, target)
  <2> HIDE DEF L, H, F, R, b
  <2>1. QED
    BY <1>3, <1>6, <1>7, <1>10, <1>11 DEF Bisections, R
<1>13. QED
  BY <1>12

\* No target between the bounds is without a solution.
LEMMA BisectionExists ==
  ASSUME NEW w \in [Positions -> Nat \ {0}], NEW target \in Feasible
  PROVE  Bisections(w, target) # {}
<1> DEFINE n == Cardinality(Positions)
<1>1. /\ n \in Nat /\ n = Cardinality(Segments) /\ IsFiniteSet(Positions)
      /\ MinFrames \in Nat \ {0} /\ MaxFrames \in Nat /\ MinFrames <= MaxFrames
  <2>1. Cardinality(Segments) \in Nat
    BY PreviewAssumption, FS_CardinalityType
  <2>2. n = Cardinality(Segments)
    BY <2>1, FS_Interval DEF Positions
  <2>3. QED
    BY <2>1, <2>2, PositionsFinite, PreviewAssumption
<1>2. target \in Int /\ n * MinFrames <= target /\ target <= n * MaxFrames
  <2>1. n * MinFrames \in Int /\ n * MaxFrames \in Int
    <3> HIDE DEF n
    <3> QED BY <1>1
  <2> HIDE DEF n
  <2>2. QED
    BY <1>1, <2>1 DEF Feasible
<1>3. PICK q \in Nat \ {0} : Divisible(q, w)
  BY CommonMultiple
<1> DEFINE G(p) == SumFunctionOnSet(Clamped(w, p, q), Positions)
           Enough == {p \in Nat : q * target <= G(p)}
<1>4. q * MaxFrames \in Enough
  <2> DEFINE p == q * MaxFrames
             y == q * MaxFrames
  <2>1. p \in Nat /\ q * MinFrames \in Nat /\ q * MinFrames <= y
    BY <1>1, ProductOrder
  <2>2. ASSUME NEW i \in Positions PROVE Clamped(w, p, q)[i] = y
    <3> DEFINE v == w[i]
    <3>1. v \in Nat \ {0}
      OBVIOUS
    <3>2. p * v >= y
      <4> HIDE DEF p, v
      <4>1. p * v = p + p * (v - 1) /\ p * (v - 1) \in Nat
        <5>1. v - 1 \in Nat
          BY <3>1
        <5>2. QED
          BY <2>1, <3>1, <5>1
      <4>2. QED
        BY <2>1, <4>1 DEF p
    <3>3. Clamped(w, p, q)[i] = IF p * v <= q * MinFrames THEN q * MinFrames
                                ELSE IF p * v >= y THEN y ELSE p * v
      BY DEF Clamped
    <3>4. p * v \in Int /\ y \in Int /\ q * MinFrames \in Int
      BY <1>1, <3>1
    <3> DEFINE a == p * v
               x == q * MinFrames
    <3> HIDE DEF a, x, y
    <3>5. (IF a <= x THEN x ELSE IF a >= y THEN y ELSE a) = y
      BY <2>1, <3>2, <3>4 DEF a, x, y
    <3>6. QED
      BY <3>3, <3>5 DEF a, x
  <2>3. G(p) = y * n
    <3>1. y \in Int
      BY <1>1
    <3> HIDE DEF p, y, n
    <3>2. QED
      BY <1>1, <2>2, <3>1, SumConstant DEF n
  <2>4. q * target <= q * (n * MaxFrames)
    <3>1. n * MaxFrames \in Int
      <4> HIDE DEF n
      <4> QED BY <1>1
    <3> HIDE DEF n
    <3>2. QED
      BY <1>2, <3>1, ProductOrder
  <2>5. q * (n * MaxFrames) = y * n
    <3> HIDE DEF n
    <3> QED BY <1>1
  <2>6. QED
    <3> HIDE DEF n, G
    <3> QED BY <2>1, <2>3, <2>4, <2>5
<1>5. PICK p \in Enough : \A r \in Enough : p <= r
  <2>1. Enough \in SUBSET Nat /\ Enough # {}
    BY <1>4
  <2> HIDE DEF Enough
  <2>2. QED
    BY <2>1, LeastNat
<1>6. CASE p = 0
  <2> DEFINE b == [low |-> Positions, high |-> {}]
  <2>1. \A i \in Positions : Clamped(w, 0, q)[i] = q * MinFrames
    <3>1. \A i \in Positions : w[i] \in Nat
      OBVIOUS
    <3>2. \A i \in Positions : 0 * w[i] <= q * MinFrames
      BY <1>1, <3>1
    <3>3. QED
      BY <3>2 DEF Clamped
  <2>2. G(0) = (q * MinFrames) * n
    <3>1. q * MinFrames \in Int
      BY <1>1
    <3>2. QED
      BY <1>1, <2>1, <3>1, SumConstant
  <2>3. target <= n * MinFrames
    <3>1. q * target <= q * (n * MinFrames)
      <4>1. q * target <= (q * MinFrames) * n
        BY <1>6, <2>2
      <4> HIDE DEF n
      <4>2. QED
        BY <1>1, <4>1
    <3>2. n * MinFrames \in Int
      <4> HIDE DEF n
      <4> QED BY <1>1
    <3> HIDE DEF n
    <3>3. QED
      BY <1>2, <3>1, <3>2, ProductOrder
  <2>4. b \in [low: SUBSET DOMAIN w, high: SUBSET DOMAIN w] /\ Free(w, b) = {}
        /\ b.low \intersect b.high = {} /\ b.high = {}
    BY DEF Free
  <2>5. Remaining(target, b) = 0
    <3>1. Remaining(target, b) = target - MinFrames * n - MaxFrames * 0
      BY FS_EmptySet DEF Remaining
    <3> HIDE DEF n, b
    <3>2. target = MinFrames * n
      BY <1>1, <1>2, <2>3
    <3>3. QED
      BY <1>1, <1>2, <3>1, <3>2
  <2>6. b \in Bisections(w, target)
    <3> HIDE DEF b
    <3> QED BY <2>4, <2>5 DEF Bisections
  <2>7. QED
    BY <2>6
<1>7. CASE p # 0
  <2>1. p \in Nat \ {0} /\ p - 1 \in Nat /\ p - 1 \notin Enough /\ q * target <= G(p)
    <3>1. p \in Nat /\ q * target <= G(p)
      OBVIOUS
    <3> HIDE DEF Enough, G
    <3>2. p - 1 \in Enough => p <= p - 1
      BY <1>5
    <3>3. QED
      BY <1>7, <3>1, <3>2
  <2>2. G(p - 1) \in Int
    <3>1. /\ q * MinFrames \in Int /\ q * MaxFrames \in Int
          /\ \A i \in Positions : (p - 1) * w[i] \in Int
      <4>1. \A i \in Positions : w[i] \in Nat
        OBVIOUS
      <4>2. QED
        BY <1>1, <2>1, <4>1
    <3>2. \A i \in Positions : Clamped(w, p - 1, q)[i] \in Int
      BY <3>1 DEF Clamped
    <3>3. QED
      BY <1>1, <3>2, SumOut
  <2>3. G(p - 1) < q * target
    <3>1. ~ (q * target <= G(p - 1))
      BY <2>1
    <3>2. q * target \in Int
      BY <1>2
    <3> HIDE DEF G
    <3>3. QED
      BY <2>2, <3>1, <3>2
  <2>4. QED
    BY <1>2, <1>3, <2>1, <2>3, BisectionOfScale
<1>8. QED
  BY <1>6, <1>7

-----------------------------------------------------------------------------
(* The timeline *)

LastFit ==
  \/ fitted = NoFit
  \/ /\ fitted.weights \in [Positions -> Nat \ {0}] /\ fitted.target \in Feasible
     /\ \E b \in Bisections(fitted.weights, fitted.target) :
          [i \in Positions |-> timeline.manual[timeline.order[i]]]
          = Allocated(fitted.weights, fitted.target, b)

PlansTyped == \A w \in Workers : work[w].at \in Planned => work[w].plan \in Fingerprints

FilesTyped ==
  /\ DOMAIN files \subseteq Fingerprints
  /\ \A h \in DOMAIN files : files[h] \in [job: Jobs, generation: 1..Attempts]

LeftTyped == left \in [edits: Nat, fits: Nat, jobs: Nat, outages: Nat]

ShapeInv ==
  /\ timeline \in Timeline
  /\ LastFit
  /\ deleted \in BOOLEAN
  /\ DOMAIN preview \subseteq Fingerprints
  /\ PlansTyped
  /\ FilesTyped
  /\ LeftTyped

LEMMA Orderings ==
  /\ Orders # {}
  /\ \A o \in Orders : /\ o \in [Positions -> Segments]
                       /\ \A i, k \in Positions : o[i] = o[k] => i = k
                       /\ \A s \in Segments : \E i \in Positions : o[i] = s
<1>1. IsFiniteSet(Segments) /\ ExistsBijection(Positions, Segments)
  BY PreviewAssumption, FS_CardinalityType DEF Positions
<1>2. Orders # {}
  BY <1>1 DEF ExistsBijection, Bijection, Orders
<1>3. Cardinality(Positions) = Cardinality(Segments)
  BY <1>1, PositionsFinite, FS_Bijection
<1>4. \A o \in Orders : o \in Surjection(Positions, Segments)
  BY <1>1, <1>3, FS_Injection DEF Orders
<1>5. \A o \in Orders : /\ o \in [Positions -> Segments]
                        /\ \A i, k \in Positions : o[i] = o[k] => i = k
  BY DEF Orders, Injection, IsInjective
<1>6. \A o \in Orders : \A s \in Segments : \E i \in Positions : o[i] = s
  BY <1>4 DEF Surjection
<1>7. QED
  BY <1>2, <1>5, <1>6

LEMMA PositionInverts ==
  ASSUME timeline \in Timeline
  PROVE  /\ \A s \in Segments : PositionOf(s) \in Positions
         /\ \A i \in Positions : /\ timeline.order[i] \in Segments
                                 /\ PositionOf(timeline.order[i]) = i
<1>1. timeline.order \in Orders
  BY DEF Timeline
<1>2. \A s \in Segments : PositionOf(s) \in Positions /\ timeline.order[PositionOf(s)] = s
  BY <1>1, Orderings DEF PositionOf
<1>3. QED
  BY <1>1, <1>2, Orderings

LEMMA FramesTyped ==
  ASSUME NEW t \in Timeline, NEW s \in Segments
  PROVE  Frames(t, s) \in MinFrames..MaxFrames
<1>1. t.text[s] \in Texts /\ t.manual[s] \in {NaturalLength} \union MinFrames..MaxFrames
  BY DEF Timeline
<1>2. QED
  BY <1>1, PreviewAssumption DEF Frames

LEMMA FingerprintTyped ==
  ASSUME NEW t \in Timeline
  PROVE  Fingerprint(t) \in Fingerprints
<1>1. [s \in Segments |-> Frames(t, s)] \in [Segments -> MinFrames..MaxFrames]
  BY FramesTyped
<1>2. t.order \in Orders /\ t.text \in [Segments -> Texts] /\ t.version \in [Segments -> Nat]
  BY DEF Timeline
<1>3. QED
  BY <1>1, <1>2 DEF Fingerprint, Fingerprints

LEMMA TimedTyped ==
  ASSUME NEW t \in Timeline,
         NEW manual \in [Segments -> {NaturalLength} \union MinFrames..MaxFrames]
  PROVE  /\ Timed(t, manual) \in Timeline
         /\ Timed(t, manual).order = t.order /\ Timed(t, manual).manual = manual
<1> DEFINE version == [s \in Segments |-> t.version[s] + IF t.manual[s] = manual[s] THEN 0 ELSE 1]
<1>1. /\ t.order \in Orders /\ t.text \in [Segments -> Texts] /\ t.version \in [Segments -> Nat]
  BY DEF Timeline
<1>2. version \in [Segments -> Nat]
  BY <1>1
<1>3. Timed(t, manual) = [t EXCEPT !.manual = manual, !.version = version]
  BY DEF Timed
<1> HIDE DEF version
<1> DEFINE u == [t EXCEPT !.manual = manual, !.version = version]
<1>4. u \in Timeline
  BY <1>1, <1>2 DEF Timeline
<1>5. u.order = t.order /\ u.manual = manual
  BY DEF Timeline
<1>6. QED
  BY <1>3, <1>4, <1>5

LEMMA WeightsTyped ==
  ASSUME timeline \in Timeline, NEW strategy \in {"current", "equal", "text_length"}
  PROVE  Weights(strategy) \in [Positions -> Nat \ {0}]
<1>1. ASSUME NEW i \in Positions
      PROVE  LET s == timeline.order[i]
             IN  /\ Frames(timeline, s) \in Nat \ {0}
                 /\ TextLength[timeline.text[s]] \in Nat \ {0}
  <2> DEFINE s == timeline.order[i]
  <2>1. s \in Segments /\ timeline.text \in [Segments -> Texts]
    BY PositionInverts DEF Timeline
  <2> HIDE DEF s
  <2>2. Frames(timeline, s) \in Nat \ {0}
    <3>1. Frames(timeline, s) \in MinFrames..MaxFrames
      BY <2>1, FramesTyped
    <3>2. QED
      BY <3>1, PreviewAssumption
  <2>3. TextLength[timeline.text[s]] \in Nat \ {0}
    BY <2>1, PreviewAssumption
  <2>4. QED
    BY <2>2, <2>3 DEF s
<1>2. QED
  BY <1>1 DEF Weights

-----------------------------------------------------------------------------
(* The steps of the timeline *)

LEMMA ShapeInit == Init => ShapeInv
<1> SUFFICES ASSUME Init PROVE ShapeInv
  OBVIOUS
<1>1. timeline \in Timeline
  <2>1. (CHOOSE o \in Orders : TRUE) \in Orders
    BY Orderings
  <2>2. StartTexts \subseteq [Segments -> Texts]
    BY PreviewAssumption
  <2>3. QED
    BY <2>1, <2>2 DEF Init, Timeline
<1>2. LastFit /\ deleted \in BOOLEAN
  BY DEF Init, LastFit
<1>3. DOMAIN preview = {} /\ DOMAIN files = {}
  BY DEF Init, NoRow
<1>4. PlansTyped
  BY DEF Init, PlansTyped, Idle, Planned
<1>5. FilesTyped
  BY <1>3 DEF FilesTyped
<1>6. LeftTyped
  BY PreviewAssumption DEF Init, LeftTyped
<1>7. QED
  BY <1>1, <1>2, <1>3, <1>4, <1>5, <1>6 DEF ShapeInv

LEMMA SpendTyped ==
  ASSUME LeftTyped, NEW what \in {"edits", "fits", "jobs", "outages"}, Spend(what)
  PROVE  LeftTyped'
BY DEF LeftTyped, Spend

LEMMA EditShape ==
  ASSUME ShapeInv, NEW t \in Timeline, Edited(t), LeftTyped'
  PROVE  ShapeInv'
<1>1. timeline' \in Timeline /\ LastFit'
  BY DEF Edited, LastFit
<1>2. PlansTyped' /\ FilesTyped' /\ (deleted \in BOOLEAN)' /\ (DOMAIN preview \subseteq Fingerprints)'
  BY DEF ShapeInv, Edited, PlansTyped, FilesTyped
<1>3. QED
  BY <1>1, <1>2 DEF ShapeInv

LEMMA FitShape ==
  ASSUME ShapeInv, NEW strategy \in {"current", "equal", "text_length"}, NEW target,
         Fit(strategy, target)
  PROVE  ShapeInv'
<1> DEFINE w == Weights(strategy)
<1>1. /\ timeline \in Timeline /\ w \in [Positions -> Nat \ {0}]
      /\ target \in Feasible /\ target \in Int
  <2>1. timeline \in Timeline
    BY DEF ShapeInv
  <2>2. w \in [Positions -> Nat \ {0}]
    BY <2>1, WeightsTyped
  <2>3. target \in Feasible
    BY DEF Fit
  <2>4. QED
    BY <2>1, <2>2, <2>3 DEF Feasible
<1>2. PICK b \in Bisections(w, target) :
        timeline' = Timed(timeline, [s \in Segments |-> Allocated(w, target, b)[PositionOf(s)]])
  BY DEF Fit
<1> DEFINE d == Allocated(w, target, b)
           manual == [s \in Segments |-> d[PositionOf(s)]]
<1>3. FitInput(w, target, b)
  BY <1>1, <1>2 DEF FitInput
<1>4. \A i \in Positions : d[i] \in MinFrames..MaxFrames
  <2> HIDE DEF w
  <2> QED BY <1>3, AllocatedWithin
<1>5. manual \in [Segments -> {NaturalLength} \union MinFrames..MaxFrames]
  <2>1. \A s \in Segments : PositionOf(s) \in Positions
    BY <1>1, PositionInverts
  <2> HIDE DEF d
  <2>2. QED
    BY <1>4, <2>1
<1>6. timeline' \in Timeline /\ timeline'.order = timeline.order /\ timeline'.manual = manual
  <2>1. timeline' = Timed(timeline, manual)
    BY <1>2
  <2> HIDE DEF manual, w
  <2>2. QED
    BY <1>1, <1>5, <2>1, TimedTyped
<1>7. [i \in Positions |-> timeline'.manual[timeline'.order[i]]] = d
  <2>1. \A i \in Positions : timeline'.manual[timeline'.order[i]] = d[i]
    <3>1. \A i \in Positions : timeline.order[i] \in Segments /\ PositionOf(timeline.order[i]) = i
      BY <1>1, PositionInverts
    <3> HIDE DEF d
    <3>2. QED
      BY <1>6, <3>1
  <2>2. d = [i \in Positions |-> d[i]]
    <3> HIDE DEF w
    <3> QED BY <1>3, BisectionShape DEF Allocated
  <2> HIDE DEF d
  <2>3. QED
    BY <2>1, <2>2
<1>8. LastFit'
  <2>1. fitted' = [target |-> target, weights |-> w]
    BY DEF Fit
  <2> HIDE DEF w
  <2>2. QED
    BY <1>1, <1>2, <1>7, <2>1 DEF LastFit
<1>9. UNCHANGED <<deleted, preview, files, work>> /\ LeftTyped'
  BY SpendTyped DEF Fit, ShapeInv
<1>10. PlansTyped' /\ FilesTyped' /\ (deleted \in BOOLEAN)' /\ (DOMAIN preview \subseteq Fingerprints)'
  BY <1>9 DEF ShapeInv, PlansTyped, FilesTyped
<1>11. QED
  BY <1>6, <1>8, <1>9, <1>10 DEF ShapeInv

LEMMA EditTimelineShape ==
  ASSUME ShapeInv, EditTimeline
  PROVE  ShapeInv'
<1>1. timeline \in Timeline /\ LeftTyped
  BY DEF ShapeInv
<1>2. ASSUME NEW o \in Orders, Reorder(o) PROVE ShapeInv'
  <2>1. [timeline EXCEPT !.order = o] \in Timeline
    BY <1>1 DEF Timeline
  <2>2. LeftTyped'
    BY <1>1, <1>2, SpendTyped DEF Reorder
  <2>3. QED
    BY <1>2, <2>1, <2>2, EditShape DEF Reorder
<1>3. ASSUME NEW s \in Segments, NEW x \in Texts, PatchText(s, x) PROVE ShapeInv'
  <2>1. [timeline EXCEPT !.text[s] = x, !.version[s] = @ + 1] \in Timeline
    <3>1. /\ [timeline.text EXCEPT ![s] = x] \in [Segments -> Texts]
          /\ [timeline.version EXCEPT ![s] = @ + 1] \in [Segments -> Nat]
      BY <1>1 DEF Timeline
    <3>2. QED
      BY <1>1, <3>1 DEF Timeline
  <2>2. LeftTyped'
    BY <1>1, <1>3, SpendTyped DEF PatchText
  <2>3. QED
    BY <1>3, <2>1, <2>2, EditShape DEF PatchText
<1>4. ASSUME NEW s \in Segments, NEW frames \in {NaturalLength} \union Timings,
             PatchTiming(s, frames)
      PROVE  ShapeInv'
  <2>1. [timeline.manual EXCEPT ![s] = frames]
        \in [Segments -> {NaturalLength} \union MinFrames..MaxFrames]
    BY <1>1, PreviewAssumption DEF Timeline
  <2>2. Timed(timeline, [timeline.manual EXCEPT ![s] = frames]) \in Timeline
    BY <1>1, <2>1, TimedTyped
  <2>3. LeftTyped'
    BY <1>1, <1>4, SpendTyped DEF PatchTiming
  <2>4. QED
    BY <1>4, <2>2, <2>3, EditShape DEF PatchTiming
<1>5. CASE RestoreAuto
  <2>1. Timed(timeline, [s \in Segments |-> NaturalLength]) \in Timeline
    BY <1>1, TimedTyped
  <2>2. LeftTyped'
    BY <1>1, <1>5, SpendTyped DEF RestoreAuto
  <2>3. QED
    BY <1>5, <2>1, <2>2, EditShape DEF RestoreAuto
<1>6. QED
  BY <1>2, <1>3, <1>4, <1>5, FitShape DEF EditTimeline

-----------------------------------------------------------------------------
(* The other steps *)

LEMMA PlansStep ==
  ASSUME ShapeInv, NEW w \in Workers, \A v \in Workers : v # w => work'[v] = work[v],
         work'[w].at \in Planned => work'[w].plan \in Fingerprints
  PROVE  PlansTyped'
BY DEF ShapeInv, PlansTyped

LEMMA LeavesShape ==
  ASSUME PreviewInv, ShapeInv, NEW w \in Workers, Leaves(w)
  PROVE  PlansTyped'
<1>1. work'[w] = Idle /\ \A v \in Workers : v # w => work'[v] = work[v]
  BY DEF Leaves, PreviewInv
<1>2. Idle.at \notin Planned
  BY DEF Idle, Planned
<1>3. QED
  BY <1>1, <1>2, PlansStep

\* A step that leaves the timeline and the files alone.
LEMMA OtherShape ==
  ASSUME ShapeInv, UNCHANGED <<timeline, fitted, files>>,
         deleted' \in BOOLEAN, DOMAIN preview' \subseteq Fingerprints, PlansTyped', LeftTyped'
  PROVE  ShapeInv'
BY DEF ShapeInv, LastFit, FilesTyped

LEMMA RequestShape ==
  ASSUME ShapeInv, NEW j \in Jobs,
         (\E force \in BOOLEAN : Create(j, force)) \/ Retry(j) \/ Cancel(j) \/ LeaseExpires(j)
  PROVE  ShapeInv'
<1>1. UNCHANGED <<timeline, fitted, deleted, files, work>>
  BY DEF Create, Retry, Cancel, LeaseExpires
<1>2. LeftTyped'
  BY SpendTyped DEF Create, Retry, Cancel, LeaseExpires, ShapeInv, LeftTyped
<1>3. DOMAIN preview' \subseteq Fingerprints
  <2>1. Fingerprint(timeline) \in Fingerprints
    BY FingerprintTyped DEF ShapeInv
  <2>2. QED
    BY <2>1 DEF Create, Retry, Cancel, LeaseExpires, Put, WithStatus, ShapeInv
<1>4. PlansTyped'
  BY <1>1 DEF ShapeInv, PlansTyped
<1>5. QED
  BY <1>1, <1>2, <1>3, <1>4, OtherShape DEF ShapeInv

LEMMA DeleteShape ==
  ASSUME ShapeInv, DeleteProject
  PROVE  ShapeInv'
<1>1. /\ deleted' = TRUE /\ DOMAIN preview' = {}
      /\ UNCHANGED <<timeline, fitted, work, left>>
  BY DEF DeleteProject, NoRow
<1>2. FilesTyped'
  <2>1. PICK S : files' = files \/ files' = Restrict(files, DOMAIN files \ S)
    BY DEF DeleteProject
  <2>2. QED
    BY <2>1 DEF ShapeInv, FilesTyped, Restrict
<1>3. QED
  BY <1>1, <1>2 DEF ShapeInv, LastFit, PlansTyped, LeftTyped

LEMMA FailsShape ==
  ASSUME PreviewInv, ShapeInv, NEW w \in Workers, NEW retryable, Fails(w, retryable)
  PROVE  PlansTyped' /\ DOMAIN preview' \subseteq Fingerprints
<1>1. PlansTyped'
  BY LeavesShape DEF Fails
<1>2. DOMAIN preview' = DOMAIN preview
  BY DEF Fails, WithStatus
<1>3. QED
  BY <1>1, <1>2 DEF ShapeInv

LEMMA ExecuteShape ==
  ASSUME PreviewInv, ShapeInv, NEW w \in Workers, Execute(w)
  PROVE  ShapeInv'
<1>w. /\ work = [v \in Workers |-> work[v]] /\ WorkTyped(w)
      /\ work[w].at \in Planned => work[w].plan \in Fingerprints
  BY DEF PreviewInv, ShapeInv, PlansTyped
<1>l. UNCHANGED <<timeline, fitted, deleted>> /\ LeftTyped'
  BY SpendTyped DEF Execute, Claim, GiveUp, CheckPlan, Render, Publish, PublishLost, Compare,
       Unlink, MoveRaced, FailPublish, Crash, RenewLease, ShapeInv, LeftTyped
<1>f. ASSUME NEW retryable, Fails(w, retryable)
      PROVE  PlansTyped' /\ DOMAIN preview' \subseteq Fingerprints
  BY <1>f, FailsShape
<1>1. ASSUME NEW j \in Jobs, Claim(w, j) \/ GiveUp(w, j) PROVE ShapeInv'
  <2>1. UNCHANGED files /\ DOMAIN preview' \subseteq Fingerprints
    BY <1>1 DEF Claim, GiveUp, WithStatus, ShapeInv
  <2>2. PlansTyped'
    <3>1. CASE Claim(w, j)
      <4>1. /\ work'[w].at = "planning"
            /\ \A v \in Workers : v # w => work'[v] = work[v]
        BY <1>w, <3>1 DEF Claim
      <4>2. QED
        BY <4>1, PlansStep DEF Planned
    <3>2. CASE GiveUp(w, j)
      BY <3>2 DEF GiveUp, ShapeInv, PlansTyped
    <3>3. QED
      BY <1>1, <3>1, <3>2
  <2>3. QED
    BY <1>l, <2>1, <2>2, OtherShape DEF ShapeInv
<1>2. CASE CheckPlan(w)
  <2>1. UNCHANGED files /\ DOMAIN preview' \subseteq Fingerprints
    BY <1>2, <1>f DEF CheckPlan, ShapeInv
  <2>2. PlansTyped'
    <3>1. CASE \E retryable : Fails(w, retryable)
      BY <1>f, <3>1
    <3>2. CASE work' = [work EXCEPT ![w] = [at |-> "rendering", job |-> @.job,
                                            generation |-> @.generation,
                                            plan |-> Fingerprint(timeline)]]
      <4>1. Fingerprint(timeline) \in Fingerprints
        BY FingerprintTyped DEF ShapeInv
      <4>2. work'[w].plan = Fingerprint(timeline) /\ \A v \in Workers : v # w => work'[v] = work[v]
        BY <1>w, <3>2
      <4>3. QED
        BY <4>1, <4>2, PlansStep
    <3>3. QED
      BY <1>2, <3>1, <3>2 DEF CheckPlan
  <2>3. QED
    BY <1>l, <2>1, <2>2, OtherShape DEF ShapeInv
<1>3. CASE Render(w)
  <2>1. UNCHANGED files /\ DOMAIN preview' \subseteq Fingerprints
    BY <1>3, <1>f DEF Render, ShapeInv
  <2>2. PlansTyped'
    <3>1. CASE \E retryable : Fails(w, retryable)
      BY <1>f, <3>1
    <3>2. CASE work' = [work EXCEPT ![w].at = "rendered"]
      <4>1. work[w].at \in Planned /\ work'[w].plan = work[w].plan
        BY <1>3, <1>w, <3>2 DEF Render, Planned, WorkTyped, Idle, Planning, Carrying
      <4>2. \A v \in Workers : v # w => work'[v] = work[v]
        BY <1>w, <3>2
      <4>3. QED
        BY <1>w, <4>1, <4>2, PlansStep
    <3>3. QED
      BY <1>3, <3>1, <3>2 DEF Render
  <2>3. QED
    BY <1>l, <2>1, <2>2, OtherShape DEF ShapeInv
<1>m. ASSUME work[w].at = "rendered", Moved(w) PROVE FilesTyped'
  <2>1. /\ work[w].plan \in Fingerprints
        /\ ByExecution(w) \in [job: Jobs, generation: 1..Attempts]
    BY <1>m, <1>w, WorkShape DEF Planned, ByExecution, Carrying
  <2>2. QED
    BY <1>m, <2>1 DEF ShapeInv, FilesTyped, Moved, Put
<1>4. CASE Publish(w)
  <2>1. CASE Moved(w) /\ Leaves(w) /\ DOMAIN preview' = DOMAIN preview
    <3>1. FilesTyped'
      BY <1>4, <1>m, <2>1 DEF Publish
    <3>2. PlansTyped'
      BY <2>1, LeavesShape
    <3>3. QED
      BY <1>l, <2>1, <3>1, <3>2 DEF ShapeInv, LastFit
  <2>2. CASE Fails(w, FALSE) /\ UNCHANGED files
    BY <1>f, <1>l, <2>2, OtherShape DEF ShapeInv
  <2>3. QED
    BY <1>4, <2>1, <2>2 DEF Publish
<1>5. CASE PublishLost(w)
  <2>1. FilesTyped'
    BY <1>5, <1>m DEF PublishLost
  <2>2. PlansTyped'
    <3>1. CASE work' = [work EXCEPT ![w].at = "rolledBack"]
      <4>1. work[w].at \in Planned /\ work'[w].plan = work[w].plan
        BY <1>5, <1>w, <3>1 DEF PublishLost, Planned, WorkTyped, Idle, Planning, Carrying
      <4>2. \A v \in Workers : v # w => work'[v] = work[v]
        BY <1>w, <3>1
      <4>3. QED
        BY <1>w, <4>1, <4>2, PlansStep
    <3>2. CASE Leaves(w)
      BY <3>2, LeavesShape
    <3>3. QED
      BY <1>5, <3>1, <3>2 DEF PublishLost
  <2>3. QED
    BY <1>5, <1>l, <2>1, <2>2 DEF ShapeInv, LastFit, PublishLost
<1>6. CASE Compare(w)
  <2>1. PlansTyped'
    <3>1. work[w].at \in Planned /\ work'[w].plan = work[w].plan
      BY <1>6, <1>w DEF Compare, Planned, WorkTyped, Idle, Planning, Carrying
    <3>2. \A v \in Workers : v # w => work'[v] = work[v]
      BY <1>6, <1>w DEF Compare
    <3>3. QED
      BY <1>w, <3>1, <3>2, PlansStep
  <2>2. QED
    BY <1>6, <1>l, <2>1, OtherShape DEF Compare, ShapeInv
<1>r. ASSUME NEW h, Removed(h) PROVE FilesTyped'
  BY <1>r DEF Removed, Restrict, ShapeInv, FilesTyped
<1>u. CASE Unlink(w)
  <2>1. FilesTyped'
    BY <1>r, <1>u DEF Unlink
  <2>2. PlansTyped'
    <3>1. work[w].at \in Planned /\ work'[w].plan = work[w].plan
      BY <1>u, <1>w DEF Unlink, Planned, WorkTyped, Idle, Planning, Carrying
    <3>2. \A v \in Workers : v # w => work'[v] = work[v]
      BY <1>u, <1>w DEF Unlink
    <3>3. QED
      BY <1>w, <3>1, <3>2, PlansStep
  <2>3. QED
    BY <1>l, <1>u, <2>1, <2>2 DEF ShapeInv, LastFit, Unlink
<1>v. ASSUME NEW v \in Workers, MoveRaced(w, v) PROVE ShapeInv'
  <2>1. FilesTyped'
    BY <1>r, <1>v DEF MoveRaced
  <2>2. PlansTyped'
    <3>1. work[w].at \in Planned /\ work[v].at \in Planned /\ WorkTyped(v) /\ v # w
      BY <1>v DEF MoveRaced, Planned, PreviewInv
    <3>2. work'[w].plan = work[w].plan /\ work'[v].plan = work[v].plan
      BY <1>v, <1>w, <3>1 DEF MoveRaced, Planned, WorkTyped, Idle, Planning, Carrying
    <3>3. \A u \in Workers : u \notin {v, w} => work'[u] = work[u]
      BY <1>v, <1>w DEF MoveRaced
    <3>4. QED
      BY <3>1, <3>2, <3>3 DEF ShapeInv, PlansTyped
  <2>3. QED
    BY <1>l, <1>v, <2>1, <2>2 DEF ShapeInv, LastFit, MoveRaced
<1>7. CASE FailPublish(w)
  BY <1>7, <1>f, <1>l, OtherShape DEF FailPublish, ShapeInv
<1>8. CASE Crash(w)
  <2>1. PlansTyped'
    BY <1>8, LeavesShape DEF Crash
  <2>2. QED
    BY <1>8, <1>l, <2>1, OtherShape DEF Crash, ShapeInv
<1>9. CASE RenewLease(w)
  <2>1. PlansTyped'
    BY <1>9 DEF RenewLease, ShapeInv, PlansTyped
  <2>2. QED
    BY <1>9, <1>l, <2>1, OtherShape DEF RenewLease, ShapeInv
<1>10. QED
  BY <1>1, <1>2, <1>3, <1>4, <1>5, <1>6, <1>u, <1>v, <1>7, <1>8, <1>9 DEF Execute

LEMMA ShapeNext == PreviewInv /\ ShapeInv /\ [Next]_vars => ShapeInv'
<1> SUFFICES ASSUME PreviewInv, ShapeInv, [Next]_vars PROVE ShapeInv'
  OBVIOUS
<1>1. CASE UNCHANGED vars
  BY <1>1 DEF vars, ShapeInv, LastFit, PlansTyped, FilesTyped, LeftTyped
<1>2. CASE EditTimeline
  BY <1>2, EditTimelineShape
<1>3. ASSUME NEW j \in Jobs,
             (\E force \in BOOLEAN : Create(j, force)) \/ Retry(j) \/ Cancel(j) \/ LeaseExpires(j)
      PROVE  ShapeInv'
  BY <1>3, RequestShape
<1>4. CASE DeleteProject
  BY <1>4, DeleteShape
<1>5. ASSUME NEW w \in Workers, Execute(w) PROVE ShapeInv'
  BY <1>5, ExecuteShape
<1>6. QED
  BY <1>1, <1>2, <1>3, <1>4, <1>5 DEF Next

-----------------------------------------------------------------------------
(* The theorems *)

\* The timeline, the fit it had last and the fingerprints keep their shape.
THEOREM ShapesKept == Spec => []ShapeInv
<1>1. Spec => []PreviewInv
  BY RowsCorrect
<1>2. QED
  BY <1>1, ShapeInit, ShapeNext, PTL DEF Spec

\* Type correctness. That allocate_timeline_durations gives every clip a duration
\* between SEGMENT_MIN_DURATION_FRAMES and SEGMENT_MAX_DURATION_FRAMES is part of it.
THEOREM TypeCorrect == Spec => []TypeOK
<1>1. PreviewInv /\ ShapeInv => TypeOK
  <2> SUFFICES ASSUME PreviewInv, ShapeInv PROVE TypeOK
    OBVIOUS
  <2>1. job \in [Jobs -> JobRow] /\ \A j \in Jobs : job[j].owner # NoWorker <=> job[j].status = "running"
    BY DEF PreviewInv, JobsTyped
  <2>2. \A h \in DOMAIN preview : preview[h] \in PreviewRow
    BY DEF PreviewInv, RowTyped, ShapeInv, PreviewRow
  <2>3. ASSUME NEW w \in Workers PROVE work[w] = Idle \/ work[w] \in Execution
    <3>1. work[w].at \in Planned => work[w].plan \in Fingerprints
      BY DEF ShapeInv, PlansTyped
    <3>2. CASE work[w] = Idle \/ work[w] \in Planning
      BY <3>2 DEF Planning, Execution
    <3>3. CASE work[w] \in Carrying(work[w].plan)
      <4>1. work[w].at \in Planned
        BY <3>3 DEF Carrying
      <4>2. QED
        BY <3>1, <3>3, <4>1 DEF Carrying, Execution, Planned
    <3>4. QED
      BY <3>2, <3>3 DEF PreviewInv, WorkTyped
  <2>4. QED
    BY <2>1, <2>2, <2>3 DEF ShapeInv, FilesTyped, LeftTyped, TypeOK
<1>2. QED
  BY <1>1, RowsCorrect, ShapesKept, PTL

\* A fit takes exactly the frames asked for, within the bounds of every clip, gives
\* a heavier clip no less than a lighter one, gives the same whatever bounded clips
\* the bisection found, and has a solution for every target between the bounds
\* (allocate_timeline_durations, for any number of clips and any weights).
THEOREM FitsAreExact == Spec => []FitIsExact
<1>1. ShapeInv => FitIsExact
  <2> SUFFICES ASSUME ShapeInv, fitted # NoFit PROVE FitIsExact
    BY DEF FitIsExact
  <2> DEFINE w == fitted.weights
             target == fitted.target
             d == [i \in Positions |-> timeline.manual[timeline.order[i]]]
  <2>1. w \in [Positions -> Nat \ {0}] /\ target \in Feasible
    BY DEF ShapeInv, LastFit
  <2>2. PICK b \in Bisections(w, target) : d = Allocated(w, target, b)
    BY DEF ShapeInv, LastFit
  <2>3. target \in Int
    BY <2>1 DEF Feasible
  <2>4. FitInput(w, target, b) /\ \A e \in Bisections(w, target) : FitInput(w, target, e)
    BY <2>1, <2>2, <2>3 DEF FitInput
  <2>5. DOMAIN d = Positions
    OBVIOUS
  <2> HIDE DEF w, target, d
  <2>6. SumFunction(d) = target
    BY <2>2, <2>4, <2>5, AllocatedSum DEF SumFunction
  <2>7. \A i, k \in Positions : d[i] \in MinFrames..MaxFrames /\ (w[i] > w[k] => d[i] >= d[k])
    BY <2>2, <2>4, AllocatedWithin, AllocatedMonotone
  <2>8. \A e \in Bisections(w, target) : Allocated(w, target, e) = d
    BY <2>2, <2>4, AllocatedOnce
  <2>9. \A t \in Feasible : Bisections(w, t) # {}
    BY <2>1, BisectionExists
  <2>10. QED
    BY <2>6, <2>7, <2>8, <2>9 DEF FitIsExact, w, target, d
<1>2. QED
  BY <1>1, ShapesKept, PTL
=============================================================================
