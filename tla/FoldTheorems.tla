---------------------------- MODULE FoldTheorems ----------------------------
(***************************************************************************)
(* Induction over data, and what it says of folds: the facts that the      *)
(* proofs about scripts, streams and images rest on.                       *)
(*                                                                         *)
(* The induction theorems of the library take the formula to prove as an   *)
(* operator; here it is a set, that of the numbers or subsets for which    *)
(* the formula holds, and its least counterexample is refuted.             *)
(***************************************************************************)
EXTENDS Integers, Sequences, SequencesExt, FiniteSetsExt, FiniteSetTheorems,
        WellFoundedInduction, TLAPS

(* A set with 0 and the successor of each of its numbers has all numbers.  *)
LEMMA NatSetInduction ==
  ASSUME NEW S, 0 \in S, \A n \in Nat : n \in S => n + 1 \in S
  PROVE  Nat \subseteq S
<1> DEFINE R == OpToRel(<, Nat)
           T == {n \in Nat : n \notin S}
<1>1. IsWellFoundedOn(R, Nat)
  BY NatLessThanWellFounded
<1>2. CASE T # {}
  <2> HIDE DEF R
  <2>1. PICK x \in T : \A y \in T : ~ (<<y, x>> \in R)
    BY <1>1, <1>2, WFMin
  <2>2. x # 0 /\ x - 1 \in Nat
    OBVIOUS
  <2>3. <<x - 1, x>> \in R
    BY <2>2 DEF R, OpToRel
  <2>4. x - 1 \in S
    BY <2>1, <2>2, <2>3
  <2>5. x - 1 + 1 \in S
    BY <2>2, <2>4
  <2> QED BY <2>5
<1> QED BY <1>2

(* The same up to a bound.                                                 *)
LEMMA UpToInduction ==
  ASSUME NEW n \in Nat, NEW S, 0 \in S, \A i \in 0 .. n - 1 : i \in S => i + 1 \in S
  PROVE  0 .. n \subseteq S
<1> DEFINE C == {i \in Nat : i <= n => i \in S}
<1>1. Nat \subseteq C
  <2>1. 0 \in C
    OBVIOUS
  <2>2. \A i \in Nat : i \in C => i + 1 \in C
    OBVIOUS
  <2> HIDE DEF C
  <2> QED BY <2>1, <2>2, NatSetInduction
<1> QED BY <1>1

(* A family of subsets of a finite set that has every subset from which    *)
(* the removal of any element leads into the family has all subsets.       *)
LEMMA SubsetInduction ==
  ASSUME NEW F, IsFiniteSet(F), NEW C,
         \A T \in SUBSET F : (\A x \in T : T \ {x} \in C) => T \in C
  PROVE  SUBSET F \subseteq C
<1> DEFINE N == {n \in Nat : \A T \in SUBSET F : Cardinality(T) = n => T \in C}
<1>1. 0 \in N
  BY FS_Subset, FS_EmptySet
<1>2. \A n \in Nat : n \in N => n + 1 \in N
  <2> SUFFICES ASSUME NEW n \in Nat, n \in N,
                      NEW T \in SUBSET F, Cardinality(T) = n + 1
               PROVE  T \in C
    OBVIOUS
  <2>1. \A x \in T : Cardinality(T \ {x}) = n
    BY FS_Subset, FS_RemoveElement, FS_CardinalityType
  <2> QED BY <2>1
<1>3. Nat \subseteq N
  <2> HIDE DEF N
  <2> QED BY <1>1, <1>2, NatSetInduction
<1>4. \A T \in SUBSET F : Cardinality(T) \in Nat
  BY FS_Subset, FS_CardinalityType
<1> QED BY <1>3, <1>4

(* A fold over a finite set that removes an element of its choice at a     *)
(* time is well defined: a function on the subsets satisfies its equation. *)
StepFunctions(M, X) == [M \X X -> M]

SubsetFunctions(M, S) == [SUBSET S -> M]

Choosers(F) ==
  {c \in [(SUBSET F) \ {{}} -> F] : \A T \in (SUBSET F) \ {{}} : c[T] \in T}

IsIteration(g, op, b, F, c) ==
  /\ g[{}] = b
  /\ \A T \in (SUBSET F) \ {{}} : g[T] = op[<<g[T \ {c[T]}], c[T]>>]

LEMMA IterationExists ==
  ASSUME NEW F, IsFiniteSet(F), NEW M, NEW b \in M, NEW c \in Choosers(F),
         NEW op \in StepFunctions(M, F)
  PROVE  \E g \in SubsetFunctions(M, F) : IsIteration(g, op, b, F, c)
<1> DEFINE Eq(g, n) ==
             /\ g[{}] = b
             /\ \A T \in (SUBSET F) \ {{}} :
                  Cardinality(T) <= n => g[T] = op[<<g[T \ {c[T]}], c[T]>>]
           N == {n \in Nat : \E g \in [SUBSET F -> M] : Eq(g, n)}
<1>0. \A T \in SUBSET F : IsFiniteSet(T) /\ Cardinality(T) \in Nat
  BY FS_Subset, FS_CardinalityType
<1>c. c \in [(SUBSET F) \ {{}} -> F] /\ \A T \in (SUBSET F) \ {{}} : c[T] \in T
  BY DEF Choosers
<1>1. 0 \in N
  <2> DEFINE g == [T \in SUBSET F |-> b]
  <2>1. Eq(g, 0)
    BY <1>0, FS_EmptySet
  <2> QED BY <2>1
<1>2. \A n \in Nat : n \in N => n + 1 \in N
  <2> SUFFICES ASSUME NEW n \in Nat, n \in N PROVE n + 1 \in N
    OBVIOUS
  <2>0. PICK g \in [SUBSET F -> M] : Eq(g, n)
    OBVIOUS
  <2> DEFINE Up(T) == op[<<g[T \ {c[T]}], c[T]>>]
             h == [T \in SUBSET F |-> IF Cardinality(T) = n + 1 THEN Up(T) ELSE g[T]]
  <2>1. \A T \in (SUBSET F) \ {{}} :
          /\ c[T] \in F /\ T \ {c[T]} \in SUBSET F
          /\ Cardinality(T \ {c[T]}) = Cardinality(T) - 1
    <3> TAKE T \in (SUBSET F) \ {{}}
    <3>1. c[T] \in T /\ c[T] \in F
      BY <1>c
    <3>2. Cardinality(T \ {c[T]}) = Cardinality(T) - 1
      BY <1>0, <3>1, FS_RemoveElement
    <3> QED BY <3>1, <3>2
  <2>2. Cardinality({}) = 0
    BY FS_EmptySet
  <2>3. \A T \in SUBSET F : Cardinality(T) = n + 1 => T # {}
    <3> SUFFICES ASSUME NEW T \in SUBSET F, T = {} PROVE Cardinality(T) # n + 1
      OBVIOUS
    <3>1. Cardinality(T) = 0
      BY <2>2
    <3> QED BY <3>1
  <2>4. \A T \in (SUBSET F) \ {{}} : Up(T) \in M
    BY <2>1 DEF StepFunctions
  <2>5. h \in [SUBSET F -> M]
    BY <2>3, <2>4
  <2>6. h[{}] = b
    BY <2>0, <2>2
  <2>7. ASSUME NEW T \in (SUBSET F) \ {{}}, Cardinality(T) <= n + 1
        PROVE  h[T] = op[<<h[T \ {c[T]}], c[T]>>]
    <3>1. Cardinality(T) \in Nat /\ Cardinality(T \ {c[T]}) = Cardinality(T) - 1
      BY <1>0, <2>1
    <3>2. h[T \ {c[T]}] = g[T \ {c[T]}]
      BY <2>1, <2>7, <3>1
    <3>3. CASE Cardinality(T) = n + 1
      BY <3>2, <3>3
    <3>4. CASE Cardinality(T) # n + 1
      <4>1. Cardinality(T) <= n
        BY <2>7, <3>1, <3>4
      <4>2. g[T] = Up(T)
        BY <2>0, <4>1
      <4> QED BY <3>2, <3>4, <4>2
    <3> QED BY <3>3, <3>4
  <2>8. Eq(h, n + 1)
    BY <2>6, <2>7
  <2>9. \E k \in [SUBSET F -> M] : Eq(k, n + 1)
    <3> HIDE DEF h, Eq
    <3> QED BY <2>5, <2>8
  <2>10. n + 1 \in Nat
    OBVIOUS
  <2> QED BY <2>9, <2>10, Zenon
<1>3. Nat \subseteq N
  <2> HIDE DEF N
  <2> QED BY <1>1, <1>2, NatSetInduction
<1>4. Cardinality(F) \in N
  BY <1>0, <1>3
<1>5. PICK g \in [SUBSET F -> M] : Eq(g, Cardinality(F))
  BY <1>4
<1>6. \A T \in SUBSET F : Cardinality(T) <= Cardinality(F)
  BY FS_Subset
<1> QED BY <1>5, <1>6 DEF IsIteration, SubsetFunctions

----------------------------------------------------------------------------
(* Folds over sequences.  A chain is the list of a fold's intermediate     *)
(* values, and Fold its last one; op is the function of one step.          *)
IsChain(h, op, b, s) ==
  /\ h[0] = b
  /\ \A i \in 1 .. Len(s) : h[i] = op[<<h[i - 1], s[i]>>]

ByGreatest(g, op, b, s) ==
  /\ g[{}] = b
  /\ \A T \in (SUBSET DOMAIN s) \ {{}} : g[T] = op[<<g[T \ {Max(T)}], s[Max(T)]>>]

Fold(M, op, b, s) == (CHOOSE h \in [0 .. Len(s) -> M] : IsChain(h, op, b, s))[Len(s)]

LEMMA MaxOfInterval ==
  ASSUME NEW n \in Nat \ {0}
  PROVE  Max(1 .. n) = n
  BY DEF Max

(* A non-empty set of indices has a greatest.                              *)
LEMMA MaxOfIndices ==
  ASSUME NEW n \in Nat
  PROVE  \A T \in (SUBSET (1 .. n)) \ {{}} : Max(T) \in T
<1> DEFINE F == 1 .. n
           C == {T \in SUBSET F : T # {} => \E x \in T : \A y \in T : x >= y}
<1>1. \A T \in SUBSET F : (\A x \in T : T \ {x} \in C) => T \in C
  <2> SUFFICES ASSUME NEW T \in SUBSET F, \A x \in T : T \ {x} \in C, NEW x \in T
               PROVE  \E u \in T : \A y \in T : u >= y
    OBVIOUS
  <2>1. CASE T \ {x} = {}
    BY <2>1
  <2>2. CASE T \ {x} # {}
    <3>1. PICK u \in T \ {x} : \A y \in T \ {x} : u >= y
      BY <2>2
    <3>2. x \in Int /\ u \in Int /\ T \subseteq Int
      OBVIOUS
    <3>3. CASE x >= u
      <4>1. \A y \in T : x >= y
        BY <3>1, <3>2, <3>3
      <4> QED BY <4>1
    <3>4. CASE ~(x >= u)
      <4>1. \A y \in T : u >= y
        BY <3>1, <3>2, <3>4
      <4> QED BY <4>1
    <3> QED BY <3>3, <3>4
  <2> QED BY <2>1, <2>2
<1>2. SUBSET F \subseteq C
  <2>1. IsFiniteSet(F)
    BY FS_Interval
  <2> HIDE DEF C, F
  <2> QED BY <1>1, <2>1, SubsetInduction
<1> QED BY <1>2 DEF Max

LEMMA ChainExists ==
  ASSUME NEW X, NEW s \in Seq(X), NEW M, NEW b \in M, NEW op \in StepFunctions(M, X)
  PROVE  /\ \E h \in [0 .. Len(s) -> M] : IsChain(h, op, b, s)
         /\ \E g \in SubsetFunctions(M, DOMAIN s) : ByGreatest(g, op, b, s)
<1> DEFINE F == 1 .. Len(s)
           c == [T \in (SUBSET F) \ {{}} |-> Max(T)]
           f == [p \in M \X F |-> op[<<p[1], s[p[2]]>>]]
<1>1. Len(s) \in Nat /\ DOMAIN s = F /\ IsFiniteSet(F)
  BY FS_Interval
<1>2. c \in Choosers(F)
  BY <1>1, MaxOfIndices DEF Choosers
<1>3. f \in StepFunctions(M, F)
  BY DEF StepFunctions
<1>4. PICK g \in SubsetFunctions(M, F) : IsIteration(g, f, b, F, c)
  <2> HIDE DEF F, c, f
  <2> QED BY <1>1, <1>2, <1>3, IterationExists
<1>5. \A T \in (SUBSET F) \ {{}} : g[T] = op[<<g[T \ {Max(T)}], s[Max(T)]>>]
  <2> TAKE T \in (SUBSET F) \ {{}}
  <2>1. c[T] = Max(T) /\ Max(T) \in F /\ g[T \ {Max(T)}] \in M
    BY <1>2, <1>4 DEF Choosers, SubsetFunctions
  <2> QED BY <1>4, <2>1 DEF IsIteration
<1>6. IsChain([i \in 0 .. Len(s) |-> g[1 .. i]], op, b, s)
  <2> DEFINE h == [i \in 0 .. Len(s) |-> g[1 .. i]]
  <2>1. h[0] = b
    <3>1. 1 .. 0 = {}
      OBVIOUS
    <3> QED BY <1>1, <1>4, <3>1 DEF IsIteration
  <2>2. ASSUME NEW i \in 1 .. Len(s) PROVE h[i] = op[<<h[i - 1], s[i]>>]
    <3>1. 1 .. i \in (SUBSET F) \ {{}} /\ Max(1 .. i) = i /\ (1 .. i) \ {i} = 1 .. (i - 1)
      BY <1>1, MaxOfInterval
    <3>2. g[1 .. i] = op[<<g[1 .. (i - 1)], s[i]>>]
      BY <1>5, <3>1
    <3>3. h[i] = g[1 .. i] /\ h[i - 1] = g[1 .. (i - 1)]
      BY <1>1
    <3> QED BY <3>2, <3>3
  <2> QED BY <2>1, <2>2 DEF IsChain
<1>7. [i \in 0 .. Len(s) |-> g[1 .. i]] \in [0 .. Len(s) -> M]
  <2>1. \A i \in 0 .. Len(s) : 1 .. i \in SUBSET F
    BY <1>1
  <2> QED BY <1>1, <1>4, <2>1 DEF SubsetFunctions
<1>8. g \in SubsetFunctions(M, DOMAIN s) /\ g[{}] = b
  BY <1>1, <1>4 DEF IsIteration
<1>9. ByGreatest(g, op, b, s)
  BY <1>1, <1>5, <1>8 DEF ByGreatest
<1> HIDE DEF F, c, f
<1> QED BY <1>6, <1>7, <1>8, <1>9

(* Values that start alike and step alike are alike.                       *)
LEMMA ChainUnique ==
  ASSUME NEW X, NEW s \in Seq(X), NEW op, NEW b, NEW g, NEW h,
         IsChain(g, op, b, s), IsChain(h, op, b, s)
  PROVE  \A i \in 0 .. Len(s) : g[i] = h[i]
<1> DEFINE S == {i \in 0 .. Len(s) : g[i] = h[i]}
<1>0. Len(s) \in Nat
  OBVIOUS
<1>1. 0 \in S
  BY <1>0 DEF IsChain
<1>2. ASSUME NEW i \in 0 .. Len(s) - 1, i \in S PROVE i + 1 \in S
  <2>1. i + 1 \in 1 .. Len(s) /\ (i + 1) - 1 = i
    BY <1>0
  <2>2. g[i + 1] = op[<<g[i], s[i + 1]>>] /\ h[i + 1] = op[<<h[i], s[i + 1]>>]
    BY <2>1 DEF IsChain
  <2> QED BY <1>2, <2>1, <2>2
<1>3. 0 .. Len(s) \subseteq S
  <2> HIDE DEF S
  <2> QED BY <1>0, <1>1, <1>2, UpToInduction
<1> QED BY <1>3

LEMMA ChainType ==
  ASSUME NEW X, NEW s \in Seq(X), NEW M, NEW b \in M, NEW op \in StepFunctions(M, X),
         NEW h, IsChain(h, op, b, s)
  PROVE  \A i \in 0 .. Len(s) : h[i] \in M
<1>1. PICK k \in [0 .. Len(s) -> M] : IsChain(k, op, b, s)
  BY ChainExists
<1>2. \A i \in 0 .. Len(s) : h[i] = k[i]
  BY <1>1, ChainUnique
<1> QED BY <1>1, <1>2

LEMMA FoldIsLast ==
  ASSUME NEW X, NEW s \in Seq(X), NEW M, NEW b \in M, NEW op \in StepFunctions(M, X),
         NEW h, IsChain(h, op, b, s)
  PROVE  Fold(M, op, b, s) = h[Len(s)]
<1> DEFINE k == CHOOSE h1 \in [0 .. Len(s) -> M] : IsChain(h1, op, b, s)
<1>1. k \in [0 .. Len(s) -> M] /\ IsChain(k, op, b, s)
  BY ChainExists
<1>2. Fold(M, op, b, s) = k[Len(s)]
  BY DEF Fold
<1> HIDE DEF k
<1>3. \A i \in 0 .. Len(s) : h[i] = k[i]
  BY <1>1, ChainUnique
<1>4. Len(s) \in 0 .. Len(s)
  OBVIOUS
<1> QED BY <1>2, <1>3, <1>4

LEMMA FoldEmpty ==
  ASSUME NEW X, NEW M, NEW b \in M, NEW op \in StepFunctions(M, X)
  PROVE  Fold(M, op, b, <<>>) = b
<1>1. <<>> \in Seq(X) /\ Len(<<>>) = 0
  OBVIOUS
<1>2. IsChain([i \in 0 .. 0 |-> b], op, b, <<>>)
  BY DEF IsChain
<1>3. Fold(M, op, b, <<>>) = [i \in 0 .. 0 |-> b][0]
  BY <1>1, <1>2, FoldIsLast
<1> QED BY <1>3

LEMMA FoldType ==
  ASSUME NEW X, NEW s \in Seq(X), NEW M, NEW b \in M, NEW op \in StepFunctions(M, X)
  PROVE  Fold(M, op, b, s) \in M
<1>1. PICK h \in [0 .. Len(s) -> M] : IsChain(h, op, b, s)
  BY ChainExists
<1> QED BY <1>1, FoldIsLast

(* A fold over two sequences goes on where that over the first ended.      *)
LEMMA FoldConcat ==
  ASSUME NEW X, NEW s \in Seq(X), NEW t \in Seq(X),
         NEW M, NEW b \in M, NEW op \in StepFunctions(M, X)
  PROVE  Fold(M, op, b, s \o t) = Fold(M, op, Fold(M, op, b, s), t)
<1>1. PICK h \in [0 .. Len(s) -> M] : IsChain(h, op, b, s)
  BY ChainExists
<1>2. Fold(M, op, b, s) = h[Len(s)]
  BY <1>1, FoldIsLast
<1>5. h[Len(s)] \in M
  OBVIOUS
<1>3. PICK k \in [0 .. Len(t) -> M] : IsChain(k, op, h[Len(s)], t)
  BY <1>5, ChainExists
<1>4. Fold(M, op, h[Len(s)], t) = k[Len(t)]
  BY <1>3, <1>5, FoldIsLast
<1> DEFINE u == s \o t
           g == [i \in 0 .. Len(u) |-> IF i <= Len(s) THEN h[i] ELSE k[i - Len(s)]]
<1>u. u \in Seq(X) /\ Len(u) = Len(s) + Len(t) /\ Len(s) \in Nat /\ Len(t) \in Nat
  OBVIOUS
<1>6. IsChain(g, op, b, u)
  <2>1. g[0] = b
    BY <1>1, <1>u DEF IsChain
  <2>2. ASSUME NEW i \in 1 .. Len(u) PROVE g[i] = op[<<g[i - 1], u[i]>>]
    <3>1. CASE i <= Len(s)
      <4>1. g[i] = h[i] /\ g[i - 1] = h[i - 1] /\ u[i] = s[i]
        BY <1>u, <3>1
      <4>2. i \in 1 .. Len(s)
        BY <1>u, <3>1
      <4>3. h[i] = op[<<h[i - 1], s[i]>>]
        BY <1>1, <4>2 DEF IsChain
      <4> HIDE DEF g, u
      <4> QED BY <4>1, <4>3
    <3>2. CASE ~(i <= Len(s))
      <4> DEFINE j == i - Len(s)
      <4>1. j \in 1 .. Len(t) /\ g[i] = k[j] /\ u[i] = t[j]
        BY <1>u, <3>2
      <4>2. g[i - 1] = k[j - 1]
        BY <1>3, <1>u, <3>2 DEF IsChain
      <4>3. k[j] = op[<<k[j - 1], t[j]>>]
        <5> HIDE DEF j
        <5> QED BY <1>3, <4>1 DEF IsChain
      <4> HIDE DEF g, u
      <4> QED BY <4>1, <4>2, <4>3
    <3> QED BY <1>u, <3>1, <3>2
  <2> HIDE DEF g, u
  <2> QED BY <2>1, <2>2 DEF IsChain
<1>7. g[Len(u)] = k[Len(t)]
  <2>1. CASE Len(t) = 0
    BY <1>3, <1>u, <2>1 DEF IsChain
  <2>2. CASE Len(t) # 0
    <3>1. Len(u) \in 0 .. Len(u) /\ ~(Len(u) <= Len(s)) /\ Len(u) - Len(s) = Len(t)
      BY <1>u, <2>2
    <3> HIDE DEF u
    <3> QED BY <3>1
  <2> QED BY <2>1, <2>2
<1>8. Fold(M, op, b, u) = g[Len(u)]
  <2>1. u \in Seq(X)
    OBVIOUS
  <2> HIDE DEF g, u
  <2> QED BY <2>1, <1>6, FoldIsLast
<1> QED BY <1>2, <1>4, <1>7, <1>8

LEMMA FoldOne ==
  ASSUME NEW X, NEW x \in X, NEW M, NEW b \in M, NEW op \in StepFunctions(M, X)
  PROVE  Fold(M, op, b, <<x>>) = op[<<b, x>>]
<1>1. <<x>> \in Seq(X) /\ Len(<<x>>) = 1
  OBVIOUS
<1> DEFINE h == [i \in 0 .. 1 |-> IF i = 0 THEN b ELSE op[<<b, x>>]]
<1>2. IsChain(h, op, b, <<x>>)
  BY DEF IsChain
<1>3. h[1] = op[<<b, x>>]
  OBVIOUS
<1> HIDE DEF h
<1> QED BY <1>1, <1>2, <1>3, FoldIsLast

(* An iteration over sets of indices, as FoldLeft is defined, is Fold.     *)
FollowsIndices(it, M, op, b, s) ==
  /\ it[{}] = b
  /\ \A T \in (SUBSET DOMAIN s) \ {{}} :
       it[T \ {Max(T)}] \in M => it[T] = op[<<it[T \ {Max(T)}], s[Max(T)]>>]

LEMMA IterationIsFold ==
  ASSUME NEW X, NEW s \in Seq(X), NEW M, NEW b \in M, NEW op \in StepFunctions(M, X),
         NEW it, FollowsIndices(it, M, op, b, s)
  PROVE  it[DOMAIN s] = Fold(M, op, b, s)
<1> DEFINE h == [i \in 0 .. Len(s) |-> it[1 .. i]]
           S == {i \in 0 .. Len(s) : h[i] \in M /\ (i > 0 => h[i] = op[<<h[i - 1], s[i]>>])}
<1>0. Len(s) \in Nat /\ DOMAIN s = 1 .. Len(s)
  OBVIOUS
<1>1. 0 \in S
  <2>1. 1 .. 0 = {}
    OBVIOUS
  <2> QED BY <1>0, <2>1 DEF FollowsIndices
<1>2. ASSUME NEW i \in 0 .. Len(s) - 1, i \in S PROVE i + 1 \in S
  <2>1. 1 .. (i + 1) \in (SUBSET DOMAIN s) \ {{}} /\ Max(1 .. (i + 1)) = i + 1
    BY <1>0, MaxOfInterval
  <2>2. (1 .. (i + 1)) \ {i + 1} = 1 .. i
    BY <1>0
  <2>3. h[i] = it[1 .. i] /\ h[i + 1] = it[1 .. (i + 1)]
    BY <1>0
  <2>4. h[i] \in M /\ s[i + 1] \in X
    BY <1>0, <1>2
  <2> HIDE DEF h
  <2>5. h[i + 1] = op[<<h[i], s[i + 1]>>]
    BY <2>1, <2>2, <2>3, <2>4 DEF FollowsIndices
  <2>6. h[i + 1] \in M
    BY <2>4, <2>5 DEF StepFunctions
  <2>7. i + 1 \in 0 .. Len(s) /\ (i + 1) - 1 = i
    BY <1>0
  <2> QED BY <2>5, <2>6, <2>7
<1>3. 0 .. Len(s) \subseteq S
  <2> HIDE DEF S
  <2> QED BY <1>0, <1>1, <1>2, UpToInduction
<1>4. IsChain(h, op, b, s)
  <2>1. h[0] = b
    <3>1. 1 .. 0 = {}
      OBVIOUS
    <3> QED BY <1>0, <3>1 DEF FollowsIndices
  <2>2. \A i \in 1 .. Len(s) : h[i] = op[<<h[i - 1], s[i]>>]
    <3> TAKE i \in 1 .. Len(s)
    <3>1. i \in S /\ i > 0
      BY <1>0, <1>3
    <3> HIDE DEF h
    <3> QED BY <3>1
  <2> QED BY <2>1, <2>2 DEF IsChain
<1>5. h[Len(s)] = it[DOMAIN s]
  BY <1>0
<1> HIDE DEF h
<1> QED BY <1>4, <1>5, FoldIsLast

----------------------------------------------------------------------------
(* Folds over sets whose elements may be taken in any order.               *)
Commutes(op, M, S) ==
  \A m \in M : \A x, y \in S : op[<<op[<<m, x>>], y>>] = op[<<op[<<m, y>>], x>>]

(* The values of a fold on the subsets of S, each reached from any subset  *)
(* with one element less.                                                  *)
Unordered(g, op, b, S) ==
  /\ g[{}] = b
  /\ \A T \in SUBSET S : \A x \in T : g[T] = op[<<g[T \ {x}], x>>]

SomeChooser(S) == [T \in (SUBSET S) \ {{}} |-> CHOOSE x \in T : TRUE]

LEMMA SomeChooserIsOne ==
  ASSUME NEW S
  PROVE  SomeChooser(S) \in Choosers(S)
<1>1. \A T \in (SUBSET S) \ {{}} : (CHOOSE x \in T : TRUE) \in T
  OBVIOUS
<1> QED BY <1>1 DEF SomeChooser, Choosers

LEMMA AnyOrder ==
  ASSUME NEW S, IsFiniteSet(S), NEW M, NEW b \in M, NEW op \in StepFunctions(M, S),
         Commutes(op, M, S), NEW c \in Choosers(S), NEW g \in SubsetFunctions(M, S),
         IsIteration(g, op, b, S, c)
  PROVE  Unordered(g, op, b, S)
<1> DEFINE C == {T \in SUBSET S : \A x \in T : g[T] = op[<<g[T \ {x}], x>>]}
<1>1. ASSUME NEW T \in SUBSET S, \A x \in T : T \ {x} \in C PROVE T \in C
  <2> SUFFICES ASSUME NEW x \in T PROVE g[T] = op[<<g[T \ {x}], x>>]
    OBVIOUS
  <2> DEFINE e == c[T]
  <2>1. e \in T /\ g[T] = op[<<g[T \ {e}], e>>]
    BY DEF Choosers, IsIteration
  <2> HIDE DEF e
  <2>2. CASE e = x
    BY <2>1, <2>2
  <2>3. CASE e # x
    <3> DEFINE R == (T \ {e}) \ {x}
    <3>1. T \ {e} \in C /\ T \ {x} \in C /\ R = (T \ {x}) \ {e}
      BY <1>1, <2>1
    <3>2. x \in T \ {e} /\ e \in T \ {x}
      BY <2>1, <2>3
    <3>3. g[T \ {e}] = op[<<g[R], x>>] /\ g[T \ {x}] = op[<<g[R], e>>]
      <4>1. \A x1 \in T \ {e} : g[T \ {e}] = op[<<g[(T \ {e}) \ {x1}], x1>>]
        BY <3>1
      <4>2. \A x1 \in T \ {x} : g[T \ {x}] = op[<<g[(T \ {x}) \ {x1}], x1>>]
        BY <3>1
      <4>3. g[T \ {x}] = op[<<g[(T \ {x}) \ {e}], e>>]
        BY <3>2, <4>2
      <4> QED BY <3>1, <3>2, <4>1, <4>3
    <3>4. g[R] \in M
      BY DEF SubsetFunctions
    <3>5. op[<<op[<<g[R], x>>], e>>] = op[<<op[<<g[R], e>>], x>>]
      BY <2>1, <3>4 DEF Commutes
    <3> QED BY <2>1, <3>3, <3>5
  <2> QED BY <2>2, <2>3
<1>2. SUBSET S \subseteq C
  <2>1. \A T \in SUBSET S : (\A x \in T : T \ {x} \in C) => T \in C
    BY <1>1
  <2> HIDE DEF C
  <2> QED BY <2>1, SubsetInduction
<1> QED BY <1>2 DEF Unordered, IsIteration

LEMMA UnorderedExists ==
  ASSUME NEW S, IsFiniteSet(S), NEW M, NEW b \in M, NEW op \in StepFunctions(M, S),
         Commutes(op, M, S)
  PROVE  \E g \in SubsetFunctions(M, S) : Unordered(g, op, b, S)
<1>1. SomeChooser(S) \in Choosers(S)
  BY SomeChooserIsOne
<1>2. PICK g \in SubsetFunctions(M, S) : IsIteration(g, op, b, S, SomeChooser(S))
  BY <1>1, IterationExists
<1> QED BY <1>1, <1>2, AnyOrder

(* An iteration that removes the element CHOOSE picks, as FoldSet is       *)
(* defined, reaches the same value.                                        *)
FollowsChoice(it, M, op, b, S) ==
  /\ it[{}] = b
  /\ \A T \in (SUBSET S) \ {{}} :
       LET e == CHOOSE x \in T : TRUE
       IN  it[T \ {e}] \in M => it[T] = op[<<it[T \ {e}], e>>]

LEMMA IterationIsUnordered ==
  ASSUME NEW F, IsFiniteSet(F), NEW S \in SUBSET F, NEW M, NEW b, NEW op,
         NEW g \in SubsetFunctions(M, F), Unordered(g, op, b, F),
         NEW it, FollowsChoice(it, M, op, b, S)
  PROVE  it[S] = g[S]
<1> DEFINE C == {T \in SUBSET S : it[T] = g[T]}
<1>1. ASSUME NEW T \in SUBSET S, \A x \in T : T \ {x} \in C PROVE T \in C
  <2>1. CASE T = {}
    BY <2>1 DEF Unordered, FollowsChoice
  <2>2. CASE T # {}
    <3> DEFINE e == CHOOSE x \in T : TRUE
    <3>1. e \in T
      BY <2>2
    <3>2. it[T \ {e}] \in M => it[T] = op[<<it[T \ {e}], e>>]
      BY <2>2 DEF FollowsChoice
    <3> HIDE DEF e
    <3>3. it[T \ {e}] = g[T \ {e}] /\ g[T \ {e}] \in M
      BY <1>1, <3>1 DEF SubsetFunctions
    <3>4. T \in SUBSET F
      OBVIOUS
    <3>5. g[T] = op[<<g[T \ {e}], e>>]
      BY <3>1, <3>4 DEF Unordered
    <3> QED BY <3>2, <3>3, <3>5
  <2> QED BY <2>1, <2>2
<1>2. SUBSET S \subseteq C
  <2>1. \A T \in SUBSET S : (\A x \in T : T \ {x} \in C) => T \in C
    BY <1>1
  <2>2. IsFiniteSet(S)
    BY FS_Subset
  <2> HIDE DEF C
  <2> QED BY <2>1, <2>2, SubsetInduction
<1> QED BY <1>2

(* Values that start alike and step alike are alike.                       *)
LEMMA UnorderedUnique ==
  ASSUME NEW S, IsFiniteSet(S), NEW op, NEW b, NEW g, NEW h,
         Unordered(g, op, b, S), Unordered(h, op, b, S)
  PROVE  \A T \in SUBSET S : g[T] = h[T]
<1> DEFINE C == {T \in SUBSET S : g[T] = h[T]}
<1>1. ASSUME NEW T \in SUBSET S, \A x \in T : T \ {x} \in C PROVE T \in C
  <2>1. CASE T = {}
    BY <2>1 DEF Unordered
  <2>2. CASE T # {}
    <3>1. PICK x \in T : TRUE
      BY <2>2
    <3>2. g[T \ {x}] = h[T \ {x}]
      BY <1>1, <3>1
    <3> QED BY <3>1, <3>2 DEF Unordered
  <2> QED BY <2>1, <2>2
<1>2. SUBSET S \subseteq C
  <2> HIDE DEF C
  <2> QED BY <1>1, SubsetInduction
<1> QED BY <1>2

(* Starting with the element x is ending with it.                          *)
LEMMA UnorderedFirst ==
  ASSUME NEW S, IsFiniteSet(S), NEW M, NEW b \in M, NEW op \in StepFunctions(M, S),
         Commutes(op, M, S), NEW x \in S,
         NEW g \in SubsetFunctions(M, S), NEW h,
         Unordered(g, op, b, S), Unordered(h, op, op[<<b, x>>], S)
  PROVE  \A T \in SUBSET S : x \in T => h[T \ {x}] = g[T]
<1> DEFINE R == S \ {x}
           C == {T \in SUBSET R : h[T] = op[<<g[T], x>>]}
<1>1. ASSUME NEW T \in SUBSET R, \A y \in T : T \ {y} \in C PROVE T \in C
  <2>1. CASE T = {}
    BY <2>1 DEF Unordered
  <2>2. CASE T # {}
    <3>1. PICK y \in T : TRUE
      BY <2>2
    <3>2. h[T \ {y}] = op[<<g[T \ {y}], x>>]
      BY <1>1, <3>1
    <3>3. h[T] = op[<<h[T \ {y}], y>>] /\ g[T] = op[<<g[T \ {y}], y>>]
      BY <3>1 DEF Unordered
    <3>4. g[T \ {y}] \in M
      BY DEF SubsetFunctions
    <3>5. op[<<op[<<g[T \ {y}], x>>], y>>] = op[<<op[<<g[T \ {y}], y>>], x>>]
      BY <3>1, <3>4 DEF Commutes
    <3> QED BY <3>2, <3>3, <3>5
  <2> QED BY <2>1, <2>2
<1>2. IsFiniteSet(R)
  BY FS_Subset
<1>3. SUBSET R \subseteq C
  <2> HIDE DEF C, R
  <2> QED BY <1>1, <1>2, SubsetInduction
<1>4. ASSUME NEW T \in SUBSET S, x \in T PROVE h[T \ {x}] = g[T]
  <2>1. T \ {x} \in SUBSET R
    OBVIOUS
  <2>2. h[T \ {x}] = op[<<g[T \ {x}], x>>]
    BY <1>3, <2>1
  <2>3. g[T] = op[<<g[T \ {x}], x>>]
    BY <1>4 DEF Unordered
  <2> QED BY <2>2, <2>3
<1> QED BY <1>4

(* A sequence folded in its order is its indices taken in any.             *)
LEMMA FoldIsUnordered ==
  ASSUME NEW X, NEW s \in Seq(X), NEW M, NEW b \in M, NEW op \in StepFunctions(M, X),
         NEW f \in StepFunctions(M, DOMAIN s), Commutes(f, M, DOMAIN s),
         \A m \in M : \A i \in DOMAIN s : f[<<m, i>>] = op[<<m, s[i]>>],
         NEW g, Unordered(g, f, b, DOMAIN s)
  PROVE  g[DOMAIN s] = Fold(M, op, b, s)
<1>1. PICK k \in SubsetFunctions(M, DOMAIN s) : ByGreatest(k, op, b, s)
  BY ChainExists
<1> DEFINE c == [T \in (SUBSET DOMAIN s) \ {{}} |-> Max(T)]
<1>2. DOMAIN s = 1 .. Len(s) /\ Len(s) \in Nat /\ IsFiniteSet(DOMAIN s)
  BY FS_Interval
<1>3. c \in Choosers(DOMAIN s)
  BY <1>2, MaxOfIndices DEF Choosers
<1>4. IsIteration(k, f, b, DOMAIN s, c)
  <2>1. ASSUME NEW T \in (SUBSET DOMAIN s) \ {{}}
        PROVE  k[T] = f[<<k[T \ {c[T]}], c[T]>>]
    <3>1. c[T] = Max(T) /\ c[T] \in DOMAIN s
      BY <1>3 DEF Choosers
    <3>2. k[T \ {c[T]}] \in M
      BY <1>1 DEF SubsetFunctions
    <3> QED BY <1>1, <3>1, <3>2 DEF ByGreatest
  <2> QED BY <1>1, <2>1 DEF IsIteration, ByGreatest
<1>5. Unordered(k, f, b, DOMAIN s)
  <2> HIDE DEF c
  <2> QED BY <1>1, <1>2, <1>3, <1>4, AnyOrder
<1>6. g[DOMAIN s] = k[DOMAIN s]
  BY <1>2, <1>5, UnorderedUnique
<1>7. k[DOMAIN s] = Fold(M, op, b, s)
  BY <1>1, IterationIsFold DEF ByGreatest, FollowsIndices
<1> QED BY <1>6, <1>7

(* Folds over sequences of equal effect.                                   *)
LEMMA FoldAlike ==
  ASSUME NEW X, NEW Y, NEW s \in Seq(X), NEW t \in Seq(Y), Len(s) = Len(t),
         NEW M, NEW b \in M, NEW op \in StepFunctions(M, X), NEW f \in StepFunctions(M, Y),
         \A m \in M : \A i \in 1 .. Len(s) : op[<<m, s[i]>>] = f[<<m, t[i]>>]
  PROVE  Fold(M, op, b, s) = Fold(M, f, b, t)
<1>1. PICK h \in [0 .. Len(s) -> M] : IsChain(h, op, b, s)
  BY ChainExists
<1>2. IsChain(h, f, b, t)
  <2>1. ASSUME NEW i \in 1 .. Len(t) PROVE h[i] = f[<<h[i - 1], t[i]>>]
    <3>1. i \in 1 .. Len(s) /\ i - 1 \in 0 .. Len(s)
      OBVIOUS
    <3>2. h[i] = op[<<h[i - 1], s[i]>>] /\ h[i - 1] \in M
      BY <1>1, <3>1 DEF IsChain
    <3> QED BY <3>1, <3>2
  <2> QED BY <1>1, <2>1 DEF IsChain
<1>3. Fold(M, op, b, s) = h[Len(s)]
  BY <1>1, FoldIsLast
<1>4. Fold(M, f, b, t) = h[Len(t)]
  BY <1>2, FoldIsLast
<1> QED BY <1>3, <1>4

LEMMA FoldHead ==
  ASSUME NEW X, NEW s \in Seq(X), s # <<>>,
         NEW M, NEW b \in M, NEW op \in StepFunctions(M, X)
  PROVE  Fold(M, op, b, s) = Fold(M, op, op[<<b, Head(s)>>], Tail(s))
<1>1. s = <<Head(s)>> \o Tail(s) /\ Head(s) \in X /\ Tail(s) \in Seq(X)
      /\ <<Head(s)>> \in Seq(X)
  OBVIOUS
<1>2. Fold(M, op, b, <<Head(s)>>) = op[<<b, Head(s)>>]
  BY <1>1, FoldOne
<1> DEFINE u == <<Head(s)>>
           v == Tail(s)
<1>3. u \in Seq(X) /\ v \in Seq(X) /\ s = u \o v
  BY <1>1
<1>4. Fold(M, op, b, u) = op[<<b, Head(s)>>]
  BY <1>2
<1>5. Fold(M, op, b, u \o v) = Fold(M, op, Fold(M, op, b, u), v)
  <2> HIDE DEF u, v
  <2> QED BY <1>3, FoldConcat
<1> QED BY <1>3, <1>4, <1>5

----------------------------------------------------------------------------
(* Flattening appends one sequence after the other.                        *)
Appends(flat, seqs) ==
  /\ flat[1] = seqs[1]
  /\ \A i \in 2 .. Len(seqs) : flat[i] = flat[i - 1] \o seqs[i]

LEMMA ElementOf ==
  ASSUME NEW Y, NEW seqs \in Seq(Y)
  PROVE  \A i \in 1 .. Len(seqs) : seqs[i] \in Y
OBVIOUS

LEMMA FlattenAppends ==
  ASSUME NEW X, NEW seqs \in Seq(Seq(X)), Len(seqs) # 0
  PROVE  \E flat : Appends(flat, seqs) /\ FlattenSeq(seqs) = flat[Len(seqs)]
<1> DEFINE n == Len(seqs)
           Joined(g) == [i \in 1 .. n |-> IF i = 1 THEN seqs[i] ELSE g[i - 1] \o seqs[i]]
           op == [p \in Seq(X) \X Seq(X) |-> p[1] \o p[2]]
<1>0. n \in Nat \ {0} /\ \A i \in 1 .. n : i - 1 \in 0 .. n /\ (i # 1 => i - 1 \in 1 .. n)
  OBVIOUS
<1>t. \A i \in 1 .. n : seqs[i] \in Seq(X)
  BY ElementOf
<1>1. op \in StepFunctions(Seq(X), Seq(X)) /\ <<>> \in Seq(X)
  BY DEF StepFunctions
<1>2. PICK h \in [0 .. n -> Seq(X)] : IsChain(h, op, <<>>, seqs)
  <2> HIDE DEF op
  <2> QED BY <1>1, ChainExists
<1>3. ASSUME NEW i \in 1 .. n PROVE h[i] = h[i - 1] \o seqs[i]
  <2>1. h[i] = op[<<h[i - 1], seqs[i]>>]
    BY <1>2 DEF IsChain
  <2>2. h[i - 1] \in Seq(X) /\ seqs[i] \in Seq(X)
    <3> HIDE DEF op, n
    <3> QED BY <1>0, <1>t, <1>2
  <2> QED BY <2>1, <2>2
<1> HIDE DEF op
<1> DEFINE g == [i \in 1 .. n |-> h[i]]
<1>4. g = Joined(g)
  <2>1. ASSUME NEW i \in 1 .. n PROVE g[i] = IF i = 1 THEN seqs[i] ELSE g[i - 1] \o seqs[i]
    <3>1. CASE i = 1
      <4>1. h[0] = <<>> /\ seqs[1] \in Seq(X)
        BY <1>0, <1>t, <1>2 DEF IsChain
      <4>2. 1 \in 1 .. n /\ 1 - 1 = 0
        BY <1>0
      <4>2a. h[1] = h[0] \o seqs[1]
        BY <1>3, <4>2
      <4>3. <<>> \o seqs[1] = seqs[1]
        BY <4>1
      <4> QED BY <3>1, <4>1, <4>2a, <4>3
    <3>2. CASE i # 1
      <4>1. i - 1 \in 1 .. n /\ h[i] = h[i - 1] \o seqs[i]
        BY <1>0, <1>3, <3>2
      <4> QED BY <3>2, <4>1
    <3> QED BY <3>1, <3>2
  <2> QED BY <2>1
<1> DEFINE flat == CHOOSE f : f = Joined(f)
<1>5. flat = Joined(flat)
  <2> HIDE DEF g, Joined
  <2> QED BY <1>4
<1>6. FlattenSeq(seqs) = flat[n]
  BY <1>0 DEF FlattenSeq
<1> HIDE DEF flat
<1>7. \A i \in 1 .. n : flat[i] = IF i = 1 THEN seqs[i] ELSE flat[i - 1] \o seqs[i]
  BY <1>5
<1>8. Appends(flat, seqs)
  <2>1. flat[1] = seqs[1]
    BY <1>0, <1>7
  <2>2. \A i \in 2 .. n : flat[i] = flat[i - 1] \o seqs[i]
    <3> TAKE i \in 2 .. n
    <3>1. i \in 1 .. n /\ i # 1
      BY <1>0
    <3> QED BY <1>7, <3>1
  <2> QED BY <2>1, <2>2 DEF Appends
<1> QED BY <1>6, <1>8
=============================================================================
