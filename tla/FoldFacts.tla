------------------------------ MODULE FoldFacts ------------------------------
(***************************************************************************)
(* Facts about the folds of the models, FlattenSeq and SumFunctionOnSet,   *)
(* and the inductions behind them.  An induction is stated for the SET of  *)
(* the values that have a property: it then follows from facts about well- *)
(* founded orders without a parameter, and a prover can instantiate it.    *)
(***************************************************************************)
EXTENDS SequencesExt, Integers, FiniteSetTheorems, SequenceTheorems, TLAPS

\* A set of finite sets has a minimal element.
LEMMA MinimalSet ==
  ASSUME NEW S, NEW F, F # {}, F \subseteq FiniteSubsetsOf(S)
  PROVE  \E T \in F : \A U \in F : U \subseteq T => U = T
<1>1. IsWellFoundedOn(StrictSubsetOrdering(S), FiniteSubsetsOf(S))
  BY FS_StrictSubsetOrderingWellFounded
<1>2. PICK T \in F : \A U \in F : <<U, T>> \notin StrictSubsetOrdering(S)
  BY <1>1, WFMin
<1>3. \A U \in F : U \in SUBSET S
  BY DEF FiniteSubsetsOf
<1> QED
  BY <1>2, <1>3 DEF StrictSubsetOrdering

\* Induction over the natural numbers.
LEMMA NaturalSetInduction ==
  ASSUME NEW P, 0 \in P, \A n \in Nat : n \in P => n + 1 \in P
  PROVE  Nat \subseteq P
<1> SUFFICES ASSUME Nat \ P # {} PROVE FALSE
  OBVIOUS
<1> DEFINE F == {1..n : n \in Nat \ P}
<1>1. F # {} /\ F \subseteq FiniteSubsetsOf(Nat)
  <2>1. \A n \in Nat : IsFiniteSet(1..n) /\ 1..n \in SUBSET Nat
    BY FS_Interval
  <2> QED
    BY <2>1, Zenon DEF FiniteSubsetsOf
<1>2. PICK T \in F : \A U \in F : U \subseteq T => U = T
  <2> HIDE DEF F
  <2> QED
    BY <1>1, MinimalSet
<1>3. PICK m \in Nat \ P : T = 1..m
  BY <1>2
<1>4. m # 0 /\ m - 1 \in Nat \ P
  BY <1>3
<1>5. 1..(m - 1) \in F
  BY <1>4
<1>6. 1..(m - 1) \subseteq 1..m /\ m \in 1..m /\ m \notin 1..(m - 1)
  BY <1>4
<1> QED
  BY <1>2, <1>3, <1>5, <1>6

\* Induction over the elements of a finite set.
LEMMA FiniteSetInduction ==
  ASSUME NEW S, IsFiniteSet(S),
         NEW P, {} \in P, \A T \in SUBSET S : \A x \in S \ T : T \in P => T \cup {x} \in P
  PROVE  S \in P
<1> SUFFICES ASSUME S \notin P PROVE FALSE
  OBVIOUS
<1> DEFINE F == {T \in SUBSET S : T \notin P}
<1>1. F # {} /\ F \subseteq FiniteSubsetsOf(S)
  BY FS_Subset DEF FiniteSubsetsOf
<1>2. PICK T \in F : \A U \in F : U \subseteq T => U = T
  <2> HIDE DEF F
  <2> QED
    BY <1>1, MinimalSet
<1>3. PICK x : x \in T
  BY <1>2
<1>4. T \ {x} \notin F
  BY <1>2, <1>3
<1>5. T \ {x} \in SUBSET S /\ x \in S \ (T \ {x}) /\ (T \ {x}) \cup {x} = T
  BY <1>2, <1>3
<1>6. T \in P
  BY <1>4, <1>5
<1> QED
  BY <1>2, <1>6

\* Induction over the sequences, which grow at their end.
LEMMA SequenceInduction ==
  ASSUME NEW S, NEW P, <<>> \in P,
         \A s \in Seq(S), x \in S : s \in P => Append(s, x) \in P
  PROVE  Seq(S) \subseteq P
<1> DEFINE N == {n \in Nat : \A s \in Seq(S) : Len(s) = n => s \in P}
<1>1. 0 \in N
  BY EmptySeq
<1>2. ASSUME NEW n \in Nat, n \in N PROVE n + 1 \in N
  <2> SUFFICES ASSUME NEW s \in Seq(S), Len(s) = n + 1 PROVE s \in P
    OBVIOUS
  <2>1. s # <<>>
    OBVIOUS
  <2>2. PICK t \in Seq(S), x \in S : s = Append(t, x)
    BY <2>1, SequenceEmptyOrAppend
  <2>3. Len(t) = n
    BY <2>2, AppendProperties
  <2> QED
    BY <1>2, <2>2, <2>3
<1>3. Nat \subseteq N
  <2> HIDE DEF N
  <2> QED
    BY <1>1, <1>2, NaturalSetInduction
<1> QED
  BY <1>3, LenProperties
-----------------------------------------------------------------------------
\* What FlattenSeq builds from the first n of a sequence of sequences.
Flattens(f, ss, n) == f = [i \in 1..n |-> IF i = 1 THEN ss[i] ELSE f[i - 1] \o ss[i]]

\* Its values.
LEMMA FlattensAt ==
  ASSUME NEW ss, NEW n \in Nat, NEW f, Flattens(f, ss, n), NEW i \in 1..n
  PROVE  f[i] = IF i = 1 THEN ss[i] ELSE f[i - 1] \o ss[i]
BY DEF Flattens

\* There is such a function ..
LEMMA FlattenExists ==
  ASSUME NEW ss, NEW n \in Nat
  PROVE  \E f : Flattens(f, ss, n)
<1> DEFINE P == {k \in Nat : \E f : Flattens(f, ss, k)}
<1>1. 0 \in P
  <2> DEFINE f == [i \in 1..0 |-> ss[i]]
  <2>1. f = [i \in 1..0 |-> IF i = 1 THEN ss[i] ELSE f[i - 1] \o ss[i]]
    OBVIOUS
  <2> QED
    BY <2>1 DEF Flattens
<1>2. ASSUME NEW k \in Nat, k \in P PROVE k + 1 \in P
  <2>1. PICK f : Flattens(f, ss, k)
    BY <1>2
  <2> DEFINE last == IF k = 0 THEN ss[1] ELSE f[k] \o ss[k + 1]
             g == [i \in 1..k + 1 |-> IF i = k + 1 THEN last ELSE f[i]]
  <2>2. ASSUME NEW i \in 1..k + 1
        PROVE  g[i] = IF i = 1 THEN ss[i] ELSE g[i - 1] \o ss[i]
    <3>1. CASE i = k + 1
      BY <3>1
    <3>2. CASE i # k + 1
      <4>1. i \in 1..k /\ (i # 1 => i - 1 \in 1..k)
        BY <3>2
      <4>2. f[i] = IF i = 1 THEN ss[i] ELSE f[i - 1] \o ss[i]
        BY <2>1, <4>1 DEF Flattens
      <4> QED
        BY <3>2, <4>1, <4>2
    <3> QED
      BY <3>1, <3>2
  <2>3. Flattens(g, ss, k + 1)
    <3> DEFINE h == [i \in 1..k + 1 |-> IF i = 1 THEN ss[i] ELSE g[i - 1] \o ss[i]]
    <3>1. g = h
      BY <2>2
    <3> QED
      BY <3>1 DEF Flattens
  <2> QED
    BY <2>3
<1>3. Nat \subseteq P
  <2> HIDE DEF P
  <2> QED
    BY <1>1, <1>2, NaturalSetInduction
<1> QED
  BY <1>3

\* .. and it depends on those n only.
LEMMA FlattenAgrees ==
  ASSUME NEW ss, NEW tt, NEW m \in Nat, NEW n \in Nat, m <= n,
         \A i \in 1..m : ss[i] = tt[i],
         NEW f, Flattens(f, ss, m), NEW g, Flattens(g, tt, n)
  PROVE  \A i \in 1..m : f[i] = g[i]
<1> DEFINE P == {k \in Nat : k \in 1..m => f[k] = g[k]}
<1>1. 0 \in P
  OBVIOUS
<1>2. ASSUME NEW k \in Nat, k \in P PROVE k + 1 \in P
  <2> SUFFICES ASSUME k + 1 \in 1..m PROVE f[k + 1] = g[k + 1]
    OBVIOUS
  <2>1. k + 1 \in 1..n /\ k + 1 - 1 = k /\ (k + 1 # 1 => k \in 1..m)
    OBVIOUS
  <2>2. f[k + 1] = IF k + 1 = 1 THEN ss[k + 1] ELSE f[k + 1 - 1] \o ss[k + 1]
    BY FlattensAt
  <2>3. g[k + 1] = IF k + 1 = 1 THEN tt[k + 1] ELSE g[k + 1 - 1] \o tt[k + 1]
    BY <2>1, FlattensAt
  <2>4. k + 1 # 1 => f[k] = g[k]
    BY <1>2, <2>1
  <2> QED
    BY <2>1, <2>2, <2>3, <2>4
<1>3. Nat \subseteq P
  <2> HIDE DEF P
  <2> QED
    BY <1>1, <1>2, NaturalSetInduction
<1> QED
  BY <1>3

\* FlattenSeq is what that function ends with.
LEMMA FlattenedBy ==
  ASSUME NEW T, NEW ss \in Seq(T), Len(ss) # 0, NEW f, Flattens(f, ss, Len(ss))
  PROVE  FlattenSeq(ss) = f[Len(ss)]
<1> DEFINE g == CHOOSE h : Flattens(h, ss, Len(ss))
<1>1. Flattens(g, ss, Len(ss))
  BY Zenon
<1>2. FlattenSeq(ss) = g[Len(ss)]
  BY Zenon DEF FlattenSeq, Flattens
<1>3. Len(ss) \in Nat /\ Len(ss) \in 1..Len(ss)
  OBVIOUS
<1> HIDE DEF g
<1>4. \A i \in 1..Len(ss) : f[i] = g[i]
  BY <1>1, <1>3, FlattenAgrees
<1> QED
  BY <1>2, <1>3, <1>4

\* No sequences are flattened to none ..
LEMMA FlattenEmpty == FlattenSeq(<<>>) = <<>>
BY DEF FlattenSeq

\* .. and one more is put at the end of the others.
LEMMA FlattenAppend ==
  ASSUME NEW S, NEW ss \in Seq(Seq(S)), NEW s \in Seq(S)
  PROVE  FlattenSeq(Append(ss, s)) = FlattenSeq(ss) \o s
<1> DEFINE n == Len(ss)
           tt == Append(ss, s)
<1>1. /\ n \in Nat /\ n + 1 \in Nat /\ tt \in Seq(Seq(S)) /\ Len(tt) = n + 1
      /\ tt[n + 1] = s /\ \A i \in 1..n : ss[i] = tt[i]
  OBVIOUS
<1> HIDE DEF n, tt
<1>2. PICK f : Flattens(f, ss, n)
  BY <1>1, FlattenExists
<1>3. PICK g : Flattens(g, tt, n + 1)
  BY <1>1, FlattenExists
<1>4. FlattenSeq(tt) = g[n + 1]
  BY <1>1, <1>3, FlattenedBy
<1>5. n + 1 \in 1..(n + 1) /\ n + 1 - 1 = n
  BY <1>1
<1>6. g[n + 1] = IF n + 1 = 1 THEN tt[n + 1] ELSE g[n] \o tt[n + 1]
  <2>1. g[n + 1] = IF n + 1 = 1 THEN tt[n + 1] ELSE g[n + 1 - 1] \o tt[n + 1]
    BY <1>1, <1>3, <1>5, FlattensAt
  <2> QED
    BY <1>5, <2>1
<1>7. CASE n = 0
  <2>1. ss = <<>>
    BY <1>7 DEF n
  <2> QED
    BY <1>1, <1>4, <1>6, <1>7, <2>1, FlattenEmpty DEF tt
<1>8. CASE n # 0
  <2>1. FlattenSeq(ss) = f[n]
    BY <1>2, <1>8, FlattenedBy DEF n
  <2>2. n \in 1..n
    BY <1>1, <1>8
  <2>3. f[n] = g[n]
    <3> DEFINE k == n + 1
    <3>1. k \in Nat /\ n \in Nat /\ n <= k /\ Flattens(g, tt, k)
      BY <1>1, <1>3
    <3>2. \A i \in 1..n : ss[i] = tt[i]
      BY <1>1
    <3> HIDE DEF k
    <3>3. \A i \in 1..n : f[i] = g[i]
      BY <1>2, <3>1, <3>2, FlattenAgrees
    <3> QED
      BY <2>2, <3>3
  <2> QED
    BY <1>1, <1>4, <1>6, <1>8, <2>1, <2>3 DEF tt
<1> QED
  BY <1>7, <1>8

\* What is flattened is a sequence of what the sequences were of.
LEMMA FlattenType ==
  ASSUME NEW S, NEW ss \in Seq(Seq(S))
  PROVE  FlattenSeq(ss) \in Seq(S)
<1> DEFINE P == {tt \in Seq(Seq(S)) : FlattenSeq(tt) \in Seq(S)}
<1>1. <<>> \in P
  <2>1. <<>> \in Seq(Seq(S)) /\ <<>> \in Seq(S)
    OBVIOUS
  <2> QED
    BY <2>1, FlattenEmpty
<1>2. ASSUME NEW tt \in Seq(Seq(S)), NEW s \in Seq(S), tt \in P
      PROVE  Append(tt, s) \in P
  <2>1. FlattenSeq(Append(tt, s)) = FlattenSeq(tt) \o s
    BY FlattenAppend
  <2>2. Append(tt, s) \in Seq(Seq(S)) /\ FlattenSeq(tt) \o s \in Seq(S)
    BY <1>2
  <2> QED
    BY <2>1, <2>2
<1> HIDE DEF P
<1>3. Seq(Seq(S)) \subseteq P
  BY <1>1, <1>2, SequenceInduction
<1> QED
  BY <1>3 DEF P
-----------------------------------------------------------------------------
\* What SumFunctionOnSet builds from the elements of a set, one by one.
Adds(sum, f, S) ==
  sum = [T \in SUBSET S |->
           IF T = {} THEN 0
           ELSE f[CHOOSE x \in T : TRUE] + sum[T \ {CHOOSE x \in T : TRUE}]]

\* Functions with the same values on a set.
Agree(f, g, S) == \A x \in S : f[x] = g[x]

\* Two such functions agree where both are defined ..
LEMMA AddsAgree ==
  ASSUME NEW f, NEW g, NEW A, NEW B, NEW S, IsFiniteSet(S), S \subseteq A, S \subseteq B,
         Agree(f, g, S),
         NEW a, Adds(a, f, A), NEW b, Adds(b, g, B)
  PROVE  a[S] = b[S]
<1> DEFINE F == {T \in SUBSET S : a[T] # b[T]}
<1> SUFFICES ASSUME F # {} PROVE FALSE
  OBVIOUS
<1>1. F \subseteq FiniteSubsetsOf(S)
  BY FS_Subset DEF FiniteSubsetsOf
<1>2. PICK T \in F : \A U \in F : U \subseteq T => U = T
  <2> HIDE DEF F
  <2> QED
    BY <1>1, MinimalSet
<1> DEFINE x == CHOOSE y \in T : TRUE
<1>3. a[T] = IF T = {} THEN 0 ELSE f[x] + a[T \ {x}]
  BY <1>2 DEF Adds
<1>4. b[T] = IF T = {} THEN 0 ELSE g[x] + b[T \ {x}]
  BY <1>2 DEF Adds
<1>5. T # {} => x \in T
  OBVIOUS
<1> HIDE DEF x
<1>6. T # {} => a[T \ {x}] = b[T \ {x}]
  BY <1>2, <1>5
<1> QED
  BY <1>2, <1>3, <1>4, <1>5, <1>6 DEF Agree

\* .. and there is one for every finite set.
LEMMA AddsExist ==
  ASSUME NEW f, NEW S, IsFiniteSet(S)
  PROVE  \E sum : Adds(sum, f, S)
<1> DEFINE F == {T \in SUBSET S : ~ \E sum : Adds(sum, f, T)}
<1> SUFFICES ASSUME F # {} PROVE FALSE
  OBVIOUS
<1>1. F \subseteq FiniteSubsetsOf(S)
  BY FS_Subset DEF FiniteSubsetsOf
<1>2. PICK T \in F : \A U \in F : U \subseteq T => U = T
  <2> HIDE DEF F
  <2> QED
    BY <1>1, MinimalSet
<1>3. T \in SUBSET S /\ IsFiniteSet(T)
  BY <1>1, <1>2 DEF FiniteSubsetsOf
<1> DEFINE x(U) == CHOOSE y \in U : TRUE
           of(U) == CHOOSE sum : Adds(sum, f, U)
           sum == [U \in SUBSET T |-> IF U = {} THEN 0 ELSE f[x(U)] + of(U \ {x(U)})[U \ {x(U)}]]
<1>4. ASSUME NEW U \in SUBSET T, U # T
      PROVE  Adds(of(U), f, U)
  <2>1. U \in SUBSET S /\ U \notin F
    BY <1>2, <1>4
  <2>2. \E h : Adds(h, f, U)
    BY <2>1
  <2> QED
    BY <2>2, Zenon
<1>5. ASSUME NEW U \in SUBSET T, U # {}
      PROVE  x(U) \in U /\ U \ {x(U)} \in SUBSET T /\ U \ {x(U)} # T /\ IsFiniteSet(U)
             /\ IsFiniteSet(U \ {x(U)})
  <2>1. x(U) \in U
    BY <1>5
  <2> QED
    BY <1>3, <2>1, FS_Subset, FS_RemoveElement
<1> HIDE DEF x, of
<1>6. ASSUME NEW U \in SUBSET T
      PROVE  sum[U] = IF U = {} THEN 0 ELSE f[x(U)] + sum[U \ {x(U)}]
  <2>1. CASE U = {}
    BY <2>1
  <2>2. CASE U # {}
    <3> DEFINE V == U \ {x(U)}
    <3>1. V \in SUBSET T /\ V # T /\ IsFiniteSet(V)
      BY <1>5, <2>2
    <3>2. Adds(of(V), f, V)
      BY <1>4, <3>1
    <3> HIDE DEF V
    <3>3. of(V)[V] = sum[V]
      <4>1. of(V)[V] = IF V = {} THEN 0 ELSE f[x(V)] + of(V)[V \ {x(V)}]
        BY <3>2 DEF Adds, x
      <4>2. CASE V = {}
        BY <3>1, <4>1, <4>2
      <4>3. CASE V # {}
        <5> DEFINE W == V \ {x(V)}
        <5>1. W \in SUBSET T /\ W # T /\ IsFiniteSet(W)
          BY <1>5, <3>1, <4>3
        <5>2. Adds(of(W), f, W)
          BY <1>4, <5>1
        <5>3. W \subseteq V /\ W \subseteq W
          OBVIOUS
        <5>4. Agree(f, f, W)
          BY DEF Agree
        <5> HIDE DEF W
        <5>5. of(V)[W] = of(W)[W]
          BY <3>2, <5>1, <5>2, <5>3, <5>4, AddsAgree
        <5> QED
          BY <3>1, <4>1, <4>3, <5>5 DEF W
      <4> QED
        BY <4>2, <4>3
    <3> QED
      BY <2>2, <3>3 DEF V
  <2> QED
    BY <2>1, <2>2
<1>7. Adds(sum, f, T)
  <2> DEFINE h == [U \in SUBSET T |-> IF U = {} THEN 0 ELSE f[x(U)] + sum[U \ {x(U)}]]
  <2>1. sum = h
    <3> HIDE DEF x, of
    <3> QED
      BY <1>6
  <2> HIDE DEF sum
  <2> QED
    BY <2>1 DEF Adds, x
<1> QED
  BY <1>2, <1>7

\* SumFunctionOnSet is what such a function comes to for the whole set.
LEMMA SumBy ==
  ASSUME NEW f, NEW S, IsFiniteSet(S), NEW sum, Adds(sum, f, S)
  PROVE  SumFunctionOnSet(f, S) = sum[S]
<1> DEFINE h == CHOOSE g : Adds(g, f, S)
<1>1. Adds(h, f, S)
  BY Zenon
<1>2. SumFunctionOnSet(f, S) = h[S]
  BY Zenon DEF SumFunctionOnSet, FoldFunctionOnSet, MapThenFoldSet, Adds
<1> HIDE DEF h
<1>3. S \subseteq S /\ Agree(f, f, S)
  BY DEF Agree
<1>4. h[S] = sum[S]
  BY <1>1, <1>3, AddsAgree
<1> QED
  BY <1>2, <1>4

\* Functions that agree on a set have the same sum over it.
LEMMA SumAgrees ==
  ASSUME NEW f, NEW g, NEW S, IsFiniteSet(S), Agree(f, g, S)
  PROVE  SumFunctionOnSet(f, S) = SumFunctionOnSet(g, S)
<1>1. PICK a : Adds(a, f, S)
  BY AddsExist
<1>2. PICK b : Adds(b, g, S)
  BY AddsExist
<1>3. S \subseteq S /\ Agree(f, g, S)
  BY DEF Agree
<1>4. a[S] = b[S]
  BY <1>1, <1>2, <1>3, AddsAgree
<1> QED
  BY <1>1, <1>2, <1>4, SumBy

\* The sum over nothing, and that over something by its first step.
LEMMA SumEmpty ==
  ASSUME NEW f
  PROVE  SumFunctionOnSet(f, {}) = 0
<1>1. IsFiniteSet({})
  BY FS_EmptySet
<1>2. PICK a : Adds(a, f, {})
  BY <1>1, AddsExist
<1>3. a[{}] = 0
  BY <1>2 DEF Adds
<1> QED
  BY <1>1, <1>2, <1>3, SumBy

\* A sum is what one element adds to the sum of the others.
LEMMA SumStep ==
  ASSUME NEW f, NEW S, IsFiniteSet(S), S # {}
  PROVE  \E x \in S : SumFunctionOnSet(f, S) = f[x] + SumFunctionOnSet(f, S \ {x})
<1> DEFINE x == CHOOSE y \in S : TRUE
           R == S \ {x}
<1>1. x \in S /\ IsFiniteSet(R) /\ R \subseteq S /\ R \subseteq R
  BY FS_RemoveElement
<1>2. PICK a : Adds(a, f, S)
  BY AddsExist
<1>3. a[S] = f[x] + a[R]
  BY <1>1, <1>2 DEF Adds
<1> HIDE DEF R, x
<1>4. PICK b : Adds(b, f, R)
  BY <1>1, AddsExist
<1>5. a[R] = b[R]
  <2>1. Agree(f, f, R)
    BY DEF Agree
  <2> QED
    BY <1>1, <1>2, <1>4, <2>1, AddsAgree
<1>6. SumFunctionOnSet(f, S) = a[S]
  BY <1>2, SumBy
<1>7. SumFunctionOnSet(f, R) = b[R]
  BY <1>1, <1>4, SumBy
<1> QED
  BY <1>1, <1>3, <1>5, <1>6, <1>7 DEF R

\* Sums of integers are integers.
LEMMA SumType ==
  ASSUME NEW f, NEW S, IsFiniteSet(S), \A x \in S : f[x] \in Int
  PROVE  SumFunctionOnSet(f, S) \in Int
<1> DEFINE F == {T \in SUBSET S : SumFunctionOnSet(f, T) \notin Int}
<1> SUFFICES ASSUME F # {} PROVE FALSE
  OBVIOUS
<1>1. F \subseteq FiniteSubsetsOf(S)
  BY FS_Subset DEF FiniteSubsetsOf
<1>2. PICK T \in F : \A U \in F : U \subseteq T => U = T
  <2> HIDE DEF F
  <2> QED
    BY <1>1, MinimalSet
<1>3. IsFiniteSet(T)
  BY <1>1, <1>2 DEF FiniteSubsetsOf
<1>4. T # {}
  <2> SUFFICES ASSUME T = {} PROVE FALSE
    OBVIOUS
  <2>1. SumFunctionOnSet(f, {}) \notin Int
    BY <1>2
  <2> QED
    BY <2>1, SumEmpty
<1>5. PICK x \in T : SumFunctionOnSet(f, T) = f[x] + SumFunctionOnSet(f, T \ {x})
  BY <1>3, <1>4, SumStep
<1>6. T \ {x} \notin F /\ f[x] \in Int
  BY <1>2, <1>5
<1> QED
  BY <1>2, <1>5, <1>6

\* The order in which the elements are added does not matter.
LEMMA SumRemove ==
  ASSUME NEW f, NEW S, IsFiniteSet(S), \A x \in S : f[x] \in Int, NEW y \in S
  PROVE  SumFunctionOnSet(f, S) = f[y] + SumFunctionOnSet(f, S \ {y})
<1> DEFINE sum(T) == SumFunctionOnSet(f, T)
           F == {T \in SUBSET S : \E x \in T : sum(T) # f[x] + sum(T \ {x})}
<1> SUFFICES ASSUME F # {} PROVE FALSE
  OBVIOUS
<1>1. F \subseteq FiniteSubsetsOf(S)
  BY FS_Subset DEF FiniteSubsetsOf
<1>2. PICK T \in F : \A U \in F : U \subseteq T => U = T
  <2> HIDE DEF F
  <2> QED
    BY <1>1, MinimalSet
<1>3. IsFiniteSet(T) /\ T \in SUBSET S
  BY <1>1, <1>2 DEF FiniteSubsetsOf
<1>4. PICK x \in T : sum(T) # f[x] + sum(T \ {x})
  BY <1>2
<1>5. PICK c \in T : sum(T) = f[c] + sum(T \ {c})
  BY <1>3, <1>4, SumStep
<1> HIDE DEF sum
<1>6. c # x
  BY <1>4, <1>5
<1>7. ASSUME NEW u \in T, NEW v \in T, u # v
      PROVE  sum(T \ {u}) = f[v] + sum((T \ {u}) \ {v})
  <2>1. T \ {u} \in SUBSET S /\ T \ {u} # T /\ v \in T \ {u} /\ T \ {u} \subseteq T
    BY <1>3, <1>7
  <2>2. T \ {u} \notin F
    BY <1>2, <2>1
  <2> QED
    BY <2>1, <2>2
<1>8. sum(T \ {c}) = f[x] + sum((T \ {c}) \ {x})
  BY <1>6, <1>7
<1>9. sum(T \ {x}) = f[c] + sum((T \ {c}) \ {x})
  <2>1. (T \ {c}) \ {x} = (T \ {x}) \ {c}
    OBVIOUS
  <2> QED
    BY <1>6, <1>7, <2>1
<1>10. sum((T \ {c}) \ {x}) \in Int /\ f[x] \in Int /\ f[c] \in Int
  BY <1>3, FS_Subset, SumType DEF sum
<1> QED
  BY <1>4, <1>5, <1>8, <1>9, <1>10

\* One element more.
LEMMA SumAdd ==
  ASSUME NEW f, NEW S, IsFiniteSet(S), NEW y, y \notin S, \A x \in S \cup {y} : f[x] \in Int
  PROVE  SumFunctionOnSet(f, S \cup {y}) = f[y] + SumFunctionOnSet(f, S)
<1>1. IsFiniteSet(S \cup {y}) /\ (S \cup {y}) \ {y} = S
  BY FS_AddElement
<1> QED
  BY <1>1, SumRemove

\* Bounds on the terms are bounds on the sum.
LEMMA SumBounds ==
  ASSUME NEW f, NEW S, IsFiniteSet(S), NEW lo \in Int, NEW hi \in Int,
         \A x \in S : f[x] \in Int /\ lo <= f[x] /\ f[x] <= hi
  PROVE  /\ lo * Cardinality(S) <= SumFunctionOnSet(f, S)
         /\ SumFunctionOnSet(f, S) <= hi * Cardinality(S)
<1> DEFINE sum(T) == SumFunctionOnSet(f, T)
           P == {T \in SUBSET S : lo * Cardinality(T) <= sum(T) /\ sum(T) <= hi * Cardinality(T)}
<1>1. {} \in P
  BY SumEmpty, FS_EmptySet
<1>2. ASSUME NEW T \in SUBSET S, NEW x \in S \ T, T \in P
      PROVE  T \cup {x} \in P
  <2>1. IsFiniteSet(T) /\ Cardinality(T) \in Nat
    BY FS_Subset, FS_CardinalityType
  <2>2. Cardinality(T \cup {x}) = Cardinality(T) + 1
    BY <2>1, FS_AddElement
  <2>3. sum(T \cup {x}) = f[x] + sum(T)
    BY <2>1, SumAdd
  <2>4. sum(T) \in Int
    BY <2>1, SumType
  <2>5. /\ lo * (Cardinality(T) + 1) = lo * Cardinality(T) + lo
        /\ hi * (Cardinality(T) + 1) = hi * Cardinality(T) + hi
        /\ lo * Cardinality(T) \in Int /\ hi * Cardinality(T) \in Int
    <3>1. \A a \in Int, n \in Nat : a * (n + 1) = a * n + a /\ a * n \in Int
      OBVIOUS
    <3> QED
      BY <2>1, <3>1
  <2> HIDE DEF sum
  <2>6. lo * Cardinality(T) + lo <= f[x] + sum(T) /\ f[x] + sum(T) <= hi * Cardinality(T) + hi
    BY <1>2, <2>4, <2>5
  <2> QED
    BY <2>2, <2>3, <2>5, <2>6
<1> HIDE DEF P
<1>3. S \in P
  BY <1>1, <1>2, FiniteSetInduction
<1> QED
  BY <1>3 DEF P
-----------------------------------------------------------------------------
\* The sequences that f gives the elements of s, one after the other.
FlatMap(f, s) == FlattenSeq([n \in DOMAIN s |-> f[s[n]]])

\* f gives each element of S a sequence over T.
Expands(f, S, T) == \A x \in S : f[x] \in Seq(T)

\* Nothing gives nothing ..
LEMMA FlatMapEmpty ==
  ASSUME NEW f
  PROVE  FlatMap(f, <<>>) = <<>>
<1>1. [n \in DOMAIN <<>> |-> f[<<>>[n]]] = <<>>
  OBVIOUS
<1> QED
  BY <1>1, FlattenEmpty DEF FlatMap

\* .. a sequence gives a sequence ..
LEMMA FlatMapType ==
  ASSUME NEW S, NEW T, NEW f, Expands(f, S, T), NEW s \in Seq(S)
  PROVE  /\ [n \in DOMAIN s |-> f[s[n]]] \in Seq(Seq(T))
         /\ FlatMap(f, s) \in Seq(T)
<1>1. s \in [1..Len(s) -> S] /\ DOMAIN s = 1..Len(s) /\ Len(s) \in Nat
  OBVIOUS
<1>2. [n \in DOMAIN s |-> f[s[n]]] \in [1..Len(s) -> Seq(T)]
  BY <1>1 DEF Expands
<1>3. [n \in DOMAIN s |-> f[s[n]]] \in Seq(Seq(T))
  BY <1>1, <1>2, SeqDef
<1> QED
  BY <1>3, FlattenType DEF FlatMap

\* .. and one more element gives its own at the end.
LEMMA FlatMapAppend ==
  ASSUME NEW S, NEW T, NEW f, Expands(f, S, T), NEW s \in Seq(S), NEW x \in S
  PROVE  FlatMap(f, Append(s, x)) = FlatMap(f, s) \o f[x]
<1> DEFINE ss == [n \in DOMAIN s |-> f[s[n]]]
           t == Append(s, x)
           tt == [n \in DOMAIN t |-> f[t[n]]]
<1>1. t \in Seq(S) /\ f[x] \in Seq(T)
  BY DEF Expands
<1>2. ss \in Seq(Seq(T)) /\ tt \in Seq(Seq(T))
  BY <1>1, FlatMapType
<1>3. tt = Append(ss, f[x])
  <2>1. DOMAIN t = 1..Len(s) + 1 /\ \A n \in DOMAIN t : t[n] = IF n = Len(s) + 1 THEN x ELSE s[n]
    OBVIOUS
  <2>2. Len(ss) = Len(s) /\ Len(s) \in Nat /\ \A n \in 1..Len(s) : ss[n] = f[s[n]]
    OBVIOUS
  <2>3. Len(tt) = Len(s) + 1 /\ \A n \in 1..Len(s) + 1 : tt[n] = f[t[n]]
    BY <2>1
  <2> HIDE DEF ss, tt
  <2>4. Append(ss, f[x]) \in Seq(Seq(T)) /\ Len(Append(ss, f[x])) = Len(s) + 1
    BY <1>1, <1>2, <2>2
  <2>5. ASSUME NEW n \in 1..Len(s) + 1 PROVE tt[n] = Append(ss, f[x])[n]
    <3>1. CASE n = Len(s) + 1
      BY <1>1, <1>2, <2>1, <2>2, <2>3, <3>1
    <3>2. CASE n # Len(s) + 1
      <4>1. n \in 1..Len(s)
        BY <2>2, <3>2
      <4>2. Append(ss, f[x])[n] = ss[n]
        BY <1>1, <1>2, <2>2, <4>1
      <4> QED
        BY <2>1, <2>2, <2>3, <3>2, <4>1, <4>2
    <3> QED
      BY <3>1, <3>2
  <2> QED
    BY <1>2, <2>3, <2>4, <2>5, SeqEqual
<1> HIDE DEF ss, tt
<1>4. FlattenSeq(tt) = FlattenSeq(ss) \o f[x]
  BY <1>1, <1>2, <1>3, FlattenAppend
<1> QED
  BY <1>4 DEF FlatMap, ss, tt, t

\* What is in the sequences that f gives is in m, and nothing else.
Gathers(m, f, s) ==
  /\ \A n \in DOMAIN m : \E i \in DOMAIN s : \E k \in DOMAIN f[s[i]] : m[n] = f[s[i]][k]
  /\ \A i \in DOMAIN s : \A k \in DOMAIN f[s[i]] : \E n \in DOMAIN m : m[n] = f[s[i]][k]

\* FlatMap gathers what f gives.
LEMMA FlatMapGathers ==
  ASSUME NEW S, NEW T, NEW f, Expands(f, S, T), NEW s \in Seq(S)
  PROVE  Gathers(FlatMap(f, s), f, s)
<1> DEFINE P == {t \in Seq(S) : Gathers(FlatMap(f, t), f, t)}
<1>1. <<>> \in P
  <2>1. FlatMap(f, <<>>) = <<>> /\ DOMAIN <<>> = {}
    BY FlatMapEmpty
  <2> QED
    BY <2>1 DEF Gathers
<1>2. ASSUME NEW t \in Seq(S), NEW x \in S, t \in P PROVE Append(t, x) \in P
  <2> DEFINE u == Append(t, x)
             m == FlatMap(f, t)
             l == Len(m)
             y == f[x]
             v == FlatMap(f, u)
  <2>1. /\ u \in Seq(S) /\ DOMAIN u = 1..Len(t) + 1 /\ DOMAIN t = 1..Len(t) /\ Len(t) \in Nat
        /\ u[Len(t) + 1] = x /\ \A i \in DOMAIN t : i \in DOMAIN u /\ u[i] = t[i]
    OBVIOUS
  <2>2. m \in Seq(T) /\ y \in Seq(T) /\ v = m \o y
    <3>1. m \in Seq(T) /\ v = m \o y
      BY ZenonT(60), FlatMapType, FlatMapAppend
    <3> QED
      BY <3>1 DEF Expands
  <2>3. Gathers(m, f, t)
    BY <1>2
  <2> HIDE DEF u, m, y, v
  <2>4. /\ l \in Nat /\ Len(y) \in Nat
        /\ DOMAIN m = 1..l /\ DOMAIN y = 1..Len(y) /\ DOMAIN v = 1..(l + Len(y))
        /\ \A n \in DOMAIN m : n \in DOMAIN v /\ v[n] = m[n]
        /\ \A k \in DOMAIN y : l + k \in DOMAIN v /\ v[l + k] = y[k]
        /\ \A n \in DOMAIN v : n \in DOMAIN m \/ (n - l \in DOMAIN y /\ v[n] = y[n - l])
    BY <2>2
  <2>5. ASSUME NEW n \in DOMAIN v
        PROVE  \E i \in DOMAIN u : \E k \in DOMAIN f[u[i]] : v[n] = f[u[i]][k]
    <3>1. CASE n \in DOMAIN m
      <4>1. PICK i \in DOMAIN t : \E k \in DOMAIN f[t[i]] : m[n] = f[t[i]][k]
        BY <2>3, <3>1 DEF Gathers
      <4>2. i \in DOMAIN u /\ u[i] = t[i] /\ v[n] = m[n]
        BY <2>1, <2>4, <3>1
      <4> QED
        BY <4>1, <4>2
    <3>2. CASE n - l \in DOMAIN y /\ v[n] = y[n - l]
      <4>1. Len(t) + 1 \in DOMAIN u /\ u[Len(t) + 1] = x
        BY <2>1
      <4> QED
        BY <3>2, <4>1 DEF y
    <3> QED
      BY <2>4, <3>1, <3>2
  <2>6. ASSUME NEW i \in DOMAIN u, NEW k \in DOMAIN f[u[i]]
        PROVE  \E n \in DOMAIN v : v[n] = f[u[i]][k]
    <3>1. CASE i \in DOMAIN t
      <4>1. PICK n \in DOMAIN m : m[n] = f[t[i]][k]
        BY <2>1, <2>3, <3>1 DEF Gathers
      <4> QED
        BY <2>1, <2>4, <3>1, <4>1
    <3>2. CASE i = Len(t) + 1
      <4>1. f[u[i]] = y
        BY <2>1, <3>2 DEF y
      <4> QED
        BY <2>4, <4>1
    <3> QED
      BY <2>1, <3>1, <3>2
  <2> QED
    BY <2>1, <2>5, <2>6 DEF Gathers, u, v
<1> HIDE DEF P
<1>3. Seq(S) \subseteq P
  BY <1>1, <1>2, SequenceInduction
<1> QED
  BY <1>3 DEF P
-----------------------------------------------------------------------------
\* The images of the elements of s that are in keep, in the order of s.
Kept(s, keep, f) ==
  FlattenSeq([n \in DOMAIN s |-> IF s[n] \in keep THEN <<f[s[n]]>> ELSE <<>>])

\* One more element adds its image, if it is kept.
LEMMA KeptAppend ==
  ASSUME NEW G, NEW s \in Seq(G), NEW g \in G, NEW keep, NEW f
  PROVE  Kept(Append(s, g), keep, f)
           = IF g \in keep THEN Append(Kept(s, keep, f), f[g]) ELSE Kept(s, keep, f)
<1> DEFINE R == {f[x] : x \in G}
           one == [x \in G |-> IF x \in keep THEN <<f[x]>> ELSE <<>>]
           t == Append(s, g)
<1>1. Expands(one, G, R)
  <2>1. \A x \in G : f[x] \in R
    OBVIOUS
  <2> HIDE DEF R
  <2> QED
    BY <2>1 DEF Expands
<1>2. ASSUME NEW u \in Seq(G) PROVE Kept(u, keep, f) = FlatMap(one, u)
  <2>1. \A n \in DOMAIN u : u[n] \in G
    OBVIOUS
  <2>2. [n \in DOMAIN u |-> IF u[n] \in keep THEN <<f[u[n]]>> ELSE <<>>]
          = [n \in DOMAIN u |-> one[u[n]]]
    BY <2>1
  <2> QED
    BY <2>2 DEF Kept, FlatMap
<1>3. one[g] = IF g \in keep THEN <<f[g]>> ELSE <<>>
  OBVIOUS
<1> HIDE DEF R, one
<1>4. FlatMap(one, t) = FlatMap(one, s) \o one[g] /\ FlatMap(one, s) \in Seq(R)
  BY ZenonT(60), <1>1, FlatMapAppend, FlatMapType
<1>5. Kept(t, keep, f) = FlatMap(one, t) /\ Kept(s, keep, f) = FlatMap(one, s)
  <2>1. t \in Seq(G)
    OBVIOUS
  <2> HIDE DEF t
  <2> QED
    BY <1>2, <2>1
<1> QED
  BY <1>3, <1>4, <1>5

\* The values of f on S; f has different ones on S.
Values(f, S) == {f[x] : x \in S}
Separates(f, S) == \A x, y \in S : f[x] = f[y] => x = y

\* k lists the values f has at the elements of s that are in keep, those and no
\* others, and none twice that is once in s.
Lists(k, s, keep, f) ==
  /\ \A n \in DOMAIN k : \E i \in DOMAIN s : s[i] \in keep /\ k[n] = f[s[i]]
  /\ \A i \in DOMAIN s : s[i] \in keep => \E n \in DOMAIN k : k[n] = f[s[i]]
  /\ IsInjective(s) => IsInjective(k)

\* Kept lists what is kept.
LEMMA KeptElements ==
  ASSUME NEW G, NEW keep, NEW f, Separates(f, G), NEW s \in Seq(G)
  PROVE  Kept(s, keep, f) \in Seq(Values(f, G)) /\ Lists(Kept(s, keep, f), s, keep, f)
<1> DEFINE R == Values(f, G)
           k(t) == Kept(t, keep, f)
           Right(t) == /\ k(t) \in Seq(R)
                       /\ \A n \in DOMAIN k(t) : \E i \in DOMAIN t : t[i] \in keep /\ k(t)[n] = f[t[i]]
                       /\ \A i \in DOMAIN t : t[i] \in keep => \E n \in DOMAIN k(t) : k(t)[n] = f[t[i]]
                       /\ IsInjective(t) => IsInjective(k(t))
           P == {t \in Seq(G) : Right(t)}
<1>1. <<>> \in P
  <2>1. k(<<>>) = <<>>
    <3>1. [n \in DOMAIN <<>> |-> IF <<>>[n] \in keep THEN <<f[<<>>[n]]>> ELSE <<>>] = <<>>
      OBVIOUS
    <3> QED
      BY <3>1, FlattenEmpty DEF Kept
  <2>2. DOMAIN k(<<>>) = {} /\ k(<<>>) \in Seq(R)
    <3> HIDE DEF k, R
    <3>1. DOMAIN <<>> = {} /\ <<>> \in Seq(R)
      OBVIOUS
    <3> QED
      BY <2>1, <3>1
  <2> HIDE DEF k, R
  <2>3. IsInjective(k(<<>>))
    BY <2>2 DEF IsInjective
  <2>4. <<>> \in Seq(G) /\ DOMAIN <<>> = {}
    OBVIOUS
  <2> QED
    BY <2>2, <2>3, <2>4
<1>2. ASSUME NEW t \in Seq(G), NEW g \in G, t \in P
      PROVE  Append(t, g) \in P
  <2> DEFINE u == Append(t, g)
  <2>1. /\ u \in Seq(G) /\ DOMAIN u = 1..Len(t) + 1 /\ DOMAIN t = 1..Len(t) /\ Len(t) \in Nat
        /\ u[Len(t) + 1] = g /\ \A i \in DOMAIN t : u[i] = t[i]
    OBVIOUS
  <2>2. k(u) = IF g \in keep THEN Append(k(t), f[g]) ELSE k(t)
    BY KeptAppend
  <2>3. Right(t)
    BY <1>2
  <2>0. \A x \in G : f[x] \in R
    BY DEF Values
  <2> HIDE DEF k, u, R
  <2>4. IsInjective(u) => IsInjective(t) /\ \A i \in DOMAIN t : t[i] # g
    BY <2>1 DEF IsInjective
  <2>5. CASE g \notin keep
    <3>1. k(u) = k(t)
      BY <2>2, <2>5
    <3>2. ASSUME NEW n \in DOMAIN k(u)
          PROVE  \E i \in DOMAIN u : u[i] \in keep /\ k(u)[n] = f[u[i]]
      <4>1. PICK i \in DOMAIN t : t[i] \in keep /\ k(t)[n] = f[t[i]]
        BY <2>3, <3>1
      <4> QED
        BY <2>1, <3>1, <4>1
    <3>3. \A i \in DOMAIN u : u[i] \in keep => \E n \in DOMAIN k(u) : k(u)[n] = f[u[i]]
      BY <2>1, <2>3, <2>5, <3>1
    <3> QED
      BY <2>1, <2>3, <2>4, <3>1, <3>2, <3>3 DEF u
  <2>6. CASE g \in keep
    <3> DEFINE l == Len(k(t))
    <3>1. /\ k(u) = Append(k(t), f[g]) /\ k(u) \in Seq(R)
          /\ DOMAIN k(u) = 1..l + 1 /\ DOMAIN k(t) = 1..l /\ l \in Nat
          /\ k(u)[l + 1] = f[g] /\ \A n \in DOMAIN k(t) : k(u)[n] = k(t)[n]
      BY <2>0, <2>2, <2>3, <2>6
    <3> HIDE DEF l
    <3>2. \A n \in DOMAIN k(u) : \E i \in DOMAIN u : u[i] \in keep /\ k(u)[n] = f[u[i]]
      <4> SUFFICES ASSUME NEW n \in DOMAIN k(u)
                   PROVE  \E i \in DOMAIN u : u[i] \in keep /\ k(u)[n] = f[u[i]]
        OBVIOUS
      <4>1. CASE n = l + 1
        BY <2>1, <2>6, <3>1, <4>1
      <4>2. CASE n \in DOMAIN k(t)
        <5>1. PICK i \in DOMAIN t : t[i] \in keep /\ k(t)[n] = f[t[i]]
          BY <2>3, <4>2
        <5>2. i \in DOMAIN u /\ u[i] = t[i] /\ k(u)[n] = k(t)[n]
          BY <2>1, <3>1, <4>2
        <5> QED
          BY <5>1, <5>2
      <4> QED
        BY <3>1, <4>1, <4>2
    <3>3. \A i \in DOMAIN u : u[i] \in keep => \E n \in DOMAIN k(u) : k(u)[n] = f[u[i]]
      <4> SUFFICES ASSUME NEW i \in DOMAIN u, u[i] \in keep
                   PROVE  \E n \in DOMAIN k(u) : k(u)[n] = f[u[i]]
        OBVIOUS
      <4>1. CASE i = Len(t) + 1
        <5>1. u[i] = g
          BY <2>1, <4>1
        <5>2. l + 1 \in DOMAIN k(u)
          BY <3>1
        <5> QED
          BY <3>1, <5>1, <5>2
      <4>2. CASE i \in DOMAIN t
        BY SMTT(30), <2>1, <2>3, <3>1, <4>2
      <4> QED
        BY <2>1, <4>1, <4>2
    <3>4. IsInjective(u) => IsInjective(k(u))
      <4> SUFFICES ASSUME IsInjective(u), NEW m \in DOMAIN k(u), NEW n \in DOMAIN k(u),
                          k(u)[m] = k(u)[n]
                   PROVE  m = n
        BY DEF IsInjective
      <4>1. IsInjective(k(t)) /\ \A i \in DOMAIN t : t[i] # g /\ t[i] \in G
        BY <2>1, <2>3, <2>4
      <4>2. \A j \in DOMAIN k(t) : k(t)[j] # f[g]
        <5> SUFFICES ASSUME NEW j \in DOMAIN k(t) PROVE k(t)[j] # f[g]
          OBVIOUS
        <5>1. PICK i \in DOMAIN t : k(t)[j] = f[t[i]]
          BY <2>3
        <5> QED
          BY <4>1, <5>1 DEF Separates
      <4> QED
        BY <3>1, <4>1, <4>2 DEF IsInjective
    <3> QED
      BY <2>1, <3>1, <3>2, <3>3, <3>4 DEF u
  <2> QED
    BY <2>5, <2>6
<1> HIDE DEF P
<1>3. Seq(G) \subseteq P
  BY <1>1, <1>2, SequenceInduction
<1> QED
  BY <1>3 DEF P, Lists
-----------------------------------------------------------------------------
\* A sequence that lists each element of S once is as long as S is large.
LEMMA ListLength ==
  ASSUME NEW S, NEW s \in Seq(S), IsInjective(s),
         \A x \in S : \E n \in DOMAIN s : s[n] = x
  PROVE  IsFiniteSet(S) /\ Cardinality(S) = Len(s)
<1>1. s \in [1..Len(s) -> S] /\ DOMAIN s = 1..Len(s) /\ Len(s) \in Nat
  OBVIOUS
<1>2. s \in Bijection(1..Len(s), S)
  BY <1>1 DEF Bijection, Injection, Surjection, IsInjective
<1>3. ExistsBijection(1..Len(s), S)
  BY <1>2 DEF ExistsBijection
<1> QED
  BY <1>1, <1>3, FS_CountingElements, FS_NatBijection
-----------------------------------------------------------------------------
\* The elements of s whose indices are in keep.
Chosen(s, keep) ==
  FlattenSeq([n \in DOMAIN s |-> IF n \in keep THEN <<s[n]>> ELSE <<>>])

\* at gives the index in s of each element of c, in increasing order.
Locates(at, c, s, keep) ==
  /\ at \in [DOMAIN c -> DOMAIN s \cap keep]
  /\ \A n \in DOMAIN c : c[n] = s[at[n]]
  /\ \A m, n \in DOMAIN c : m < n => at[m] < at[n]

\* One more element is the last of those chosen, or is not chosen.
LEMMA ChosenAppend ==
  ASSUME NEW S, NEW keep, NEW s \in Seq(S), NEW x \in S
  PROVE  Chosen(Append(s, x), keep)
           = IF Len(s) + 1 \in keep THEN Append(Chosen(s, keep), x) ELSE Chosen(s, keep)
<1> DEFINE one(t) == [n \in DOMAIN t |-> IF n \in keep THEN <<t[n]>> ELSE <<>>]
           u == Append(s, x)
           l == Len(s) + 1
           y == IF l \in keep THEN <<x>> ELSE <<>>
<1>1. /\ u \in Seq(S) /\ DOMAIN u = 1..l /\ DOMAIN s = 1..Len(s) /\ Len(s) \in Nat
      /\ u[l] = x /\ \A n \in 1..Len(s) : u[n] = s[n]
  OBVIOUS
<1>2. ASSUME NEW t \in Seq(S) PROVE one(t) \in Seq(Seq(S)) /\ Len(one(t)) = Len(t)
  <2>1. DOMAIN t = 1..Len(t) /\ Len(t) \in Nat /\ \A n \in DOMAIN t : t[n] \in S
    OBVIOUS
  <2>2. \A z \in S : <<z>> \in Seq(S)
    OBVIOUS
  <2>3. <<>> \in Seq(S)
    OBVIOUS
  <2>4. one(t) \in [1..Len(t) -> Seq(S)]
    BY <2>1, <2>2, <2>3
  <2> QED
    BY <2>1, <2>4, SeqDef
<1>3. y \in Seq(S)
  OBVIOUS
<1>4. one(u) = Append(one(s), y)
  <2>1. one(u) \in Seq(Seq(S)) /\ Len(one(u)) = l
    BY <1>1, <1>2
  <2>2. one(s) \in Seq(Seq(S)) /\ Len(one(s)) = Len(s)
    BY <1>2
  <2>3. \A n \in 1..l : one(u)[n] = IF n \in keep THEN <<u[n]>> ELSE <<>>
    BY <1>1
  <2>4. \A n \in 1..Len(s) : one(s)[n] = IF n \in keep THEN <<s[n]>> ELSE <<>>
    BY <1>1
  <2> HIDE DEF one, u, y
  <2>5. /\ Append(one(s), y) \in Seq(Seq(S)) /\ Len(Append(one(s), y)) = l
        /\ Append(one(s), y)[l] = y /\ \A n \in 1..Len(s) : Append(one(s), y)[n] = one(s)[n]
    BY <1>3, <2>2, AppendProperties
  <2>6. ASSUME NEW n \in 1..l PROVE one(u)[n] = Append(one(s), y)[n]
    <3>1. CASE n = l
      BY <1>1, <2>3, <2>5, <3>1 DEF y
    <3>2. CASE n \in 1..Len(s)
      <4>1. u[n] = s[n] /\ Append(one(s), y)[n] = one(s)[n]
        BY <1>1, <2>5, <3>2
      <4> QED
        BY <2>3, <2>4, <3>2, <4>1
    <3>3. n = l \/ n \in 1..Len(s)
      BY <1>1
    <3> QED
      BY <3>1, <3>2, <3>3
  <2> QED
    BY <2>1, <2>5, <2>6, SeqEqual
<1>5. FlattenSeq(one(u)) = FlattenSeq(one(s)) \o y
  <2>1. one(s) \in Seq(Seq(S))
    BY <1>2
  <2> HIDE DEF one, u, y
  <2> QED
    BY <1>3, <1>4, <2>1, FlattenAppend
<1>6. FlattenSeq(one(s)) \in Seq(S)
  <2>1. one(s) \in Seq(Seq(S))
    BY <1>2
  <2> HIDE DEF one
  <2> QED
    BY <2>1, FlattenType
<1>7. Chosen(u, keep) = Chosen(s, keep) \o y /\ Chosen(s, keep) \in Seq(S)
  BY <1>5, <1>6 DEF Chosen
<1> HIDE DEF u
<1> QED
  <2>1. \A c \in Seq(S) : c \o <<x>> = Append(c, x) /\ c \o <<>> = c
    OBVIOUS
  <2> QED
    BY <1>7, <2>1 DEF u

\* Each of those chosen stands at an index that is kept, and they are in order.
LEMMA ChosenPlaces ==
  ASSUME NEW S, NEW keep, NEW s \in Seq(S)
  PROVE  Chosen(s, keep) \in Seq(S) /\ \E at : Locates(at, Chosen(s, keep), s, keep)
<1> DEFINE Right(t) == Chosen(t, keep) \in Seq(S) /\ \E at : Locates(at, Chosen(t, keep), t, keep)
           P == {t \in Seq(S) : Right(t)}
<1>1. <<>> \in P
  <2>1. [n \in DOMAIN <<>> |-> IF n \in keep THEN <<<<>>[n]>> ELSE <<>>] = <<>>
    OBVIOUS
  <2>2. Chosen(<<>>, keep) = <<>>
    BY <2>1, FlattenEmpty DEF Chosen
  <2> DEFINE at == [n \in {} |-> n]
  <2>3. <<>> \in Seq(S) /\ DOMAIN <<>> = {} /\ at \in [{} -> {} \cap keep]
    OBVIOUS
  <2>4. Locates(at, <<>>, <<>>, keep)
    BY <2>3 DEF Locates
  <2> QED
    BY <2>2, <2>3, <2>4
<1>2. ASSUME NEW t \in Seq(S), NEW x \in S, t \in P PROVE Append(t, x) \in P
  <2> DEFINE u == Append(t, x)
             l == Len(t) + 1
             c == Chosen(t, keep)
             d == Chosen(u, keep)
             k == Len(c) + 1
  <2>1. /\ u \in Seq(S) /\ DOMAIN u = 1..l /\ DOMAIN t = 1..Len(t) /\ Len(t) \in Nat
        /\ u[l] = x /\ \A n \in DOMAIN t : u[n] = t[n]
    OBVIOUS
  <2>2. d = IF l \in keep THEN Append(c, x) ELSE c
    BY ChosenAppend
  <2>3. c \in Seq(S)
    BY <1>2
  <2>4. PICK at : Locates(at, c, t, keep)
    BY <1>2
  <2> HIDE DEF u, l, c, d
  <2>5. CASE l \notin keep
    <3>1. Locates(at, c, u, keep)
      BY <2>1, <2>4 DEF Locates, l
    <3> QED
      BY <2>1, <2>2, <2>3, <2>5, <3>1 DEF u, d
  <2>6. CASE l \in keep
    <3>1. /\ d \in Seq(S) /\ DOMAIN d = 1..k /\ DOMAIN c = 1..Len(c) /\ Len(c) \in Nat
          /\ d[k] = x /\ \A n \in DOMAIN c : d[n] = c[n]
      BY <2>2, <2>3, <2>6
    <3> HIDE DEF k
    <3>0. k = Len(c) + 1 /\ l = Len(t) + 1
      BY DEF k, l
    <3> DEFINE bt == [n \in DOMAIN d |-> IF n = k THEN l ELSE at[n]]
    <3>2. bt \in [DOMAIN d -> DOMAIN u \cap keep]
      BY <2>1, <2>4, <2>6, <3>0, <3>1 DEF Locates
    <3>3. ASSUME NEW n \in DOMAIN d PROVE d[n] = u[bt[n]]
      <4>1. CASE n = k
        BY <2>1, <3>1, <4>1
      <4>2. CASE n \in DOMAIN c
        <5>1. at[n] \in DOMAIN t /\ c[n] = t[at[n]]
          BY <2>4, <4>2 DEF Locates
        <5>2. bt[n] = at[n]
          BY <3>0, <3>1, <4>2
        <5> QED
          BY <2>1, <3>1, <4>2, <5>1, <5>2
      <4> QED
        BY <3>0, <3>1, <4>1, <4>2
    <3>4. ASSUME NEW m \in DOMAIN d, NEW n \in DOMAIN d, m < n PROVE bt[m] < bt[n]
      <4>1. m \in DOMAIN c /\ bt[m] = at[m] /\ at[m] \in DOMAIN t
        BY <2>4, <3>0, <3>1, <3>4 DEF Locates
      <4>2. CASE n = k
        BY <2>1, <3>0, <4>1, <4>2
      <4>3. CASE n # k
        <5>1. n \in DOMAIN c /\ bt[n] = at[n]
          BY <3>0, <3>1, <4>3
        <5> QED
          BY <2>4, <3>4, <4>1, <5>1 DEF Locates
      <4> QED
        BY <4>2, <4>3
    <3> HIDE DEF bt
    <3>5. Locates(bt, d, u, keep)
      BY <3>2, <3>3, <3>4 DEF Locates
    <3> QED
      BY <2>1, <3>1, <3>5 DEF u, d
  <2> QED
    BY <2>5, <2>6
<1> HIDE DEF P
<1>3. Seq(S) \subseteq P
  BY <1>1, <1>2, SequenceInduction
<1> QED
  BY <1>3 DEF P
-----------------------------------------------------------------------------
\* The values of a function on a finite set are finitely many.
LEMMA ImageFinite ==
  ASSUME NEW S, IsFiniteSet(S), NEW f
  PROVE  IsFiniteSet({f[x] : x \in S})
<1> DEFINE T == {f[x] : x \in S}
           g == [x \in S |-> f[x]]
<1>1. g \in Surjection(S, T)
  BY DEF Surjection
<1> HIDE DEF g, T
<1>2. IsFiniteSet(T)
  BY <1>1, FS_Surjection
<1> QED
  BY <1>2 DEF T

\* A finite set of integers that is not empty has a largest element.
LEMMA MaxFinite ==
  ASSUME NEW S, S # {}, S \subseteq Int, IsFiniteSet(S)
  PROVE  Max(S) \in S /\ \A y \in S : Max(S) >= y
<1> DEFINE P == {T \in SUBSET S : T # {} => \E x \in T : \A y \in T : x >= y}
<1>1. {} \in P
  OBVIOUS
<1>2. ASSUME NEW T \in SUBSET S, NEW x \in S \ T, T \in P PROVE T \cup {x} \in P
  <2>1. CASE T = {}
    BY <2>1
  <2>2. CASE T # {}
    <3>1. PICK z \in T : \A y \in T : z >= y
      BY <1>2, <2>2
    <3>2. x \in Int /\ z \in Int /\ \A y \in T : y \in Int
      OBVIOUS
    <3>3. CASE x >= z
      <4>1. \A y \in T \cup {x} : x >= y
        BY <3>1, <3>2, <3>3
      <4> QED
        BY <4>1
    <3>4. CASE z >= x
      <4>1. \A y \in T \cup {x} : z >= y
        BY <3>1, <3>2, <3>4
      <4> QED
        BY <3>1, <4>1
    <3> QED
      BY <3>2, <3>3, <3>4
  <2> QED
    BY <2>1, <2>2
<1> HIDE DEF P
<1>3. S \in P
  BY <1>1, <1>2, FiniteSetInduction
<1>4. \E x \in S : \A y \in S : x >= y
  BY <1>3 DEF P
<1> QED
  BY <1>4, Zenon DEF Max
=============================================================================
