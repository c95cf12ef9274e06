---------------------------- MODULE LearningProofs ----------------------------
(***************************************************************************)
(* Proofs about the Learning module and the numerics it runs: whatever a   *)
(* suggestion or a profile shows happened, and a build from nothing        *)
(* settles on what its rows count.  Three layers: the greatest common      *)
(* divisor that rows are normalised by; what the rows, windows, matrices   *)
(* and triggers owe to the calls; and the invariant of the requests.       *)
(***************************************************************************)
EXTENDS Learning, FoldFacts

\* d divides n.
Divides(d, n) == \E q \in Nat : n = q * d

\* Divisibility is a partial order of the natural numbers with 0 at its top ..
LEMMA DividesOrder ==
  ASSUME NEW a \in Nat, NEW b \in Nat, NEW c \in Nat
  PROVE  /\ Divides(a, a) /\ Divides(a, 0)
         /\ Divides(a, b) /\ Divides(b, c) => Divides(a, c)
         /\ Divides(a, b) /\ Divides(b, a) => a = b
<1>1. a = 1 * a /\ 0 = 0 * a
  OBVIOUS
<1>2. ASSUME Divides(a, b), Divides(b, c) PROVE Divides(a, c)
  <2>1. PICK p \in Nat : b = p * a
    BY <1>2 DEF Divides
  <2>2. PICK q \in Nat : c = q * b
    BY <1>2 DEF Divides
  <2>3. \A x, y, z \in Nat : x * (y * z) = (x * y) * z /\ x * y \in Nat
    OBVIOUS
  <2>4. c = (q * p) * a /\ q * p \in Nat
    BY <2>1, <2>2, <2>3
  <2> QED
    BY <2>4 DEF Divides
<1>3. ASSUME Divides(a, b), Divides(b, a) PROVE a = b
  <2>1. PICK p \in Nat : b = p * a
    BY <1>3 DEF Divides
  <2>2. PICK q \in Nat : a = q * b
    BY <1>3 DEF Divides
  <2>3. ASSUME NEW x \in Nat, NEW y \in Nat, NEW k \in Nat, y = k * x, y # 0 PROVE x <= y
    <3>1. k # 0
      BY <2>3
    <3>2. PICK j \in Nat : k = j + 1
      <4>1. k - 1 \in Nat /\ k = (k - 1) + 1
        BY <3>1
      <4> QED
        BY <4>1
    <3>3. (j + 1) * x = j * x + x /\ j * x \in Nat
      OBVIOUS
    <3> QED
      BY <2>3, <3>2, <3>3
  <2>4. a = 0 => b = 0
    BY <2>1
  <2>5. b = 0 => a = 0
    BY <2>2
  <2> QED
    BY <2>1, <2>2, <2>3, <2>4, <2>5
<1> QED
  BY <1>1, <1>2, <1>3 DEF Divides

\* .. and a divisor of one number divides another when it divides what remains of it.
LEMMA DividesRemainder ==
  ASSUME NEW a \in Nat, NEW b \in Nat \ {0}, NEW d \in Nat, Divides(d, b)
  PROVE  /\ a % b \in Nat /\ a % b < b
         /\ Divides(d, a) <=> Divides(d, a % b)
<1>1. a % b \in Nat /\ a % b < b /\ a \div b \in Nat /\ a = b * (a \div b) + (a % b)
  OBVIOUS
<1>2. PICK m \in Nat, k \in Nat : m = a \div b /\ k = a % b /\ a = b * m + k
  BY <1>1
<1>3. PICK p \in Nat : b = p * d
  BY DEF Divides
<1>4. b * m = (m * p) * d /\ m * p \in Nat
  BY <1>3
<1>5. ASSUME Divides(d, k) PROVE Divides(d, a)
  <2>1. PICK q \in Nat : k = q * d
    BY <1>5 DEF Divides
  <2>2. a = (m * p + q) * d /\ m * p + q \in Nat
    BY <1>2, <1>4, <2>1
  <2> QED
    BY <2>2 DEF Divides
<1>6. ASSUME Divides(d, a) PROVE Divides(d, k)
  <2>1. PICK q \in Nat : a = q * d
    BY <1>6 DEF Divides
  <2> DEFINE n == m * p
  <2>2. q * d = n * d + k /\ n \in Nat
    BY <1>2, <1>4, <2>1
  <2> HIDE DEF n
  <2>3. CASE n <= q
    <3>1. q - n \in Nat /\ (q - n) * d = q * d - n * d
      BY <2>2, <2>3
    <3>2. q * d \in Nat /\ n * d \in Nat
      BY <2>2
    <3>3. k = (q - n) * d
      BY <2>2, <3>1, <3>2
    <3> QED
      BY <3>1, <3>3 DEF Divides
  <2>4. CASE q < n
    <3>1. n - q \in Nat /\ (n - q) * d = n * d - q * d
      BY <2>2, <2>4
    <3>2. (n - q) * d \in Nat /\ n * d \in Nat /\ q * d \in Nat
      BY <2>2, <3>1
    <3>3. k = 0
      BY <2>2, <3>1, <3>2
    <3>4. 0 = 0 * d
      OBVIOUS
    <3> QED
      BY <3>3, <3>4 DEF Divides
  <2> QED
    BY <2>2, <2>3, <2>4
<1> QED
  BY <1>1, <1>2, <1>5, <1>6

\* d is the greatest common divisor of a and b.
IsGcd(d, a, b) ==
  /\ d \in Nat /\ Divides(d, a) /\ Divides(d, b)
  /\ \A e \in Nat : Divides(e, a) /\ Divides(e, b) => Divides(e, d)

\* That of a and 0 is a; that of a and b is that of b and what remains of a.
LEMMA GcdSteps ==
  ASSUME NEW a \in Nat, NEW b \in Nat, NEW d \in Nat
  PROVE  /\ IsGcd(a, a, 0)
         /\ b # 0 => a % b \in Nat /\ a % b < b /\ (IsGcd(d, a, b) <=> IsGcd(d, b, a % b))
<1>1. IsGcd(a, a, 0)
  BY DividesOrder DEF IsGcd
<1>2. ASSUME b # 0
      PROVE  a % b \in Nat /\ a % b < b /\ (IsGcd(d, a, b) <=> IsGcd(d, b, a % b))
  <2>1. b \in Nat \ {0}
    BY <1>2
  <2>2. a % b \in Nat /\ a % b < b
    BY <2>1, DividesOrder, DividesRemainder
  <2>3. \A e \in Nat : Divides(e, b) => (Divides(e, a) <=> Divides(e, a % b))
    BY <2>1, DividesRemainder
  <2> QED
    BY <2>2, <2>3 DEF IsGcd
<1> QED
  BY <1>1, <1>2

\* There is only one ..
LEMMA GcdUnique ==
  ASSUME NEW a \in Nat, NEW b \in Nat, NEW d, IsGcd(d, a, b), NEW e, IsGcd(e, a, b)
  PROVE  d = e
BY DividesOrder DEF IsGcd

\* .. and there is one.
LEMMA GcdExists ==
  ASSUME NEW a \in Nat, NEW b \in Nat
  PROVE  \E d \in Nat : IsGcd(d, a, b)
<1> DEFINE Has(x, y) == \E d \in Nat : IsGcd(d, x, y)
           P == {n \in Nat : \A y \in 0..n : \A x \in Nat : Has(x, y)}
<1>1. ASSUME NEW x \in Nat PROVE Has(x, 0)
  BY GcdSteps
<1>2. 0 \in P
  BY <1>1
<1>3. ASSUME NEW n \in Nat, n \in P PROVE n + 1 \in P
  <2> SUFFICES ASSUME NEW y \in 0..(n + 1), NEW x \in Nat PROVE Has(x, y)
    OBVIOUS
  <2>1. CASE y \in 0..n
    BY <1>3, <2>1
  <2>2. CASE y = n + 1
    <3>1. y \in Nat /\ y # 0
      BY <2>2
    <3>2. x % y \in Nat /\ x % y < y /\ \A d \in Nat : IsGcd(d, x, y) <=> IsGcd(d, y, x % y)
      BY <3>1, GcdSteps, DividesOrder
    <3>3. x % y \in 0..n
      BY <2>2, <3>2
    <3>4. Has(y, x % y)
      BY <1>3, <3>1, <3>3
    <3> QED
      BY <3>2, <3>4
  <2> QED
    BY <2>1, <2>2
<1>4. Nat \subseteq P
  <2> HIDE DEF P
  <2> QED
    BY <1>2, <1>3, NaturalSetInduction
<1> QED
  BY <1>4

\* The equation of gcd.
Euclid(g) ==
  g = [x \in Nat \X Nat |-> IF x[2] = 0 THEN x[1] ELSE g[<<x[2], x[1] % x[2]>>]]

\* It has a solution, which gcd is ..
LEMMA EuclidGcd == Euclid(gcd)
<1> DEFINE the(a, b) == CHOOSE d \in Nat : IsGcd(d, a, b)
           g == [x \in Nat \X Nat |-> the(x[1], x[2])]
           h == [x \in Nat \X Nat |-> IF x[2] = 0 THEN x[1] ELSE g[<<x[2], x[1] % x[2]>>]]
<1>1. ASSUME NEW a \in Nat, NEW b \in Nat PROVE the(a, b) \in Nat /\ IsGcd(the(a, b), a, b)
  BY GcdExists
<1>2. ASSUME NEW a \in Nat, NEW b \in Nat PROVE g[<<a, b>>] = the(a, b)
  OBVIOUS
<1> HIDE DEF the
<1>3. ASSUME NEW x \in Nat \X Nat PROVE g[x] = h[x]
  <2>1. PICK a \in Nat, b \in Nat : x = <<a, b>> /\ a = x[1] /\ b = x[2]
    OBVIOUS
  <2>2. g[x] = the(a, b)
    BY <1>2, <2>1
  <2>3. h[x] = IF b = 0 THEN a ELSE g[<<b, a % b>>]
    BY <2>1
  <2> HIDE DEF g, h
  <2>4. CASE b = 0
    <3>1. IsGcd(a, a, 0) /\ IsGcd(the(a, b), a, 0)
      BY <1>1, <2>4, GcdSteps
    <3>2. a = the(a, b)
      BY <3>1, GcdUnique
    <3> QED
      BY <2>2, <2>3, <2>4, <3>2
  <2>5. CASE b # 0
    <3>1. a % b \in Nat /\ \A d \in Nat : IsGcd(d, a, b) <=> IsGcd(d, b, a % b)
      BY <2>5, GcdSteps
    <3> DEFINE e == the(b, a % b)
    <3>2. e \in Nat /\ IsGcd(e, b, a % b)
      BY <1>1, <3>1
    <3> HIDE DEF e
    <3>3. IsGcd(e, a, b)
      BY <3>1, <3>2
    <3>4. e = the(a, b)
      BY <1>1, <3>3, GcdUnique
    <3>5. g[<<b, a % b>>] = e
      BY <1>2, <3>1 DEF e
    <3> QED
      BY <2>2, <2>3, <2>5, <3>4, <3>5
  <2> QED
    BY <2>4, <2>5
<1>4. Euclid(g)
  <2>1. g = h
    <3> DEFINE u == [x \in Nat \X Nat |-> g[x]]
    <3>1. g = [x \in Nat \X Nat |-> g[x]] /\ h = [x \in Nat \X Nat |-> h[x]]
      OBVIOUS
    <3> HIDE DEF g, h
    <3> QED
      BY <1>3, <3>1
  <2> HIDE DEF g
  <2> QED
    BY <2>1 DEF Euclid
<1> QED
  <2> HIDE DEF g
  <2> QED
    BY <1>4, Zenon DEF gcd, Euclid

\* .. and every solution gives the greatest common divisor.
LEMMA GcdCorrect ==
  ASSUME NEW a \in Nat, NEW b \in Nat
  PROVE  IsGcd(gcd[<<a, b>>], a, b)
<1> DEFINE P == {n \in Nat : \A y \in 0..n : \A x \in Nat : IsGcd(gcd[<<x, y>>], x, y)}
<1>1. ASSUME NEW x \in Nat, NEW y \in Nat
      PROVE  gcd[<<x, y>>] = IF y = 0 THEN x ELSE gcd[<<y, x % y>>]
  BY EuclidGcd DEF Euclid
<1>2. 0 \in P
  <2>1. ASSUME NEW x \in Nat PROVE IsGcd(gcd[<<x, 0>>], x, 0)
    BY <1>1, GcdSteps
  <2> QED
    BY <2>1
<1>3. ASSUME NEW n \in Nat, n \in P PROVE n + 1 \in P
  <2> SUFFICES ASSUME NEW y \in 0..(n + 1), NEW x \in Nat PROVE IsGcd(gcd[<<x, y>>], x, y)
    OBVIOUS
  <2>1. CASE y \in 0..n
    BY <1>3, <2>1
  <2>2. CASE y = n + 1
    <3>1. y \in Nat /\ y # 0
      BY <2>2
    <3>2. x % y \in Nat /\ x % y < y /\ \A d \in Nat : IsGcd(d, x, y) <=> IsGcd(d, y, x % y)
      BY <3>1, GcdSteps, DividesOrder
    <3>3. x % y \in 0..n
      BY <2>2, <3>2
    <3>4. IsGcd(gcd[<<y, x % y>>], y, x % y)
      BY <1>3, <3>1, <3>3
    <3>5. gcd[<<y, x % y>>] \in Nat
      BY <3>4 DEF IsGcd
    <3>6. gcd[<<x, y>>] = gcd[<<y, x % y>>]
      BY <1>1, <3>1
    <3> QED
      BY <3>2, <3>4, <3>5, <3>6
  <2> QED
    BY <2>1, <2>2
<1>4. Nat \subseteq P
  <2> HIDE DEF P
  <2> QED
    BY <1>2, <1>3, NaturalSetInduction
<1> QED
  BY <1>4
-----------------------------------------------------------------------------
\* d is the greatest common divisor of the values of row on T.
IsGcdOf(d, row, T) ==
  /\ d \in Nat
  /\ \A t \in T : Divides(d, row[t])
  /\ \A e \in Nat : (\A t \in T : Divides(e, row[t])) => Divides(e, d)

\* That of no values is 0; one value more is put to it by gcd; there is only one.
LEMMA GcdOfSteps ==
  ASSUME NEW T, NEW row \in [T -> Nat]
  PROVE  /\ IsGcdOf(0, row, {})
         /\ \A U \in SUBSET T, t \in T, d \in Nat :
              IsGcdOf(d, row, U) => IsGcdOf(gcd[<<row[t], d>>], row, U \cup {t})
         /\ \A U \in SUBSET T : \A d, e \in Nat : IsGcdOf(d, row, U) /\ IsGcdOf(e, row, U) => d = e
<1>1. IsGcdOf(0, row, {})
  BY DividesOrder DEF IsGcdOf
<1>2. ASSUME NEW U \in SUBSET T, NEW t \in T, NEW d \in Nat, IsGcdOf(d, row, U)
      PROVE  IsGcdOf(gcd[<<row[t], d>>], row, U \cup {t})
  <2> DEFINE g == gcd[<<row[t], d>>]
  <2>1. IsGcd(g, row[t], d)
    BY GcdCorrect
  <2> HIDE DEF g
  <2>2. g \in Nat /\ Divides(g, row[t]) /\ Divides(g, d)
    BY <2>1 DEF IsGcd
  <2>3. ASSUME NEW u \in U \cup {t} PROVE Divides(g, row[u])
    <3>1. CASE u = t
      BY <2>2, <3>1
    <3>2. CASE u \in U
      <4>1. Divides(d, row[u]) /\ row[u] \in Nat
        BY <1>2, <3>2 DEF IsGcdOf
      <4> QED
        BY <2>2, <4>1, DividesOrder
    <3> QED
      BY <3>1, <3>2
  <2>4. ASSUME NEW e \in Nat, \A u \in U \cup {t} : Divides(e, row[u]) PROVE Divides(e, g)
    BY <1>2, <2>1, <2>4 DEF IsGcd, IsGcdOf
  <2> QED
    BY <2>2, <2>3, <2>4 DEF IsGcdOf, g
<1>3. ASSUME NEW U \in SUBSET T, NEW d \in Nat, NEW e \in Nat,
             IsGcdOf(d, row, U), IsGcdOf(e, row, U)
      PROVE  d = e
  BY <1>3, DividesOrder DEF IsGcdOf
<1> QED
  BY <1>1, <1>2, <1>3

\* What FoldFunction builds of a row, value by value.
GcdFolds(g, row, T) ==
  g = [U \in SUBSET T |->
         IF U = {} THEN 0
         ELSE gcd[<<row[CHOOSE t \in U : TRUE], g[U \ {CHOOSE t \in U : TRUE}]>>]]

\* The divisor by which Normalised divides a row is its greatest common divisor.
LEMMA GcdFold ==
  ASSUME NEW T, IsFiniteSet(T), NEW row \in [T -> Nat]
  PROVE  IsGcdOf(FoldFunction(LAMBDA a, b : gcd[<<a, b>>], 0, row), row, T)
<1> DEFINE x(U) == CHOOSE t \in U : TRUE
           the(U) == CHOOSE d \in Nat : IsGcdOf(d, row, U)
           g == [U \in SUBSET T |-> the(U)]
           h == [U \in SUBSET T |-> IF U = {} THEN 0 ELSE gcd[<<row[x(U)], g[U \ {x(U)}]>>]]
           P == {U \in SUBSET T : \E d \in Nat : IsGcdOf(d, row, U)}
           fold == CHOOSE f : GcdFolds(f, row, T)
<1>1. ASSUME NEW U \in SUBSET T PROVE \E d \in Nat : IsGcdOf(d, row, U)
  <2>1. {} \in P
    BY GcdOfSteps
  <2>2. ASSUME NEW V \in SUBSET U, NEW t \in U \ V, V \in P PROVE V \cup {t} \in P
    <3>1. PICK d \in Nat : IsGcdOf(d, row, V)
      BY <2>2
    <3>2. IsGcdOf(gcd[<<row[t], d>>], row, V \cup {t})
      BY <3>1, GcdOfSteps
    <3> QED
      BY <3>2 DEF IsGcdOf
  <2>3. IsFiniteSet(U)
    BY FS_Subset
  <2> HIDE DEF P
  <2>4. U \in P
    BY <2>1, <2>2, <2>3, FiniteSetInduction
  <2> QED
    BY <2>4 DEF P
<1>2. ASSUME NEW U \in SUBSET T PROVE the(U) \in Nat /\ IsGcdOf(the(U), row, U) /\ g[U] = the(U)
  BY <1>1
<1>3. ASSUME NEW U \in SUBSET T, U # {}
      PROVE  x(U) \in U /\ U \ {x(U)} \in SUBSET T /\ (U \ {x(U)}) \cup {x(U)} = U
  <2>1. x(U) \in U
    BY <1>3
  <2> QED
    BY <2>1
<1> HIDE DEF the, x
<1>4. ASSUME NEW U \in SUBSET T PROVE g[U] = h[U]
  <2>1. h[U] = IF U = {} THEN 0 ELSE gcd[<<row[x(U)], g[U \ {x(U)}]>>]
    OBVIOUS
  <2> HIDE DEF g, h
  <2>2. CASE U = {}
    BY <1>2, <2>1, <2>2, GcdOfSteps
  <2>3. CASE U # {}
    <3> DEFINE V == U \ {x(U)}
               t == x(U)
    <3>1. t \in T /\ V \in SUBSET T /\ V \cup {t} = U
      BY <1>3, <2>3
    <3> HIDE DEF V, t
    <3>2. g[V] \in Nat /\ IsGcdOf(g[V], row, V)
      BY <1>2, <3>1
    <3>3. IsGcdOf(gcd[<<row[t], g[V]>>], row, U)
      BY <3>1, <3>2, GcdOfSteps
    <3>4. IsGcdOf(g[U], row, U) /\ g[U] \in Nat
      BY <1>2
    <3>5. gcd[<<row[t], g[V]>>] \in Nat
      BY <3>3 DEF IsGcdOf
    <3>6. gcd[<<row[t], g[V]>>] = g[U]
      BY <3>3, <3>4, <3>5, GcdOfSteps
    <3> QED
      BY <2>1, <2>3, <3>6 DEF V, t
  <2> QED
    BY <2>2, <2>3
<1>5. GcdFolds(g, row, T)
  <2>1. g = h
    <3>1. g = [U \in SUBSET T |-> g[U]] /\ h = [U \in SUBSET T |-> h[U]]
      OBVIOUS
    <3> HIDE DEF g, h
    <3> QED
      BY <1>4, <3>1
  <2> HIDE DEF g
  <2> QED
    BY <2>1 DEF GcdFolds, x
<1>6. GcdFolds(fold, row, T)
  <2> HIDE DEF g
  <2> QED
    BY <1>5, Zenon
<1>7. FoldFunction(LAMBDA a, b : gcd[<<a, b>>], 0, row) = fold[T]
  <2>1. DOMAIN row = T
    OBVIOUS
  <2> QED
    BY <2>1, Zenon DEF FoldFunction, FoldFunctionOnSet, MapThenFoldSet, GcdFolds
<1> HIDE DEF fold, g, h
<1> DEFINE Q == {U \in SUBSET T : ~ IsGcdOf(fold[U], row, U)}
<1>8. Q = {}
  <2> SUFFICES ASSUME Q # {} PROVE FALSE
    OBVIOUS
  <2>1. Q \subseteq FiniteSubsetsOf(T)
    BY FS_Subset DEF FiniteSubsetsOf
  <2>2. PICK U \in Q : \A V \in Q : V \subseteq U => V = U
    <3> HIDE DEF Q
    <3> QED
      BY <2>1, MinimalSet
  <2>3. fold[U] = IF U = {} THEN 0 ELSE gcd[<<row[x(U)], fold[U \ {x(U)}]>>]
    BY <1>6, <2>2 DEF GcdFolds, x
  <2>4. CASE U = {}
    BY <2>2, <2>3, <2>4, GcdOfSteps
  <2>5. CASE U # {}
    <3> DEFINE V == U \ {x(U)}
               t == x(U)
    <3>1. t \in T /\ V \in SUBSET T /\ V \cup {t} = U /\ V # U
      BY <1>3, <2>2, <2>5
    <3>2. fold[U] = gcd[<<row[t], fold[V]>>]
      BY <2>3, <2>5
    <3> HIDE DEF V, t
    <3>3. IsGcdOf(fold[V], row, V)
      BY <2>2, <3>1
    <3>4. fold[V] \in Nat
      BY <3>3 DEF IsGcdOf
    <3>5. IsGcdOf(gcd[<<row[t], fold[V]>>], row, U)
      BY <3>1, <3>3, <3>4, GcdOfSteps
    <3> QED
      BY <2>2, <3>2, <3>5
  <2> QED
    BY <2>4, <2>5
<1>9. T \in SUBSET T /\ IsGcdOf(fold[T], row, T)
  BY <1>8
<1> QED
  BY <1>7, <1>9

-----------------------------------------------------------------------------
\* The rows that stand for the calls.
RowSet == {Row(i) : i \in DOMAIN calls}

\* A history is a sequence; its length is that of the calls.
LEMMA CallsAreSequence ==
  ASSUME calls \in Histories
  PROVE  /\ \E S : calls \in Seq(S)
         /\ DOMAIN calls = 1..Len(calls) /\ Len(calls) \in Nat
         /\ \A i \in DOMAIN calls : calls[i].tool \in Tool
<1> DEFINE C == [tool : Tool, session : {calls[n].session : n \in DOMAIN calls}, interval : Int]
<1>1. calls \in Seq(C)
  BY LearningAssumption
<1>2. \A c \in C : c.tool \in Tool
  OBVIOUS
<1> HIDE DEF C
<1> QED
  BY <1>1, <1>2

\* What a request may have read of the table.
Table(indices) == indices \in Seq(DOMAIN calls) /\ Recorded(indices)

\* The calls at increasing places of recorded ones are recorded.
LEMMA RecordedPart ==
  ASSUME NEW at, Recorded(at), DOMAIN at \subseteq Int,
         \A n \in DOMAIN at : at[n] \in Int,
         NEW J, J \subseteq Int, NEW b \in [J -> DOMAIN at],
         \A m, n \in J : m < n => b[m] < b[n]
  PROVE  Recorded([n \in J |-> at[b[n]]])
<1> DEFINE p == [n \in J |-> at[b[n]]]
<1>1. DOMAIN p = J /\ \A n \in J : p[n] = at[b[n]] /\ b[n] \in DOMAIN at
  OBVIOUS
<1> HIDE DEF p
<1>2. InOrder(p)
  BY <1>1 DEF Recorded, InOrder
<1>3. ASSUME IsInjective(delivered) PROVE IsInjective(p)
  <2>1. \A m, n \in DOMAIN at : at[m] = at[n] => m = n
    BY <1>3, Zenon DEF Recorded, IsInjective
  <2>2. \A m, n \in J : p[m] = p[n] => b[m] = b[n]
    BY <1>1, <2>1
  <2>3. \A m, n \in J : b[m] = b[n] => m = n
    <3> SUFFICES ASSUME NEW m \in J, NEW n \in J, b[m] = b[n] PROVE m = n
      OBVIOUS
    <3>1. b[m] \in Int /\ b[n] \in Int /\ m \in Int /\ n \in Int
      OBVIOUS
    <3> QED
      BY <3>1
  <2>4. \A m, n \in DOMAIN p : p[m] = p[n] => m = n
    <3> SUFFICES ASSUME NEW m \in J, NEW n \in J, p[m] = p[n] PROVE m = n
      BY <1>1, Zenon
    <3>1. b[m] = b[n]
      BY <2>2, Zenon
    <3> QED
      BY <2>3, <3>1, Zenon
  <2> QED
    BY <2>4, Zenon DEF IsInjective
<1> QED
  BY <1>2, <1>3 DEF Recorded, p

\* A part of what was read of the table is itself something read of it.
LEMMA TablePart ==
  ASSUME calls \in Histories, NEW D, Table(D), NEW i \in Nat \ {0}, NEW j \in Nat, j <= Len(D)
  PROVE  Table(SubSeq(D, i, j))
<1> DEFINE n == IF i <= j THEN j - i + 1 ELSE 0
           b == [k \in 1..n |-> i + k - 1]
<1>1. D \in Seq(DOMAIN calls) /\ Recorded(D)
  BY DEF Table
<1>2. DOMAIN D = 1..Len(D) /\ Len(D) \in Nat /\ \A k \in DOMAIN D : D[k] \in Int
  <2>1. DOMAIN calls \subseteq Int
    BY CallsAreSequence
  <2> QED
    BY <1>1, <2>1
<1>3. n \in Nat /\ b \in [1..n -> DOMAIN D]
  BY <1>2
<1>4. \A k, m \in 1..n : k < m => b[k] < b[m]
  OBVIOUS
<1>5. SubSeq(D, i, j) = [k \in 1..n |-> D[b[k]]]
  BY <1>2
<1>6. SubSeq(D, i, j) \in Seq(DOMAIN calls)
  BY <1>1
<1> HIDE DEF b, n
<1>7. Recorded([k \in 1..n |-> D[b[k]]])
  <2>1. 1..n \subseteq Int /\ DOMAIN D \subseteq Int
    BY <1>2, <1>3
  <2> QED
    BY <1>1, <1>2, <1>3, <1>4, <2>1, RecordedPart
<1> QED
  BY <1>5, <1>6, <1>7 DEF Table

\* The rows of the table are rows of calls.
LEMMA RowsAreCalls ==
  ASSUME NEW D, Table(D)
  PROVE  /\ Rows(D) \in Seq(RowSet) /\ DOMAIN Rows(D) = DOMAIN D
         /\ \A n \in DOMAIN D : D[n] \in DOMAIN calls /\ Rows(D)[n] = Row(D[n])
<1>1. DOMAIN D = 1..Len(D) /\ Len(D) \in Nat /\ \A n \in DOMAIN D : D[n] \in DOMAIN calls
  BY DEF Table
<1>2. \A n \in DOMAIN D : Row(D[n]) \in RowSet
  BY <1>1 DEF RowSet
<1>3. Rows(D) = [n \in 1..Len(D) |-> Row(D[n])]
  BY <1>1 DEF Rows
<1> QED
  BY <1>1, <1>2, <1>3

\* p gives the call of each of the rows of one session.
Session(p, rows, s) ==
  /\ p \in [DOMAIN rows -> DOMAIN calls]
  /\ \A n \in DOMAIN rows : rows[n].tool = calls[p[n]].tool /\ calls[p[n]].session = s
  /\ Recorded(p)

\* The rows of one session are rows of its calls.
LEMMA OfAreCalls ==
  ASSUME calls \in Histories, NEW D, Table(D), NEW s
  PROVE  Of(Rows(D), s) \in Seq(RowSet) /\ \E p : Session(p, Of(Rows(D), s), s)
<1> DEFINE rows == Rows(D)
           keep == {n \in DOMAIN rows : rows[n].session = s}
           c == Of(rows, s)
<1>1. /\ rows \in Seq(RowSet) /\ DOMAIN rows = DOMAIN D
      /\ \A n \in DOMAIN D : D[n] \in DOMAIN calls /\ rows[n] = Row(D[n])
  BY RowsAreCalls
<1>2. rows \in Seq(RowSet)
  BY RowsAreCalls
<1> HIDE DEF rows
<1>3. c = Chosen(rows, keep)
  <2>1. [n \in DOMAIN rows |-> IF rows[n].session = s THEN <<rows[n]>> ELSE <<>>]
          = [n \in DOMAIN rows |-> IF n \in keep THEN <<rows[n]>> ELSE <<>>]
    OBVIOUS
  <2> QED
    BY <2>1 DEF Of, Chosen
<1>4. \A n \in keep : n \in DOMAIN rows /\ rows[n].session = s
  OBVIOUS
<1> HIDE DEF keep, c
<1>5. c \in Seq(RowSet) /\ \E bt : Locates(bt, c, rows, keep)
  BY <1>2, <1>3, ChosenPlaces
<1>6. PICK bt : Locates(bt, c, rows, keep)
  BY <1>5
<1> DEFINE p == [n \in DOMAIN c |-> D[bt[n]]]
<1>7. ASSUME NEW n \in DOMAIN c
      PROVE  /\ bt[n] \in DOMAIN rows /\ p[n] \in DOMAIN calls
             /\ c[n] = Row(p[n]) /\ c[n].session = s
  BY <1>1, <1>4, <1>6 DEF Locates
<1>8. Recorded(p)
  <2>1. /\ D \in Seq(DOMAIN calls) /\ Recorded(D) /\ DOMAIN calls \subseteq Int
    BY CallsAreSequence DEF Table
  <2>2. DOMAIN D \subseteq Int /\ \A n \in DOMAIN D : D[n] \in Int
    BY <2>1
  <2>3. DOMAIN c \subseteq Int /\ \A n \in DOMAIN c : bt[n] \in DOMAIN D
    BY <1>1, <1>5, <1>7
  <2>4. \A m, n \in DOMAIN c : m < n => bt[m] < bt[n]
    BY <1>6 DEF Locates
  <2> DEFINE b == [n \in DOMAIN c |-> bt[n]]
  <2>5. b \in [DOMAIN c -> DOMAIN D] /\ \A m, n \in DOMAIN c : m < n => b[m] < b[n]
    BY <2>3, <2>4
  <2>6. p = [n \in DOMAIN c |-> D[b[n]]]
    OBVIOUS
  <2> HIDE DEF b, p
  <2> QED
    BY <2>1, <2>2, <2>3, <2>5, <2>6, RecordedPart
<1>9. p \in [DOMAIN c -> DOMAIN calls]
  BY <1>7
<1> HIDE DEF p
<1>10. \A n \in DOMAIN c : c[n].tool = calls[p[n]].tool /\ calls[p[n]].session = s
  BY <1>7 DEF Row
<1>11. Session(p, c, s)
  BY <1>8, <1>9, <1>10 DEF Session
<1> QED
  BY <1>5, <1>11 DEF c, rows
-----------------------------------------------------------------------------
\* What happened, call by call.
Placed(place, sequence) ==
  /\ place \in [DOMAIN sequence -> DOMAIN calls]
  /\ \A k \in DOMAIN sequence :
       /\ calls[place[k]].tool = sequence[k]
       /\ calls[place[k]].session = calls[place[1]].session
  /\ Recorded(place)

\* A sequence of tools with a place among the calls for each happened.
LEMMA PlacedHappened ==
  ASSUME NEW sequence, NEW place, Placed(place, sequence)
  PROVE  Happened(sequence)
BY DEF Placed, Happened

\* A single call happened ..
LEMMA CallHappened ==
  ASSUME NEW i \in DOMAIN calls
  PROVE  Happened(<<calls[i].tool>>)
<1> DEFINE q == <<calls[i].tool>>
           place == [k \in 1..1 |-> i]
<1>1. DOMAIN q = 1..1 /\ q[1] = calls[i].tool
  OBVIOUS
<1> HIDE DEF q
<1>2. Recorded(place)
  BY DEF Recorded, InOrder, IsInjective
<1>3. Placed(place, q)
  BY <1>1, <1>2 DEF Placed
<1> HIDE DEF place
<1> QED
  BY <1>3, PlacedHappened DEF q

\* .. and so did two calls of one session, in their order.
LEMMA PairHappened ==
  ASSUME calls \in Histories, NEW i \in DOMAIN calls, NEW j \in DOMAIN calls, i < j,
         calls[i].session = calls[j].session
  PROVE  Happened(<<calls[i].tool, calls[j].tool>>)
<1> DEFINE q == <<calls[i].tool, calls[j].tool>>
           place == [k \in 1..2 |-> IF k = 1 THEN i ELSE j]
<1>1. DOMAIN q = 1..2 /\ q[1] = calls[i].tool /\ q[2] = calls[j].tool
  OBVIOUS
<1> HIDE DEF q
<1>2. place[1] = i /\ place[2] = j /\ place \in [DOMAIN q -> DOMAIN calls]
  BY <1>1
<1> HIDE DEF place
<1>3. Placed(place, q)
  <2>1. \A k \in 1..2 : k = 1 \/ k = 2
    OBVIOUS
  <2>2. DOMAIN place = 1..2 /\ i \in Int /\ j \in Int
    BY <1>1, <1>2, CallsAreSequence
  <2>3. InOrder(place) /\ IsInjective(place)
    BY <1>2, <2>1, <2>2 DEF InOrder, IsInjective
  <2> QED
    BY <1>1, <1>2, <2>1, <2>3 DEF Placed, Recorded
<1> QED
  BY <1>3, PlacedHappened DEF q

\* What a pair ends with happened.
LEMMA SecondHappened ==
  ASSUME NEW a, NEW b, Happened(<<a, b>>)
  PROVE  Happened(<<b>>)
<1> DEFINE q == <<a, b>>
<1>1. DOMAIN q = 1..2 /\ q[2] = b
  OBVIOUS
<1> HIDE DEF q
<1>2. Happened(q)
  BY DEF q
<1>3. PICK place \in [DOMAIN q -> DOMAIN calls] : \A k \in DOMAIN q : calls[place[k]].tool = q[k]
  BY <1>2 DEF Happened
<1>4. place[2] \in DOMAIN calls /\ calls[place[2]].tool = b
  BY <1>1, <1>3
<1> QED
  BY <1>4, CallHappened
-----------------------------------------------------------------------------
\* Every chain of calls that the server counts happened.
LEMMA WindowsHappened ==
  ASSUME calls \in Histories, NEW D, Table(D), NEW n \in Nat \ {0},
         NEW w \in Windows(Rows(D), n)
  PROVE  Happened(w.chain)
<1>1. PICK s, i : /\ i \in 1..Len(Tools(Of(Rows(D), s))) - n + 1
                  /\ w.chain = SubSeq(Tools(Of(Rows(D), s)), i, i + n - 1)
  <2> DEFINE W(s) == {[at |-> <<s, i>>, chain |-> SubSeq(Tools(Of(Rows(D), s)), i, i + n - 1)] :
                        i \in 1..Len(Tools(Of(Rows(D), s))) - n + 1}
  <2>1. Windows(Rows(D), n) = UNION {W(s) : s \in Sessions(Rows(D))}
    BY Zenon DEF Windows
  <2>2. PICK s : w \in W(s)
    <3> HIDE DEF W
    <3> QED
      BY <2>1
  <2>3. PICK i \in 1..Len(Tools(Of(Rows(D), s))) - n + 1 :
          w = [at |-> <<s, i>>, chain |-> SubSeq(Tools(Of(Rows(D), s)), i, i + n - 1)]
    BY <2>2, Zenon
  <2>4. w.chain = SubSeq(Tools(Of(Rows(D), s)), i, i + n - 1)
    BY <2>3, Zenon
  <2> QED
    BY <2>4
<1> DEFINE c == Of(Rows(D), s)
           tools == Tools(c)
           l == Len(c)
           q == SubSeq(tools, i, i + n - 1)
<1>2. PICK p : Session(p, c, s)
  BY OfAreCalls
<1>3. c \in Seq(RowSet) /\ l \in Nat /\ DOMAIN c = 1..l
  BY OfAreCalls
<1> HIDE DEF c
<1>4. tools = [k \in 1..l |-> c[k].tool]
  BY <1>3 DEF Tools
<1>5. Len(tools) = l /\ \A k \in 1..l : tools[k] = c[k].tool
  BY <1>3, <1>4
<1>6. tools \in Seq({c[k].tool : k \in 1..l})
  BY <1>3, <1>4
<1> HIDE DEF tools, l
<1>7. i \in 1..l - n + 1 /\ w.chain = q
  BY <1>1, <1>5 DEF tools, c
<1>8. i \in Nat \ {0} /\ i + n - 1 \in Nat /\ i + n - 1 <= l
  BY <1>3, <1>7
<1>9. DOMAIN q = 1..n /\ \A k \in 1..n : q[k] = tools[i + k - 1]
  BY <1>3, <1>5, <1>6, <1>8
<1> HIDE DEF q
<1>10. \A k \in 1..n : i + k - 1 \in 1..l
  BY <1>3, <1>8
<1> DEFINE place == [k \in 1..n |-> p[i + k - 1]]
<1>11. ASSUME NEW k \in 1..n
       PROVE  /\ place[k] \in DOMAIN calls
              /\ calls[place[k]].tool = q[k] /\ calls[place[k]].session = s
  <2>1. i + k - 1 \in DOMAIN c
    BY <1>3, <1>10
  <2>2. /\ p[i + k - 1] \in DOMAIN calls /\ c[i + k - 1].tool = calls[p[i + k - 1]].tool
        /\ calls[p[i + k - 1]].session = s
    BY <1>2, <2>1 DEF Session
  <2> QED
    BY <1>3, <1>5, <1>9, <2>1, <2>2
<1>12. Recorded(place)
  <2> DEFINE b == [k \in 1..n |-> i + k - 1]
  <2>1. /\ b \in [1..n -> DOMAIN c] /\ 1..n \subseteq Int
        /\ \A k, m \in 1..n : k < m => b[k] < b[m]
    BY <1>3, <1>8, <1>10
  <2>2. place = [k \in 1..n |-> p[b[k]]]
    OBVIOUS
  <2>3. /\ p \in [DOMAIN c -> DOMAIN calls] /\ Recorded(p)
        /\ DOMAIN calls \subseteq Int /\ DOMAIN c \subseteq Int
    BY <1>2, <1>3, CallsAreSequence DEF Session
  <2>4. DOMAIN p = DOMAIN c /\ \A k \in DOMAIN p : p[k] \in Int
    BY <2>3
  <2> HIDE DEF b, place
  <2> QED
    BY <2>1, <2>2, <2>3, <2>4, RecordedPart
<1>13. place \in [DOMAIN q -> DOMAIN calls] /\ 1 \in 1..n
  <2>1. DOMAIN q = 1..n
    BY <1>9
  <2>2. \A k \in 1..n : p[i + k - 1] \in DOMAIN calls
    BY <1>11
  <2>3. place \in [1..n -> DOMAIN calls]
    BY Zenon, <2>2
  <2> QED
    BY <2>1, <2>3
<1> HIDE DEF place
<1>14. calls[place[1]].session = s
  BY <1>11, <1>13
<1>15. Placed(place, q)
  <2>1. \A k \in 1..n : /\ calls[place[k]].tool = q[k]
                       /\ calls[place[k]].session = calls[place[1]].session
    BY <1>11, <1>14
  <2>2. DOMAIN q = 1..n
    BY <1>9
  <2> QED
    BY <1>12, <1>13, <2>1, <2>2 DEF Placed
<1> QED
  BY <1>7, <1>15, PlacedHappened

\* The windows of a sequence of rows are finitely many.
LEMMA WindowsFinite ==
  ASSUME NEW S, NEW rows \in Seq(S), NEW n \in Nat \ {0}
  PROVE  IsFiniteSet(Windows(rows, n))
<1> DEFINE tools(s) == Tools(Of(rows, s))
           W(s) == {[at |-> <<s, i>>, chain |-> SubSeq(tools(s), i, i + n - 1)] :
                      i \in 1..Len(tools(s)) - n + 1}
           f == [s \in Sessions(rows) |-> W(s)]
<1>1. IsFiniteSet(Sessions(rows))
  <2> DEFINE g == [k \in DOMAIN rows |-> rows[k].session]
  <2>1. IsFiniteSet(DOMAIN rows)
    <3>1. DOMAIN rows = 1..Len(rows) /\ Len(rows) \in Nat
      OBVIOUS
    <3> QED
      BY <3>1, FS_Interval
  <2>2. IsFiniteSet({g[k] : k \in DOMAIN rows})
    <3> HIDE DEF g
    <3> QED
      BY <2>1, ImageFinite
  <2>3. {g[k] : k \in DOMAIN rows} = Sessions(rows)
    BY DEF Sessions
  <2> QED
    BY <2>2, <2>3
<1>2. ASSUME NEW s \in Sessions(rows) PROVE IsFiniteSet(W(s))
  <2> DEFINE l == Len(tools(s)) - n + 1
             g == [i \in 1..l |-> [at |-> <<s, i>>, chain |-> SubSeq(tools(s), i, i + n - 1)]]
  <2>1. Of(rows, s) \in Seq(S)
    <3> DEFINE keep == {k \in DOMAIN rows : rows[k].session = s}
    <3>1. [k \in DOMAIN rows |-> IF rows[k].session = s THEN <<rows[k]>> ELSE <<>>]
            = [k \in DOMAIN rows |-> IF k \in keep THEN <<rows[k]>> ELSE <<>>]
      OBVIOUS
    <3>2. Of(rows, s) = Chosen(rows, keep)
      BY <3>1 DEF Of, Chosen
    <3> HIDE DEF keep
    <3> QED
      BY <3>2, ChosenPlaces
  <2>2. l \in Int
    <3>1. \A c \in Seq(S) : Len(Tools(c)) \in Nat
      BY DEF Tools
    <3> QED
      BY <2>1, <3>1
  <2>3. IsFiniteSet(1..l)
    BY <2>2, FS_Interval
  <2>4. W(s) = {g[i] : i \in 1..l}
    OBVIOUS
  <2>5. IsFiniteSet({g[i] : i \in 1..l})
    <3> HIDE DEF g, l
    <3> QED
      BY <2>3, ImageFinite
  <2> HIDE DEF g, l, W
  <2> QED
    BY <2>4, <2>5
<1>3. IsFiniteSet({f[s] : s \in Sessions(rows)})
  <2> HIDE DEF f
  <2> QED
    BY <1>1, ImageFinite
<1>4. \A T \in {f[s] : s \in Sessions(rows)} : IsFiniteSet(T)
  <2> HIDE DEF W
  <2> QED
    BY <1>2
<1>5. Windows(rows, n) = UNION {f[s] : s \in Sessions(rows)}
  <2>1. {f[s] : s \in Sessions(rows)} = {W(s) : s \in Sessions(rows)}
    <3> HIDE DEF W
    <3> QED
      OBVIOUS
  <2>2. Windows(rows, n) = UNION {W(s) : s \in Sessions(rows)}
    BY Zenon DEF Windows
  <2> QED
    BY <2>1, <2>2
<1> HIDE DEF f
<1> QED
  BY <1>3, <1>4, <1>5, FS_UNION

\* A chain is counted as often as it is seen, and only when it is.
LEMMA SeenNatural ==
  ASSUME NEW S, NEW rows \in Seq(S), NEW n \in Nat \ {0}, NEW chain
  PROVE  /\ Seen(Windows(rows, n), chain) \in Nat
         /\ Seen(Windows(rows, n), chain) > 0 => \E w \in Windows(rows, n) : w.chain = chain
<1> DEFINE W == Windows(rows, n)
           V == {w \in W : w.chain = chain}
<1>1. IsFiniteSet(V)
  <2>1. IsFiniteSet(W)
    BY WindowsFinite
  <2> HIDE DEF W
  <2> QED
    BY <2>1, FS_Subset
<1>2. Seen(W, chain) = Cardinality(V)
  BY DEF Seen
<1>3. V # {} => \E w \in W : w.chain = chain
  OBVIOUS
<1> HIDE DEF V
<1>4. Cardinality(V) \in Nat /\ (V = {} => Cardinality(V) = 0)
  BY <1>1, FS_CardinalityType, FS_EmptySet
<1> QED
  BY <1>2, <1>3, <1>4

-----------------------------------------------------------------------------
RowType == [Tool -> Nat]
MatrixType == [Tool -> RowType]

\* A weight is a natural number, 0 when nothing weighs.
LEMMA WeightType ==
  ASSUME NEW row \in RowType
  PROVE  Weight(row) \in Nat /\ ((\A t \in Tool : row[t] = 0) => Weight(row) = 0)
<1> DEFINE P == {T \in SUBSET Tool : SumFunctionOnSet(row, T) \in Nat}
<1>1. IsFiniteSet(Tool) /\ \A t \in Tool : row[t] \in Nat
  BY TransitionAssumption DEF RowType
<1>2. {} \in P
  BY SumEmpty
<1>3. ASSUME NEW T \in SUBSET Tool, NEW t \in Tool \ T, T \in P PROVE T \cup {t} \in P
  <2>1. IsFiniteSet(T) /\ \A u \in T \cup {t} : row[u] \in Int
    BY <1>1, FS_Subset
  <2>2. SumFunctionOnSet(row, T \cup {t}) = row[t] + SumFunctionOnSet(row, T)
    BY <2>1, SumAdd
  <2> QED
    BY <1>1, <1>3, <2>2
<1> HIDE DEF P
<1>4. Tool \in P
  BY <1>1, <1>2, <1>3, FiniteSetInduction
<1>5. ASSUME \A t \in Tool : row[t] = 0 PROVE Weight(row) = 0
  <2>1. \A t \in Tool : row[t] \in Int /\ 0 <= row[t] /\ row[t] <= 0
    BY <1>5
  <2>2. /\ 0 * Cardinality(Tool) <= SumFunctionOnSet(row, Tool)
        /\ SumFunctionOnSet(row, Tool) <= 0 * Cardinality(Tool)
    BY <1>1, <2>1, SumBounds
  <2>3. Cardinality(Tool) \in Nat /\ SumFunctionOnSet(row, Tool) \in Nat
    BY <1>1, <1>4, FS_CardinalityType DEF P
  <2>4. 0 * Cardinality(Tool) = 0
    BY <2>3
  <2> QED
    BY <2>2, <2>3, <2>4 DEF Weight
<1> QED
  BY <1>4, <1>5 DEF P, Weight

\* A multiple is divided exactly.
LEMMA DivideMultiple ==
  ASSUME NEW q \in Nat, NEW d \in Nat \ {0}
  PROVE  (q * d) \div d = q
<1> DEFINE n == q * d
           k == n \div d
           r == n % d
<1>1. n \in Nat
  OBVIOUS
<1> HIDE DEF n
<1>2. k \in Nat /\ r \in Nat /\ r < d /\ n = d * k + r
  BY <1>1
<1> HIDE DEF k, r
<1>3. d * q = d * k + r
  BY <1>2 DEF n
<1>4. CASE q < k
  <2>1. PICK j \in Nat : k = q + 1 + j
    <3>1. k - q - 1 \in Nat /\ k = q + 1 + (k - q - 1)
      BY <1>2, <1>4
    <3> QED
      BY <3>1
  <2>2. d * k = d * q + d + d * j /\ d * j \in Nat /\ d * q \in Nat
    BY <2>1
  <2> QED
    BY <1>2, <1>3, <2>2
<1>5. CASE k < q
  <2>1. PICK j \in Nat : q = k + 1 + j
    <3>1. q - k - 1 \in Nat /\ q = k + 1 + (q - k - 1)
      BY <1>2, <1>5
    <3> QED
      BY <3>1
  <2>2. d * q = d * k + d + d * j /\ d * j \in Nat /\ d * k \in Nat
    BY <1>2, <2>1
  <2> QED
    BY <1>2, <1>3, <2>2
<1> QED
  BY <1>2, <1>4, <1>5 DEF k, n

\* The divisor Normalised divides by.
Divisor(row) == FoldFunction(LAMBDA a, b : gcd[<<a, b>>], 0, row)

\* A row of zeros stays; any other is divided exactly.
LEMMA NormalisedAt ==
  ASSUME NEW row \in RowType
  PROVE  /\ IsGcdOf(Divisor(row), row, Tool)
         /\ Divisor(row) = 0 => Normalised(row) = [t \in Tool |-> 0]
         /\ Divisor(row) # 0 => /\ Normalised(row) \in RowType
                                /\ \A t \in Tool : row[t] = Normalised(row)[t] * Divisor(row)
<1> DEFINE d == Divisor(row)
           n == Normalised(row)
<1>1. IsGcdOf(d, row, Tool)
  <2>1. IsFiniteSet(Tool) /\ row \in [Tool -> Nat]
    BY TransitionAssumption DEF RowType
  <2> QED
    BY <2>1, GcdFold DEF Divisor
<1>2. n = [t \in Tool |-> IF d = 0 THEN 0 ELSE row[t] \div d]
  BY Zenon DEF Normalised, Divisor
<1> HIDE DEF d, n
<1>3. d = 0 => n = [t \in Tool |-> 0]
  BY <1>2
<1>4. ASSUME d # 0, NEW t \in Tool
      PROVE  n[t] \in Nat /\ row[t] = n[t] * d
  <2>1. d \in Nat \ {0} /\ Divides(d, row[t])
    BY <1>1, <1>4 DEF IsGcdOf
  <2>2. PICK q \in Nat : row[t] = q * d
    BY <2>1 DEF Divides
  <2>3. (q * d) \div d = q
    BY <2>1, DivideMultiple
  <2>4. n[t] = row[t] \div d
    BY <1>2, <1>4
  <2> QED
    BY <2>2, <2>3, <2>4
<1>5. d # 0 => n \in RowType
  <2>1. DOMAIN n = Tool /\ n = [t \in Tool |-> n[t]]
    BY <1>2
  <2> QED
    BY <1>4, <2>1 DEF RowType
<1> QED
  BY <1>1, <1>3, <1>4, <1>5 DEF d, n

\* Normalised gives a row that is positive only where its argument is.
LEMMA NormalisedType ==
  ASSUME NEW row \in RowType
  PROVE  /\ Normalised(row) \in RowType
         /\ \A t \in Tool : Normalised(row)[t] > 0 => row[t] > 0
<1> DEFINE d == Divisor(row)
           n == Normalised(row)
<1>1. CASE d = 0
  <2>1. n = [t \in Tool |-> 0]
    BY <1>1, NormalisedAt
  <2> HIDE DEF n
  <2>2. n \in RowType /\ \A t \in Tool : n[t] = 0
    BY <2>1 DEF RowType
  <2> QED
    BY <2>2 DEF n
<1>2. CASE d # 0
  <2>1. n \in RowType /\ \A t \in Tool : row[t] = n[t] * d
    BY <1>2, NormalisedAt
  <2>2. d \in Nat
    BY NormalisedAt DEF IsGcdOf
  <2> HIDE DEF n, d
  <2>3. \A a \in Nat : a > 0 /\ d > 0 => a * d > 0
    BY <2>2
  <2>4. n \in RowType /\ \A t \in Tool : n[t] > 0 => row[t] > 0
    BY <1>2, <2>1, <2>2, <2>3 DEF RowType
  <2> QED
    BY <2>4 DEF n
<1> QED
  BY <1>1, <1>2

\* The values of a normalised row have no common divisor ..
LEMMA NormalisedCoprime ==
  ASSUME NEW y \in RowType, NEW k \in Nat,
         \A t \in Tool : Divides(k, Normalised(y)[t]),
         ~ \A t \in Tool : Normalised(y)[t] = 0
  PROVE  k = 1
<1> DEFINE d == Divisor(y)
           x == Normalised(y)
<1>1. IsGcdOf(d, y, Tool)
  BY NormalisedAt
<1>2. d # 0
  <2> SUFFICES ASSUME d = 0 PROVE FALSE
    OBVIOUS
  <2>1. x = [t \in Tool |-> 0]
    BY NormalisedAt
  <2> QED
    BY <2>1
<1>3. x \in RowType /\ \A t \in Tool : y[t] = x[t] * d
  BY <1>2, NormalisedAt
<1>0. \A t \in Tool : Divides(k, x[t])
  OBVIOUS
<1> HIDE DEF d, x
<1>4. d \in Nat \ {0}
  BY <1>1, <1>2 DEF IsGcdOf
<1>5. ASSUME NEW t \in Tool PROVE Divides(k * d, y[t])
  <2>1. PICK q \in Nat : x[t] = q * k
    BY <1>0 DEF Divides
  <2>2. (q * k) * d = q * (k * d)
    BY <1>4
  <2>3. y[t] = q * (k * d)
    BY <1>3, <2>1, <2>2
  <2> QED
    BY <2>3 DEF Divides
<1>6. k * d \in Nat
  BY <1>4
<1>7. Divides(k * d, d)
  BY <1>1, <1>5, <1>6 DEF IsGcdOf
<1>8. PICK q \in Nat : d = q * (k * d)
  BY <1>7 DEF Divides
<1>9. q * (k * d) = (q * k) * d /\ q * k \in Nat
  BY <1>4
<1>10. q * k = 1
  <2>1. (1 * d) \div d = 1 /\ ((q * k) * d) \div d = q * k
    BY <1>4, <1>9, DivideMultiple
  <2>2. 1 * d = (q * k) * d
    BY <1>4, <1>8, <1>9
  <2> QED
    BY <2>1, <2>2
<1>11. Divides(k, 1) /\ Divides(1, k)
  <2>1. 1 = q * k /\ k = k * 1
    BY <1>10
  <2> QED
    BY <2>1 DEF Divides
<1> QED
  BY <1>11, DividesOrder

\* .. so that a multiple of it is normalised to the row.
LEMMA NormalisedMultiple ==
  ASSUME NEW y \in RowType, NEW c \in Nat \ {0}, NEW z \in RowType,
         \A t \in Tool : z[t] = c * Normalised(y)[t],
         ~ \A t \in Tool : Normalised(y)[t] = 0
  PROVE  Normalised(z) = Normalised(y)
<1> DEFINE x == Normalised(y)
           d == Divisor(z)
           n == Normalised(z)
<1>1. x \in RowType /\ \A t \in Tool : z[t] = c * x[t]
  BY NormalisedType
<1>2. IsGcdOf(d, z, Tool)
  BY NormalisedAt
<1>3. PICK t \in Tool : x[t] # 0
  OBVIOUS
<1>4. \A k \in Nat : (\A u \in Tool : Divides(k, x[u])) => k = 1
  BY NormalisedCoprime
<1>5. d # 0 => n \in RowType /\ \A u \in Tool : z[u] = n[u] * d
  BY NormalisedAt
<1> HIDE DEF x, d, n
<1>6. d \in Nat /\ \A u \in Tool : Divides(d, z[u]) /\ x[u] \in Nat
  BY <1>1, <1>2 DEF IsGcdOf, RowType
<1>7. Divides(c, d)
  <2>1. ASSUME NEW u \in Tool PROVE Divides(c, z[u])
    <3>1. z[u] = x[u] * c
      BY <1>1, <1>6
    <3> QED
      BY <1>6, <3>1 DEF Divides
  <2> QED
    BY <1>2, <2>1 DEF IsGcdOf
<1>8. PICK k \in Nat : d = k * c
  BY <1>7 DEF Divides
<1>9. ASSUME NEW u \in Tool PROVE Divides(k, x[u])
  <2>1. PICK q \in Nat : z[u] = q * d
    BY <1>6 DEF Divides
  <2>2. x[u] * c = (q * k) * c /\ q * k \in Nat
    <3>1. q * (k * c) = (q * k) * c /\ c * x[u] = x[u] * c
      BY <1>6
    <3> QED
      BY <1>1, <1>8, <2>1, <3>1
  <2>3. (x[u] * c) \div c = x[u] /\ ((q * k) * c) \div c = q * k
    BY <1>6, <2>2, DivideMultiple
  <2> QED
    BY <2>2, <2>3 DEF Divides
<1>10. k = 1 /\ d = c
  BY <1>4, <1>8, <1>9
<1>11. ASSUME NEW u \in Tool PROVE n[u] = x[u]
  <2>1. n[u] \in Nat /\ z[u] = n[u] * c /\ z[u] = x[u] * c
    BY <1>1, <1>5, <1>6, <1>10 DEF RowType
  <2>2. (n[u] * c) \div c = n[u] /\ (x[u] * c) \div c = x[u]
    BY <1>6, <2>1, DivideMultiple
  <2> QED
    BY <2>1, <2>2
<1>12. n \in RowType
  BY <1>5, <1>10
<1>13. n = x
  BY <1>1, <1>11, <1>12 DEF RowType
<1> QED
  BY <1>13 DEF n, x
-----------------------------------------------------------------------------
\* A blended row is positive only where one of the two is.
LEMMA BlendType ==
  ASSUME NEW prior \in RowType, NEW new \in RowType
  PROVE  /\ BlendRow(prior, new) \in RowType
         /\ \A t \in Tool : BlendRow(prior, new)[t] > 0 => prior[t] > 0 \/ new[t] > 0
<1> DEFINE v == Weight(prior)
           w == Weight(new)
           mixed == [t \in Tool |-> 3 * new[t] * v + 7 * prior[t] * w]
<1>1. v \in Nat /\ w \in Nat
  BY WeightType
<1>2. BlendRow(prior, new) = IF v = 0 THEN new ELSE IF w = 0 THEN prior ELSE Normalised(mixed)
  BY DEF BlendRow
<1> HIDE DEF v, w
<1>3. ASSUME NEW t \in Tool
      PROVE  mixed[t] \in Nat /\ (mixed[t] > 0 => prior[t] > 0 \/ new[t] > 0)
  <2>1. new[t] \in Nat /\ prior[t] \in Nat
    BY DEF RowType
  <2>2. \A a \in Nat, b \in Nat : /\ 3 * a * v + 7 * b * w \in Nat
                                  /\ a = 0 /\ b = 0 => 3 * a * v + 7 * b * w = 0
    BY <1>1
  <2> QED
    BY <2>1, <2>2
<1>4. mixed \in RowType
  BY <1>3 DEF RowType
<1> HIDE DEF mixed
<1>5. /\ Normalised(mixed) \in RowType
      /\ \A t \in Tool : Normalised(mixed)[t] > 0 => mixed[t] > 0
  BY <1>4, NormalisedType
<1> QED
  BY <1>2, <1>3, <1>5

\* A normalised row blended with itself, or with nothing, is the row.
LEMMA BlendSame ==
  ASSUME NEW y \in RowType
  PROVE  /\ BlendRow([t \in Tool |-> 0], Normalised(y)) = Normalised(y)
         /\ BlendRow(Normalised(y), Normalised(y)) = Normalised(y)
<1> DEFINE x == Normalised(y)
           w == Weight(x)
           zero == [t \in Tool |-> 0]
           mixed == [t \in Tool |-> 3 * x[t] * w + 7 * x[t] * w]
<1>1. x \in RowType
  BY NormalisedType
<1>2. Weight(zero) = 0
  <2>1. zero \in RowType /\ \A t \in Tool : zero[t] = 0
    BY DEF RowType
  <2> HIDE DEF zero
  <2> QED
    BY <2>1, WeightType
<1>3. BlendRow(zero, x) = x
  <2> HIDE DEF zero, x
  <2> QED
    BY <1>2 DEF BlendRow
<1>4. BlendRow(x, x) = x
  <2>1. BlendRow(x, x) = IF w = 0 THEN x ELSE IF w = 0 THEN x ELSE Normalised(mixed)
    BY DEF BlendRow
  <2>2. w \in Nat
    BY <1>1, WeightType
  <2>3. CASE w = 0
    BY <2>1, <2>3
  <2>4. CASE w # 0
    <3>1. ~ \A t \in Tool : x[t] = 0
      BY <1>1, <2>4, WeightType
    <3> HIDE DEF w
    <3>2. ASSUME NEW t \in Tool PROVE mixed[t] = (10 * w) * x[t] /\ mixed[t] \in Nat
      <4> HIDE DEF x
      <4>1. x[t] \in Nat
        BY <1>1 DEF RowType
      <4>2. \A a \in Nat : 3 * a * w + 7 * a * w = (10 * w) * a /\ 3 * a * w + 7 * a * w \in Nat
        BY <2>2
      <4> QED
        BY <4>1, <4>2
    <3>3. mixed \in RowType
      BY <3>2 DEF RowType
    <3>4. 10 * w \in Nat \ {0}
      BY <2>2, <2>4
    <3> HIDE DEF mixed
    <3>5. Normalised(mixed) = x
      <4> DEFINE c == 10 * w
      <4>1. c \in Nat \ {0} /\ \A t \in Tool : mixed[t] = c * x[t]
        BY <3>2, <3>4
      <4> HIDE DEF c
      <4> QED
        BY <3>1, <3>3, <4>1, NormalisedMultiple
    <3> QED
      BY <2>1, <2>4, <3>5
  <2> QED
    BY <2>3, <2>4
<1> QED
  BY <1>3, <1>4

-----------------------------------------------------------------------------
\* Only transitions that happened have a probability; only pairs that happened
\* are triggers.
Supported(matrix) ==
  \A from, to \in Tool : matrix[from][to] > 0 => Happened(<<from, to>>)
Triggered(triggers) == \A x \in triggers : Happened(x.pair)

\* What the rows count of the transitions from a tool.
Count(rows, from) == [to \in Tool |-> Seen(Windows(rows, 2), <<from, to>>)]

\* What is counted of a tool is natural numbers, and above 0 only for what followed it.
LEMMA CountType ==
  ASSUME calls \in Histories, NEW D, Table(D), NEW from \in Tool
  PROVE  /\ Count(Rows(D), from) \in RowType
         /\ Counted(Rows(D))[from] = Normalised(Count(Rows(D), from))
         /\ \A to \in Tool : Count(Rows(D), from)[to] > 0 => Happened(<<from, to>>)
<1> DEFINE rows == Rows(D)
<1>1. rows \in Seq(RowSet) /\ 2 \in Nat \ {0}
  BY RowsAreCalls
<1> HIDE DEF rows
<1>2. ASSUME NEW to \in Tool
      PROVE  /\ Seen(Windows(rows, 2), <<from, to>>) \in Nat
             /\ Seen(Windows(rows, 2), <<from, to>>) > 0 => Happened(<<from, to>>)
  <2> DEFINE chain == <<from, to>>
  <2> HIDE DEF chain
  <2>1. /\ Seen(Windows(rows, 2), chain) \in Nat
        /\ Seen(Windows(rows, 2), chain) > 0 => \E w \in Windows(rows, 2) : w.chain = chain
    BY <1>1, SeenNatural
  <2>2. \A w \in Windows(rows, 2) : Happened(w.chain)
    BY <1>1, WindowsHappened DEF rows
  <2> QED
    BY <2>1, <2>2 DEF chain
<1>3. Counted(rows)[from] = Normalised(Count(rows, from))
  BY Zenon DEF Counted, Count
<1>4. /\ Count(rows, from) \in RowType
      /\ \A to \in Tool : Count(rows, from)[to] = Seen(Windows(rows, 2), <<from, to>>)
  BY <1>2 DEF Count, RowType
<1> QED
  BY <1>2, <1>3, <1>4 DEF rows

\* The matrix of the rows is one of transitions that happened ..
LEMMA CountedType ==
  ASSUME calls \in Histories, NEW D, Table(D)
  PROVE  Counted(Rows(D)) \in MatrixType /\ Supported(Counted(Rows(D)))
<1> DEFINE m == Counted(Rows(D))
<1>1. m = [from \in Tool |-> m[from]]
  BY Zenon DEF Counted
<1>2. ASSUME NEW from \in Tool
      PROVE  m[from] \in RowType /\ \A to \in Tool : m[from][to] > 0 => Happened(<<from, to>>)
  <2> HIDE DEF m
  <2>1. /\ Count(Rows(D), from) \in RowType
        /\ m[from] = Normalised(Count(Rows(D), from))
        /\ \A to \in Tool : Count(Rows(D), from)[to] > 0 => Happened(<<from, to>>)
    BY CountType DEF m
  <2> QED
    BY <2>1, NormalisedType
<1> HIDE DEF m
<1>3. m \in MatrixType /\ Supported(m)
  BY <1>1, <1>2 DEF MatrixType, Supported
<1> QED
  BY <1>3 DEF m

\* .. so is what a build makes of it and of an earlier such matrix.
LEMMA TransitionsType ==
  ASSUME calls \in Histories, NEW D, Table(D), NEW prior \in MatrixType, Supported(prior)
  PROVE  Transitions(Rows(D), prior) \in MatrixType /\ Supported(Transitions(Rows(D), prior))
<1> DEFINE new == Counted(Rows(D))
           m == [from \in Tool |-> BlendRow(prior[from], new[from])]
<1>1. Transitions(Rows(D), prior) = m
  BY DEF Transitions
<1>2. new \in MatrixType /\ Supported(new)
  BY CountedType
<1> HIDE DEF new
<1>3. ASSUME NEW from \in Tool
      PROVE  /\ m[from] \in RowType
             /\ \A to \in Tool : m[from][to] > 0 => Happened(<<from, to>>)
  <2>1. prior[from] \in RowType /\ new[from] \in RowType
    BY <1>2 DEF MatrixType
  <2>2. /\ m[from] \in RowType
        /\ \A to \in Tool : m[from][to] > 0 => prior[from][to] > 0 \/ new[from][to] > 0
    BY <2>1, BlendType
  <2> QED
    BY <1>2, <2>2 DEF Supported
<1>4. m = [from \in Tool |-> m[from]]
  OBVIOUS
<1> HIDE DEF m
<1>5. m \in MatrixType /\ Supported(m)
  BY <1>3, <1>4 DEF MatrixType, Supported
<1> QED
  BY <1>1, <1>5

\* Blended with nothing, or with itself, what the rows count is what they count.
THEOREM TransitionsSame ==
  ASSUME calls \in Histories, NEW D, Table(D)
  PROVE  /\ Transitions(Rows(D), NoTransitions) = Counted(Rows(D))
         /\ Transitions(Rows(D), Counted(Rows(D))) = Counted(Rows(D))
<1> DEFINE m == Counted(Rows(D))
           zero == [to \in Tool |-> 0]
<1>1. m = [from \in Tool |-> m[from]]
  BY Zenon DEF Counted
<1>2. ASSUME NEW from \in Tool
      PROVE  BlendRow(zero, m[from]) = m[from] /\ BlendRow(m[from], m[from]) = m[from]
  <2> HIDE DEF m
  <2>1. PICK y \in RowType : m[from] = Normalised(y)
    BY CountType DEF m
  <2> QED
    BY <2>1, BlendSame
<1>3. Transitions(Rows(D), NoTransitions)
        = [from \in Tool |-> BlendRow(NoTransitions[from], m[from])]
  BY DEF Transitions
<1>4. Transitions(Rows(D), m) = [from \in Tool |-> BlendRow(m[from], m[from])]
  BY DEF Transitions
<1>5. \A from \in Tool : NoTransitions[from] = zero
  BY DEF NoTransitions
<1> HIDE DEF m, zero
<1>6. [from \in Tool |-> BlendRow(NoTransitions[from], m[from])] = [from \in Tool |-> m[from]]
  BY <1>2, <1>5
<1>7. [from \in Tool |-> BlendRow(m[from], m[from])] = [from \in Tool |-> m[from]]
  BY <1>2
<1>8. Transitions(Rows(D), NoTransitions) = m /\ Transitions(Rows(D), m) = m
  BY <1>1, <1>3, <1>4, <1>6, <1>7
<1> QED
  BY <1>8 DEF m

\* A call that has a preceding tool has an earlier call of its session.
LEMMA PrecedingHappened ==
  ASSUME calls \in Histories, NEW i \in DOMAIN calls, NEW p \in Tool, Preceding(i) = p
  PROVE  Happened(<<p, calls[i].tool>>)
<1> DEFINE before == {j \in 1..i - 1 : calls[j].session = calls[i].session}
<1>1. p # None
  BY TransitionAssumption
<1>2. before # {} /\ p = calls[Max(before)].tool
  BY <1>1 DEF Preceding
<1>3. i \in Nat /\ DOMAIN calls = 1..Len(calls) /\ Len(calls) \in Nat
  BY CallsAreSequence
<1>4. before \subseteq 1..i - 1 /\ IsFiniteSet(before)
  <2>1. IsFiniteSet(1..i - 1)
    BY <1>3, FS_Interval
  <2>2. before \subseteq 1..i - 1
    OBVIOUS
  <2> HIDE DEF before
  <2> QED
    BY <2>1, <2>2, FS_Subset
<1>5. before \subseteq Int
  BY <1>3
<1> DEFINE j == Max(before)
<1>6. j \in before
  <2> HIDE DEF before
  <2> QED
    BY <1>2, <1>4, <1>5, MaxFinite
<1> HIDE DEF j
<1>7. j \in 1..i - 1 /\ calls[j].session = calls[i].session
  BY <1>6
<1>8. j \in DOMAIN calls /\ j < i
  BY <1>3, <1>7
<1> QED
  BY <1>2, <1>7, <1>8, PairHappened DEF j

\* The triggers of the rows happened.
LEMMA TriggersHappened ==
  ASSUME calls \in Histories, NEW D, Table(D)
  PROVE  Triggered(Triggers(Rows(D)))
<1> DEFINE rows == Rows(D)
<1>1. \A n \in DOMAIN rows : D[n] \in DOMAIN calls /\ rows[n] = Row(D[n])
  BY RowsAreCalls
<1> HIDE DEF rows
<1> SUFFICES ASSUME NEW x \in Triggers(rows) PROVE Happened(x.pair)
  BY DEF Triggered, rows
<1>2. PICK pair \in Tool \X Tool : x.pair = pair /\ Cardinality(Timed(rows, pair[1], pair[2])) >= 2
  BY DEF Triggers
<1>3. pair[1] \in Tool /\ pair[2] \in Tool /\ pair = <<pair[1], pair[2]>>
  OBVIOUS
<1>4. Timed(rows, pair[1], pair[2]) # {}
  <2> DEFINE T == Timed(rows, pair[1], pair[2])
  <2>1. Cardinality(T) >= 2
    BY <1>2
  <2> HIDE DEF T
  <2>2. T # {}
    BY <2>1, FS_EmptySet
  <2> QED
    BY <2>2 DEF T
<1>5. PICK n \in DOMAIN rows : rows[n].prec = pair[1] /\ rows[n].tool = pair[2]
  BY <1>4 DEF Timed
<1>6. D[n] \in DOMAIN calls /\ rows[n] = Row(D[n])
  BY <1>1
<1>7. Preceding(D[n]) = pair[1] /\ calls[D[n]].tool = pair[2]
  BY <1>5, <1>6 DEF Row
<1>8. Happened(<<pair[1], calls[D[n]].tool>>)
  BY <1>3, <1>6, <1>7, PrecedingHappened
<1> QED
  BY <1>2, <1>3, <1>7, <1>8
-----------------------------------------------------------------------------
\* What is best is of what is scored.
LEMMA BestOf ==
  ASSUME NEW score, NEW k, NEW T \in Best(score, k)
  PROVE  T \subseteq DOMAIN score
BY DEF Best

\* What is shown happened.
Shows(shown) == \A sequence \in shown : Happened(sequence)

\* A suggestion shows what happened.
LEMMA SuggestionsHappened ==
  ASSUME NEW m \in MatrixType, Supported(m), NEW current \in Tool \cup {None},
         NEW shown \in Suggestions(m, current)
  PROVE  Shows(shown)
<1>1. CASE current = None
  <2> DEFINE score == [t \in UNION {Following(m[f]) : f \in Tool} |-> Score(m, t)]
  <2>1. PICK T \in Best(score, TopK) : shown = {<<t>> : t \in T}
    <3> HIDE DEF score
    <3>1. Suggestions(m, current) = {{<<t>> : t \in T} : T \in Best(score, TopK)}
      BY <1>1, Zenon DEF Suggestions, score
    <3> QED
      BY <3>1
  <2>2. DOMAIN score = UNION {Following(m[f]) : f \in Tool}
    OBVIOUS
  <2> HIDE DEF score
  <2>3. T \subseteq UNION {Following(m[f]) : f \in Tool}
    BY <2>1, <2>2, BestOf
  <2>4. ASSUME NEW t \in T PROVE Happened(<<t>>)
    <3>1. PICK f \in Tool : t \in Following(m[f])
      BY <2>3
    <3>2. t \in Tool /\ m[f][t] > 0
      BY <3>1 DEF Following
    <3>3. Happened(<<f, t>>)
      BY <3>2 DEF Supported
    <3> QED
      BY <3>3, SecondHappened
  <2> QED
    BY <2>1, <2>4 DEF Shows
<1>2. CASE current \in Tool
  <2>0. current # None
    BY <1>2, TransitionAssumption
  <2>1. PICK T \in Predictions(m[current], TopK) : shown = {<<current, t>> : t \in T}
    BY <2>0 DEF Suggestions
  <2>2. T \subseteq Following(m[current])
    <3> DEFINE score == [t \in Following(m[current]) |-> m[current][t]]
    <3>1. T \in Best(score, TopK)
      BY <2>1 DEF Predictions
    <3>2. DOMAIN score = Following(m[current])
      OBVIOUS
    <3> HIDE DEF score
    <3> QED
      BY <3>1, <3>2, BestOf
  <2>3. ASSUME NEW t \in T PROVE Happened(<<current, t>>)
    <3>1. t \in Tool /\ m[current][t] > 0
      BY <2>2 DEF Following
    <3> QED
      BY <1>2, <3>1 DEF Supported
  <2> QED
    BY <2>1, <2>3 DEF Shows
<1> QED
  BY <1>1, <1>2

\* A profile shows what happened.
LEMMA ProfilesHappened ==
  ASSUME calls \in Histories, NEW D, Table(D), NEW m \in MatrixType, Supported(m),
         NEW triggers, Triggered(triggers), NEW shown \in Profiles(Rows(D), m, triggers)
  PROVE  Shows(shown)
<1> DEFINE rows == Rows(D)
           windows == Windows(rows, Window)
           calling == [t \in {u \in Tool : Calls(rows, u) > 0} |-> Calls(rows, t)]
           seeing == [c \in Chains(windows) |-> Seen(windows, c)]
           timing == [x \in triggers |-> x.frequency]
           pairs == {pair \in Tool \X Tool : m[pair[1]][pair[2]] > 0}
<1>1. PICK P, C, R : /\ P \in Best(calling, TopK)
                     /\ C \in Best(seeing, TopK)
                     /\ R \in Best(timing, TopK)
                     /\ shown = {<<t>> : t \in P} \cup C \cup {x.pair : x \in R} \cup pairs
  <2>1. Profiles(rows, m, triggers)
          = {{<<t>> : t \in P} \cup C \cup {x.pair : x \in R} \cup pairs :
               P \in Best(calling, TopK), C \in Best(seeing, TopK), R \in Best(timing, TopK)}
    BY SMTT(30) DEF Profiles
  <2> HIDE DEF calling, seeing, timing, pairs
  <2> QED
    BY <2>1 DEF rows
<1>2. /\ DOMAIN calling = {u \in Tool : Calls(rows, u) > 0}
      /\ DOMAIN seeing = Chains(windows) /\ DOMAIN timing = triggers
  OBVIOUS
<1>3. /\ P \subseteq {u \in Tool : Calls(rows, u) > 0}
      /\ C \subseteq Chains(windows) /\ R \subseteq triggers
  <2> HIDE DEF calling, seeing, timing, windows, rows
  <2> QED
    BY <1>1, <1>2, BestOf
<1> HIDE DEF calling, seeing, timing
<1>4. ASSUME NEW t \in P PROVE Happened(<<t>>)
  <2>1. \A n \in DOMAIN rows : D[n] \in DOMAIN calls /\ rows[n] = Row(D[n])
    BY RowsAreCalls
  <2> HIDE DEF rows
  <2> DEFINE T == {i \in DOMAIN rows : rows[i].tool = t}
  <2>2. Cardinality(T) > 0
    BY <1>3 DEF Calls
  <2>3. T # {}
    <3> HIDE DEF T
    <3> QED
      BY <2>2, FS_EmptySet
  <2>4. PICK n \in DOMAIN rows : rows[n].tool = t
    BY <2>3
  <2>5. D[n] \in DOMAIN calls /\ rows[n] = Row(D[n])
    BY <2>1
  <2>6. calls[D[n]].tool = t
    BY <2>4, <2>5 DEF Row
  <2> QED
    BY <2>5, <2>6, CallHappened
<1>5. ASSUME NEW c \in C PROVE Happened(c)
  <2>1. PICK w \in windows : c = w.chain
    <3> HIDE DEF windows
    <3> QED
      BY <1>3 DEF Chains
  <2>2. Window \in Nat \ {0}
    BY TransitionAssumption
  <2> QED
    BY <2>1, <2>2, WindowsHappened
<1>6. \A x \in R : Happened(x.pair)
  BY <1>3 DEF Triggered
<1>7. ASSUME NEW pair \in pairs PROVE Happened(pair)
  <2>1. /\ pair = <<pair[1], pair[2]>>
        /\ pair[1] \in Tool /\ pair[2] \in Tool /\ m[pair[1]][pair[2]] > 0
    OBVIOUS
  <2>2. Happened(<<pair[1], pair[2]>>)
    BY <2>1 DEF Supported
  <2> QED
    BY <2>1, <2>2
<1> HIDE DEF pairs
<1> QED
  BY <1>1, <1>4, <1>5, <1>6, <1>7 DEF Shows

-----------------------------------------------------------------------------
\* The rows request r scores its model with.
Scored(r) == Rows(IF held[r] = <<>> THEN train[r] ELSE held[r])

\* A model of what happened.
Sound(m) ==
  /\ m.transitions \in MatrixType /\ Supported(m.transitions)
  /\ Triggered(m.triggers) /\ m.version \in Nat

\* Version v, if built from nothing, has settled.
Settled(m, v) ==
  m.lone => m.transitions = Counted(Rows(m.train)) /\ (v > 2 => ~Untied(m))

\* The model that request r persists next, when it builds alone.
LoneRun(r) ==
  LET m == model[r]
  IN /\ m.lone => lone[r]
     /\ lone[r] =>
          /\ m.train = train[r] /\ m.transitions = Counted(Rows(train[r]))
          /\ m.version <= iter[r] + 1
          /\ m.accuracy \in Accuracies(m.transitions, Scored(r))
          /\ iter[r] > 0 => previous[r] \in Accuracies(m.transitions, Scored(r))
          /\ iter[r] > 1 => ~Untied(m)

\* The loop counts from 0, and the model in its hands is sound.
Request(r) ==
  /\ pc[r] # "persist" => iter[r] = 0
  /\ pc[r] = "persist" => Sound(model[r]) /\ LoneRun(r)

\* The types that the arguments need, no more.
Shape ==
  /\ calls \in Histories
  /\ DOMAIN store \subseteq Nat /\ IsFiniteSet(DOMAIN store)
  /\ DOMAIN pc = Requests /\ DOMAIN model = Requests
  /\ DOMAIN train = Requests /\ DOMAIN held = Requests
  /\ DOMAIN previous = Requests /\ DOMAIN lone = Requests
  /\ iter \in [Requests -> Nat]

\* What the requests have read of the table of interactions.
Tables ==
  /\ calls \in Histories /\ Table(delivered)
  /\ {DOMAIN history, DOMAIN train, DOMAIN held} = {Requests}
  /\ \A r \in Requests : Table(history[r]) /\ Table(train[r]) /\ Table(held[r])

\* What the table of models holds.
Stored == \A v \in DOMAIN store : Sound(store[v]) /\ Settled(store[v], v)

\* ShowsWhatHappened needs Sound of every model that may be shown or blended; LoneBuildSettles
\* needs the run that will persist the next version (LoneRun), and the accuracy before it.
LearningInv == Shape /\ Stored /\ (\A r \in Requests : Request(r)) /\ ShowsWhatHappened
-----------------------------------------------------------------------------
\* With no tie there is one accuracy, which is within 1/100 of itself.
LEMMA UntiedAccuracy ==
  ASSUME NEW m, m.transitions \in MatrixType, Untied(m), NEW S, NEW rows \in Seq(S),
         NEW a \in Accuracies(m.transitions, rows), NEW b \in Accuracies(m.transitions, rows)
  PROVE  Within(a, b)
<1> DEFINE matrix == m.transitions
           known == Known(matrix)
           first == [from \in known |-> Predictions(matrix[from], 1)]
           tried == {i \in DOMAIN rows : rows[i].prec \in known}
           guesses == {g \in [known -> Tool] : \A from \in known : {g[from]} \in first[from]}
           right(g) == {i \in tried : g[rows[i].prec] = rows[i].tool}
<1>1. Accuracies(matrix, rows)
        = IF tried = {} THEN {<<0, 1>>}
          ELSE {<<Cardinality(right(g)), Cardinality(tried)>> : g \in guesses}
  BY Zenon DEF Accuracies
<1>2. ASSUME NEW from \in known PROVE \E P : first[from] = {P}
  <2> DEFINE score == [t \in Following(matrix[from]) |-> matrix[from][t]]
             B == Best(score, 1)
  <2>1. B \subseteq SUBSET Tool
    <3>1. DOMAIN score \subseteq Tool
      BY DEF Following
    <3> HIDE DEF score
    <3> QED
      BY <3>1, BestOf
  <2>2. first[from] = B
    BY DEF Predictions
  <2>3. Cardinality(first[from]) = 1
    BY DEF Untied
  <2> HIDE DEF B, first
  <2>4. IsFiniteSet(SUBSET Tool)
    BY TransitionAssumption, FS_SUBSET
  <2>5. IsFiniteSet(B)
    BY <2>1, <2>4, FS_Subset
  <2> QED
    BY <2>2, <2>3, <2>5, FS_Singleton
<1> HIDE DEF first
<1>3. ASSUME NEW g \in guesses, NEW h \in guesses PROVE g = h
  <2>1. g \in [known -> Tool] /\ h \in [known -> Tool]
    OBVIOUS
  <2>2. ASSUME NEW from \in known PROVE g[from] = h[from]
    <3>1. {g[from]} \in first[from] /\ {h[from]} \in first[from]
      OBVIOUS
    <3>2. {g[from]} = {h[from]}
      <4>1. PICK P : first[from] = {P}
        BY <1>2
      <4> QED
        BY <3>1, <4>1
    <3> QED
      BY <3>2
  <2> HIDE DEF known, guesses
  <2> QED
    BY <2>1, <2>2
<1>4. IsFiniteSet(tried)
  <2>1. DOMAIN rows = 1..Len(rows) /\ Len(rows) \in Nat
    OBVIOUS
  <2>2. IsFiniteSet(DOMAIN rows)
    BY <2>1, FS_Interval
  <2> QED
    BY <2>2, FS_Subset
<1>5. ASSUME NEW g \in guesses PROVE IsFiniteSet(right(g))
  BY <1>4, FS_Subset
<1> HIDE DEF guesses, known, matrix
<1>6. a = b /\ \E n \in Nat : \E k \in Nat \ {0} : a = <<n, k>>
  <2>1. CASE tried = {}
    <3>1. a = <<0, 1>> /\ b = <<0, 1>>
      BY <1>1, <2>1 DEF matrix
    <3>2. 0 \in Nat /\ 1 \in Nat \ {0}
      OBVIOUS
    <3> QED
      BY <3>1, <3>2
  <2>2. CASE tried # {}
    <3> HIDE DEF tried, right
    <3>1. PICK g \in guesses : a = <<Cardinality(right(g)), Cardinality(tried)>>
      BY <1>1, <2>2 DEF matrix
    <3>2. PICK h \in guesses : b = <<Cardinality(right(h)), Cardinality(tried)>>
      BY <1>1, <2>2 DEF matrix
    <3>3. g = h
      BY <1>3
    <3>4. Cardinality(right(g)) \in Nat /\ Cardinality(tried) \in Nat \ {0}
      BY <1>4, <1>5, <2>2, FS_CardinalityType, FS_EmptySet
    <3> QED
      BY <3>1, <3>2, <3>3, <3>4
  <2> QED
    BY <2>1, <2>2
<1>7. PICK n \in Nat, k \in Nat \ {0} : a = <<n, k>>
  BY <1>6
<1>8. a[1] = n /\ a[2] = k
  BY <1>7
<1>9. 100 * (n * k - n * k) = 0 /\ k * k > 0 /\ k * k \in Nat
  OBVIOUS
<1>10. Within(a, a)
  BY <1>8, <1>9 DEF Within
<1> QED
  BY <1>6, <1>10
-----------------------------------------------------------------------------
\* The calls never change, and a row that is in the table twice stays.
CallsKept ==
  UNCHANGED <<calls, stamped>> /\ (IsInjective(delivered') => IsInjective(delivered))

\* A step that leaves the table alone is one.
LEMMA TableLeft == ASSUME UNCHANGED <<calls, stamped, delivered>> PROVE CallsKept
BY DEF CallsKept, IsInjective

\* What is said of the calls stays.
LEMMA CallsStay ==
  ASSUME CallsKept
  PROVE  /\ \A q : Happened(q) => Happened(q)'
         /\ \A D : Rows(D)' = Rows(D)
         /\ \A D : Table(D) => Table(D)'
<1>1. ASSUME NEW f, Recorded(f) PROVE Recorded(f)'
  <2>1. InOrder(f)'
    BY <1>1 DEF CallsKept, Recorded, InOrder
  <2>2. IsInjective(delivered)' => IsInjective(f)'
    BY <1>1 DEF CallsKept, Recorded, IsInjective
  <2> QED
    BY <2>1, <2>2 DEF Recorded
<1>2. ASSUME NEW q, Happened(q) PROVE Happened(q)'
  <2>1. PICK place \in [DOMAIN q -> DOMAIN calls] : Placed(place, q)
    BY <1>2 DEF Happened, Placed
  <2>2. Recorded(place)'
    BY <1>1, <2>1 DEF Placed
  <2>3. calls' = calls
    BY DEF CallsKept
  <2> QED
    BY <2>1, <2>2, <2>3 DEF Happened, Placed
<1>3. ASSUME NEW i PROVE Row(i)' = Row(i)
  BY DEF CallsKept, Row, Preceding
<1>4. ASSUME NEW D PROVE Rows(D)' = Rows(D)
  BY <1>3 DEF Rows
<1>5. ASSUME NEW D, Table(D) PROVE Table(D)'
  BY <1>1, <1>5 DEF CallsKept, Table
<1> QED
  BY <1>2, <1>4, <1>5

\* So a model that is sound stays so, and a settled version settled.
LEMMA ModelsStay ==
  ASSUME CallsKept, NEW m, NEW v
  PROVE  /\ Sound(m) => Sound(m)'
         /\ Settled(m, v) => Settled(m, v)'
<1>1. ASSUME Sound(m) PROVE Sound(m)'
  BY <1>1, CallsStay DEF Sound, Supported, Triggered
<1>2. ASSUME Settled(m, v) PROVE Settled(m, v)'
  BY <1>2, CallsStay DEF Settled
<1> QED
  BY <1>1, <1>2

\* A step leaves the build of request r alone ..
Still(r) ==
  /\ pc'[r] = pc[r] /\ model'[r] = model[r] /\ train'[r] = train[r] /\ held'[r] = held[r]
  /\ iter'[r] = iter[r] /\ previous'[r] = previous[r] /\ lone'[r] = lone[r]

\* .. and so its part of the invariant.
LEMMA RequestStays ==
  ASSUME CallsKept, NEW r, Request(r), Still(r)
  PROVE  Request(r)'
<1>1. Scored(r)' = Scored(r)
  BY CallsStay DEF Scored, Still
<1>2. Rows(train[r])' = Rows(train[r])
  BY CallsStay DEF Still
<1>3. LoneRun(r) => LoneRun(r)'
  BY <1>1, <1>2 DEF LoneRun, Still
<1>4. Sound(model[r]) => Sound(model[r])'
  <2>1. PICK m : m = model[r]
    OBVIOUS
  <2>2. Sound(m) => Sound(m)'
    BY ModelsStay
  <2> QED
    BY <2>1, <2>2 DEF Still
<1> QED
  BY <1>3, <1>4 DEF Request, Still

\* The models persisted before stay.
LEMMA StoreStays ==
  ASSUME CallsKept, UNCHANGED store, Stored
  PROVE  Stored'
<1> SUFFICES ASSUME NEW v \in DOMAIN store PROVE (Sound(store[v]) /\ Settled(store[v], v))'
  BY DEF Stored
<1>1. PICK m : m = store[v]
  OBVIOUS
<1>2. Sound(m) /\ Settled(m, v)
  BY <1>1 DEF Stored
<1>3. Sound(m)' /\ Settled(m, v)'
  BY <1>2, ModelsStay
<1> QED
  BY <1>1, <1>3

\* The model a request persists is sound, and settled when it builds alone.
LEMMA UpsertStores ==
  ASSUME CallsKept, Shape, Stored, NEW r \in Requests, Request(r), pc[r] = "persist",
         Upsert(model[r])
  PROVE  Stored' /\ DOMAIN store' \subseteq Nat /\ IsFiniteSet(DOMAIN store')
<1>1. PICK m : m = model[r]
  OBVIOUS
<1>2. Sound(m) /\ LoneRun(r)
  BY <1>1 DEF Request
<1>3. Settled(m, m.version)
  <2> SUFFICES ASSUME m.lone
               PROVE  m.transitions = Counted(Rows(m.train)) /\ (m.version > 2 => ~Untied(m))
    BY DEF Settled
  <2>1. lone[r]
    BY <1>1, <1>2 DEF LoneRun
  <2>2. /\ m.train = train[r] /\ m.transitions = Counted(Rows(train[r]))
        /\ m.version <= iter[r] + 1 /\ (iter[r] > 1 => ~Untied(m))
    BY <1>1, <1>2, <2>1 DEF LoneRun
  <2>3. m.version \in Nat /\ iter[r] \in Nat
    BY <1>2 DEF Sound, Shape
  <2> QED
    BY <2>2, <2>3
<1>4. store' = [v \in DOMAIN store \cup {m.version} |-> IF v = m.version THEN m ELSE store[v]]
  BY <1>1 DEF Upsert
<1>5. DOMAIN store' = DOMAIN store \cup {m.version} /\ m.version \in Nat
  BY <1>2, <1>4 DEF Sound
<1>6. DOMAIN store' \subseteq Nat /\ IsFiniteSet(DOMAIN store')
  BY <1>5, FS_AddElement DEF Shape
<1>7. ASSUME NEW v \in DOMAIN store' PROVE (Sound(store[v]) /\ Settled(store[v], v))'
  <2>1. PICK n : n = store'[v]
    OBVIOUS
  <2>2. Sound(n) /\ Settled(n, v)
    <3>1. CASE v = m.version
      BY <1>2, <1>3, <1>4, <1>5, <2>1, <3>1
    <3>2. CASE v # m.version
      <4>1. v \in DOMAIN store /\ n = store[v]
        BY <1>4, <1>5, <2>1, <3>2
      <4> QED
        BY <4>1 DEF Stored
    <3> QED
      BY <3>1, <3>2
  <2>3. Sound(n)' /\ Settled(n, v)'
    BY <2>2, ModelsStay
  <2> QED
    BY <2>1, <2>3
<1>8. Stored'
  BY <1>7 DEF Stored
<1> QED
  BY <1>6, <1>8

\* The latest model is one of those persisted.
LEMMA LatestSound ==
  ASSUME Shape, Stored, DOMAIN store # {}
  PROVE  Sound(Latest)
<1>1. Max(DOMAIN store) \in DOMAIN store
  BY MaxFinite DEF Shape
<1> QED
  BY <1>1 DEF Stored, Latest

\* What is answered from a sound model happened.
LEMMA AnswerFromShows ==
  ASSUME calls \in Histories, NEW r, Table(history[r]), NEW m, m \in MatrixType, Supported(m),
         NEW triggers, Triggered(triggers), AnswerFrom(r, m, triggers)
  PROVE  \E kind, shown : Answer(r, kind, shown) /\ Shows(shown)
<1>1. CASE /\ profile[r]
           /\ \E shown \in Profiles(Rows(history[r]), m, triggers) : Answer(r, "shown", shown)
  <2>1. PICK shown \in Profiles(Rows(history[r]), m, triggers) : Answer(r, "shown", shown)
    BY <1>1
  <2>2. Shows(shown)
    BY <2>1, ProfilesHappened
  <2> QED
    BY <2>1, <2>2
<1>2. CASE Answer(r, "insufficient", {})
  <2>1. Shows({})
    BY DEF Shows
  <2> QED
    BY <1>2, <2>1
<1>3. CASE \E current \in Tool \cup {None} : \E shown \in Suggestions(m, current) :
             Answer(r, "shown", shown)
  <2>1. PICK current \in Tool \cup {None} : \E shown \in Suggestions(m, current) :
               Answer(r, "shown", shown)
    BY <1>3
  <2>2. PICK shown \in Suggestions(m, current) : Answer(r, "shown", shown)
    BY <2>1
  <2>3. Shows(shown)
    BY <2>2, SuggestionsHappened
  <2> QED
    BY <2>2, <2>3
<1> QED
  BY <1>1, <1>2, <1>3 DEF AnswerFrom

\* An answer of what happened keeps everything but the store for its step to keep.
LEMMA AnswerKeeps ==
  ASSUME CallsKept, NEW r \in Requests, NEW kind, NEW shown, Answer(r, kind, shown),
         Shows(shown), LearningInv, Stored', DOMAIN store' \subseteq Nat, IsFiniteSet(DOMAIN store')
  PROVE  LearningInv'
<1>1. ShowsWhatHappened'
  <2>1. answer' = [kind |-> kind, shown |-> shown, rich |-> rich[r]]
    BY DEF Answer
  <2>2. answer'.shown = shown
    BY <2>1
  <2>3. \A sequence \in shown : Happened(sequence)'
    BY CallsStay DEF Shows
  <2> QED
    BY <2>2, <2>3 DEF ShowsWhatHappened
<1>2. Shape'
  BY DEF LearningInv, Shape, Answer, Goto, CallsKept
<1>3. ASSUME NEW q \in Requests PROVE Request(q)'
  <2>1. CASE q = r
    <3>1. pc'[q] = "done" /\ iter'[q] = 0
      BY <2>1 DEF LearningInv, Shape, Answer, Goto
    <3> QED
      BY <3>1 DEF Request
  <2>2. CASE q # r
    <3>1. Still(q)
      BY Zenon, <2>2 DEF LearningInv, Shape, Answer, Goto, Still
    <3>2. Request(q)
      BY DEF LearningInv
    <3> QED
      BY <3>1, <3>2, RequestStays
  <2> QED
    BY <2>1, <2>2
<1> QED
  BY <1>1, <1>2, <1>3 DEF LearningInv

\* A step of one request leaves the others' parts of the invariant ..
LEMMA OthersStay ==
  ASSUME CallsKept, LearningInv, NEW r \in Requests, Request(r)',
         \A q \in Requests \ {r} : Still(q)
  PROVE  \A q \in Requests : Request(q)'
<1> SUFFICES ASSUME NEW q \in Requests PROVE Request(q)'
  OBVIOUS
<1>1. CASE q = r
  BY <1>1
<1>2. CASE q # r
  <2>1. Request(q) /\ Still(q)
    BY <1>2 DEF LearningInv
  <2> QED
    BY <2>1, RequestStays
<1> QED
  BY <1>1, <1>2

\* .. and one that only moves a request on, before it persists, all of it.
LEMMA MoveKeeps ==
  ASSUME CallsKept, UNCHANGED <<store, iter>>, answer' = None, LearningInv, Shape',
         NEW r \in Requests, pc[r] # "persist", pc'[r] # "persist",
         \A q \in Requests \ {r} : Still(q)
  PROVE  LearningInv'
<1>1. Stored'
  BY StoreStays DEF LearningInv
<1>2. Request(r)'
  <2>1. iter'[r] = 0
    BY DEF LearningInv, Request
  <2> QED
    BY <2>1 DEF Request
<1>3. \A q \in Requests : Request(q)'
  BY <1>2, OthersStay
<1>4. ShowsWhatHappened'
  BY DEF ShowsWhatHappened
<1> QED
  BY <1>1, <1>3, <1>4 DEF LearningInv
-----------------------------------------------------------------------------
\* What a build yields is sound when its prior is; it counts exactly its rows when
\* there is no prior, or one that counts them.
LEMMA BuiltSound ==
  ASSUME calls \in Histories, NEW r, Table(train[r]),
         NEW prior, prior # None => Sound(prior), NEW alone,
         NEW m \in Built(r, prior, alone)
  PROVE  Sound(m)
<1> DEFINE before == IF prior = None THEN NoTransitions ELSE prior.transitions
           transitions == Transitions(Rows(train[r]), before)
<1>1. /\ m.transitions = transitions /\ m.triggers = Triggers(Rows(train[r]))
      /\ m.version = IF prior = None THEN 1 ELSE prior.version + 1
  BY DEF Built
<1>2. before \in MatrixType /\ Supported(before)
  <2>1. NoTransitions \in MatrixType /\ Supported(NoTransitions)
    BY DEF NoTransitions, MatrixType, RowType, Supported
  <2> QED
    BY <2>1 DEF Sound
<1>3. m.version \in Nat
  BY <1>1 DEF Sound
<1> HIDE DEF before
<1>4. transitions \in MatrixType /\ Supported(transitions)
  BY <1>2, TransitionsType
<1>5. Triggered(Triggers(Rows(train[r])))
  BY TriggersHappened
<1> QED
  BY <1>1, <1>3, <1>4, <1>5 DEF Sound

\* A build that started from nothing, or from what its rows count, yields what they
\* count, scored by an accuracy of the rows it is scored on.
LEMMA BuiltLone ==
  ASSUME calls \in Histories, NEW r, Table(train[r]), NEW prior,
         prior # None => prior.transitions = Counted(Rows(train[r])),
         NEW alone, NEW m \in Built(r, prior, alone)
  PROVE  /\ m.train = train[r] /\ m.transitions = Counted(Rows(train[r]))
         /\ m.accuracy \in Accuracies(m.transitions, Scored(r))
<1> DEFINE before == IF prior = None THEN NoTransitions ELSE prior.transitions
           transitions == Transitions(Rows(train[r]), before)
<1>1. /\ m.transitions = transitions /\ m.train = train[r]
      /\ m.accuracy \in Accuracies(transitions, Rows(IF held[r] = <<>> THEN train[r] ELSE held[r]))
  BY DEF Built
<1>2. before = NoTransitions \/ before = Counted(Rows(train[r]))
  OBVIOUS
<1> HIDE DEF before
<1>3. transitions = Counted(Rows(train[r]))
  BY <1>2, TransitionsSame
<1> QED
  BY <1>1, <1>3 DEF Scored

\* The two matters a build copies.
LEMMA BuiltCopies ==
  ASSUME NEW r, NEW prior, NEW alone, NEW m \in Built(r, prior, alone)
  PROVE  /\ m.lone = alone
         /\ m.version = IF prior = None THEN 1 ELSE prior.version + 1
BY DEF Built

-----------------------------------------------------------------------------
\* Nothing is asked, stored or answered at first.
LEMMA InitLearning == Init => LearningInv
<1> SUFFICES ASSUME Init PROVE LearningInv
  OBVIOUS
<1>1. Shape
  <2>1. IsFiniteSet({})
    BY FS_EmptySet
  <2>2. DOMAIN store = {}
    BY DEF Init
  <2> QED
    BY <2>1, <2>2 DEF Init, Shape
<1>2. Stored
  BY DEF Init, Stored
<1>3. ASSUME NEW r \in Requests PROVE Request(r)
  <2>1. pc[r] = "new" /\ iter[r] = 0
    BY DEF Init
  <2> QED
    BY <2>1 DEF Request
<1>4. ShowsWhatHappened
  BY DEF Init, ShowsWhatHappened
<1> QED
  BY <1>1, <1>2, <1>3, <1>4 DEF LearningInv

\* An event is written among the others: a call that was in the table twice still is.
LEMMA DeliverRepeats ==
  ASSUME Tables, NEW i, Deliver(i)
  PROVE  IsInjective(delivered') => IsInjective(delivered)
<1>1. PICK s \in Seq(DOMAIN calls) : s = delivered
  BY DEF Tables, Table
<1>2. PICK n \in 1..Len(s) + 1 : delivered' = InsertAt(s, n, i)
  BY <1>1 DEF Deliver
<1> DEFINE e == InsertAt(s, n, i)
           place(k) == IF k < n THEN k ELSE k + 1
<1>3. \A k \in DOMAIN s : place(k) \in DOMAIN e /\ e[place(k)] = s[k]
  <2> DEFINE S == DOMAIN calls \cup {i}
             a == SubSeq(s, 1, n - 1)
             c == SubSeq(s, n, Len(s))
  <2>1. /\ s \in Seq(S) /\ <<i>> \in Seq(S) /\ Len(<<i>>) = 1
        /\ a \in Seq(S) /\ Len(a) = n - 1 /\ \A k \in 1..n - 1 : a[k] = s[k]
        /\ c \in Seq(S) /\ Len(c) = Len(s) - n + 1
        /\ \A k \in 1..Len(s) - n + 1 : c[k] = s[n + k - 1]
    OBVIOUS
  <2>2. e = (a \o <<i>>) \o c
    BY DEF InsertAt
  <2> HIDE DEF S, a, c, e
  <2>3. /\ a \o <<i>> \in Seq(S) /\ Len(a \o <<i>>) = n
        /\ \A k \in 1..n - 1 : (a \o <<i>>)[k] = s[k]
    BY <2>1
  <2>4. PICK d : d = a \o <<i>>
    OBVIOUS
  <2>5. /\ e \in Seq(S) /\ Len(e) = Len(s) + 1
        /\ \A k \in 1..n : e[k] = d[k]
        /\ \A k \in n + 1..Len(s) + 1 : e[k] = c[k - n]
    BY <2>1, <2>2, <2>3, <2>4
  <2>6. ASSUME NEW k \in DOMAIN s, k < n PROVE k \in DOMAIN e /\ e[k] = s[k]
    BY <2>3, <2>4, <2>5, <2>6
  <2>7. ASSUME NEW k \in DOMAIN s, ~(k < n) PROVE k + 1 \in DOMAIN e /\ e[k + 1] = s[k]
    <3>1. PICK j : j = k + 1 - n
      OBVIOUS
    <3>2. /\ k + 1 \in n + 1..Len(s) + 1 /\ k + 1 \in 1..Len(s) + 1
          /\ j \in 1..Len(s) - n + 1 /\ n + j - 1 = k
      BY <2>7, <3>1
    <3>3. e[k + 1] = c[j]
      BY <2>5, <3>1, <3>2
    <3>4. c[j] = s[k]
      BY <2>1, <3>2
    <3>5. k + 1 \in DOMAIN e
      BY <2>5, <3>2
    <3> QED
      BY <3>3, <3>4, <3>5
  <2> QED
    BY <2>6, <2>7
<1>4. \A k, m \in DOMAIN s : place(k) = place(m) => k = m
  OBVIOUS
<1> HIDE DEF e, place
<1>5. ASSUME IsInjective(e) PROVE IsInjective(s)
  BY <1>3, <1>4, <1>5 DEF IsInjective
<1> QED
  BY <1>1, <1>2, <1>5 DEF e

\* An event is written: the requests and the models stay.
LEMMA DeliverKeeps ==
  ASSUME LearningInv, Tables, NEW i, Deliver(i)
  PROVE  LearningInv'
<1>1. /\ UNCHANGED <<calls, store, pc, model, train, held, iter, previous, lone>>
      /\ answer' = None /\ CallsKept
  BY DeliverRepeats DEF Deliver, buildVars, CallsKept
<1>2. Shape'
  BY <1>1 DEF LearningInv, Shape
<1>3. Stored'
  BY <1>1, StoreStays DEF LearningInv
<1>4. ASSUME NEW q \in Requests PROVE Request(q)'
  <2>1. Request(q) /\ Still(q)
    BY <1>1 DEF LearningInv, Still
  <2> QED
    BY <1>1, <2>1, RequestStays
<1>5. ShowsWhatHappened'
  BY <1>1 DEF ShowsWhatHappened
<1> QED
  BY <1>2, <1>3, <1>4, <1>5 DEF LearningInv

\* A request is asked.
LEMMA AskKeeps ==
  ASSUME LearningInv, NEW r \in Requests, NEW p, Ask(r, p)
  PROVE  LearningInv'
<1>1. PICK l : l # "persist" /\ pc' = [pc EXCEPT ![r] = l]
  BY DEF Ask, Goto
<1>2. /\ UNCHANGED <<calls, store, model, train, held, iter, previous, lone>>
      /\ answer' = None /\ pc[r] # "persist" /\ CallsKept
  BY TableLeft DEF Ask, buildVars
<1>3. Shape' /\ pc'[r] # "persist"
  BY <1>1, <1>2 DEF LearningInv, Shape
<1>4. \A q \in Requests \ {r} : Still(q)
  BY <1>1, <1>2 DEF Still
<1> QED
  BY <1>2, <1>3, <1>4, MoveKeeps

\* A profile fetches its rows, or is empty.
LEMMA FetchKeeps ==
  ASSUME LearningInv, NEW r \in Requests, Fetch(r)
  PROVE  LearningInv'
<1>1. UNCHANGED <<calls, store>> /\ CallsKept /\ pc[r] = "fetch"
  BY TableLeft DEF Fetch
<1>2. CASE Answer(r, "shown", {})
  <2>1. Shows({})
    BY DEF Shows
  <2>2. Stored' /\ DOMAIN store' \subseteq Nat /\ IsFiniteSet(DOMAIN store')
    BY <1>1, StoreStays DEF LearningInv, Shape
  <2> QED
    BY <1>1, <1>2, <2>1, <2>2, AnswerKeeps
<1>3. CASE Goto(r, "load") /\ answer' = None /\ UNCHANGED buildVars
  <2>1. /\ UNCHANGED <<calls, store, model, train, held, iter, previous, lone>>
        /\ answer' = None /\ pc[r] # "persist" /\ pc' = [pc EXCEPT ![r] = "load"]
    BY <1>1, <1>3 DEF Goto, buildVars
  <2>2. Shape' /\ pc'[r] # "persist"
    BY <2>1 DEF LearningInv, Shape
  <2>3. \A q \in Requests \ {r} : Still(q)
    BY <2>1 DEF Still
  <2> QED
    BY <1>1, <2>1, <2>2, <2>3, MoveKeeps
<1> QED
  BY <1>2, <1>3 DEF Fetch

\* The latest model answers, or there is none.
LEMMA LoadKeeps ==
  ASSUME LearningInv, Tables, NEW r \in Requests, Load(r)
  PROVE  LearningInv'
<1>1. UNCHANGED <<calls, store>> /\ CallsKept /\ pc[r] = "load"
  BY TableLeft DEF Load
<1>2. CASE DOMAIN store # {} /\ AnswerFrom(r, Latest.transitions, Latest.triggers)
  <2>1. Sound(Latest)
    BY <1>2, LatestSound DEF LearningInv
  <2>2. \E kind, shown : Answer(r, kind, shown) /\ Shows(shown)
    <3> DEFINE m == Latest.transitions
               t == Latest.triggers
    <3>1. m \in MatrixType /\ Supported(m) /\ Triggered(t) /\ calls \in Histories
      BY <2>1 DEF Sound, LearningInv, Shape
    <3>2. AnswerFrom(r, m, t) /\ Table(history[r])
      BY <1>2 DEF Tables
    <3> HIDE DEF m, t
    <3> QED
      BY <3>1, <3>2, AnswerFromShows
  <2>3. Stored' /\ DOMAIN store' \subseteq Nat /\ IsFiniteSet(DOMAIN store')
    BY <1>1, StoreStays DEF LearningInv, Shape
  <2> QED
    BY <1>1, <2>2, <2>3, AnswerKeeps
<1>3. CASE Goto(r, "interactions") /\ answer' = None /\ UNCHANGED buildVars
  <2>1. /\ UNCHANGED <<calls, store, model, train, held, iter, previous, lone>>
        /\ answer' = None /\ pc[r] # "persist" /\ pc' = [pc EXCEPT ![r] = "interactions"]
    BY <1>1, <1>3 DEF Goto, buildVars
  <2>2. Shape' /\ pc'[r] # "persist"
    BY <2>1 DEF LearningInv, Shape
  <2>3. \A q \in Requests \ {r} : Still(q)
    BY <2>1 DEF Still
  <2> QED
    BY <1>1, <2>1, <2>2, <2>3, MoveKeeps
<1> QED
  BY <1>2, <1>3 DEF Load

\* The rows are loaded and split; without any, an empty model answers.
LEMMA LoadInteractionsKeeps ==
  ASSUME LearningInv, Tables, NEW r \in Requests, LoadInteractions(r)
  PROVE  LearningInv'
<1>1. UNCHANGED <<calls, store>> /\ CallsKept /\ pc[r] = "interactions"
  BY TableLeft DEF LoadInteractions
<1>2. CASE AnswerFrom(r, NoTransitions, {})
  <2>1. NoTransitions \in MatrixType /\ Supported(NoTransitions) /\ Triggered({})
    BY DEF NoTransitions, MatrixType, RowType, Supported, Triggered
  <2>2. \E kind, shown : Answer(r, kind, shown) /\ Shows(shown)
    BY <1>2, <2>1, AnswerFromShows DEF LearningInv, Shape, Tables
  <2>3. Stored' /\ DOMAIN store' \subseteq Nat /\ IsFiniteSet(DOMAIN store')
    BY <1>1, StoreStays DEF LearningInv, Shape
  <2> QED
    BY <1>1, <2>2, <2>3, AnswerKeeps
<1>3. CASE delivered # <<>>
  <2>1. PICK T, H : /\ train' = [train EXCEPT ![r] = T] /\ held' = [held EXCEPT ![r] = H]
                    /\ pc' = [pc EXCEPT ![r] = "prior"] /\ answer' = None
                    /\ UNCHANGED <<model, iter, previous, lone>>
    BY <1>3 DEF LoadInteractions, Goto
  <2>2. Shape' /\ pc'[r] # "persist"
    BY <1>1, <2>1 DEF LearningInv, Shape
  <2>3. \A q \in Requests \ {r} : Still(q)
    BY <2>1 DEF Still
  <2>4. pc[r] # "persist"
    BY <1>1
  <2> QED
    BY <1>1, <2>1, <2>2, <2>3, <2>4, MoveKeeps
<1> QED
  BY <1>2, <1>3 DEF LoadInteractions

\* The prior model is loaded and the first model built.
LEMMA LoadPriorKeeps ==
  ASSUME LearningInv, Tables, NEW r \in Requests, LoadPrior(r)
  PROVE  LearningInv'
<1> DEFINE first == DOMAIN store = {}
           prior == IF first THEN None ELSE Latest
<1>1. /\ UNCHANGED <<calls, store, train, held, iter, previous>> /\ answer' = None
      /\ CallsKept /\ pc[r] = "prior" /\ pc' = [pc EXCEPT ![r] = "persist"]
      /\ lone' = [lone EXCEPT ![r] = DOMAIN store = {}]
  BY TableLeft DEF LoadPrior, Goto
<1>2. PICK m \in Built(r, prior, DOMAIN store = {}) : model' = [model EXCEPT ![r] = m]
  BY DEF LoadPrior
<1>3. Shape'
  BY <1>1, <1>2 DEF LearningInv, Shape
<1>4. Stored'
  BY <1>1, StoreStays DEF LearningInv
<1>5. calls \in Histories /\ iter[r] = 0 /\ Table(train[r])
  BY <1>1 DEF LearningInv, Shape, Request, Tables
<1>6. prior # None => Sound(prior)
  BY LatestSound DEF LearningInv
<1>7. Sound(m)
  <2> HIDE DEF prior
  <2> QED
    BY <1>2, <1>5, <1>6, BuiltSound
<1>8. m.lone <=> DOMAIN store = {}
  <2> HIDE DEF prior
  <2>1. m.lone = (DOMAIN store = {})
    BY <1>2, BuiltCopies
  <2> QED
    BY <2>1, Zenon
<1>9. ASSUME DOMAIN store = {}
      PROVE  /\ m.train = train[r] /\ m.transitions = Counted(Rows(train[r]))
             /\ m.accuracy \in Accuracies(m.transitions, Scored(r))
             /\ m.version = 1
  <2>1. prior = None
    BY <1>9
  <2> HIDE DEF prior
  <2>2. prior # None => prior.transitions = Counted(Rows(train[r]))
    BY <2>1
  <2> DEFINE alone == DOMAIN store = {}
  <2>3. m \in Built(r, prior, alone)
    BY <1>2
  <2> HIDE DEF alone
  <2>4. /\ m.train = train[r] /\ m.transitions = Counted(Rows(train[r]))
        /\ m.accuracy \in Accuracies(m.transitions, Scored(r))
    BY <1>5, <2>2, <2>3, BuiltLone
  <2>5. m.version = 1
    BY <2>1, <2>3, BuiltCopies
  <2> QED
    BY <2>4, <2>5
<1> HIDE DEF prior, first
<1>10. pc'[r] = "persist" /\ model'[r] = m /\ iter'[r] = 0 /\ train'[r] = train[r]
  BY <1>1, <1>2, <1>5 DEF LearningInv, Shape
<1>11. lone'[r] <=> DOMAIN store = {}
  <2>1. r \in DOMAIN lone
    BY DEF LearningInv, Shape
  <2>2. lone'[r] = (DOMAIN store = {})
    BY <1>1, <2>1, Zenon
  <2> QED
    BY <2>2, Zenon
<1>12. Scored(r)' = Scored(r) /\ Rows(train[r])' = Rows(train[r])
  BY <1>1, CallsStay DEF Scored
<1>13. Sound(model[r])'
  <2>1. Sound(m)'
    BY <1>1, <1>7, ModelsStay
  <2> QED
    BY <1>10, <2>1
<1>14. LoneRun(r)'
  <2>1. (model[r].lone)' => lone'[r]
    BY <1>8, <1>10, <1>11
  <2>2. ASSUME lone'[r]
        PROVE  (/\ model[r].train = train[r] /\ model[r].transitions = Counted(Rows(train[r]))
                /\ model[r].version <= iter[r] + 1
                /\ model[r].accuracy \in Accuracies(model[r].transitions, Scored(r))
                /\ iter[r] > 0 => previous[r] \in Accuracies(model[r].transitions, Scored(r))
                /\ iter[r] > 1 => ~Untied(model[r]))'
    <3>1. DOMAIN store = {}
      BY <1>11, <2>2
    <3>2. m.version <= 0 + 1 /\ ~ (0 > 0) /\ ~ (0 > 1)
      BY <1>9, <3>1
    <3> QED
      BY <1>9, <1>10, <1>12, <3>1, <3>2
  <2> QED
    BY <2>1, <2>2 DEF LoneRun
<1>15. Request(r)'
  BY <1>10, <1>13, <1>14 DEF Request
<1>16. \A q \in Requests \ {r} : Still(q)
  BY Zenon, <1>1, <1>2 DEF LearningInv, Shape, Still
<1>17. \A q \in Requests : Request(q)'
  BY <1>1, <1>15, <1>16, OthersStay
<1>18. ShowsWhatHappened'
  BY <1>1 DEF ShowsWhatHappened
<1> QED
  BY <1>3, <1>4, <1>17, <1>18 DEF LearningInv

\* A model is persisted, and answers or is followed by the next.
LEMMA PersistKeeps ==
  ASSUME LearningInv, Tables, NEW r \in Requests, Persist(r)
  PROVE  LearningInv'
<1>1. UNCHANGED calls /\ CallsKept /\ pc[r] = "persist" /\ Upsert(model[r])
  BY TableLeft DEF Persist
<1>2. /\ Shape /\ Stored /\ Request(r) /\ calls \in Histories
      /\ Table(history[r]) /\ Table(train[r]) /\ Table(held[r])
  BY DEF LearningInv, Shape, Tables
<1>3. Stored' /\ DOMAIN store' \subseteq Nat /\ IsFiniteSet(DOMAIN store')
  BY <1>1, <1>2, UpsertStores
<1>4. PICK p : p = model[r]
  OBVIOUS
<1>5. Sound(p) /\ LoneRun(r)
  BY <1>1, <1>2, <1>4 DEF Request
<1>6. CASE AnswerFrom(r, model[r].transitions, model[r].triggers)
  <2>1. \E kind, shown : Answer(r, kind, shown) /\ Shows(shown)
    <3> DEFINE m == p.transitions
               t == p.triggers
    <3>1. m \in MatrixType /\ Supported(m) /\ Triggered(t)
      BY <1>5 DEF Sound
    <3>2. AnswerFrom(r, m, t)
      BY <1>4, <1>6
    <3> HIDE DEF m, t
    <3> QED
      BY <1>2, <3>1, <3>2, AnswerFromShows
  <2> QED
    BY <1>1, <1>3, <2>1, AnswerKeeps
<1>7. CASE /\ ~ Converged(iter[r], model[r].accuracy, previous[r])
           /\ \E m \in Built(r, model[r], lone[r]) : model' = [model EXCEPT ![r] = m]
           /\ iter' = [iter EXCEPT ![r] = iter[r] + 1]
           /\ previous' = [previous EXCEPT ![r] = model[r].accuracy]
           /\ answer' = None /\ UNCHANGED <<pc, train, held, lone>>
  <2>1. PICK m \in Built(r, p, lone[r]) : model' = [model EXCEPT ![r] = m]
    BY <1>4, <1>7
  <2>2. Sound(m)
    BY <1>2, <1>5, <2>1, BuiltSound
  <2>3. Shape'
    BY <1>1, <1>3, <1>7, <2>1 DEF LearningInv, Shape
  <2>4. PICK i \in Nat : i = iter[r]
    BY <1>2 DEF Shape
  <2>5. /\ pc'[r] = "persist" /\ model'[r] = m /\ iter'[r] = i + 1
        /\ train'[r] = train[r] /\ previous'[r] = p.accuracy
    BY <1>1, <1>4, <1>7, <2>1, <2>4 DEF LearningInv, Shape
  <2>6. Scored(r)' = Scored(r) /\ Rows(train[r])' = Rows(train[r])
    BY <1>1, <1>7, CallsStay DEF Scored
  <2>7. Sound(model[r])'
    <3>1. Sound(m)'
      BY <1>1, <2>2, ModelsStay
    <3> QED
      BY <2>5, <3>1
  <2>8. m.lone = lone[r] /\ m.version <= p.version + 1 /\ lone'[r] = lone[r]
    <3>1. p.version \in Nat
      BY <1>5 DEF Sound
    <3>2. m.lone = lone[r] /\ m.version = IF p = None THEN 1 ELSE p.version + 1
      BY <2>1, BuiltCopies
    <3>3. m.version <= p.version + 1
      BY <3>1, <3>2
    <3> QED
      BY <1>7, <3>2, <3>3
  <2>9. ASSUME lone[r]
        PROVE  /\ m.train = train[r] /\ m.transitions = Counted(Rows(train[r]))
               /\ m.version <= i + 1 + 1
               /\ m.accuracy \in Accuracies(m.transitions, Scored(r))
               /\ p.accuracy \in Accuracies(m.transitions, Scored(r))
               /\ i + 1 > 1 => ~Untied(m)
    <3>1. /\ p.transitions = Counted(Rows(train[r])) /\ p.version <= i + 1
          /\ p.accuracy \in Accuracies(p.transitions, Scored(r))
          /\ i > 0 => previous[r] \in Accuracies(p.transitions, Scored(r))
      BY <1>4, <1>5, <2>4, <2>9 DEF LoneRun
    <3>2. /\ m.train = train[r] /\ m.transitions = Counted(Rows(train[r]))
          /\ m.accuracy \in Accuracies(m.transitions, Scored(r))
      BY <1>2, <2>1, <3>1, BuiltLone
    <3>3. m.version <= i + 1 + 1
      <4>1. p.version \in Nat /\ m.version \in Nat
        BY <1>5, <2>2 DEF Sound
      <4> QED
        BY <2>8, <3>1, <4>1
    <3>4. ASSUME i + 1 > 1, Untied(m) PROVE FALSE
      <4>1. i > 0
        BY <3>4
      <4>2. /\ p.accuracy \in Accuracies(m.transitions, Scored(r))
            /\ previous[r] \in Accuracies(m.transitions, Scored(r))
        BY <3>1, <3>2, <4>1
      <4>3. Scored(r) \in Seq(RowSet)
        BY <1>2, RowsAreCalls DEF Scored
      <4>4. m.transitions \in MatrixType
        BY <2>2 DEF Sound
      <4>5. Within(p.accuracy, previous[r])
        BY <3>4, <4>2, <4>3, <4>4, UntiedAccuracy
      <4> QED
        BY <1>4, <1>7, <2>4, <4>1, <4>5 DEF Converged
    <3> QED
      BY <3>1, <3>2, <3>3, <3>4
  <2>10. LoneRun(r)'
    <3>1. (model[r].lone)' => lone'[r]
      BY <2>5, <2>8, Zenon
    <3>2. ASSUME lone'[r]
          PROVE  (/\ model[r].train = train[r] /\ model[r].transitions = Counted(Rows(train[r]))
                  /\ model[r].version <= iter[r] + 1
                  /\ model[r].accuracy \in Accuracies(model[r].transitions, Scored(r))
                  /\ iter[r] > 0 => previous[r] \in Accuracies(model[r].transitions, Scored(r))
                  /\ iter[r] > 1 => ~Untied(model[r]))'
      <4>1. lone[r]
        BY <2>8, <3>2, Zenon
      <4> QED
        BY <2>5, <2>6, <2>9, <4>1
    <3> QED
      BY <3>1, <3>2 DEF LoneRun
  <2>11. Request(r)'
    BY <2>5, <2>7, <2>10 DEF Request
  <2>12. \A q \in Requests \ {r} : Still(q)
    BY Zenon, <1>2, <1>7, <2>1 DEF Shape, Still
  <2>13. \A q \in Requests : Request(q)'
    BY <1>1, <2>11, <2>12, OthersStay
  <2>14. ShowsWhatHappened'
    BY <1>7 DEF ShowsWhatHappened
  <2> QED
    BY <1>3, <2>3, <2>13, <2>14 DEF LearningInv
<1> QED
  <2>1. \/ AnswerFrom(r, model[r].transitions, model[r].triggers)
        \/ /\ ~ (\/ Converged(iter[r], model[r].accuracy, previous[r])
                 \/ iter[r] + 1 = NIterations)
           /\ \E m \in Built(r, model[r], lone[r]) : model' = [model EXCEPT ![r] = m]
           /\ iter' = [iter EXCEPT ![r] = @ + 1]
           /\ previous' = [previous EXCEPT ![r] = model[r].accuracy]
           /\ answer' = None
           /\ UNCHANGED <<pc, history, train, held, lone, askVars>>
    BY Zenon DEF Persist
  <2> QED
    BY <1>6, <1>7, <2>1

\* A query fails, after the row was written or before.
LEMMA QueryFailsKeeps ==
  ASSUME LearningInv, NEW r \in Requests, QueryFails(r)
  PROVE  LearningInv'
<1>1. CallsKept /\ Answer(r, "failed", {})
  BY TableLeft DEF QueryFails
<1>2. Shows({})
  BY DEF Shows
<1>3. Shape /\ Stored /\ Request(r)
  BY DEF LearningInv
<1>4. Stored' /\ DOMAIN store' \subseteq Nat /\ IsFiniteSet(DOMAIN store')
  <2>1. CASE UNCHANGED store
    BY <1>1, <1>3, <2>1, StoreStays DEF Shape
  <2>2. CASE pc[r] = "persist" /\ Upsert(model[r])
    BY <1>1, <1>3, <2>2, UpsertStores
  <2> QED
    BY <2>1, <2>2 DEF QueryFails
<1> QED
  BY <1>1, <1>2, <1>4, AnswerKeeps

\* Every step keeps the invariant.
LEMMA StepLearning == LearningInv /\ Tables /\ [Next]_vars => LearningInv'
<1> SUFFICES ASSUME LearningInv, Tables, [Next]_vars PROVE LearningInv'
  OBVIOUS
<1>1. ASSUME NEW i, Deliver(i) PROVE LearningInv'
  BY <1>1, DeliverKeeps
<1>2. ASSUME NEW r \in Requests, NEW p \in BOOLEAN, Ask(r, p) PROVE LearningInv'
  BY <1>2, AskKeeps
<1>3. ASSUME NEW r \in Requests, Fetch(r) PROVE LearningInv'
  BY <1>3, FetchKeeps
<1>4. ASSUME NEW r \in Requests, Load(r) PROVE LearningInv'
  BY <1>4, LoadKeeps
<1>5. ASSUME NEW r \in Requests, LoadInteractions(r) PROVE LearningInv'
  BY <1>5, LoadInteractionsKeeps
<1>6. ASSUME NEW r \in Requests, LoadPrior(r) PROVE LearningInv'
  BY <1>6, LoadPriorKeeps
<1>7. ASSUME NEW r \in Requests, Persist(r) PROVE LearningInv'
  BY <1>7, PersistKeeps
<1>8. ASSUME NEW r \in Requests, QueryFails(r) PROVE LearningInv'
  BY <1>8, QueryFailsKeeps
<1>9. CASE UNCHANGED vars
  <2>1. /\ UNCHANGED <<calls, store, pc, model, train, held, iter, previous, lone, answer>>
        /\ CallsKept
    BY <1>9, TableLeft DEF vars, buildVars
  <2>2. Shape'
    BY <2>1 DEF LearningInv, Shape
  <2>3. Stored'
    BY <2>1, StoreStays DEF LearningInv
  <2>4. ASSUME NEW q \in Requests PROVE Request(q)'
    <3>1. Request(q) /\ Still(q)
      BY <2>1 DEF LearningInv, Still
    <3> QED
      BY <2>1, <3>1, RequestStays
  <2>5. ShowsWhatHappened'
    BY <2>1, CallsStay DEF LearningInv, ShowsWhatHappened
  <2> QED
    BY <2>2, <2>3, <2>4, <2>5 DEF LearningInv
<1> QED
  BY <1>1, <1>2, <1>3, <1>4, <1>5, <1>6, <1>7, <1>8, <1>9 DEF Next

-----------------------------------------------------------------------------
\* Nothing is read of the table at first.
LEMMA InitTables == Init => Tables
<1> SUFFICES ASSUME Init PROVE Tables
  OBVIOUS
<1>1. Table(<<>>)
  BY DEF Table, Recorded, InOrder, IsInjective
<1> QED
  BY <1>1 DEF Init, Tables

\* A request reads the table as it is, and keeps what it has read or part of it.
LEMMA StepTables == Tables /\ [Next]_vars => Tables'
<1> SUFFICES ASSUME Tables, [Next]_vars PROVE Tables'
  OBVIOUS
<1>1. calls \in Histories /\ Table(delivered) /\ Table(<<>>)
  BY DEF Tables, Table, Recorded, InOrder, IsInjective
<1>2. ASSUME CallsKept, Table(delivered)', NEW r,
             \/ UNCHANGED <<history, train, held>>
             \/ history' = [history EXCEPT ![r] = delivered] /\ UNCHANGED <<train, held>>
             \/ /\ history' = [history EXCEPT ![r] = <<>>]
                /\ train' = [train EXCEPT ![r] = <<>>] /\ held' = [held EXCEPT ![r] = <<>>]
             \/ \E a, b : /\ Table(a) /\ Table(b) /\ UNCHANGED history
                          /\ train' = [train EXCEPT ![r] = a] /\ held' = [held EXCEPT ![r] = b]
      PROVE  Tables'
  <2>1. /\ calls' \in Histories
        /\ {DOMAIN history', DOMAIN train', DOMAIN held'} = {Requests}
    BY <1>1, <1>2 DEF Tables, CallsKept
  <2>2. ASSUME NEW q \in Requests
        PROVE  Table(history'[q]) /\ Table(train'[q]) /\ Table(held'[q])
    BY <1>1, <1>2 DEF Tables
  <2>3. ASSUME NEW q \in Requests
        PROVE  Table(history[q])' /\ Table(train[q])' /\ Table(held[q])'
    <3>1. PICK h, a, b : h = history'[q] /\ a = train'[q] /\ b = held'[q]
      OBVIOUS
    <3>2. Table(h)' /\ Table(a)' /\ Table(b)'
      BY <1>2, <2>2, <3>1, CallsStay
    <3> QED
      BY <3>1, <3>2 DEF Table, Recorded, InOrder
  <2> QED
    BY <1>2, <2>1, <2>3 DEF Tables
<1>3. ASSUME UNCHANGED <<calls, stamped, delivered>>, NEW r,
             \/ UNCHANGED <<history, train, held>>
             \/ history' = [history EXCEPT ![r] = delivered] /\ UNCHANGED <<train, held>>
             \/ /\ history' = [history EXCEPT ![r] = <<>>]
                /\ train' = [train EXCEPT ![r] = <<>>] /\ held' = [held EXCEPT ![r] = <<>>]
             \/ \E a, b : /\ Table(a) /\ Table(b) /\ UNCHANGED history
                          /\ train' = [train EXCEPT ![r] = a] /\ held' = [held EXCEPT ![r] = b]
      PROVE  Tables'
  <2>1. CallsKept
    BY <1>3, TableLeft
  <2>2. PICK d : d = delivered
    OBVIOUS
  <2>3. Table(d)'
    BY <1>1, <2>1, <2>2, CallsStay
  <2>4. Table(delivered)'
    BY <1>3, <2>2, <2>3 DEF Table, Recorded, InOrder
  <2> QED
    BY <1>2, <1>3, <2>1, <2>4
<1>4. ASSUME NEW i \in DOMAIN calls, Deliver(i) PROVE Tables'
  <2>1. CallsKept
    BY <1>4, DeliverRepeats DEF Deliver, CallsKept
  <2>2. delivered' \in Seq(DOMAIN calls)
    <3>1. PICK s \in Seq(DOMAIN calls) : s = delivered
      BY <1>1 DEF Table
    <3>2. PICK n \in 1..Len(s) + 1 : delivered' = InsertAt(s, n, i)
      BY <1>4, <3>1 DEF Deliver
    <3>3. /\ SubSeq(s, 1, n - 1) \in Seq(DOMAIN calls) /\ <<i>> \in Seq(DOMAIN calls)
          /\ SubSeq(s, n, Len(s)) \in Seq(DOMAIN calls)
      OBVIOUS
    <3> QED
      BY <3>2, <3>3 DEF InsertAt
  <2>3. Table(delivered)'
    BY <1>4, <2>2 DEF Deliver, Table, Recorded, InOrder
  <2> QED
    BY <1>2, <1>4, <2>1, <2>3 DEF Deliver, buildVars
<1>5. ASSUME NEW r \in Requests, NEW kind, NEW shown, Answer(r, kind, shown),
             UNCHANGED <<calls, stamped, delivered>>
      PROVE  Tables'
  BY <1>3, <1>5 DEF Answer
<1>6. ASSUME NEW r \in Requests, NEW m, NEW t, AnswerFrom(r, m, t),
             UNCHANGED <<calls, stamped, delivered>>
      PROVE  Tables'
  BY <1>5, <1>6 DEF AnswerFrom
<1>7. ASSUME NEW r \in Requests, NEW p \in BOOLEAN, Ask(r, p) PROVE Tables'
  BY <1>3, <1>7 DEF Ask, buildVars
<1>8. ASSUME NEW r \in Requests, Fetch(r) PROVE Tables'
  BY <1>3, <1>5, <1>8 DEF Fetch, buildVars
<1>9. ASSUME NEW r \in Requests, Load(r) PROVE Tables'
  BY <1>3, <1>6, <1>9 DEF Load, buildVars
<1>10. ASSUME NEW r \in Requests, LoadInteractions(r) PROVE Tables'
  <2>1. CASE AnswerFrom(r, NoTransitions, {})
    BY <1>6, <1>10, <2>1 DEF LoadInteractions
  <2>2. CASE delivered # <<>>
    <3> DEFINE n == Split(Len(delivered))
               a == SubSeq(delivered, 1, n)
               b == SubSeq(delivered, n + 1, Len(delivered))
    <3>1. /\ train' = [train EXCEPT ![r] = a] /\ held' = [held EXCEPT ![r] = b]
          /\ UNCHANGED <<calls, stamped, delivered, history>>
      BY <1>10, <2>2 DEF LoadInteractions
    <3>2. Len(delivered) \in Nat
      BY <1>1 DEF Table
    <3>3. n \in Nat /\ n <= Len(delivered) 
      BY <3>2 DEF Split
    <3> HIDE DEF n
    <3>4. Table(a) /\ Table(b)
      BY <1>1, <3>2, <3>3, TablePart
    <3> HIDE DEF a, b
    <3> QED
      BY <1>3, <3>1, <3>4
  <2> QED
    BY <1>10, <2>1, <2>2 DEF LoadInteractions
<1>11. ASSUME NEW r \in Requests, LoadPrior(r) PROVE Tables'
  BY <1>3, <1>11 DEF LoadPrior
<1>12. ASSUME NEW r \in Requests, Persist(r) PROVE Tables'
  BY <1>3, <1>6, <1>12 DEF Persist
<1>13. ASSUME NEW r \in Requests, QueryFails(r) PROVE Tables'
  BY <1>5, <1>13 DEF QueryFails
<1>14. CASE UNCHANGED vars
  BY <1>3, <1>14 DEF vars, buildVars
<1> QED
  BY <1>4, <1>7, <1>8, <1>9, <1>10, <1>11, <1>12, <1>13, <1>14 DEF Next
-----------------------------------------------------------------------------
\* Whatever a request has read of the table is what the table recorded of calls: in their
\* order if they are stamped, a call twice only if it is in the table twice.  Models,
\* stored or in a request's hands, say of transitions and triggers only what happened in
\* one session; a build from nothing has what its rows count, and an accuracy that those
\* rows give (ModelConstructor.iterate, _load_latest_model, suggest.py, profile.py).
THEOREM LearningInvariant == Spec => [](Tables /\ LearningInv)
<1>1. Init => Tables /\ LearningInv
  BY InitTables, InitLearning
<1>2. Tables /\ LearningInv /\ [Next]_vars => (Tables /\ LearningInv)'
  BY StepTables, StepLearning
<1> QED
  BY <1>1, <1>2, PTL DEF Spec

\* Every sequence that suggest_next_action or get_pm_profile shows was called in one
\* session, however events and builds interleave, whichever rows were missing, late or
\* repeated, and whatever the models blended in were trained on: in that order if the
\* producer stamps its events, and each call only once if no row is in the table twice.
THEOREM ShownHappened == Spec => []ShowsWhatHappened
<1>1. LearningInv => ShowsWhatHappened
  BY DEF LearningInv
<1> QED
  BY <1>1, LearningInvariant, PTL

\* A model that iterate built from nothing counts what its training rows count, in every
\* version, and beyond the second version only where two successors of a tool tie: the
\* blend of _blend_matrices with the same counts changes nothing, so the accuracy repeats
\* and the loop has converged.
THEOREM LoneBuildsSettle == Spec => []LoneBuildSettles
<1>1. LearningInv => LoneBuildSettles
  BY DEF LearningInv, Stored, Settled, LoneBuildSettles
<1> QED
  BY <1>1, LearningInvariant, PTL
===============================================================================
