----------------------- MODULE ThesisValidationProofs -----------------------
(***************************************************************************)
(* What a report says, for every set of theses, desks, accounts, securities*)
(* and books, and whatever calls fail in whatever order: CallsAnswerable,  *)
(* DeskIsolated, SupportNeedsMarketData, GapNeverSupports, FavourableIsNoWorse*)
(* and EvidenceInOrder of ThesisValidation.  The invariant is ValidationInv:*)
(* ReplyInv, what is held of a call is an answer to it, and RunInv, the executor*)
(* carries out the plan of the thesis.  From a finished plan the proofs follow*)
(* the results through ScoreEvidence, item by item (FoldFacts), to the counts and*)
(* sums the confidence is computed from.                                   *)
(***************************************************************************)
EXTENDS ThesisValidation, FoldFacts
-----------------------------------------------------------------------------
(***************************************************************************)
(* THE NUMBERS: the confidence and the verdict as functions of the counts and*)
(* sums of the items.  n and x are the divisor of the mean and twice the blended*)
(* sum, w is the weight of the neutral items.                              *)
(***************************************************************************)

\* The number of decisive items a mean is taken over, and the percentage by
\* which the neutral ones pull it to 1/2.
Divisor(nFor, nAgainst) == IF nFor + nAgainst = 0 THEN 1 ELSE nFor + nAgainst
Pull(nNeutral) == Within(5 * nNeutral, 0, 20)
Weights == {0, 5, 10, 15, 20}
Shares == 0..1000

\* The weight of the neutral items is one of five.
LEMMA PullValues ==
  \A k \in Nat : /\ Pull(k) \in Weights
                 /\ Pull(k) <= Pull(k + 1)
BY DEF Pull, Within, Weights

\* A quotient by a positive number is at least q exactly when the dividend is
\* at least q times the divisor ..
LEMMA QuotientBound ==
  \A a, q \in Int, d \in Nat \ {0} : a \div d >= q <=> a >= q * d
OBVIOUS

\* .. monotone ..
LEMMA QuotientMonotone ==
  \A a, b \in Int, d \in Nat \ {0} : a <= b => a \div d <= b \div d
OBVIOUS

\* .. and an integer.
LEMMA QuotientType ==
  \A a \in Int, d \in Nat \ {0} : a \div d \in Int
OBVIOUS
-----------------------------------------------------------------------------
\* Blend in terms of x = 2 * for - against and of the weight of the neutrals.
Numerator(x, n, w) == x * (100 - w) + 1000 * n * w
Share(x, n, w) == Within(Rounded(Numerator(x, n, w), 200 * n), 0, 1000)

\* Every confidence is such a share (_compute_confidence).
LEMMA BlendIsShare ==
  ASSUME NEW nFor \in Nat, NEW nAgainst \in Nat, NEW nNeutral \in Nat,
         NEW for \in Nat, NEW against \in Nat
  PROVE  /\ Blend(nFor, nAgainst, nNeutral, for, against)
              = Share(2 * for - against, Divisor(nFor, nAgainst), Pull(nNeutral))
         /\ Divisor(nFor, nAgainst) \in Nat \ {0}
         /\ 2 * for - against \in Int
BY DEF Blend, Share, Numerator, Divisor, Pull

\* The share is one of a thousand (_compute_confidence clamps it).
LEMMA ShareType ==
  \A x \in Int, n \in Nat \ {0}, w \in Weights : Share(x, n, w) \in Shares
<1> SUFFICES ASSUME NEW x \in Int, NEW n \in Nat \ {0}, NEW w \in Weights
             PROVE  Share(x, n, w) \in Shares
  OBVIOUS
<1>1. 2 * Numerator(x, n, w) + 200 * n \in Int /\ 2 * (200 * n) \in Nat \ {0}
  BY DEF Numerator, Weights
<1>2. Rounded(Numerator(x, n, w), 200 * n) \in Int
  BY <1>1, QuotientType DEF Rounded
<1> QED
  BY <1>2 DEF Share, Shares, Within

\* More in favour, or less against, never lowers the share.
LEMMA ShareMonotone ==
  ASSUME NEW x \in Int, NEW y \in Int, x <= y,
         NEW n \in Nat \ {0}, NEW w \in Weights
  PROVE  Share(x, n, w) <= Share(y, n, w)
<1>1. Numerator(x, n, w) <= Numerator(y, n, w)
      /\ Numerator(x, n, w) \in Int /\ Numerator(y, n, w) \in Int
  BY DEF Numerator, Weights
<1>2. 2 * (200 * n) \in Nat \ {0}
  OBVIOUS
<1>3. Rounded(Numerator(x, n, w), 200 * n) <= Rounded(Numerator(y, n, w), 200 * n)
      /\ Rounded(Numerator(x, n, w), 200 * n) \in Int
      /\ Rounded(Numerator(y, n, w), 200 * n) \in Int
  <2> DEFINE a == 2 * Numerator(x, n, w) + 200 * n
             b == 2 * Numerator(y, n, w) + 200 * n
  <2>1. a \in Int /\ b \in Int /\ a <= b
    BY <1>1
  <2> QED
    BY <1>2, <2>1, QuotientMonotone, QuotientType, ZenonT(60) DEF Rounded
<1> QED
  BY <1>3 DEF Share, Within

\* A share of at least 55% is so with less of a pull to the middle, too.
LEMMA ShareUnpulled ==
  ASSUME NEW x \in Int, NEW n \in Nat \ {0},
         NEW w \in Weights, NEW v \in Weights, w <= v,
         Share(x, n, v) >= 550
  PROVE  Share(x, n, w) >= 550
<1>1. \A u \in Weights :
        Share(x, n, u) >= 550 <=> 2 * Numerator(x, n, u) + 200 * n >= 550 * (400 * n)
  <2> TAKE u \in Weights
  <2>1. Numerator(x, n, u) \in Int
    BY DEF Numerator, Weights
  <2> DEFINE a == 2 * Numerator(x, n, u) + 200 * n
  <2>2. a \in Int /\ 2 * (200 * n) = 400 * n /\ 400 * n \in Nat \ {0}
    BY <2>1
  <2>3. Rounded(Numerator(x, n, u), 200 * n) = a \div (400 * n)
    BY <2>2 DEF Rounded
  <2>4. a \div (400 * n) >= 550 <=> a >= 550 * (400 * n)
    BY <2>2, QuotientBound
  <2>5. a \div (400 * n) \in Int
    BY <2>2, QuotientType
  <2> QED
    BY <2>3, <2>4, <2>5 DEF Share, Within
<1>2. 2 * Numerator(x, n, v) + 200 * n >= 550 * (400 * n)
  BY <1>1
<1>3. 2 * Numerator(x, n, w) + 200 * n >= 550 * (400 * n)
  BY <1>2 DEF Numerator, Weights
<1> QED
  BY <1>1, <1>3
-----------------------------------------------------------------------------
\* The confidence of a report is a share, whatever the evidence
\* (report_generator.py, _compute_confidence).
THEOREM ConfidenceIsShare ==
  ASSUME NEW nFor \in Nat, NEW nAgainst \in Nat, NEW nNeutral \in Nat,
         NEW for \in Nat, NEW against \in Nat
  PROVE  Blend(nFor, nAgainst, nNeutral, for, against) \in Shares
<1>1. /\ 2 * for - against \in Int
      /\ Divisor(nFor, nAgainst) \in Nat \ {0}
      /\ Blend(nFor, nAgainst, nNeutral, for, against)
           = Share(2 * for - against, Divisor(nFor, nAgainst), Pull(nNeutral))
  BY BlendIsShare
<1>2. Pull(nNeutral) \in Weights
  BY PullValues
<1> QED
  BY <1>1, <1>2, ShareType

\* An item of confidence c that turns from AGAINST to FOR lowers neither the
\* confidence nor the verdict (_compute_confidence, _compute_verdict).
THEOREM FavourableVerdict ==
  ASSUME NEW nFor \in Nat, NEW nAgainst \in Nat \ {0}, NEW nNeutral \in Nat,
         NEW for \in Nat, NEW against \in Nat, NEW c \in Nat, c <= against
  PROVE  LET before == Blend(nFor, nAgainst, nNeutral, for, against)
             after == Blend(nFor + 1, nAgainst - 1, nNeutral, for + c, against - c)
         IN  /\ before <= after
             /\ Verdict(nFor, nAgainst, before) = "SUPPORTED"
                  => Verdict(nFor + 1, nAgainst - 1, after) = "SUPPORTED"
             /\ Verdict(nFor + 1, nAgainst - 1, after) = "UNSUPPORTED"
                  => Verdict(nFor, nAgainst, before) = "UNSUPPORTED"
<1> DEFINE before == Blend(nFor, nAgainst, nNeutral, for, against)
           after == Blend(nFor + 1, nAgainst - 1, nNeutral, for + c, against - c)
           x == 2 * for - against
           y == 2 * (for + c) - (against - c)
<1>1. x \in Int /\ y \in Int /\ x <= y
  OBVIOUS
<1>2. Divisor(nFor + 1, nAgainst - 1) = Divisor(nFor, nAgainst)
  BY DEF Divisor
<1>3. /\ before = Share(x, Divisor(nFor, nAgainst), Pull(nNeutral))
      /\ Divisor(nFor, nAgainst) \in Nat \ {0}
  BY BlendIsShare
<1>4. after = Share(y, Divisor(nFor, nAgainst), Pull(nNeutral))
  <2>1. nFor + 1 \in Nat /\ nAgainst - 1 \in Nat /\ for + c \in Nat /\ against - c \in Nat
    OBVIOUS
  <2>2. after = Share(y, Divisor(nFor + 1, nAgainst - 1), Pull(nNeutral))
    BY <2>1, BlendIsShare
  <2> QED
    BY <2>2, <1>2
<1>5. Pull(nNeutral) \in Weights
  BY PullValues
<1> HIDE DEF x, y
<1>6. before <= after
  BY <1>1, <1>3, <1>4, <1>5, ShareMonotone
<1> HIDE DEF before, after
<1>7. before \in Shares /\ after \in Shares
  <2>1. nFor + 1 \in Nat /\ nAgainst - 1 \in Nat /\ for + c \in Nat /\ against - c \in Nat
    OBVIOUS
  <2> QED
    BY <2>1, ConfidenceIsShare DEF before, after
<1>8. Verdict(nFor, nAgainst, before) = "SUPPORTED"
        => Verdict(nFor + 1, nAgainst - 1, after) = "SUPPORTED"
  BY <1>6, <1>7 DEF Verdict, Shares
<1>9. Verdict(nFor + 1, nAgainst - 1, after) = "UNSUPPORTED"
        => Verdict(nFor, nAgainst, before) = "UNSUPPORTED"
  BY <1>6, <1>7 DEF Verdict, Shares
<1> QED
  BY <1>6, <1>8, <1>9 DEF before, after

\* A neutral item, such as the one a failed call leaves, never makes a thesis
\* supported (_make_data_gap_item, _compute_verdict).
THEOREM NeutralNeverSupports ==
  ASSUME NEW nFor \in Nat, NEW nAgainst \in Nat, NEW nNeutral \in Nat,
         NEW for \in Nat, NEW against \in Nat,
         Verdict(nFor, nAgainst, Blend(nFor, nAgainst, nNeutral + 1, for, against)) = "SUPPORTED"
  PROVE  Verdict(nFor, nAgainst, Blend(nFor, nAgainst, nNeutral, for, against)) = "SUPPORTED"
<1> DEFINE x == 2 * for - against
           n == Divisor(nFor, nAgainst)
<1>1. /\ x \in Int /\ n \in Nat \ {0}
      /\ Blend(nFor, nAgainst, nNeutral, for, against) = Share(x, n, Pull(nNeutral))
      /\ Blend(nFor, nAgainst, nNeutral + 1, for, against) = Share(x, n, Pull(nNeutral + 1))
  <2>1. nNeutral + 1 \in Nat
    OBVIOUS
  <2>2. Blend(nFor, nAgainst, nNeutral + 1, for, against) = Share(x, n, Pull(nNeutral + 1))
    BY <2>1, BlendIsShare
  <2>3. Blend(nFor, nAgainst, nNeutral, for, against) = Share(x, n, Pull(nNeutral))
    BY BlendIsShare
  <2>4. x \in Int /\ n \in Nat \ {0}
    BY BlendIsShare
  <2> QED
    BY <2>2, <2>3, <2>4
<1>2. /\ Pull(nNeutral) \in Weights /\ Pull(nNeutral + 1) \in Weights
      /\ Pull(nNeutral) <= Pull(nNeutral + 1)
  BY PullValues
<1> HIDE DEF x, n
<1>3. Share(x, n, Pull(nNeutral + 1)) >= 550 /\ nFor > nAgainst
  BY <1>1 DEF Verdict
<1>4. Share(x, n, Pull(nNeutral)) >= 550
  BY <1>1, <1>2, <1>3, ShareUnpulled
<1> QED
  BY <1>1, <1>3, <1>4 DEF Verdict
-----------------------------------------------------------------------------
(***************************************************************************)
(* THE EVIDENCE: what turning one item of a sequence does to its counts and sums,*)
(* and what leaving the gaps out does.                                     *)
(***************************************************************************)

Classes == {"FOR", "AGAINST", "NEUTRAL"}
Sources == {"bloomberg", "risk", "research"}

EvidenceItem == [source : Sources, class : Classes, confidence : Shares, gap : BOOLEAN]

Count(evidence, class) == Cardinality(Classified(evidence, class))

\* The shares are numbers.
LEMMA ItemConfidence ==
  \A x \in EvidenceItem : x.confidence \in Int /\ 0 <= x.confidence /\ x.confidence <= 1000
BY DEF EvidenceItem, Shares

\* The items of a class are finitely many, and add up to a number.
LEMMA TallyType ==
  ASSUME NEW e \in Seq(EvidenceItem), NEW class
  PROVE  /\ IsFiniteSet(Classified(e, class))
         /\ Count(e, class) \in Nat
         /\ Total(e, class) \in Nat
         /\ \A n \in Classified(e, class) : e[n].confidence \in Nat
<1> DEFINE f == [n \in DOMAIN e |-> e[n].confidence]
           S == Classified(e, class)
<1>1. IsFiniteSet(S)
  <2>1. IsFiniteSet(1..Len(e))
    BY FS_Interval
  <2>2. S \subseteq 1..Len(e)
    BY DEF Classified
  <2> QED
    BY <2>1, <2>2, FS_Subset
<1>2. \A n \in S : f[n] \in Int /\ 0 <= f[n] /\ f[n] <= 1000 /\ f[n] = e[n].confidence
  <2>1. \A n \in S : n \in DOMAIN e /\ e[n] \in EvidenceItem
    BY DEF Classified
  <2> QED
    BY <2>1, ItemConfidence
<1>3. Total(e, class) = SumFunctionOnSet(f, S)
  BY DEF Total
<1> HIDE DEF f, S
<1>4. Cardinality(S) \in Nat
  BY <1>1, FS_CardinalityType
<1>5. SumFunctionOnSet(f, S) \in Int
  BY <1>1, <1>2, SumType
<1>6. 0 * Cardinality(S) <= SumFunctionOnSet(f, S)
  BY <1>1, <1>2, SumBounds
<1> QED
  BY <1>1, <1>2, <1>3, <1>4, <1>5, <1>6 DEF Count, S

\* One more item counts in its own class.
LEMMA TallyAppend ==
  ASSUME NEW e \in Seq(EvidenceItem), NEW x \in EvidenceItem, NEW class
  PROVE  /\ Count(Append(e, x), class) = Count(e, class) + IF x.class = class THEN 1 ELSE 0
         /\ Total(Append(e, x), class)
              = Total(e, class) + IF x.class = class THEN x.confidence ELSE 0
<1> DEFINE a == Append(e, x)
           k == Len(e) + 1
           f == [n \in DOMAIN e |-> e[n].confidence]
           g == [n \in DOMAIN a |-> a[n].confidence]
           S == Classified(e, class)
<1>1. /\ a \in Seq(EvidenceItem) /\ DOMAIN a = 1..k /\ DOMAIN e = 1..Len(e) /\ Len(e) \in Nat
      /\ a[k] = x /\ \A n \in DOMAIN e : a[n] = e[n]
  OBVIOUS
<1>2. Classified(a, class) = IF x.class = class THEN S \cup {k} ELSE S
  BY <1>1 DEF Classified
<1>3. k \notin S /\ S \subseteq DOMAIN e
  BY <1>1 DEF Classified
<1>4. Agree(f, g, S)
  BY <1>1, <1>3 DEF Agree
<1>5. g[k] = x.confidence /\ \A n \in S \cup {k} : g[n] \in Int
  <2>1. \A n \in DOMAIN a : g[n] \in Int
    BY <1>1, ItemConfidence
  <2> QED
    BY <1>1, <1>3, <2>1
<1>6. IsFiniteSet(S) /\ Cardinality(S) \in Nat
  BY TallyType DEF Count
<1>7. Total(e, class) = SumFunctionOnSet(f, S) /\ Total(a, class) = SumFunctionOnSet(g, Classified(a, class))
  BY DEF Total
<1> HIDE DEF a, k, f, g, S
<1>8. SumFunctionOnSet(g, S) = SumFunctionOnSet(f, S)
  BY <1>4, <1>6, SumAgrees
<1>9. CASE x.class = class
  <2>1. Cardinality(S \cup {k}) = Cardinality(S) + 1
    BY <1>3, <1>6, FS_AddElement
  <2>2. SumFunctionOnSet(g, S \cup {k}) = g[k] + SumFunctionOnSet(g, S)
    BY <1>3, <1>5, <1>6, SumAdd
  <2>3. x.confidence \in Int /\ Total(e, class) \in Int
    BY TallyType, ItemConfidence
  <2> QED
    BY <1>2, <1>5, <1>7, <1>8, <1>9, <2>1, <2>2, <2>3 DEF Count, S, a
<1>10. CASE x.class # class
  <2>1. Total(e, class) \in Int /\ Count(e, class) \in Int
    BY TallyType
  <2> QED
    BY <1>2, <1>7, <1>8, <1>10, <2>1 DEF Count, S, a
<1> QED
  BY <1>9, <1>10

\* The items of two pieces of evidence add up.
LEMMA TallyConcat ==
  ASSUME NEW d \in Seq(EvidenceItem), NEW e \in Seq(EvidenceItem), NEW class
  PROVE  /\ Count(d \o e, class) = Count(d, class) + Count(e, class)
         /\ Total(d \o e, class) = Total(d, class) + Total(e, class)
<1> DEFINE Right(t) == /\ Count(d \o t, class) = Count(d, class) + Count(t, class)
                       /\ Total(d \o t, class) = Total(d, class) + Total(t, class)
           P == {t \in Seq(EvidenceItem) : Right(t)}
<1>1. <<>> \in P
  <2>1. Classified(<<>>, class) = {} /\ DOMAIN <<>> = {} /\ d \o <<>> = d
    BY DEF Classified
  <2>2. Count(<<>>, class) = 0
    BY <2>1, FS_EmptySet DEF Count
  <2>3. Total(<<>>, class) = 0
    BY <2>1, SumEmpty DEF Total
  <2>4. Count(d, class) \in Nat /\ Total(d, class) \in Nat
    BY TallyType
  <2> QED
    BY <2>1, <2>2, <2>3, <2>4
<1>2. ASSUME NEW t \in Seq(EvidenceItem), NEW x \in EvidenceItem, t \in P
      PROVE  Append(t, x) \in P
  <2>1. d \o t \in Seq(EvidenceItem) /\ d \o Append(t, x) = Append(d \o t, x)
    OBVIOUS
  <2>2. /\ Count(Append(d \o t, x), class) = Count(d \o t, class) + IF x.class = class THEN 1 ELSE 0
        /\ Total(Append(d \o t, x), class)
             = Total(d \o t, class) + IF x.class = class THEN x.confidence ELSE 0
    BY <2>1, TallyAppend
  <2>3. /\ Count(Append(t, x), class) = Count(t, class) + IF x.class = class THEN 1 ELSE 0
        /\ Total(Append(t, x), class)
             = Total(t, class) + IF x.class = class THEN x.confidence ELSE 0
    BY TallyAppend
  <2>4. /\ Count(d, class) \in Int /\ Total(d, class) \in Int
        /\ Count(t, class) \in Int /\ Total(t, class) \in Int
        /\ x.confidence \in Int
    BY TallyType, ItemConfidence
  <2>5. Right(t)
    BY <1>2
  <2> DEFINE one == IF x.class = class THEN 1 ELSE 0
             more == IF x.class = class THEN x.confidence ELSE 0
  <2>6. one \in Int /\ more \in Int
    BY <2>4
  <2> HIDE DEF one, more
  <2>7. Right(Append(t, x))
    BY SMTT(30), <2>1, <2>2, <2>3, <2>4, <2>5, <2>6 DEF one, more
  <2> QED
    BY <2>7
<1> HIDE DEF P
<1>3. Seq(EvidenceItem) \subseteq P
  BY <1>1, <1>2, SequenceInduction
<1> QED
  BY <1>3 DEF P
-----------------------------------------------------------------------------
\* The verdict on some evidence is that on its tallies.
LEMMA TallyVerdict ==
  ASSUME NEW e \in Seq(EvidenceItem), e # <<>>
  PROVE  LET share == Blend(Count(e, "FOR"), Count(e, "AGAINST"), Count(e, "NEUTRAL"),
                            Total(e, "FOR"), Total(e, "AGAINST"))
         IN  /\ Confidence(e) = share
             /\ VerdictOf(e) = Verdict(Count(e, "FOR"), Count(e, "AGAINST"), share)
BY DEF Confidence, VerdictOf, Count

\* An item that turns from against the thesis to in favour of it moves its
\* confidence from one tally to the other.
LEMMA TurnedTally ==
  ASSUME NEW e \in Seq(EvidenceItem), NEW n \in Classified(e, "AGAINST")
  PROVE  LET turned == [e EXCEPT ![n].class = "FOR"]
             c == e[n].confidence
         IN  /\ turned \in Seq(EvidenceItem) /\ turned # <<>>
             /\ Count(turned, "FOR") = Count(e, "FOR") + 1
             /\ Count(turned, "AGAINST") = Count(e, "AGAINST") - 1
             /\ Count(turned, "NEUTRAL") = Count(e, "NEUTRAL")
             /\ Total(turned, "FOR") = Total(e, "FOR") + c
             /\ Total(turned, "AGAINST") = Total(e, "AGAINST") - c
<1> DEFINE turned == [e EXCEPT ![n].class = "FOR"]
           f == [k \in DOMAIN e |-> e[k].confidence]
           g == [k \in DOMAIN turned |-> turned[k].confidence]
           F == Classified(e, "FOR")
           A == Classified(e, "AGAINST")
<1>1. /\ e \in [1..Len(e) -> EvidenceItem] /\ DOMAIN e = 1..Len(e) /\ Len(e) \in Nat
      /\ n \in DOMAIN e /\ e[n].class = "AGAINST"
  BY DEF Classified
<1>2. /\ DOMAIN turned = DOMAIN e
      /\ turned[n].class = "FOR" /\ turned[n].confidence = e[n].confidence
      /\ \A k \in DOMAIN e : k # n => turned[k] = e[k]
      /\ turned \in Seq(EvidenceItem)
  <2>1. [e[n] EXCEPT !.class = "FOR"] \in EvidenceItem
    BY <1>1 DEF EvidenceItem, Classes
  <2>2. turned = [k \in 1..Len(e) |-> IF k = n THEN [e[n] EXCEPT !.class = "FOR"] ELSE e[k]]
    BY <1>1
  <2>3. turned \in [1..Len(e) -> EvidenceItem]
    BY <1>1, <2>1, <2>2
  <2>4. e[n] \in EvidenceItem
    BY <1>1
  <2>5. DOMAIN e[n] = {"source", "class", "confidence", "gap"}
    BY <2>4 DEF EvidenceItem
  <2> QED
    BY <1>1, <2>2, <2>3, <2>5, SeqDef
<1> HIDE DEF turned
<1>3. /\ Classified(turned, "FOR") = F \cup {n}
      /\ Classified(turned, "AGAINST") = A \ {n}
      /\ Classified(turned, "NEUTRAL") = Classified(e, "NEUTRAL")
      /\ n \notin F /\ n \in A
  BY <1>1, <1>2 DEF Classified
<1>4. f = g
  BY <1>2
<1>5. \A k \in DOMAIN e : f[k] \in Int
  BY <1>1, ItemConfidence
<1>6. F \subseteq DOMAIN e /\ A \subseteq DOMAIN e
  BY DEF Classified
<1>7. IsFiniteSet(F) /\ IsFiniteSet(A)
  BY TallyType
<1>8. /\ Total(e, "FOR") = SumFunctionOnSet(f, F)
      /\ Total(e, "AGAINST") = SumFunctionOnSet(f, A)
      /\ Total(turned, "FOR") = SumFunctionOnSet(f, F \cup {n})
      /\ Total(turned, "AGAINST") = SumFunctionOnSet(f, A \ {n})
  BY <1>3, <1>4 DEF Total
<1>9. f[n] = e[n].confidence
  BY <1>1
<1> HIDE DEF f, g, F, A
<1>10. \A k \in F \cup {n} : f[k] \in Int
  BY <1>1, <1>5, <1>6
<1>11. \A k \in A : f[k] \in Int
  BY <1>5, <1>6
<1>12. SumFunctionOnSet(f, F \cup {n}) = f[n] + SumFunctionOnSet(f, F)
  BY <1>3, <1>7, <1>10, SumAdd
<1>13. SumFunctionOnSet(f, A) = f[n] + SumFunctionOnSet(f, A \ {n})
  BY <1>3, <1>7, <1>11, SumRemove
<1>14. Cardinality(F \cup {n}) = Cardinality(F) + 1
  BY <1>3, <1>7, FS_AddElement
<1>15. Cardinality(A \ {n}) = Cardinality(A) - 1
  BY <1>3, <1>7, FS_RemoveElement
<1>16. /\ Total(e, "FOR") \in Int /\ Total(turned, "AGAINST") \in Int /\ f[n] \in Int
  <2>1. /\ Total(e, "FOR") \in Nat /\ Total(turned, "AGAINST") \in Nat
    BY <1>2, TallyType
  <2> QED
    BY <1>1, <1>5, <2>1
<1>17. turned # <<>>
  BY <1>1, <1>2
<1>18. /\ Total(turned, "FOR") = Total(e, "FOR") + e[n].confidence
       /\ Total(turned, "AGAINST") = Total(e, "AGAINST") - e[n].confidence
  BY <1>8, <1>9, <1>12, <1>13, <1>16
<1> QED
  BY <1>2, <1>3, <1>14, <1>15, <1>17, <1>18 DEF Count, F, A, turned

\* Had an item spoken for the thesis instead of against it, the report would have
\* been no worse (_compute_confidence, _compute_verdict).
LEMMA FavourableEvidence ==
  ASSUME NEW e \in Seq(EvidenceItem), NEW n \in Classified(e, "AGAINST")
  PROVE  LET turned == [e EXCEPT ![n].class = "FOR"]
         IN  /\ Confidence(e) \in Shares /\ Confidence(turned) \in Shares
             /\ Confidence(e) <= Confidence(turned)
             /\ VerdictOf(e) = "SUPPORTED" => VerdictOf(turned) = "SUPPORTED"
             /\ VerdictOf(turned) = "UNSUPPORTED" => VerdictOf(e) = "UNSUPPORTED"
<1> DEFINE turned == [e EXCEPT ![n].class = "FOR"]
           c == e[n].confidence
<1>1. /\ turned \in Seq(EvidenceItem) /\ turned # <<>>
      /\ Count(turned, "FOR") = Count(e, "FOR") + 1
      /\ Count(turned, "AGAINST") = Count(e, "AGAINST") - 1
      /\ Count(turned, "NEUTRAL") = Count(e, "NEUTRAL")
      /\ Total(turned, "FOR") = Total(e, "FOR") + c
      /\ Total(turned, "AGAINST") = Total(e, "AGAINST") - c
  BY TurnedTally
<1> HIDE DEF turned
<1>2. e # <<>>
  BY DEF Classified
<1>3. /\ Count(e, "FOR") \in Nat /\ Count(e, "AGAINST") \in Nat /\ Count(e, "NEUTRAL") \in Nat
      /\ Total(e, "FOR") \in Nat /\ Total(e, "AGAINST") \in Nat /\ c \in Nat
  BY TallyType
<1>4. Count(turned, "AGAINST") \in Nat /\ Total(turned, "AGAINST") \in Nat
  BY <1>1, TallyType
<1> DEFINE p == Count(e, "FOR")
           a == Count(e, "AGAINST")
           k == Count(e, "NEUTRAL")
           for == Total(e, "FOR")
           against == Total(e, "AGAINST")
<1>5. p \in Nat /\ a \in Nat \ {0} /\ k \in Nat /\ for \in Nat /\ against \in Nat /\ c <= against
  BY SMTT(30), <1>1, <1>3, <1>4
<1>6. /\ Confidence(e) = Blend(p, a, k, for, against)
      /\ VerdictOf(e) = Verdict(p, a, Confidence(e))
      /\ Confidence(turned) = Blend(p + 1, a - 1, k, for + c, against - c)
      /\ VerdictOf(turned) = Verdict(p + 1, a - 1, Confidence(turned))
  BY <1>1, <1>2, TallyVerdict
<1> HIDE DEF p, a, k, for, against, c
<1>7. c \in Nat
  BY <1>3 DEF c
<1>8. /\ Blend(p, a, k, for, against) <= Blend(p + 1, a - 1, k, for + c, against - c)
      /\ VerdictOf(e) = "SUPPORTED" => VerdictOf(turned) = "SUPPORTED"
      /\ VerdictOf(turned) = "UNSUPPORTED" => VerdictOf(e) = "UNSUPPORTED"
  <2> DEFINE before == Blend(p, a, k, for, against)
             after == Blend(p + 1, a - 1, k, for + c, against - c)
  <2>1. /\ before <= after
        /\ Verdict(p, a, before) = "SUPPORTED" => Verdict(p + 1, a - 1, after) = "SUPPORTED"
        /\ Verdict(p + 1, a - 1, after) = "UNSUPPORTED" => Verdict(p, a, before) = "UNSUPPORTED"
    BY <1>5, <1>7, FavourableVerdict
  <2> HIDE DEF before, after
  <2>2. Confidence(e) = before /\ Confidence(turned) = after
    BY <1>6 DEF before, after
  <2> QED
    BY <1>6, <2>1, <2>2 DEF before, after
<1>9. /\ Confidence(e) \in Shares /\ Confidence(turned) \in Shares
  <2>1. p + 1 \in Nat /\ a - 1 \in Nat /\ for + c \in Nat /\ against - c \in Nat
    BY <1>5, <1>7
  <2> QED
    BY <1>5, <1>6, <2>1, ConfidenceIsShare
<1> QED
  BY <1>6, <1>8, <1>9 DEF turned

\* More neutral items never make a thesis supported (_compute_verdict).
LEMMA MoreNeutral ==
  ASSUME NEW nFor \in Nat, NEW nAgainst \in Nat, NEW k \in Nat, NEW m \in Nat, k <= m,
         NEW for \in Nat, NEW against \in Nat,
         Verdict(nFor, nAgainst, Blend(nFor, nAgainst, m, for, against)) = "SUPPORTED"
  PROVE  Verdict(nFor, nAgainst, Blend(nFor, nAgainst, k, for, against)) = "SUPPORTED"
<1> DEFINE x == 2 * for - against
           n == Divisor(nFor, nAgainst)
<1>1. /\ x \in Int /\ n \in Nat \ {0}
      /\ Blend(nFor, nAgainst, k, for, against) = Share(x, n, Pull(k))
      /\ Blend(nFor, nAgainst, m, for, against) = Share(x, n, Pull(m))
  <2>1. Blend(nFor, nAgainst, k, for, against) = Share(x, n, Pull(k))
    BY BlendIsShare
  <2>2. Blend(nFor, nAgainst, m, for, against) = Share(x, n, Pull(m))
    BY BlendIsShare
  <2>3. x \in Int /\ n \in Nat \ {0}
    BY BlendIsShare
  <2> QED
    BY <2>1, <2>2, <2>3
<1>2. /\ Pull(k) \in Weights /\ Pull(m) \in Weights /\ Pull(k) <= Pull(m)
  BY DEF Pull, Within, Weights
<1> HIDE DEF x, n
<1>3. Share(x, n, Pull(m)) >= 550 /\ nFor > nAgainst
  BY <1>1 DEF Verdict
<1>4. Share(x, n, Pull(k)) >= 550
  BY <1>1, <1>2, <1>3, ShareUnpulled
<1> QED
  BY <1>1, <1>3, <1>4 DEF Verdict

\* With the same decisive items and fewer neutral ones, a thesis that was
\* supported still is.
LEMMA FewerNeutralEvidence ==
  ASSUME NEW d \in Seq(EvidenceItem), NEW e \in Seq(EvidenceItem),
         \A class \in {"FOR", "AGAINST"} :
           Count(d, class) = Count(e, class) /\ Total(d, class) = Total(e, class),
         Count(d, "NEUTRAL") <= Count(e, "NEUTRAL"),
         VerdictOf(e) = "SUPPORTED"
  PROVE  VerdictOf(d) = "SUPPORTED"
<1> DEFINE p == Count(e, "FOR")
           a == Count(e, "AGAINST")
           k == Count(d, "NEUTRAL")
           m == Count(e, "NEUTRAL")
           for == Total(e, "FOR")
           against == Total(e, "AGAINST")
<1>1. /\ p \in Nat /\ a \in Nat /\ k \in Nat /\ m \in Nat /\ for \in Nat /\ against \in Nat
      /\ k <= m
  BY TallyType
<1>2. p > a
  BY DEF VerdictOf, Verdict, Count
<1>3. Count(<<>>, "FOR") = 0
  <2>1. Classified(<<>>, "FOR") = {}
    BY DEF Classified
  <2> QED
    BY <2>1, FS_EmptySet DEF Count
<1>4. d # <<>> /\ e # <<>>
  BY <1>1, <1>2, <1>3
<1>5. /\ VerdictOf(e) = Verdict(p, a, Blend(p, a, m, for, against))
      /\ VerdictOf(d) = Verdict(p, a, Blend(p, a, k, for, against))
  BY <1>4, TallyVerdict
<1> HIDE DEF p, a, k, m, for, against
<1> QED
  BY <1>1, <1>5, MoreNeutral

\* Items in favour of at most 55% support no thesis beside a neutral one.
LEMMA WeakEvidence ==
  ASSUME NEW e \in Seq(EvidenceItem), Classified(e, "NEUTRAL") # {},
         \A n \in Classified(e, "FOR") : e[n].confidence <= 550
  PROVE  VerdictOf(e) # "SUPPORTED"
<1> DEFINE p == Count(e, "FOR")
           a == Count(e, "AGAINST")
           k == Count(e, "NEUTRAL")
           for == Total(e, "FOR")
           against == Total(e, "AGAINST")
           n == Divisor(p, a)
           w == Pull(k)
           x == 2 * for - against
<1>1. /\ p \in Nat /\ a \in Nat /\ k \in Nat /\ for \in Nat /\ against \in Nat
  BY TallyType
<1>2. k >= 1
  <2>1. IsFiniteSet(Classified(e, "NEUTRAL"))
    BY TallyType
  <2>2. k # 0
    BY <2>1, FS_EmptySet DEF Count
  <2> QED
    BY <1>1, <2>2
<1>3. for <= 550 * p
  <2> DEFINE f == [i \in DOMAIN e |-> e[i].confidence]
             S == Classified(e, "FOR")
  <2>1. \A i \in S : f[i] = e[i].confidence /\ e[i].confidence \in Nat
    BY TallyType DEF Classified
  <2> HIDE DEF f
  <2>2. \A i \in S : f[i] \in Int /\ 0 <= f[i] /\ f[i] <= 550
    BY <2>1
  <2>3. IsFiniteSet(S)
    BY TallyType
  <2>4. Total(e, "FOR") = SumFunctionOnSet(f, S)
    BY DEF Total, f
  <2> HIDE DEF S
  <2>5. SumFunctionOnSet(f, S) <= 550 * Cardinality(S)
    BY <2>2, <2>3, SumBounds
  <2> QED
    BY <2>4, <2>5 DEF Count, S
<1>4. e # <<>>
  BY DEF Classified
<1>5. /\ VerdictOf(e) = Verdict(p, a, Blend(p, a, k, for, against))
      /\ Blend(p, a, k, for, against) = Share(x, n, w)
      /\ n \in Nat \ {0} /\ x \in Int
  <2>1. VerdictOf(e) = Verdict(p, a, Blend(p, a, k, for, against))
    BY <1>4, TallyVerdict
  <2> HIDE DEF p, a, k, for, against
  <2>2. Blend(p, a, k, for, against) = Share(x, n, w)
    BY <1>1, BlendIsShare
  <2>3. n \in Nat \ {0} /\ x \in Int
    BY <1>1, BlendIsShare
  <2> QED
    BY <2>1, <2>2, <2>3
<1>6. w \in {5, 10, 15, 20}
  BY <1>1, <1>2 DEF Pull, Within
<1>7. p <= n
  BY <1>1 DEF Divisor
<1>8. x <= 1100 * n
  BY <1>1, <1>3, <1>5, <1>7
<1> HIDE DEF p, a, k, for, against, n, w, x
<1>9. ~(Share(x, n, w) >= 550)
  <2> DEFINE b == 2 * Numerator(x, n, w) + 200 * n
  <2>1. b \in Int /\ b < 550 * (400 * n) /\ 2 * (200 * n) = 400 * n /\ 400 * n \in Nat \ {0}
    BY <1>5, <1>6, <1>8 DEF Numerator
  <2>2. Numerator(x, n, w) \in Int
    BY <1>5, <1>6 DEF Numerator
  <2>3. Rounded(Numerator(x, n, w), 200 * n) = b \div (400 * n)
    BY <2>1, <2>2 DEF Rounded
  <2> HIDE DEF b
  <2>4. ~(b \div (400 * n) >= 550) /\ b \div (400 * n) \in Int
    BY <2>1, QuotientBound, QuotientType
  <2> QED
    BY <2>3, <2>4 DEF Share, Within
<1> QED
  BY <1>5, <1>9 DEF Verdict
-----------------------------------------------------------------------------
(***************************************************************************)
(* THE SCORES: the items that a result leaves are items of its server, and gaps*)
(* exactly when its call failed.                                           *)
(***************************************************************************)

\* The items of a server, for what it answered and for the calls that failed.
FoundItems(source) == {x \in EvidenceItem : x.source = source /\ ~x.gap}
GapItems(source) == {x \in EvidenceItem : x.source = source /\ x.gap}

\* One item is a sequence of them ..
LEMMA OneItem ==
  ASSUME NEW source \in Sources, NEW class \in Classes, NEW confidence \in Shares
  PROVE  Item(source, class, confidence) \in Seq(FoundItems(source))
<1> DEFINE x == [source |-> source, class |-> class, confidence |-> confidence, gap |-> FALSE]
<1>1. x \in FoundItems(source)
  BY DEF FoundItems, EvidenceItem
<1>2. Item(source, class, confidence) = <<x>>
  BY DEF Item
<1> HIDE DEF x
<1> QED
  BY <1>1, <1>2

\* .. and so is none.
LEMMA NoItem == ASSUME NEW I PROVE Nothing \in Seq(I)
BY DEF Nothing

\* The confidences given are shares.
LEMMA ScoreConstants ==
  /\ "FOR" \in Classes /\ "AGAINST" \in Classes /\ "NEUTRAL" \in Classes
  /\ \A n \in Int : \A hi \in {880, 900, 920} : Within(n, 0, hi) \in Shares
  /\ Bloomberg \in Shares /\ 400 \in Shares /\ 500 \in Shares /\ 550 \in Shares
  /\ 700 \in Shares /\ 720 \in Shares /\ 750 \in Shares /\ 760 \in Shares /\ 950 \in Shares
  /\ Research - 100 = 550 /\ Research - 150 = 500
BY DEF Classes, Within, Shares, Bloomberg, Research

\* The snapshot of a ticker yields items of the bloomberg server (_score_ref_data).
LEMMA RefDataItems ==
  ASSUME NEW c, 1 \in DOMAIN c.tickers, NEW t
  PROVE  ScoreRefData(RefData(c), t) \in Seq(FoundItems("bloomberg"))
<1> DEFINE I == FoundItems("bloomberg")
           fields == RefData(c).data[1]
           iv == Get(fields, "IMPLIED_VOL_30D")
           rv == Get(fields, "HIST_REALIZED_VOL_30D")
           strength == IF rv > 0 THEN Within(Bloomberg + (500 * (iv - rv)) \div rv, 0, 900)
                                 ELSE Bloomberg
           spread ==
             IF iv = None \/ rv = None \/ t.claim # "vol_mispricing" THEN Nothing
             ELSE IF iv - rv > 40000 THEN Item("bloomberg", "FOR", strength)
             ELSE IF iv - rv < -20000 THEN Item("bloomberg", "AGAINST", Bloomberg)
             ELSE Item("bloomberg", "NEUTRAL", 700)
           earnings ==
             IF Get(fields, "EARN_ANNOUNCE_DT") # None
                /\ t.claim \in {"event_driven", "vol_mispricing"}
             THEN Item("bloomberg", "FOR", 750) ELSE Nothing
           price ==
             IF Get(fields, "PX_LAST") # None THEN Item("bloomberg", "NEUTRAL", 950) ELSE Nothing
<1>1. fields = [f \in c.fields |->
                  IF c.tickers[1] \in DOMAIN Securities THEN Securities[c.tickers[1]][f] ELSE None]
  BY DEF RefData
<1>2. (iv = None \/ iv \in Int) /\ (rv = None \/ rv \in Int)
  BY <1>1, ServersAssumption DEF Get
<1>3. ScoreRefData(RefData(c), t) = spread \o earnings \o price
  BY DEF ScoreRefData
<1> HIDE DEF fields, iv, rv
<1>4. \A class \in Classes, k \in Shares : Item("bloomberg", class, k) \in Seq(I)
  <2>1. "bloomberg" \in Sources
    BY DEF Sources
  <2> QED
    BY <2>1, OneItem
<1>5. ASSUME iv # None, rv # None PROVE strength \in Shares
  <2>1. CASE rv > 0
    <3>1. 500 * (iv - rv) \in Int /\ rv \in Nat \ {0}
      BY <1>2, <1>5, <2>1
    <3>2. (500 * (iv - rv)) \div rv \in Int
      BY <3>1, QuotientType
    <3>3. Bloomberg + (500 * (iv - rv)) \div rv \in Int
      BY <3>2 DEF Bloomberg
    <3> QED
      BY <2>1, <3>3, ScoreConstants
  <2>2. CASE ~(rv > 0)
    BY <2>2, ScoreConstants
  <2> QED
    BY <2>1, <2>2
<1> HIDE DEF strength, I
<1>6. spread \in Seq(I)
  <2>1. CASE iv = None \/ rv = None
    BY <2>1, NoItem
  <2>2. CASE iv # None /\ rv # None
    <3>1. Item("bloomberg", "FOR", strength) \in Seq(I)
      BY <1>4, <1>5, <2>2, ScoreConstants
    <3>2. Item("bloomberg", "AGAINST", Bloomberg) \in Seq(I)
      BY <1>4, ScoreConstants
    <3>3. Item("bloomberg", "NEUTRAL", 700) \in Seq(I) /\ Nothing \in Seq(I)
      BY <1>4, NoItem, ScoreConstants
    <3> QED
      BY <3>1, <3>2, <3>3
  <2> QED
    BY <2>1, <2>2
<1>7. earnings \in Seq(I) /\ price \in Seq(I)
  <2>1. Item("bloomberg", "FOR", 750) \in Seq(I) /\ Nothing \in Seq(I)
    BY <1>4, NoItem, ScoreConstants
  <2>2. Item("bloomberg", "NEUTRAL", 950) \in Seq(I)
    BY <1>4, ScoreConstants
  <2> QED
    BY <2>1, <2>2
<1> HIDE DEF spread, earnings
<1> HIDE DEF price
<1> QED
  BY <1>3, <1>6, <1>7 DEF I

\* A history yields items of the bloomberg server (_score_history).
LEMMA HistoryItems ==
  ASSUME NEW c, NEW h \in Histories, NEW t
  PROVE  ScoreHistory(HistoryOf(c, h), t) \in Seq(FoundItems("bloomberg"))
<1>1. h.percentile \in Int /\ h.return \in Int /\ h.deviation \in Int
  BY ServersAssumption
<1> DEFINE I == FoundItems("bloomberg")
<1>2. \A class \in Classes, k \in Shares : Item("bloomberg", class, k) \in Seq(I)
  <2>1. "bloomberg" \in Sources
    BY DEF Sources
  <2> QED
    BY <2>1, OneItem
<1> HIDE DEF I
<1>3. HistoryOf(c, h).path = h
  BY DEF HistoryOf
<1>4. ScorePercentile(h.percentile) \in Seq(I)
  <2>1. Bloomberg + 10 * (h.percentile - 80) \in Int
    BY <1>1 DEF Bloomberg
  <2> DEFINE k == Within(Bloomberg + 10 * (h.percentile - 80), 0, 920)
  <2>2. k \in Shares
    BY <2>1, ScoreConstants
  <2> HIDE DEF k
  <2>3. Item("bloomberg", "FOR", k) \in Seq(I)
    BY <1>2, <2>2, ScoreConstants
  <2>4. Item("bloomberg", "AGAINST", Bloomberg) \in Seq(I)
    BY <1>2, ScoreConstants
  <2>5. Item("bloomberg", "NEUTRAL", 700) \in Seq(I)
    BY <1>2, ScoreConstants
  <2> QED
    BY <2>3, <2>4, <2>5 DEF ScorePercentile, k
<1>5. ScoreReturn(h.return, t.direction) \in Seq(I)
  <2>1. Bloomberg + Magnitude(h.return) \in Int
    BY <1>1 DEF Bloomberg, Magnitude
  <2> QED
    BY SMTT(30), <1>2, <2>1, NoItem, ScoreConstants DEF ScoreReturn
<1>6. ScoreDeviation(h.deviation) \in Seq(I)
  <2> DEFINE class == IF h.deviation > 0 THEN "FOR" ELSE "NEUTRAL"
  <2>1. class \in Classes
    BY ScoreConstants
  <2> HIDE DEF class
  <2>2. Item("bloomberg", class, 760) \in Seq(I)
    BY <1>2, <2>1, ScoreConstants
  <2> QED
    BY <2>2, NoItem DEF ScoreDeviation, class
<1>7. Nothing \in Seq(I)
  BY NoItem
<1> QED
  BY <1>3, <1>4, <1>5, <1>6, <1>7, ZenonT(30) DEF ScoreHistory, I

\* The synthesiser finds nothing in the answers of the risk server: it looks for
\* numbers at keys they do not have, or have for an object (_score_var,
\* _score_greeks, _score_scenario).
LEMMA RiskSilent ==
  ASSUME NEW c, NEW x, NEW t
  PROVE  /\ ScoreVar(ValueAtRisk(c, x)) = <<>>
         /\ ScoreGreeks(GreeksOf(c), t) = <<>>
         /\ ScoreScenario(Scenario(c, x)) = <<>>
<1>1. ASSUME NEW d, NEW keys, \A n \in DOMAIN keys : keys[n] \notin DOMAIN d
      PROVE  FirstNumber(d, keys) = None
  <2>1. {n \in DOMAIN keys : Truthy(Get(d, keys[n]))} = {}
    BY <1>1 DEF Get, Truthy
  <2> QED
    BY <2>1 DEF FirstNumber
<1>2. ScoreVar(ValueAtRisk(c, x)) = <<>>
  <2> DEFINE d == ValueAtRisk(c, x)
  <2>1. DOMAIN d = {"metric", "value_pct_nav", "horizon_days"}
    BY DEF ValueAtRisk
  <2> HIDE DEF d
  <2>2. FirstNumber(d, <<"var", "VaR">>) = None
    BY <1>1, <2>1
  <2>3. FirstNumber(d, <<"cvar", "CVaR">>) = None
    BY <1>1, <2>1
  <2> QED
    BY <2>2, <2>3 DEF ScoreVar, Nothing, d
<1>3. ScoreGreeks(GreeksOf(c), t) = <<>>
  <2> DEFINE d == GreeksOf(c)
  <2>1. DOMAIN d = {"aggregate_greeks"} \/ DOMAIN d = {"error"}
    BY DEF GreeksOf
  <2> HIDE DEF d
  <2>2. FirstNumber(d, <<"vega">>) = None
    BY <1>1, <2>1
  <2>3. FirstNumber(d, <<"delta">>) = None
    BY <1>1, <2>1
  <2>4. Exposure(d, "vega") = None /\ Exposure(d, "delta") = None
    BY <2>1, <2>2, <2>3 DEF Exposure
  <2> QED
    BY <2>4 DEF ScoreGreeks, Nothing, d
<1>4. ScoreScenario(Scenario(c, x)) = <<>>
  <2> DEFINE d == Scenario(c, x)
             keys == <<"pnl_impact", "total_pnl", "pnl">>
             given == {n \in DOMAIN keys : Truthy(Get(d, keys[n]))}
  <2>1. DOMAIN d = {"scenario", "magnitude", "pnl_impact"} /\ d["pnl_impact"].kind = "object"
    BY DEF Scenario, Object
  <2> HIDE DEF d
  <2>2. DOMAIN keys = {1, 2, 3} /\ keys[1] = "pnl_impact"
        /\ keys[2] = "total_pnl" /\ keys[3] = "pnl"
    OBVIOUS
  <2>3. given \subseteq {1}
    BY <2>1, <2>2 DEF Get, Truthy
  <2>4. given # {} => Min(given) = 1
    BY <2>3 DEF Min
  <2>5. FirstNumber(d, keys) = None
    BY <2>1, <2>2, <2>4 DEF FirstNumber
  <2> QED
    BY <2>5 DEF ScoreScenario, Nothing, d
<1> QED
  BY <1>2, <1>3, <1>4

\* Nor does it find anything in the text of a refusal (_extract_result).
LEMMA RawSilent ==
  ASSUME NEW t
  PROVE  /\ ScoreHistory(RawText, t) = <<>>
         /\ ScoreVar(RawText) = <<>>
         /\ ScoreGreeks(RawText, t) = <<>>
         /\ ScoreScenario(RawText) = <<>>
<1> DEFINE d == RawText
<1>1. DOMAIN d = {"raw_text"}
  BY DEF RawText
<1> HIDE DEF d
<1>2. ASSUME NEW keys, \A n \in DOMAIN keys : keys[n] \notin DOMAIN d
      PROVE  FirstNumber(d, keys) = None
  <2>1. {n \in DOMAIN keys : Truthy(Get(d, keys[n]))} = {}
    BY <1>2 DEF Get, Truthy
  <2> QED
    BY <2>1 DEF FirstNumber
<1>3. FirstNumber(d, <<"var", "VaR">>) = None /\ FirstNumber(d, <<"cvar", "CVaR">>) = None
  BY <1>1, <1>2
<1>4. FirstNumber(d, <<"vega">>) = None /\ FirstNumber(d, <<"delta">>) = None
  BY <1>1, <1>2
<1>5. FirstNumber(d, <<"pnl_impact", "total_pnl", "pnl">>) = None
  BY <1>1, <1>2
<1>6. Exposure(d, "vega") = None /\ Exposure(d, "delta") = None
  BY <1>1, <1>4 DEF Exposure
<1>7. ScoreHistory(d, t) = <<>>
  BY <1>1 DEF ScoreHistory, Nothing
<1>8. ScoreVar(d) = <<>>
  BY <1>3 DEF ScoreVar, Nothing
<1>9. ScoreGreeks(d, t) = <<>>
  BY <1>6 DEF ScoreGreeks, Nothing
<1>10. ScoreScenario(d) = <<>>
  BY <1>5 DEF ScoreScenario, Nothing
<1> QED
  BY <1>7, <1>8, <1>9, <1>10 DEF d

\* The documents yield one item of the research server (_score_research), of at
\* most 55% if in favour.
LEMMA ResearchItems ==
  ASSUME NEW d
  PROVE  /\ ScoreResearch(d) \in Seq(FoundItems("research")) /\ Len(ScoreResearch(d)) = 1
         /\ \A n \in DOMAIN ScoreResearch(d) : ScoreResearch(d)[n].confidence <= 550
<1>1. "research" \in Sources
  BY DEF Sources
<1>2. PICK class \in Classes, k \in {500, 550} : ScoreResearch(d) = Item("research", class, k)
  <2> DEFINE read == 1..Within(3, 0, Len(d.results))
             positive == MapThenSumSet(LAMBDA i : d.results[i].positive, read)
             negative == MapThenSumSet(LAMBDA i : d.results[i].negative, read)
  <2>1. ScoreResearch(d)
          = IF d.results = <<>> THEN Item("research", "NEUTRAL", 500)
            ELSE IF positive > negative + 1 THEN Item("research", "FOR", Research - 100)
            ELSE IF negative > positive + 1 THEN Item("research", "AGAINST", Research - 100)
            ELSE Item("research", "NEUTRAL", Research - 150)
    BY DEF ScoreResearch
  <2> HIDE DEF positive, negative
  <2> QED
    BY <2>1, ScoreConstants
<1>3. k \in Shares
  BY ScoreConstants
<1>4. ScoreResearch(d) \in Seq(FoundItems("research"))
  BY <1>1, <1>2, <1>3, OneItem
<1> QED
  BY <1>2, <1>4 DEF Item
-----------------------------------------------------------------------------
(***************************************************************************)
(* THE REPLIES: the calls of the templates are ones the servers answer, and what*)
(* a validation holds of a call is an answer to that call.                 *)
(***************************************************************************)

\* The tools of a plan, and the server of each.
Tools == {"get_ref_data", "get_history", "calculate_var", "get_greeks", "run_scenario",
          "search_research"}
ServerOf(tool) ==
  IF tool \in {"get_ref_data", "get_history"} THEN "bloomberg"
  ELSE IF tool = "search_research" THEN "research" ELSE "risk"

\* What a server finds nothing wrong with, for a desk that is one.
Answerable(c, d) ==
  /\ c.tool \in Tools /\ c.server = ServerOf(c.tool)
  /\ c.tool # "search_research" => c.desk = d
  /\ d \in Desks => WellFormed(c)
  /\ c.tool = "search_research" => WellFormed(c)
  /\ Servable(c)
  /\ c.tool = "get_ref_data" => 1 \in DOMAIN c.tickers
  /\ c.tool = "get_history" => BarCount(c) >= 10

\* The calls the templates are made of (plan_templates.py): snapshots ..
LEMMA RefDataAnswerable ==
  ASSUME NEW t, NEW u, NEW f, NEW d
  PROVE  Answerable(RefDataCall(<<t>>, f, d), d) /\ Answerable(RefDataCall(<<t, u>>, f, d), d)
BY DEF Answerable, Tools, ServerOf, RefDataCall, WellFormed, Servable

\* .. histories of a quarter by day and of a year by week ..
LEMMA HistoryAnswerable ==
  ASSUME NEW t, NEW d, NEW r \in BOOLEAN
  PROVE  /\ Answerable(HistoryCall(t, Quarter, "daily", d, r), d)
         /\ Answerable(HistoryCall(t, Year, "weekly", d, r), d)
BY DEF Answerable, Tools, ServerOf, HistoryCall, WellFormed, Servable, BarCount, Within, Today, Quarter, Year

\* .. the Greeks of an underlying ..
LEMMA GreeksAnswerable ==
  ASSUME NEW a, NEW d
  PROVE  Answerable(GreeksCall(a, d), d)
BY DEF Answerable, Tools, ServerOf, GreeksCall, WellFormed, Servable

\* .. the scenarios ..
LEMMA ScenarioAnswerable ==
  ASSUME NEW s \in {"vol_spike", "rate_shock", "equity_crash", "custom"},
         NEW m \in {15, 20, 30}, NEW d
  PROVE  Answerable(ScenarioCall(s, m, d), d)
BY DEF Answerable, Tools, ServerOf, ScenarioCall, WellFormed, Servable

\* .. the tail risk, of three kinds ..
LEMMA VarAnswerable ==
  ASSUME NEW d
  PROVE  /\ Answerable(VarCall("var", 9900, 5, d), d)
         /\ Answerable(VarCall("var", 9900, 10, d), d)
         /\ Answerable(VarCall("cvar", 9500, 10, d), d)
BY DEF Answerable, Tools, ServerOf, VarCall, WellFormed, Servable

\* .. and the search.
LEMMA ResearchAnswerable ==
  ASSUME NEW d
  PROVE  Answerable(ResearchCall, d)
BY DEF Answerable, Tools, ServerOf, ResearchCall, WellFormed, Servable
-----------------------------------------------------------------------------
AllAnswerable(calls, d) ==
  \A g \in DOMAIN calls : \A i \in DOMAIN calls[g] : Answerable(calls[g][i], d)

\* The groups of a plan, for market data of two or three calls.
LEMMA GroupsAnswerable ==
  ASSUME NEW d, NEW a, NEW b, NEW c, NEW e, NEW f,
         Answerable(a, d), Answerable(b, d), Answerable(c, d),
         Answerable(e, d), Answerable(f, d)
  PROVE  /\ AllAnswerable(Calls(<<a, b>>, <<e, f>>), d)
         /\ AllAnswerable(Calls(<<a, b, c>>, <<e, f>>), d)
<1>1. Answerable(ResearchCall, d)
  BY ResearchAnswerable
<1> HIDE DEF Answerable, ResearchCall
<1> QED
  BY <1>1 DEF AllAnswerable, Calls

\* Every call of every template is answerable (plan_templates.py).
LEMMA TemplateAnswerable ==
  ASSUME NEW claim, NEW asset, NEW d
  PROVE  AllAnswerable(Template(claim, asset, d), d)
<1>1. AllAnswerable(VolMispricing(asset, d), d)
  BY RefDataAnswerable, HistoryAnswerable, GreeksAnswerable, ScenarioAnswerable, GroupsAnswerable, ZenonT(60)
  DEF VolMispricing
<1>2. /\ Answerable(ScenarioCall("equity_crash", 15, d), d)
      /\ Answerable(ScenarioCall("custom", 20, d), d)
      /\ Answerable(ScenarioCall("custom", 30, d), d)
      /\ Answerable(ScenarioCall("rate_shock", 20, d), d)
  BY ScenarioAnswerable
<1>3. AllAnswerable(Momentum(asset, d), d)
  <2> DEFINE ticker == BloombergTicker(asset)
             history == HistoryCall(ticker, Quarter, "daily", d, TRUE)
             sector == HistoryCall(SectorIndex(asset), Quarter, "daily", d, FALSE)
             snapshot == RefDataCall(<<ticker>>, {"PX_LAST", "HIST_REALIZED_VOL_30D"}, d)
             tail == VarCall("var", 9900, 5, d)
             scenario == ScenarioCall("equity_crash", 15, d)
  <2>1. Answerable(history, d) /\ Answerable(sector, d)
    BY HistoryAnswerable
  <2>2. Answerable(snapshot, d)
    BY RefDataAnswerable
  <2>3. Answerable(tail, d)
    BY VarAnswerable
  <2>4. Answerable(scenario, d)
    BY <1>2
  <2>5. Momentum(asset, d) = Calls(<<history, sector, snapshot>>, <<tail, scenario>>)
    BY DEF Momentum
  <2> HIDE DEF history, sector, snapshot, tail, scenario
  <2> QED
    BY <2>1, <2>2, <2>3, <2>4, <2>5, GroupsAnswerable
<1>4. AllAnswerable(RelativeValue(asset, d), d)
  <2> DEFINE ticker == BloombergTicker(asset)
             snapshot == RefDataCall(<<ticker>>, {"PX_LAST", "HIST_REALIZED_VOL_30D"}, d)
             history == HistoryCall(ticker, Year, "weekly", d, TRUE)
             scenario == ScenarioCall("custom", 20, d)
             tail == VarCall("cvar", 9500, 10, d)
  <2>1. Answerable(snapshot, d)
    BY RefDataAnswerable
  <2>2. Answerable(history, d)
    BY HistoryAnswerable
  <2>3. Answerable(scenario, d)
    BY <1>2
  <2>4. Answerable(tail, d)
    BY VarAnswerable
  <2>5. RelativeValue(asset, d) = Calls(<<snapshot, history>>, <<scenario, tail>>)
    BY DEF RelativeValue
  <2> HIDE DEF snapshot, history, scenario, tail
  <2> QED
    BY <2>1, <2>2, <2>3, <2>4, <2>5, GroupsAnswerable
<1>5. AllAnswerable(MeanReversion(asset, d), d)
  <2> DEFINE ticker == BloombergTicker(asset)
             history == HistoryCall(ticker, Year, "weekly", d, TRUE)
             snapshot == RefDataCall(<<ticker>>, {"PX_LAST", "HIST_REALIZED_VOL_30D"}, d)
             tail == VarCall("cvar", 9500, 10, d)
             scenario == ScenarioCall("custom", 30, d)
  <2>1. Answerable(history, d)
    BY HistoryAnswerable
  <2>2. Answerable(snapshot, d)
    BY RefDataAnswerable
  <2>3. Answerable(tail, d)
    BY VarAnswerable
  <2>4. Answerable(scenario, d)
    BY <1>2
  <2>5. MeanReversion(asset, d) = Calls(<<history, snapshot>>, <<tail, scenario>>)
    BY DEF MeanReversion
  <2> HIDE DEF history, snapshot, tail, scenario
  <2> QED
    BY <2>1, <2>2, <2>3, <2>4, <2>5, GroupsAnswerable
<1>6. AllAnswerable(EventDriven(asset, d), d)
  BY RefDataAnswerable, HistoryAnswerable, GreeksAnswerable, ScenarioAnswerable, GroupsAnswerable, ZenonT(60)
  DEF EventDriven
<1>7. AllAnswerable(Macro(asset, d), d)
  <2> DEFINE ticker == BloombergTicker(asset)
             history == HistoryCall(ticker, Year, "weekly", d, TRUE)
             snapshot == RefDataCall(<<ticker, <<"SPX", "Index">>>>,
                                     {"PX_LAST", "HIST_REALIZED_VOL_30D", "IMPLIED_VOL_30D"}, d)
             scenario == ScenarioCall("rate_shock", 20, d)
             tail == VarCall("var", 9900, 10, d)
  <2>1. Answerable(history, d)
    BY HistoryAnswerable
  <2>2. Answerable(snapshot, d)
    BY RefDataAnswerable
  <2>3. Answerable(scenario, d)
    BY <1>2
  <2>4. Answerable(tail, d)
    BY VarAnswerable
  <2>5. Macro(asset, d) = Calls(<<history, snapshot>>, <<scenario, tail>>)
    BY DEF Macro
  <2> HIDE DEF history, snapshot, scenario, tail
  <2> QED
    BY <2>1, <2>2, <2>3, <2>4, <2>5, GroupsAnswerable
<1> QED
  BY <1>1, <1>3, <1>4, <1>5, <1>6, <1>7 DEF Template

\* A server finds nothing wrong with an answerable call (the tools of the three
\* servers).
LEMMA AnswerableReply ==
  ASSUME NEW c, NEW d, NEW a, Answerable(c, d), NEW r \in Replies(c, a) \cup {Lost}
  PROVE  /\ r.status = "malformed" => d \notin Desks
         /\ r.status # "invalid"
         /\ r.status = "ok" /\ c.tool = "get_history" => r.data.bars >= 10
<1>1. CASE r = Lost
  BY <1>1 DEF Lost
<1>2. CASE r \in Replies(c, a)
  <2>1. Servable(c)
    BY DEF Answerable
  <2>2. r.status = "malformed" => d \notin Desks
    BY <1>2, <2>1 DEF Replies, Refusal, Answerable
  <2>3. r.status # "invalid"
    BY <1>2, <2>1 DEF Replies, Refusal
  <2>4. ASSUME r.status = "ok", c.tool = "get_history"
        PROVE  r.data.bars >= 10
    <3>1. BarCount(c) >= 10
      BY <2>4 DEF Answerable
    <3>2. PICK h \in Histories : r.data = HistoryOf(c, h)
      BY <1>2, <2>4 DEF Replies, Refusal, Served
    <3> QED
      BY <3>1, <3>2 DEF HistoryOf
  <2> QED
    BY <2>2, <2>3, <2>4
<1> QED
  BY <1>1, <1>2

\* A call that is answered was permitted to the account (DeskIsolation.enforce).
LEMMA PermittedReply ==
  ASSUME NEW c, NEW d, NEW a, Answerable(c, d), NEW r \in Replies(c, a) \cup {Lost},
         r.status = "ok", c.tool # "search_research"
  PROVE  d \in a.desks
<1>1. r \in Replies(c, a)
  BY DEF Lost
<1>2. c.desk = d /\ c.server # "research"
  BY DEF Answerable, Tools, ServerOf
<1> QED
  BY <1>1, <1>2 DEF Replies, Refusal, Permitted
-----------------------------------------------------------------------------
\* What makes CallsAnswerable inductive: the calls of the plan are made for the
\* desk, and each reply is one that the account may get from its call.
ReplyInv ==
  /\ stage = "new" => plan.calls = <<>>
  /\ AllAnswerable(plan.calls, desk)
  /\ DOMAIN reply = DOMAIN plan.calls
  /\ \A g \in DOMAIN plan.calls : DOMAIN reply[g] = DOMAIN plan.calls[g]
  /\ \A g \in DOMAIN plan.calls : \A i \in DOMAIN plan.calls[g] :
       reply[g][i] # None => reply[g][i] \in Replies(plan.calls[g][i], account) \cup {Lost}

\* No data of a desk reaches a validation for it but over an account with access
\* to it; the documents of search_research belong to no desk.
DataOfDesksPermitted ==
  \A g \in DOMAIN plan.calls : \A i \in DOMAIN plan.calls[g] :
    reply[g][i] # None =>
      (reply[g][i].status = "ok" /\ plan.calls[g][i].tool # "search_research"
         => desk \in account.desks)

\* Before a validation is asked for nothing is planned (main.py).
THEOREM InitReplies == Init => ReplyInv
BY DEF Init, ReplyInv, AllAnswerable

\* Every step of the handler, the executor and a call keeps to it.
THEOREM StepReplies == ReplyInv /\ [Next]_vars => ReplyInv'
<1> SUFFICES ASSUME ReplyInv, [Next]_vars PROVE ReplyInv'
  OBVIOUS
<1> USE DEF ReplyInv
<1> HIDE DEF AllAnswerable
<1>1. CASE Start
  <2>1. PICK t \in Theses, d \in DeskNames : desk' = d /\ plan' = GeneratePlan(t, d)
    BY <1>1 DEF Start
  <2>2. AllAnswerable(plan'.calls, desk')
    BY <2>1, TemplateAnswerable DEF GeneratePlan
  <2>3. reply' = [g \in DOMAIN plan'.calls |-> [i \in DOMAIN plan'.calls[g] |-> None]]
    BY <1>1 DEF Start
  <2> QED
    BY <1>1, <2>2, <2>3 DEF Start, AllAnswerable
<1>2. CASE RejectUntestable
  BY <1>2 DEF RejectUntestable, executorVars, AllAnswerable
<1>3. CASE Wave
  BY <1>3 DEF Wave, Executor!StartWave, Executor!Return, Executor!Resume, AllAnswerable
<1>4. CASE Synthesise
  BY <1>4 DEF Synthesise, executorVars, AllAnswerable
<1>5. ASSUME NEW g \in DOMAIN plan.calls, GroupReturns(g)
      PROVE  ReplyInv'
  BY <1>5 DEF GroupReturns, Executor!GroupReturns, AllAnswerable
<1>6. ASSUME NEW g \in DOMAIN plan.calls, NEW i \in DOMAIN plan.calls[g], CallEnds(g, i)
      PROVE  ReplyInv'
  <2>1. PICK r \in Replies(plan.calls[g][i], account) \cup {Lost} :
          reply' = [reply EXCEPT ![g][i] = r]
    BY <1>6 DEF CallEnds
  <2>2. plan' = plan /\ stage' = stage /\ desk' = desk /\ account' = account /\ stage = "running"
    BY <1>6 DEF CallEnds, Executor!CallEnds
  <2> QED
    BY <2>1, <2>2 DEF AllAnswerable
<1>7. CASE UNCHANGED vars
  BY <1>7 DEF vars, executorVars, AllAnswerable
<1> QED
  BY <1>1, <1>2, <1>3, <1>4, <1>5, <1>6, <1>7 DEF Next, Execute

\* What a validation holds of a call is an answer to that call, made for its
\* desk and its account.
THEOREM RepliesAreAnswers == Spec => []ReplyInv
BY InitReplies, StepReplies, PTL DEF Spec

\* The servers find nothing wrong with the calls of a plan (planner/
\* plan_templates.py and the tools it names): see CallsAnswerable.
THEOREM ThesisCallsAnswerable == Spec => []CallsAnswerable
<1>1. ReplyInv => CallsAnswerable
  BY AnswerableReply DEF ReplyInv, CallsAnswerable, AllAnswerable
<1> QED
  BY <1>1, RepliesAreAnswers, PTL

\* DeskIsolation.enforce of the servers (tools) is what stands between a
\* validation and the desks of others: the orchestrator checks nothing itself.
THEOREM OthersDesksSilent == Spec => []DataOfDesksPermitted
<1>1. ReplyInv => DataOfDesksPermitted
  BY PermittedReply DEF ReplyInv, DataOfDesksPermitted, AllAnswerable
<1> QED
  BY <1>1, RepliesAreAnswers, PTL
-----------------------------------------------------------------------------
(***************************************************************************)
(* THE REPORT, RESULT BY RESULT: its evidence is that of the results of the plan,*)
(* one after the other, of the server of each and in their order.          *)
(***************************************************************************)

\* What the synthesiser is given of a call: a failure, an answer of the server, or
\* a refusal that counts as one, but of no snapshot in a report.
Refused(r) == r.data = RawText /\ r.call.tool \notin {"search_research", "get_ref_data"}

Sound(r, d) ==
  /\ r.success \in BOOLEAN
  /\ Answerable(r.call, d)
  /\ r.success => r.data \in Served(r.call) \/ Refused(r)

AllSound(S, d) == \A r \in S : Sound(r, d)

\* The items a result leaves.
ResultItems(r) == IF r.success THEN FoundItems(r.call.server) ELSE GapItems(r.call.server)

\* The server of a call is one of the three.
LEMMA ServerIsSource ==
  ASSUME NEW c, NEW d, Answerable(c, d)
  PROVE  c.server \in Sources
BY DEF Answerable, Tools, ServerOf, Sources

\* A failed call leaves one item, which is neutral (_make_data_gap_item).
LEMMA GapOfFailure ==
  ASSUME NEW r, NEW d, Sound(r, d), ~r.success, NEW t
  PROVE  \E x \in GapItems(r.call.server) :
           ScoreResult(r, t) = <<x>> /\ x.class = "NEUTRAL"
<1> DEFINE x == [source |-> r.call.server, class |-> "NEUTRAL", confidence |-> 400, gap |-> TRUE]
<1>1. r.call.server \in Sources
  BY ServerIsSource DEF Sound
<1>2. x \in GapItems(r.call.server) /\ x.class = "NEUTRAL"
  BY <1>1, ScoreConstants DEF GapItems, EvidenceItem
<1>3. ScoreResult(r, t) = <<x>>
  BY DEF ScoreResult, DataGapItem
<1> HIDE DEF x
<1> QED
  BY <1>2, <1>3

\* A refusal taken for an answer leaves nothing.
LEMMA RefusalSilent ==
  ASSUME NEW r, NEW d, Sound(r, d), r.success, Refused(r), NEW t
  PROVE  ScoreResult(r, t) = <<>> /\ r.call.server # "research"
<1>1. r.call.tool \in {"get_history", "calculate_var", "get_greeks", "run_scenario"}
      /\ r.call.server = ServerOf(r.call.tool)
  BY DEF Sound, Answerable, Tools, Refused
<1>2. r.data = RawText
  BY DEF Refused
<1>3. r.call.server # "research"
  BY <1>1 DEF ServerOf
<1>4. ScoreResult(r, t) = <<>>
  BY <1>1, <1>2, RawSilent DEF ScoreResult
<1> QED
  BY <1>3, <1>4

\* An answer leaves items of the server that gave it; those of the risk server
\* leave none.
LEMMA ItemsOfAnswer ==
  ASSUME NEW r, NEW d, Sound(r, d), r.success, NEW t
  PROVE  /\ ScoreResult(r, t) \in Seq(FoundItems(r.call.server))
         /\ r.call.server = "risk" => ScoreResult(r, t) = <<>>
         /\ r.call.server = "research" =>
              /\ Len(ScoreResult(r, t)) = 1
              /\ \A n \in DOMAIN ScoreResult(r, t) : ScoreResult(r, t)[n].confidence <= 550
<1> DEFINE c == r.call
           s == ScoreResult(r, t)
<1>0. CASE Refused(r)
  <2>1. s = <<>> /\ c.server # "research"
    BY <1>0, RefusalSilent
  <2>2. <<>> \in Seq(FoundItems(c.server))
    OBVIOUS
  <2> QED
    BY <2>1, <2>2
<1> SUFFICES ASSUME r.data \in Served(c)
             PROVE  /\ s \in Seq(FoundItems(c.server))
                    /\ c.server = "risk" => s = <<>>
                    /\ c.server = "research" =>
                         /\ Len(s) = 1
                         /\ \A n \in DOMAIN s : s[n].confidence <= 550
  BY <1>0 DEF Sound
<1>1. Answerable(c, d) /\ r.data \in Served(c)
  BY DEF Sound
<1>2. c.tool \in Tools /\ c.server = ServerOf(c.tool)
  BY <1>1 DEF Answerable
<1>3. CASE c.tool = "get_ref_data"
  <2>1. s = ScoreRefData(RefData(c), t)
    BY <1>1, <1>3 DEF ScoreResult, Served
  <2>2. 1 \in DOMAIN c.tickers /\ c.server = "bloomberg"
    BY <1>1, <1>2, <1>3 DEF Answerable, ServerOf
  <2> HIDE DEF s, c
  <2>3. s \in Seq(FoundItems("bloomberg"))
    BY <2>1, <2>2, RefDataItems
  <2> QED
    BY <2>2, <2>3 DEF s, c
<1>4. CASE c.tool = "get_history"
  <2>1. PICK h \in Histories : s = ScoreHistory(HistoryOf(c, h), t)
    BY <1>1, <1>4 DEF ScoreResult, Served
  <2>2. c.server = "bloomberg"
    BY <1>2, <1>4 DEF ServerOf
  <2>3. s \in Seq(FoundItems("bloomberg"))
    BY <2>1, HistoryItems
  <2> QED
    BY <1>4, <2>2, <2>3
<1>5. CASE c.tool \in {"calculate_var", "get_greeks", "run_scenario"}
  <2>1. c.server = "risk"
    BY <1>2, <1>5 DEF ServerOf
  <2>2. s = <<>>
    <3>1. CASE c.tool = "calculate_var"
      BY <1>1, <3>1, RiskSilent DEF ScoreResult, Served
    <3>2. CASE c.tool = "get_greeks"
      BY <1>1, <3>2, RiskSilent DEF ScoreResult, Served
    <3>3. CASE c.tool = "run_scenario"
      BY <1>1, <3>3, RiskSilent DEF ScoreResult, Served
    <3> QED
      BY <1>5, <3>1, <3>2, <3>3
  <2>3. <<>> \in Seq(FoundItems("risk"))
    OBVIOUS
  <2> QED
    BY <1>5, <2>1, <2>2, <2>3
<1>6. CASE c.tool = "search_research"
  <2>1. s = ScoreResearch(r.data) /\ c.server = "research"
    BY <1>2, <1>6 DEF ScoreResult, ServerOf
  <2> QED
    BY <1>6, <2>1, ResearchItems
<1> QED
  BY <1>2, <1>3, <1>4, <1>5, <1>6 DEF Tools

\* Either way what is left are items of the result.
LEMMA ItemsOfResult ==
  ASSUME NEW r, NEW d, Sound(r, d), NEW t
  PROVE  ScoreResult(r, t) \in Seq(ResultItems(r)) /\ ScoreResult(r, t) \in Seq(EvidenceItem)
<1>1. ScoreResult(r, t) \in Seq(ResultItems(r))
  <2>1. CASE r.success
    BY <2>1, ItemsOfAnswer DEF ResultItems
  <2>2. CASE ~r.success
    <3>1. PICK x \in GapItems(r.call.server) : ScoreResult(r, t) = <<x>>
      BY <2>2, GapOfFailure
    <3>2. <<x>> \in Seq(GapItems(r.call.server))
      OBVIOUS
    <3> QED
      BY <2>2, <3>1, <3>2 DEF ResultItems
  <2> QED
    BY <2>1, <2>2
<1>2. ResultItems(r) \subseteq EvidenceItem
  BY DEF ResultItems, FoundItems, GapItems
<1>3. \A s \in Seq(ResultItems(r)) : s \in Seq(EvidenceItem)
  BY <1>2
<1> QED
  BY <1>1, <1>3
-----------------------------------------------------------------------------
\* The evidence of the results of S: their items, one after the other.
Scores(S, t) == [r \in S |-> ScoreResult(r, t)]

\* The evidence is that of the results one by one: see FlatMap.
LEMMA ScoresExpand ==
  ASSUME NEW S, NEW d, AllSound(S, d), NEW t
  PROVE  /\ Expands(Scores(S, t), S, EvidenceItem)
         /\ \A s \in Seq(S) : ScoreEvidence(s, t) = FlatMap(Scores(S, t), s)
<1>1. Expands(Scores(S, t), S, EvidenceItem)
  BY ItemsOfResult DEF AllSound, Expands, Scores
<1>2. ASSUME NEW s \in Seq(S) PROVE ScoreEvidence(s, t) = FlatMap(Scores(S, t), s)
  <2>1. \A n \in DOMAIN s : s[n] \in S
    OBVIOUS
  <2>2. [n \in DOMAIN s |-> ScoreResult(s[n], t)] = [n \in DOMAIN s |-> Scores(S, t)[s[n]]]
    BY <2>1 DEF Scores
  <2> QED
    BY <2>2 DEF ScoreEvidence, FlatMap
<1> QED
  BY <1>1, <1>2

\* The evidence is items; none without a result, and one more result adds its own.
LEMMA EvidenceSteps ==
  ASSUME NEW S, NEW d, AllSound(S, d), NEW t
  PROVE  /\ ScoreEvidence(<<>>, t) = <<>>
         /\ \A s \in Seq(S) : ScoreEvidence(s, t) \in Seq(EvidenceItem)
         /\ \A s \in Seq(S), r \in S :
              ScoreEvidence(Append(s, r), t) = ScoreEvidence(s, t) \o ScoreResult(r, t)
<1> DEFINE f == Scores(S, t)
<1>1. Expands(f, S, EvidenceItem) /\ \A s \in Seq(S) : ScoreEvidence(s, t) = FlatMap(f, s)
  BY ScoresExpand
<1>2. \A r \in S : f[r] = ScoreResult(r, t)
  BY DEF Scores
<1> HIDE DEF f
<1>3. ScoreEvidence(<<>>, t) = <<>>
  <2>1. <<>> \in Seq(S)
    OBVIOUS
  <2> QED
    BY <1>1, <2>1, FlatMapEmpty
<1>4. ASSUME NEW s \in Seq(S) PROVE ScoreEvidence(s, t) \in Seq(EvidenceItem)
  <2>1. FlatMap(f, s) \in Seq(EvidenceItem)
    BY <1>1, FlatMapType
  <2> QED
    BY <1>1, <2>1
<1>5. ASSUME NEW s \in Seq(S), NEW r \in S
      PROVE  ScoreEvidence(Append(s, r), t) = ScoreEvidence(s, t) \o ScoreResult(r, t)
  <2>1. Append(s, r) \in Seq(S)
    OBVIOUS
  <2>2. FlatMap(f, Append(s, r)) = FlatMap(f, s) \o f[r]
    BY <1>1, FlatMapAppend
  <2> QED
    BY <1>1, <1>2, <2>1, <2>2
<1> QED
  BY <1>3, <1>4, <1>5

\* Each item comes from a result, and each item of a result is there.
LEMMA EvidenceOrigins ==
  ASSUME NEW S, NEW d, AllSound(S, d), NEW t, NEW s \in Seq(S)
  PROVE  Gathers(ScoreEvidence(s, t), Scores(S, t), s)
BY ScoresExpand, FlatMapGathers

\* The results of the calls that succeeded, one by one.
LEMMA SuccessesSteps ==
  ASSUME NEW S
  PROVE  /\ Successes(<<>>) = <<>>
         /\ \A s \in Seq(S) : Successes(s) \in Seq(S)
         /\ \A s \in Seq(S), r \in S :
              Successes(Append(s, r)) = IF r.success THEN Append(Successes(s), r) ELSE Successes(s)
<1> DEFINE f == [r \in S |-> IF r.success THEN <<r>> ELSE <<>>]
<1>1. Expands(f, S, S)
  BY DEF Expands
<1>2. ASSUME NEW s \in Seq(S) PROVE Successes(s) = FlatMap(f, s)
  <2>1. \A n \in DOMAIN s : s[n] \in S
    OBVIOUS
  <2>2. [n \in DOMAIN s |-> IF s[n].success THEN <<s[n]>> ELSE <<>>] = [n \in DOMAIN s |-> f[s[n]]]
    BY <2>1
  <2> QED
    BY <2>2 DEF Successes, FlatMap
<1>3. \A r \in S : f[r] = IF r.success THEN <<r>> ELSE <<>>
  OBVIOUS
<1> HIDE DEF f
<1>4. Successes(<<>>) = <<>>
  <2>1. <<>> \in Seq(S)
    OBVIOUS
  <2> QED
    BY <1>2, <2>1, FlatMapEmpty
<1>5. ASSUME NEW s \in Seq(S) PROVE Successes(s) \in Seq(S)
  <2>1. FlatMap(f, s) \in Seq(S)
    BY <1>1, FlatMapType
  <2> QED
    BY <1>2, <2>1
<1>6. ASSUME NEW s \in Seq(S), NEW r \in S
      PROVE  Successes(Append(s, r)) = IF r.success THEN Append(Successes(s), r) ELSE Successes(s)
  <2>1. Append(s, r) \in Seq(S)
    OBVIOUS
  <2>2. FlatMap(f, Append(s, r)) = FlatMap(f, s) \o f[r]
    BY <1>1, FlatMapAppend
  <2>3. Successes(Append(s, r)) = Successes(s) \o f[r]
    BY <1>2, <2>1, <2>2
  <2>4. CASE r.success
    <3>1. f[r] = <<r>>
      BY <1>3, <2>4
    <3>2. Successes(s) \in Seq(S)
      BY <1>5
    <3>3. \A q \in Seq(S) : q \o <<r>> = Append(q, r)
      OBVIOUS
    <3> QED
      BY <2>3, <2>4, <3>1, <3>2, <3>3
  <2>5. CASE ~r.success
    <3>1. f[r] = <<>>
      BY <1>3, <2>5
    <3>2. Successes(s) \in Seq(S)
      BY <1>5
    <3>3. \A q \in Seq(S) : q \o <<>> = q
      OBVIOUS
    <3> QED
      BY <2>3, <2>5, <3>1, <3>2, <3>3
  <2> QED
    BY <2>4, <2>5
<1> QED
  BY <1>4, <1>5, <1>6

\* Without the calls that failed the decisive items are the same, and the neutral
\* ones no more.
SameButNeutral(d, e) ==
  /\ \A class \in {"FOR", "AGAINST"} :
       Count(d, class) = Count(e, class) /\ Total(d, class) = Total(e, class)
  /\ Count(d, "NEUTRAL") <= Count(e, "NEUTRAL")

\* What the failed calls leave is a neutral item each, and nothing else.
LEMMA SuccessesTally ==
  ASSUME NEW S, NEW d, AllSound(S, d), NEW t, NEW s \in Seq(S)
  PROVE  SameButNeutral(ScoreEvidence(Successes(s), t), ScoreEvidence(s, t))
<1> DEFINE all(u) == ScoreEvidence(u, t)
           some(u) == ScoreEvidence(Successes(u), t)
           P == {u \in Seq(S) : SameButNeutral(some(u), all(u))}
<1>1. <<>> \in P
  <2>1. all(<<>>) = <<>> /\ some(<<>>) = <<>>
    BY EvidenceSteps, SuccessesSteps
  <2>2. <<>> \in Seq(S) /\ <<>> \in Seq(EvidenceItem)
    OBVIOUS
  <2>3. Count(<<>>, "NEUTRAL") \in Nat
    BY <2>2, TallyType
  <2> HIDE DEF all, some
  <2> QED
    BY <2>1, <2>2, <2>3 DEF SameButNeutral
<1>2. ASSUME NEW u \in Seq(S), NEW r \in S, u \in P PROVE Append(u, r) \in P
  <2> DEFINE items == ScoreResult(r, t)
  <2>1. SameButNeutral(some(u), all(u)) /\ Append(u, r) \in Seq(S) /\ Sound(r, d)
    BY <1>2 DEF AllSound
  <2>2. Successes(u) \in Seq(S)
        /\ Successes(Append(u, r)) = IF r.success THEN Append(Successes(u), r) ELSE Successes(u)
    BY SuccessesSteps
  <2>3. all(u) \in Seq(EvidenceItem) /\ all(Append(u, r)) = all(u) \o items
    BY EvidenceSteps
  <2>4. some(u) \in Seq(EvidenceItem)
        /\ some(Append(u, r)) = IF r.success THEN some(u) \o items ELSE some(u)
    <3>1. ScoreEvidence(Append(Successes(u), r), t) = ScoreEvidence(Successes(u), t) \o items
      BY <2>2, EvidenceSteps
    <3> QED
      BY <2>2, <3>1, EvidenceSteps
  <2>5. items \in Seq(EvidenceItem)
    BY <2>1, ItemsOfResult
  <2>6. ASSUME NEW class
        PROVE  /\ Count(all(u) \o items, class) = Count(all(u), class) + Count(items, class)
               /\ Total(all(u) \o items, class) = Total(all(u), class) + Total(items, class)
               /\ Count(some(u) \o items, class) = Count(some(u), class) + Count(items, class)
               /\ Total(some(u) \o items, class) = Total(some(u), class) + Total(items, class)
               /\ Count(all(u), class) \in Nat /\ Count(some(u), class) \in Nat
               /\ Count(items, class) \in Nat /\ Total(all(u), class) \in Nat
    BY <2>3, <2>4, <2>5, TallyConcat, TallyType
  <2>7. ASSUME ~r.success
        PROVE  \A class \in {"FOR", "AGAINST"} : Count(items, class) = 0 /\ Total(items, class) = 0
    <3>1. PICK x \in GapItems(r.call.server) : items = <<x>> /\ x.class = "NEUTRAL"
      BY <2>1, <2>7, GapOfFailure
    <3>2. \A class \in {"FOR", "AGAINST"} : Classified(items, class) = {}
      BY <3>1 DEF Classified
    <3> HIDE DEF items
    <3> QED
      BY <3>2, FS_EmptySet, SumEmpty DEF Count, Total
  <2> HIDE DEF all, some, items
  <2>8. ASSUME NEW class
        PROVE  /\ Count(all(Append(u, r)), class) = Count(all(u), class) + Count(items, class)
               /\ Total(all(Append(u, r)), class) = Total(all(u), class) + Total(items, class)
    BY <2>3, <2>6
  <2>9. CASE r.success
    <3>1. some(Append(u, r)) = some(u) \o items
      BY <2>4, <2>9
    <3>2. ASSUME NEW class
          PROVE  /\ Count(some(Append(u, r)), class) = Count(some(u), class) + Count(items, class)
                 /\ Total(some(Append(u, r)), class) = Total(some(u), class) + Total(items, class)
      BY <2>6, <3>1
    <3>3. \A class \in {"FOR", "AGAINST"} :
             /\ Count(some(Append(u, r)), class) = Count(all(Append(u, r)), class)
             /\ Total(some(Append(u, r)), class) = Total(all(Append(u, r)), class)
      BY <2>1, <2>8, <3>2 DEF SameButNeutral
    <3>4. /\ Count(some(Append(u, r)), "NEUTRAL") = Count(some(u), "NEUTRAL") + Count(items, "NEUTRAL")
          /\ Count(all(Append(u, r)), "NEUTRAL") = Count(all(u), "NEUTRAL") + Count(items, "NEUTRAL")
          /\ Count(some(u), "NEUTRAL") <= Count(all(u), "NEUTRAL")
          /\ Count(all(u), "NEUTRAL") \in Nat /\ Count(some(u), "NEUTRAL") \in Nat
          /\ Count(items, "NEUTRAL") \in Nat
      BY <2>1, <2>6, <2>8, <3>2 DEF SameButNeutral
    <3>5. Count(some(Append(u, r)), "NEUTRAL") <= Count(all(Append(u, r)), "NEUTRAL")
      BY <3>4
    <3> QED
      BY <3>3, <3>5 DEF SameButNeutral
  <2>10. CASE ~r.success
    <3>1. some(Append(u, r)) = some(u)
      BY <2>4, <2>10
    <3>2. ASSUME NEW class \in {"FOR", "AGAINST"}
          PROVE  /\ Count(some(Append(u, r)), class) = Count(all(Append(u, r)), class)
                 /\ Total(some(Append(u, r)), class) = Total(all(Append(u, r)), class)
      <4>1. Count(items, class) = 0 /\ Total(items, class) = 0
        BY <2>7, <2>10
      <4>2. Count(all(u), class) \in Nat /\ Total(all(u), class) \in Nat
        BY <2>6
      <4>3. Count(all(Append(u, r)), class) = Count(all(u), class)
            /\ Total(all(Append(u, r)), class) = Total(all(u), class)
        BY <2>8, <4>1, <4>2
      <4> QED
        BY <2>1, <3>1, <4>3 DEF SameButNeutral
    <3>3. /\ Count(all(Append(u, r)), "NEUTRAL") = Count(all(u), "NEUTRAL") + Count(items, "NEUTRAL")
          /\ Count(some(u), "NEUTRAL") <= Count(all(u), "NEUTRAL")
          /\ Count(all(u), "NEUTRAL") \in Nat /\ Count(some(u), "NEUTRAL") \in Nat
          /\ Count(items, "NEUTRAL") \in Nat
      BY <2>1, <2>6, <2>8 DEF SameButNeutral
    <3>4. Count(some(Append(u, r)), "NEUTRAL") <= Count(all(Append(u, r)), "NEUTRAL")
      BY <3>1, <3>3
    <3> QED
      BY <3>2, <3>4 DEF SameButNeutral
  <2> QED
    BY <2>1, <2>9, <2>10
<1> HIDE DEF P
<1>3. Seq(S) \subseteq P
  BY <1>1, <1>2, SequenceInduction
<1> QED
  BY <1>3 DEF P

\* A failed call never makes a thesis supported.
LEMMA SuccessesSupport ==
  ASSUME NEW S, NEW d, AllSound(S, d), NEW t, NEW s \in Seq(S),
         VerdictOf(ScoreEvidence(s, t)) = "SUPPORTED"
  PROVE  VerdictOf(ScoreEvidence(Successes(s), t)) = "SUPPORTED"
<1>1. Successes(s) \in Seq(S)
  BY SuccessesSteps
<1>2. ScoreEvidence(s, t) \in Seq(EvidenceItem) /\ ScoreEvidence(Successes(s), t) \in Seq(EvidenceItem)
  BY <1>1, EvidenceSteps
<1>3. SameButNeutral(ScoreEvidence(Successes(s), t), ScoreEvidence(s, t))
  BY SuccessesTally
<1> QED
  BY <1>2, <1>3, FewerNeutralEvidence DEF SameButNeutral
-----------------------------------------------------------------------------
\* What is in favour, but no market data, is research, and counts for 55% at most:
\* the risk server's answers count for nothing.
LEMMA OthersAreResearch ==
  ASSUME NEW S, NEW d, AllSound(S, d), NEW t, NEW s \in Seq(S),
         NEW n \in Classified(ScoreEvidence(s, t), "FOR"),
         ScoreEvidence(s, t)[n].source # "bloomberg"
  PROVE  ScoreEvidence(s, t)[n].source = "research" /\ ScoreEvidence(s, t)[n].confidence <= 550
<1> DEFINE e == ScoreEvidence(s, t)
<1>1. \A i \in DOMAIN s : s[i] \in S /\ Sound(s[i], d)
  BY DEF AllSound
<1>2. n \in DOMAIN e /\ e[n].class = "FOR" /\ e[n].source # "bloomberg"
  BY DEF Classified
<1>3. PICK i \in DOMAIN s : \E k \in DOMAIN ScoreResult(s[i], t) : e[n] = ScoreResult(s[i], t)[k]
  <2>1. Gathers(e, Scores(S, t), s)
    BY EvidenceOrigins
  <2> HIDE DEF e
  <2> QED
    BY <1>1, <1>2, <2>1 DEF Gathers, Scores
<1>4. PICK k \in DOMAIN ScoreResult(s[i], t) : e[n] = ScoreResult(s[i], t)[k]
  BY <1>3
<1> DEFINE items == ScoreResult(s[i], t)
<1>5. s[i].success
  <2> SUFFICES ASSUME ~s[i].success PROVE FALSE
    BY <1>1 DEF Sound
  <2>1. PICK x \in GapItems(s[i].call.server) : items = <<x>> /\ x.class = "NEUTRAL"
    BY <1>1, GapOfFailure
  <2>2. k = 1
    BY <2>1
  <2> QED
    BY <1>2, <1>4, <2>1, <2>2
<1>6. items \in Seq(FoundItems(s[i].call.server))
  BY <1>1, <1>5, ItemsOfAnswer
<1>7. e[n].source = s[i].call.server
  <2>1. items[k] \in FoundItems(s[i].call.server)
    BY <1>4, <1>6
  <2> QED
    BY <1>4, <2>1 DEF FoundItems
<1>8. s[i].call.server \in Sources
  BY <1>1, ServerIsSource DEF Sound
<1>9. s[i].call.server # "risk"
  <2> SUFFICES ASSUME s[i].call.server = "risk" PROVE FALSE
    OBVIOUS
  <2>1. items = <<>>
    BY <1>1, <1>5, ItemsOfAnswer
  <2> QED
    BY <1>4, <2>1
<1>10. s[i].call.server = "research"
  BY <1>2, <1>7, <1>8, <1>9 DEF Sources
<1> QED
  BY <1>1, <1>4, <1>5, <1>7, <1>10, ItemsOfAnswer

\* Beside a neutral item, a gap or a price, no thesis is supported without a
\* favourable item of market data.
LEMMA SupportOfBloomberg ==
  ASSUME NEW S, NEW d, AllSound(S, d), NEW t, NEW s \in Seq(S),
         Classified(ScoreEvidence(s, t), "NEUTRAL") # {},
         VerdictOf(ScoreEvidence(s, t)) = "SUPPORTED"
  PROVE  \E n \in Classified(ScoreEvidence(s, t), "FOR") :
           ScoreEvidence(s, t)[n].source = "bloomberg"
<1> DEFINE e == ScoreEvidence(s, t)
<1> SUFFICES ASSUME \A n \in Classified(e, "FOR") : e[n].source # "bloomberg" PROVE FALSE
  OBVIOUS
<1>1. e \in Seq(EvidenceItem)
  BY EvidenceSteps
<1>2. \A n \in Classified(e, "FOR") : e[n].confidence <= 550
  BY OthersAreResearch
<1> QED
  BY <1>1, <1>2, WeakEvidence

\* The order in which a report lists its evidence.
Position(server) == [bloomberg |-> 1, risk |-> 2, research |-> 3][server]

\* The servers of the calls, and the sources of the items, are in that order.
CallsInOrder(s) ==
  \A m, n \in DOMAIN s : m < n => Position(s[m].call.server) <= Position(s[n].call.server)
SourcesInOrder(e) ==
  \A m, n \in DOMAIN e : m < n => Position(e[m].source) <= Position(e[n].source)

\* The items of a result are of the server that was called.
LEMMA SourceOfItem ==
  ASSUME NEW r, NEW d, Sound(r, d), NEW t, NEW k \in DOMAIN ScoreResult(r, t)
  PROVE  ScoreResult(r, t)[k].source = r.call.server
<1> DEFINE items == ScoreResult(r, t)
<1>1. items \in Seq(ResultItems(r))
  BY ItemsOfResult
<1>2. items[k] \in ResultItems(r)
  <2> HIDE DEF items
  <2>1. k \in DOMAIN items
    BY DEF items
  <2> QED
    BY <1>1, <2>1
<1> QED
  BY <1>2 DEF ResultItems, FoundItems, GapItems

\* Results in the order of their servers are evidence in that order.
LEMMA EvidenceFollowsCalls ==
  ASSUME NEW S, NEW d, AllSound(S, d), NEW t, NEW s \in Seq(S), CallsInOrder(s)
  PROVE  SourcesInOrder(ScoreEvidence(s, t))
<1> DEFINE E(u) == ScoreEvidence(u, t)
           P == {u \in Seq(S) : CallsInOrder(u) => SourcesInOrder(E(u))}
<1>1. <<>> \in P
  <2>1. E(<<>>) = <<>> /\ <<>> \in Seq(S) /\ DOMAIN <<>> = {}
    BY EvidenceSteps
  <2> QED
    BY <2>1 DEF SourcesInOrder
<1>2. ASSUME NEW u \in Seq(S), NEW r \in S, u \in P PROVE Append(u, r) \in P
  <2> DEFINE items == ScoreResult(r, t)
             v == Append(u, r)
  <2>1. v \in Seq(S) /\ Sound(r, d)
    BY DEF AllSound
  <2> SUFFICES ASSUME CallsInOrder(v) PROVE SourcesInOrder(E(v))
    BY <2>1
  <2>2. /\ \A i \in DOMAIN u : i \in DOMAIN v /\ v[i] = u[i] /\ i < Len(u) + 1
        /\ Len(u) + 1 \in DOMAIN v /\ v[Len(u) + 1] = r
    OBVIOUS
  <2>3. CallsInOrder(u) /\ \A i \in DOMAIN u : Position(u[i].call.server) <= Position(r.call.server)
    <3> HIDE DEF v
    <3>1. CallsInOrder(u)
      BY <2>2 DEF CallsInOrder
    <3>2. \A i \in DOMAIN u : v[i] = u[i] /\ Position(v[i].call.server) <= Position(v[Len(u) + 1].call.server)
      BY <2>2 DEF CallsInOrder
    <3> QED
      BY <2>2, <3>1, <3>2
  <2>4. SourcesInOrder(E(u))
    BY <1>2, <2>3
  <2>5. E(u) \in Seq(EvidenceItem) /\ E(v) = E(u) \o items /\ items \in Seq(EvidenceItem)
    BY <2>1, EvidenceSteps, ItemsOfResult
  <2>6. \A n \in DOMAIN E(u) : Position(E(u)[n].source) <= Position(r.call.server)
    <3> SUFFICES ASSUME NEW n \in DOMAIN E(u)
                 PROVE  Position(E(u)[n].source) <= Position(r.call.server)
      OBVIOUS
    <3>1. \A i \in DOMAIN u : u[i] \in S /\ Sound(u[i], d)
      BY DEF AllSound
    <3>2. Gathers(E(u), Scores(S, t), u)
      BY EvidenceOrigins
    <3>3. PICK i \in DOMAIN u : \E k \in DOMAIN ScoreResult(u[i], t) : E(u)[n] = ScoreResult(u[i], t)[k]
      <4> HIDE DEF E
      <4> QED
        BY <3>1, <3>2 DEF Gathers, Scores
    <3>4. E(u)[n].source = u[i].call.server
      BY <3>1, <3>3, SourceOfItem
    <3> QED
      BY <2>3, <3>4
  <2>7. \A k \in DOMAIN items : items[k].source = r.call.server
    BY <2>1, SourceOfItem
  <2> DEFINE a == E(u)
             b == E(v)
  <2>8. Position(r.call.server) <= Position(r.call.server)
    BY <2>1, ServerIsSource DEF Sound, Sources, Position
  <2> HIDE DEF E, v, items
  <2> SUFFICES ASSUME NEW m \in DOMAIN b, NEW n \in DOMAIN b, m < n
               PROVE  Position(b[m].source) <= Position(b[n].source)
    BY DEF SourcesInOrder
  <2>9. /\ DOMAIN a = 1..Len(a) /\ DOMAIN b = 1..(Len(a) + Len(items)) /\ Len(a) \in Nat
        /\ DOMAIN items = 1..Len(items) /\ Len(items) \in Nat
        /\ \A i \in 1..Len(a) : b[i] = a[i]
        /\ \A i \in DOMAIN b : i \notin 1..Len(a) => i - Len(a) \in DOMAIN items /\ b[i] = items[i - Len(a)]
    BY <2>5
  <2>10. CASE n \in 1..Len(a)
    <3>1. m \in 1..Len(a)
      BY <2>9, <2>10
    <3> QED
      BY <2>4, <2>9, <2>10, <3>1 DEF SourcesInOrder
  <2>11. CASE n \notin 1..Len(a)
    <3>1. b[n].source = r.call.server
      BY <2>7, <2>9, <2>11
    <3>2. CASE m \in 1..Len(a)
      BY <2>6, <2>9, <3>1, <3>2
    <3>3. CASE m \notin 1..Len(a)
      BY <2>7, <2>8, <2>9, <3>1, <3>3
    <3> QED
      BY <3>2, <3>3
  <2> QED
    BY <2>10, <2>11
<1> HIDE DEF P
<1>3. Seq(S) \subseteq P
  BY <1>1, <1>2, SequenceInduction
<1> QED
  BY <1>3 DEF P
-----------------------------------------------------------------------------
\* The places of e that hold an element of M.
Places(e, M) == {n \in DOMAIN e : e[n] \in M}

\* None without an element ..
LEMMA PlacesEmpty ==
  ASSUME NEW M
  PROVE  Cardinality(Places(<<>>, M)) = 0
<1>1. Places(<<>>, M) = {}
  BY DEF Places
<1> QED
  BY <1>1, FS_EmptySet

\* .. finitely many in any sequence ..
LEMMA PlacesFinite ==
  ASSUME NEW M, NEW S, NEW e \in Seq(S)
  PROVE  IsFiniteSet(Places(e, M)) /\ Cardinality(Places(e, M)) \in Nat
<1>1. IsFiniteSet(1..Len(e)) /\ Places(e, M) \subseteq 1..Len(e)
  BY FS_Interval DEF Places
<1>2. IsFiniteSet(Places(e, M))
  BY <1>1, FS_Subset
<1> QED
  BY <1>2, FS_CardinalityType

\* .. and one more with one more that is in M.
LEMMA PlacesAppend ==
  ASSUME NEW M, NEW S, NEW e \in Seq(S), NEW x \in S
  PROVE  Cardinality(Places(Append(e, x), M))
           = Cardinality(Places(e, M)) + IF x \in M THEN 1 ELSE 0
<1> DEFINE k == Len(e) + 1
           T == Places(e, M)
<1>1. k \notin T /\ Places(Append(e, x), M) = IF x \in M THEN T \cup {k} ELSE T
  BY DEF Places
<1>2. IsFiniteSet(T) /\ Cardinality(T) \in Nat
  BY PlacesFinite
<1> HIDE DEF T, k
<1>3. Cardinality(T \cup {k}) = Cardinality(T) + 1
  BY <1>1, <1>2, FS_AddElement
<1> QED
  BY <1>1, <1>2, <1>3 DEF T

\* The results of the calls to a server that failed.
Failures(S, server) == {r \in S : ~r.success /\ r.call.server = server}

\* The evidence has a gap for each call that failed.
LEMMA GapPerFailure ==
  ASSUME NEW S, NEW d, AllSound(S, d), NEW t, NEW server, NEW s \in Seq(S)
  PROVE  Cardinality(Places(ScoreEvidence(s, t), GapItems(server)))
           = Cardinality(Places(s, Failures(S, server)))
<1> DEFINE E(u) == ScoreEvidence(u, t)
           G == GapItems(server)
           F == Failures(S, server)
           P == {u \in Seq(S) : Cardinality(Places(E(u), G)) = Cardinality(Places(u, F))}
<1>1. <<>> \in P
  <2>1. E(<<>>) = <<>> /\ <<>> \in Seq(S)
    BY EvidenceSteps
  <2>2. \A M : Cardinality(Places(<<>>, M)) = 0
    BY PlacesEmpty
  <2> HIDE DEF E, G, F
  <2> QED
    BY <2>1, <2>2
<1>2. ASSUME NEW u \in Seq(S), NEW r \in S, u \in P PROVE Append(u, r) \in P
  <2> DEFINE items == ScoreResult(r, t)
             v == Append(u, r)
  <2>1. v \in Seq(S) /\ Sound(r, d) /\ r.success \in BOOLEAN
    BY DEF AllSound, Sound
  <2>2. E(u) \in Seq(EvidenceItem) /\ E(v) = E(u) \o items
    BY EvidenceSteps
  <2>3. Cardinality(Places(v, F)) = Cardinality(Places(u, F)) + IF r \in F THEN 1 ELSE 0
    <3> HIDE DEF F
    <3> QED
      BY PlacesAppend
  <2>4. CASE ~r.success
    <3>1. PICK x \in GapItems(r.call.server) : items = <<x>>
      BY <2>1, <2>4, GapOfFailure
    <3>2. x \in EvidenceItem /\ (x \in G <=> r \in F)
      BY <2>4 DEF GapItems, Failures
    <3>3. E(v) = Append(E(u), x)
      <4>1. \A q \in Seq(EvidenceItem) : q \o <<x>> = Append(q, x)
        OBVIOUS
      <4> QED
        BY <2>2, <3>1, <4>1
    <3> HIDE DEF E, G, F, v
    <3>4. Cardinality(Places(E(v), G)) = Cardinality(Places(E(u), G)) + IF x \in G THEN 1 ELSE 0
      BY <2>2, <3>2, <3>3, PlacesAppend
    <3>5. Cardinality(Places(E(v), G)) = Cardinality(Places(v, F))
      BY <1>2, <2>3, <3>2, <3>4
    <3> QED
      BY <2>1, <3>5 DEF v
  <2>5. CASE r.success
    <3>1. items \in Seq(FoundItems(r.call.server))
      BY <2>1, <2>5, ItemsOfAnswer
    <3>2. \A k \in DOMAIN items : items[k] \notin G
      <4> HIDE DEF items
      <4>1. \A k \in DOMAIN items : items[k] \in FoundItems(r.call.server)
        BY <3>1
      <4> QED
        BY <4>1 DEF FoundItems, GapItems
    <3>3. r \notin F
      BY <2>5 DEF Failures
    <3> HIDE DEF E, items
    <3>4. Places(E(v), G) = Places(E(u), G)
      <4> DEFINE a == E(u)
                 b == E(v)
      <4>1. /\ DOMAIN a = 1..Len(a) /\ DOMAIN b = 1..(Len(a) + Len(items)) /\ Len(a) \in Nat
            /\ Len(items) \in Nat
            /\ \A i \in 1..Len(a) : b[i] = a[i]
            /\ \A i \in DOMAIN b : i \notin 1..Len(a) => i - Len(a) \in DOMAIN items /\ b[i] = items[i - Len(a)]
        BY <2>2, <3>1
      <4> HIDE DEF a, b, G
      <4>2. Places(b, G) = Places(a, G)
        BY <3>2, <4>1 DEF Places
      <4> QED
        BY <4>2 DEF a, b
    <3>5. Cardinality(Places(u, F)) \in Nat
      BY PlacesFinite
    <3> HIDE DEF G, F, v
    <3>6. Cardinality(Places(E(v), G)) = Cardinality(Places(v, F))
      BY <1>2, <2>3, <3>3, <3>4, <3>5
    <3> QED
      BY <2>1, <3>6 DEF v
  <2> QED
    BY <2>1, <2>4, <2>5
<1> HIDE DEF P
<1>3. Seq(S) \subseteq P
  BY <1>1, <1>2, SequenceInduction
<1> QED
  BY <1>3 DEF P
-----------------------------------------------------------------------------
(***************************************************************************)
(* THE SHAPE OF A PLAN: each group calls one server, and the market data has a*)
(* snapshot of what every history is of.                                   *)
(***************************************************************************)

\* Tuples are built by appending.
LEMMA Tuples ==
  ASSUME NEW T, NEW a \in T, NEW b \in T, NEW c \in T
  PROVE  /\ <<>> \in Seq(T) /\ <<a>> \in Seq(T) /\ <<a, b>> \in Seq(T)
         /\ Append(<<>>, a) = <<a>>
         /\ Append(<<a>>, b) = <<a, b>>
         /\ Append(<<a, b>>, c) = <<a, b, c>>
<1>1. <<>> \in Seq(T) /\ <<a>> \in Seq(T) /\ <<a, b>> \in Seq(T) /\ <<a, b, c>> \in Seq(T)
  OBVIOUS
<1>2. Append(<<>>, a) = <<a>>
  OBVIOUS
<1>3. Append(<<a>>, b) = <<a, b>>
  <2> DEFINE s == Append(<<a>>, b)
  <2>1. s \in Seq(T) /\ Len(s) = 2 /\ s[1] = a /\ s[2] = b
    BY <1>1
  <2> HIDE DEF s
  <2>2. s = <<a, b>>
    BY <2>1
  <2> QED
    BY <2>2 DEF s
<1>4. Append(<<a, b>>, c) = <<a, b, c>>
  <2> DEFINE s == Append(<<a, b>>, c)
  <2>1. s \in Seq(T) /\ Len(s) = 3 /\ s[1] = a /\ s[2] = b /\ s[3] = c
    BY <1>1
  <2> HIDE DEF s
  <2>2. s = <<a, b, c>>
    BY <1>1, <2>1
  <2> QED
    BY <2>2 DEF s
<1> QED
  BY <1>1, <1>2, <1>3, <1>4

\* Three sequences, one after the other.
LEMMA FlattenThree ==
  ASSUME NEW S, NEW ss \in Seq(Seq(S)), Len(ss) = 3
  PROVE  FlattenSeq(ss) = (ss[1] \o ss[2]) \o ss[3]
<1> DEFINE T == Seq(S)
           a == ss[1]
           b == ss[2]
           c == ss[3]
           e == <<>>
           x == <<a>>
           y == <<a, b>>
           z == <<a, b, c>>
<1>1. a \in T /\ b \in T /\ c \in T
  <2>1. ss \in Seq(T) /\ 1 \in 1..Len(ss) /\ 2 \in 1..Len(ss) /\ 3 \in 1..Len(ss)
    OBVIOUS
  <2> HIDE DEF T
  <2> QED
    BY SMTT(30), <2>1
<1>2. ss = z
  <2> HIDE DEF T
  <2>1. ss \in Seq(T)
    BY DEF T
  <2>2. z \in Seq(T)
    BY <1>1
  <2> QED
    BY <2>1, <2>2
<1> HIDE DEF T, a, b, c
<1>3. FlattenSeq(e) = <<>> /\ <<>> \o a = a
  BY <1>1, FlattenEmpty DEF T
<1>4. /\ e \in Seq(T) /\ x \in Seq(T) /\ y \in Seq(T)
      /\ Append(e, a) = x /\ Append(x, b) = y /\ Append(y, c) = z
  BY <1>1, Tuples
<1> HIDE DEF e, x, y, z
<1>5. \A t \in Seq(T), s \in T : FlattenSeq(Append(t, s)) = FlattenSeq(t) \o s
  BY FlattenAppend DEF T
<1>6. /\ FlattenSeq(Append(e, a)) = FlattenSeq(e) \o a
      /\ FlattenSeq(Append(x, b)) = FlattenSeq(x) \o b
      /\ FlattenSeq(Append(y, c)) = FlattenSeq(y) \o c
  BY <1>1, <1>4, <1>5
<1>7. FlattenSeq(z) = (a \o b) \o c
  BY <1>3, <1>4, <1>6
<1> QED
  BY <1>2, <1>7 DEF a, b, c

\* The groups of a plan, and the server that the calls of each go to.
PlanGroups == {"market_data", "risk_analysis", "research_context"}
GroupServer == [market_data |-> "bloomberg", risk_analysis |-> "risk", research_context |-> "research"]

\* Market data with a snapshot.
HasSnapshot(market) == \E i \in DOMAIN market : market[i].tool = "get_ref_data"

\* Every plan has those groups, with calls that are listed, market data that has a
\* snapshot, and one search.
Shaped(calls) ==
  /\ DOMAIN calls = PlanGroups
  /\ \A g \in PlanGroups : DOMAIN calls[g] = 1..Len(calls[g]) /\ Len(calls[g]) \in Nat
  /\ \A g \in PlanGroups : \A i \in DOMAIN calls[g] : calls[g][i].server = GroupServer[g]
  /\ HasSnapshot(calls["market_data"])
  /\ Len(calls["research_context"]) = 1

\* A plan whose market data is a snapshot and a history has this shape ..
LEMMA PairShaped ==
  ASSUME NEW a, NEW b, NEW e, NEW f,
         a.server = "bloomberg", b.server = "bloomberg", e.server = "risk", f.server = "risk",
         a.tool = "get_ref_data" \/ b.tool = "get_ref_data"
  PROVE  Shaped(Calls(<<a, b>>, <<e, f>>))
<1> DEFINE calls == Calls(<<a, b>>, <<e, f>>)
<1>1. /\ DOMAIN calls = PlanGroups
      /\ calls["market_data"] = <<a, b>> /\ calls["risk_analysis"] = <<e, f>>
      /\ calls["research_context"] = <<ResearchCall>>
  BY DEF Calls, PlanGroups
<1>2. ResearchCall.server = "research"
  BY DEF ResearchCall
<1> HIDE DEF calls
<1>3. /\ 1 \in DOMAIN calls["market_data"] /\ 2 \in DOMAIN calls["market_data"]
      /\ calls["market_data"][1] = a /\ calls["market_data"][2] = b
  BY <1>1
<1>4. HasSnapshot(calls["market_data"])
  <2> DEFINE market == calls["market_data"]
  <2>1. /\ 1 \in DOMAIN market /\ 2 \in DOMAIN market
        /\ market[1].tool = "get_ref_data" \/ market[2].tool = "get_ref_data"
    BY <1>3
  <2> HIDE DEF market
  <2>2. HasSnapshot(market)
    BY <2>1, Zenon DEF HasSnapshot
  <2> QED
    BY <2>2 DEF market
<1>5. \A g \in PlanGroups : DOMAIN calls[g] = 1..Len(calls[g]) /\ Len(calls[g]) \in Nat
  BY <1>1 DEF PlanGroups
<1>6. \A g \in PlanGroups : \A i \in DOMAIN calls[g] : calls[g][i].server = GroupServer[g]
  BY <1>1, <1>2 DEF PlanGroups, GroupServer
<1>7. Len(calls["research_context"]) = 1
  BY <1>1
<1> QED
  BY <1>1, <1>4, <1>5, <1>6, <1>7 DEF Shaped, calls

\* .. and so has one of two histories and a snapshot.
LEMMA TripleShaped ==
  ASSUME NEW a, NEW b, NEW c, NEW e, NEW f,
         a.server = "bloomberg", b.server = "bloomberg", c.server = "bloomberg",
         e.server = "risk", f.server = "risk",
         c.tool = "get_ref_data"
  PROVE  Shaped(Calls(<<a, b, c>>, <<e, f>>))
<1> DEFINE calls == Calls(<<a, b, c>>, <<e, f>>)
<1>1. /\ DOMAIN calls = PlanGroups
      /\ calls["market_data"] = <<a, b, c>> /\ calls["risk_analysis"] = <<e, f>>
      /\ calls["research_context"] = <<ResearchCall>>
  BY DEF Calls, PlanGroups
<1>2. ResearchCall.server = "research"
  BY DEF ResearchCall
<1> HIDE DEF calls
<1>3. 3 \in DOMAIN calls["market_data"] /\ calls["market_data"][3] = c
  BY <1>1
<1>4. HasSnapshot(calls["market_data"])
  <2> DEFINE market == calls["market_data"]
  <2>1. 3 \in DOMAIN market /\ market[3].tool = "get_ref_data"
    BY <1>3
  <2> HIDE DEF market
  <2>2. HasSnapshot(market)
    BY <2>1, Zenon DEF HasSnapshot
  <2> QED
    BY <2>2 DEF market
<1>5. \A g \in PlanGroups : DOMAIN calls[g] = 1..Len(calls[g]) /\ Len(calls[g]) \in Nat
  BY <1>1 DEF PlanGroups
<1>6. \A g \in PlanGroups : \A i \in DOMAIN calls[g] : calls[g][i].server = GroupServer[g]
  BY <1>1, <1>2 DEF PlanGroups, GroupServer
<1>7. Len(calls["research_context"]) = 1
  BY <1>1
<1> QED
  BY <1>1, <1>4, <1>5, <1>6, <1>7 DEF Shaped, calls

\* Every template has that shape (plan_templates.py).
LEMMA TemplateShaped ==
  ASSUME NEW claim, NEW asset, NEW d
  PROVE  Shaped(Template(claim, asset, d))
<1>1. Shaped(VolMispricing(asset, d))
  BY PairShaped DEF VolMispricing, RefDataCall, HistoryCall, GreeksCall, ScenarioCall
<1>2. Shaped(Momentum(asset, d))
  BY TripleShaped DEF Momentum, RefDataCall, HistoryCall, VarCall, ScenarioCall
<1>3. Shaped(RelativeValue(asset, d))
  BY PairShaped DEF RelativeValue, RefDataCall, HistoryCall, VarCall, ScenarioCall
<1>4. Shaped(MeanReversion(asset, d))
  BY PairShaped DEF MeanReversion, RefDataCall, HistoryCall, VarCall, ScenarioCall
<1>5. Shaped(EventDriven(asset, d))
  BY PairShaped DEF EventDriven, RefDataCall, HistoryCall, GreeksCall, ScenarioCall
<1>6. Shaped(Macro(asset, d))
  BY PairShaped DEF Macro, RefDataCall, HistoryCall, VarCall, ScenarioCall
<1> QED
  BY <1>1, <1>2, <1>3, <1>4, <1>5, <1>6 DEF Template
-----------------------------------------------------------------------------
(***************************************************************************)
(* THE RUN: the executor carries out the plan of the thesis, in two waves. *)
(***************************************************************************)

\* A plan was made for the thesis.
Planned == stage \in {"running", "raised"} \/ (stage = "reported" /\ thesis.testable)

\* Scoring finds nothing to raise on.
Scorable == \A n \in DOMAIN Results : ~Unscorable(Results[n])

\* How far the executor is: what it has booked, and the wave it awaits.
Booked(done, awaited) ==
  completed = done /\ wave = awaited /\ \A g \in done : group[g] = "done"

\* The two waves of every plan: the market data, then the rest.
Progress ==
  LET R(g) == Executor!ResultsOf(g)
  IN  \/ status = "running" /\ Booked({}, {}) /\ results = <<>>
      \/ status = "running" /\ Booked({}, {"market_data"}) /\ results = <<>>
      \/ /\ status = "running"
         /\ Booked({"market_data"}, {"risk_analysis", "research_context"})
         /\ results = <<R("market_data")>>
      \/ /\ status = "returned"
         /\ Booked({"market_data", "risk_analysis", "research_context"}, {})
         /\ results = <<R("market_data"), R("risk_analysis"), R("research_context")>>

\* Where a validation can be.  The executor has the plan of the thesis; a group
\* is done when its calls have ended, each of them with its reply; the waves are
\* those of every plan, and the report waits for the last, and for results that
\* can be scored.
RunInv ==
  /\ stage \in {"new", "running", "reported", "raised"}
  /\ account \in Accounts
  /\ stage = "new" => status = "running" /\ wave = {} /\ completed = {} /\ results = <<>>
  /\ ~Planned => plan.calls = <<>>
  /\ stage \in {"running", "raised"} => thesis.testable
  /\ stage = "reported" /\ thesis.testable => Scorable
  /\ Planned =>
       /\ plan = GeneratePlan(thesis, desk)
       /\ DOMAIN group = DOMAIN plan.calls /\ DOMAIN call = DOMAIN plan.calls
       /\ \A g \in DOMAIN plan.calls :
            /\ DOMAIN call[g] = DOMAIN plan.calls[g]
            /\ group[g] = "done" => Executor!Ended(g)
       /\ Progress
       /\ stage \in {"reported", "raised"} => status = "returned"
  /\ \A g \in DOMAIN plan.calls : \A i \in DOMAIN plan.calls[g] :
       call[g][i] \in {"ok", "failed"} =>
         /\ reply[g][i] \in Replies(plan.calls[g][i], account) \cup {Lost}
         /\ call[g][i] = "ok" <=> reply[g][i].success

\* One by one into three.
LEMMA ConcatThree ==
  ASSUME NEW a, NEW b, NEW c
  PROVE  <<a>> \o ((<<>> \o <<b>>) \o <<c>>) = <<a, b, c>>
<1> DEFINE T == {a, b, c}
           s == <<a>> \o ((<<>> \o <<b>>) \o <<c>>)
<1>1. a \in T /\ b \in T /\ c \in T
  OBVIOUS
<1> HIDE DEF T
<1>2. <<a>> \in Seq(T) /\ <<b>> \in Seq(T) /\ <<c>> \in Seq(T) /\ <<a, b, c>> \in Seq(T)
  BY <1>1
<1>3. s \in Seq(T) /\ Len(s) = 3 /\ s[1] = a /\ s[2] = b /\ s[3] = c
  BY <1>2
<1> HIDE DEF s
<1>4. s = <<a, b, c>>
  BY <1>2, <1>3
<1> QED
  BY <1>4 DEF s

\* What the executor reads of a plan of the templates.
LEMMA PlanFacts ==
  ASSUME plan = GeneratePlan(thesis, desk)
  PROVE  /\ plan.order = GroupOrder /\ plan.deps = Dependencies
         /\ Shaped(plan.calls) /\ DOMAIN plan.calls = PlanGroups
         /\ Executor!Groups = PlanGroups
         /\ \A g \in PlanGroups : Executor!CallsOf(g) = DOMAIN plan.calls[g]
<1>1. Shaped(plan.calls)
  BY TemplateShaped DEF GeneratePlan
<1>2. DOMAIN plan.calls = PlanGroups
  BY <1>1 DEF Shaped
<1>3. plan.order = GroupOrder /\ plan.deps = Dependencies
  BY DEF GeneratePlan
<1>4. Executor!Groups = PlanGroups
  BY <1>3 DEF Executor!Groups, Dependencies, PlanGroups
<1>5. \A g \in PlanGroups : Executor!CallsOf(g) = DOMAIN plan.calls[g]
  <2>1. plan.required = [g \in DOMAIN plan.calls |-> [i \in DOMAIN plan.calls[g] |-> plan.calls[g][i].required]]
    BY DEF GeneratePlan
  <2> QED
    BY <1>2, <2>1 DEF Executor!CallsOf
<1> QED
  BY <1>1, <1>2, <1>3, <1>4, <1>5

\* The three steps of the plans of the templates: which groups are ready.
LEMMA ReadyGroups ==
  ASSUME plan = GeneratePlan(thesis, desk)
  PROVE  /\ {g \in PlanGroups : Executor!Ready(g, {})} = {"market_data"}
         /\ {g \in PlanGroups : Executor!Ready(g, {"market_data"})} = {"risk_analysis", "research_context"}
         /\ \A g \in PlanGroups : ~Executor!Ready(g, PlanGroups)
BY PlanFacts DEF Executor!Ready, Dependencies, PlanGroups

\* What a wave adds to the results of the executor.
Added(g) == IF g \in wave THEN <<Executor!ResultsOf(g)>> ELSE <<>>

\* The results of the groups of a wave are booked in the order of the plan.
LEMMA ResultsBooked ==
  ASSUME plan = GeneratePlan(thesis, desk)
  PROVE  Executor!Extended
           = results \o ((Added("market_data") \o Added("risk_analysis")) \o Added("research_context"))
<1> DEFINE R == {Executor!ResultsOf(g) : g \in PlanGroups}
           ss == [n \in DOMAIN plan.order |->
                    IF plan.order[n] \in wave THEN <<Executor!ResultsOf(plan.order[n])>> ELSE <<>>]
<1>1. plan.order = <<"market_data", "risk_analysis", "research_context">>
  BY PlanFacts DEF GroupOrder
<1>2. \A x \in R : <<x>> \in Seq(R)
  <2> HIDE DEF R
  <2> QED
    OBVIOUS
<1>3. \A g \in PlanGroups : Added(g) \in Seq(R)
  <2>1. \A g \in PlanGroups : Executor!ResultsOf(g) \in R
    OBVIOUS
  <2> HIDE DEF R
  <2>2. <<>> \in Seq(R)
    OBVIOUS
  <2> QED
    BY <1>2, <2>1, <2>2 DEF Added
<1>4. Executor!Extended = results \o FlattenSeq(ss)
  <2>1. \A s : Executor!FlattenSeq(s) = FlattenSeq(s)
    BY Zenon DEF Executor!FlattenSeq, FlattenSeq
  <2> QED
    BY <2>1 DEF Executor!Extended
<1>5. /\ DOMAIN ss = 1..3 /\ ss = [n \in 1..3 |-> ss[n]]
      /\ ss[1] = Added("market_data") /\ ss[2] = Added("risk_analysis")
      /\ ss[3] = Added("research_context")
  <2>1. DOMAIN plan.order = 1..3
    BY <1>1
  <2>2. ss = [n \in 1..3 |-> IF plan.order[n] \in wave THEN <<Executor!ResultsOf(plan.order[n])>> ELSE <<>>]
    BY <2>1
  <2>3. \A n \in 1..3 : ss[n] = Added(plan.order[n])
    BY <2>2 DEF Added
  <2>4. /\ plan.order[1] = "market_data" /\ plan.order[2] = "risk_analysis"
        /\ plan.order[3] = "research_context"
    BY <1>1
  <2>5. DOMAIN ss = 1..3 /\ ss = [n \in 1..3 |-> ss[n]]
    BY <2>2
  <2> HIDE DEF ss
  <2> QED
    BY <2>3, <2>4, <2>5
<1>6. /\ Added("market_data") \in Seq(R) /\ Added("risk_analysis") \in Seq(R)
      /\ Added("research_context") \in Seq(R)
  BY <1>3 DEF PlanGroups
<1> HIDE DEF R, ss
<1>7. ss \in Seq(Seq(R)) /\ Len(ss) = 3
  <2> DEFINE T == Seq(R)
  <2>1. \A n \in 1..3 : n = 1 \/ n = 2 \/ n = 3
    OBVIOUS
  <2>2. ss[1] \in T /\ ss[2] \in T /\ ss[3] \in T
    BY <1>5, <1>6
  <2> HIDE DEF T
  <2>3. ss \in Seq(T) /\ Len(ss) = 3
    BY <1>5, <2>1, <2>2, SeqDef
  <2> QED
    BY <2>3 DEF T
<1>8. FlattenSeq(ss) = (ss[1] \o ss[2]) \o ss[3]
  BY <1>7, FlattenThree
<1> QED
  BY <1>4, <1>5, <1>8, Zenon
-----------------------------------------------------------------------------
\* Before a validation is asked for, nothing has been started.
LEMMA InitRun == Init => RunInv
BY DEF Init, RunInv, Planned, Progress

\* A plan is made of a testable thesis.
LEMMA StartRun == ReplyInv /\ RunInv /\ Start => RunInv'
<1> SUFFICES ASSUME ReplyInv, RunInv, Start PROVE RunInv'
  OBVIOUS
<1>1. /\ stage' = "running" /\ plan' = GeneratePlan(thesis', desk') /\ thesis'.testable
      /\ status' = "running" /\ wave' = {} /\ completed' = {} /\ results' = <<>>
      /\ account' \in Accounts
  BY DEF Start, RunInv
<1>2. /\ group' = [g \in DOMAIN plan'.calls |-> "waiting"]
      /\ call' = [g \in DOMAIN plan'.calls |-> [i \in DOMAIN plan'.calls[g] |-> "idle"]]
  BY DEF Start
<1>3. Progress'
  BY <1>1 DEF Progress, Booked
<1>4. Planned'
  BY <1>1 DEF Planned
<1> QED
  BY <1>1, <1>2, <1>3, <1>4 DEF RunInv

\* .. or of none.
LEMMA RejectRun == ReplyInv /\ RunInv /\ RejectUntestable => RunInv'
<1> SUFFICES ASSUME ReplyInv, RunInv, RejectUntestable PROVE RunInv'
  OBVIOUS
<1>1. /\ stage' = "reported" /\ ~thesis'.testable /\ account' \in Accounts
      /\ plan' = plan /\ plan.calls = <<>>
  BY DEF RejectUntestable, executorVars, RunInv, ReplyInv
<1>2. ~Planned'
  BY <1>1 DEF Planned
<1> QED
  BY <1>1, <1>2 DEF RunInv

\* What stays while a plan is carried out.
LEMMA RunningFacts ==
  ASSUME RunInv, stage = "running"
  PROVE  /\ plan = GeneratePlan(thesis, desk) /\ Planned /\ thesis.testable
         /\ account \in Accounts
         /\ DOMAIN group = PlanGroups /\ DOMAIN call = PlanGroups
         /\ \A g \in PlanGroups : /\ DOMAIN call[g] = DOMAIN plan.calls[g]
                                  /\ group[g] = "done" => Executor!Ended(g)
         /\ Progress
BY PlanFacts DEF RunInv, Planned

\* The executor books the wave it awaited, and starts the next or returns.
LEMMA WaveRun == ReplyInv /\ RunInv /\ Wave => RunInv'
<1> SUFFICES ASSUME RunInv, Wave PROVE RunInv'
  OBVIOUS
<1> DEFINE R(g) == Executor!ResultsOf(g)
<1>1. /\ stage = "running" /\ UNCHANGED <<stage, thesis, desk, account, reply>>
      /\ Executor!StartWave \/ Executor!Return
  BY DEF Wave
<1>2. /\ status = "running" /\ plan' = plan /\ \A g \in wave : group[g] = "done"
      /\ completed' = completed \cup wave /\ results' = Executor!Extended
  BY <1>1 DEF Executor!StartWave, Executor!Return, Executor!Resume, Executor!Done
<1>3. /\ plan = GeneratePlan(thesis, desk) /\ Planned /\ thesis.testable
      /\ account \in Accounts
      /\ DOMAIN group = PlanGroups /\ DOMAIN call = PlanGroups
      /\ \A g \in PlanGroups : /\ DOMAIN call[g] = DOMAIN plan.calls[g]
                               /\ group[g] = "done" => Executor!Ended(g)
      /\ Progress
  BY <1>1, RunningFacts
<1>4. /\ DOMAIN plan.calls = PlanGroups /\ Executor!Groups = PlanGroups
      /\ \A g \in PlanGroups : Executor!CallsOf(g) = DOMAIN plan.calls[g]
  BY <1>3, PlanFacts
<1>5. /\ DOMAIN group' = PlanGroups /\ DOMAIN call' = PlanGroups
      /\ \A g \in PlanGroups :
           \/ group'[g] = group[g] /\ call'[g] = call[g]
           \/ group'[g] = "running" /\ call'[g] = [i \in DOMAIN plan.calls[g] |-> "running"]
      /\ \A g \in completed \cup wave : g \in PlanGroups => group'[g] = group[g] /\ call'[g] = call[g]
  BY <1>1, <1>3, <1>4 DEF Executor!StartWave, Executor!Return, Executor!Ready, Executor!Done
<1>6. \A g \in PlanGroups :
        /\ DOMAIN call'[g] = DOMAIN plan.calls[g]
        /\ group'[g] = "done" => Executor!Ended(g)'
  BY <1>2, <1>3, <1>4, <1>5 DEF Executor!Ended, Executor!CallsOf
<1>7. Progress'
  <2>1. \/ status' = "running" /\ wave' = {g \in PlanGroups : Executor!Ready(g, completed \cup wave)}
                               /\ wave' # {}
        \/ status' = "returned" /\ wave' = {} /\ PlanGroups \subseteq completed \cup wave
    BY <1>1, <1>2, <1>4 DEF Executor!StartWave, Executor!Return, Executor!Done
  <2>2. \A g \in completed \cup wave : g \in PlanGroups => R(g)' = R(g) /\ group'[g] = group[g]
    BY <1>5 DEF Executor!ResultsOf
  <2>3. results' = results \o ((Added("market_data") \o Added("risk_analysis")) \o Added("research_context"))
    BY <1>2, <1>3, ResultsBooked
  <2>4. PlanGroups = {"market_data", "risk_analysis", "research_context"}
    BY DEF PlanGroups
  <2>5. CASE Booked({}, {}) /\ results = <<>>
    <3>1. results' = <<>>
      BY <2>3, <2>5 DEF Booked, Added
    <3>2. status' = "running" /\ completed' = {} /\ wave' = {"market_data"}
      BY <1>2, <1>3, <2>1, <2>4, <2>5, ReadyGroups DEF Booked
    <3> QED
      BY <3>1, <3>2 DEF Progress, Booked
  <2>6. CASE Booked({}, {"market_data"}) /\ results = <<>>
    <3>1. results' = <<R("market_data")'>>
      BY <2>2, <2>3, <2>4, <2>6 DEF Booked, Added
    <3>2. /\ status' = "running" /\ completed' = {"market_data"}
          /\ wave' = {"risk_analysis", "research_context"}
      BY <1>2, <1>3, <2>1, <2>4, <2>6, ReadyGroups DEF Booked
    <3>3. group'["market_data"] = "done"
      BY <1>2, <2>2, <2>4, <2>6 DEF Booked
    <3> QED
      BY <3>1, <3>2, <3>3 DEF Progress, Booked
  <2>7. CASE /\ Booked({"market_data"}, {"risk_analysis", "research_context"})
             /\ results = <<R("market_data")>>
    <3>1. results' = <<R("market_data")', R("risk_analysis")', R("research_context")'>>
      <4>1. results' = <<R("market_data")>> \o ((<<>> \o <<R("risk_analysis")>>) \o <<R("research_context")>>)
        BY <2>3, <2>7 DEF Booked, Added
      <4>2. /\ R("market_data")' = R("market_data") /\ R("risk_analysis")' = R("risk_analysis")
            /\ R("research_context")' = R("research_context")
        BY <2>2, <2>4, <2>7 DEF Booked
      <4> HIDE DEF R
      <4> QED
        BY <4>1, <4>2, ConcatThree
    <3>2. completed \cup wave = PlanGroups
      BY <2>4, <2>7 DEF Booked
    <3>3. status' = "returned" /\ wave' = {} /\ completed' = PlanGroups
      BY <1>2, <1>3, <2>1, <3>2, ReadyGroups
    <3>4. \A g \in PlanGroups : group'[g] = "done"
      BY <1>2, <2>2, <2>4, <2>7 DEF Booked
    <3> QED
      BY <2>4, <3>1, <3>3, <3>4 DEF Progress, Booked
  <2> QED
    BY <1>2, <1>3, <2>5, <2>6, <2>7 DEF Progress
<1>8. \A g \in PlanGroups : \A i \in DOMAIN plan.calls[g] :
        call'[g][i] \in {"ok", "failed"} =>
          /\ reply[g][i] \in Replies(plan.calls[g][i], account) \cup {Lost}
          /\ call'[g][i] = "ok" <=> reply[g][i].success
  BY <1>4, <1>5 DEF RunInv
<1> QED
  BY <1>1, <1>2, <1>3, <1>4, <1>5, <1>6, <1>7, <1>8 DEF RunInv, Planned

\* A step that changes no results and no group that is done keeps the progress.
LEMMA ProgressKept ==
  ASSUME RunInv, stage = "running", UNCHANGED <<plan, status, wave, completed, results>>,
         \A g \in PlanGroups : group[g] = "done" => group'[g] = "done" /\ call'[g] = call[g]
  PROVE  Progress'
<1>1. Progress
  BY RunningFacts
<1>2. \A g \in PlanGroups : group[g] = "done" =>
        group'[g] = "done" /\ Executor!ResultsOf(g)' = Executor!ResultsOf(g)
  BY DEF Executor!ResultsOf
<1> QED
  BY <1>1, <1>2 DEF Progress, Booked, PlanGroups

\* A call ends.
LEMMA CallRun ==
  ASSUME ReplyInv, RunInv, NEW g \in DOMAIN plan.calls, NEW i \in DOMAIN plan.calls[g], CallEnds(g, i)
  PROVE  RunInv'
<1>1. /\ stage = "running" /\ UNCHANGED <<stage, thesis, desk, account>>
      /\ UNCHANGED <<plan, status, wave, completed, group, results>>
      /\ call[g][i] = "running" /\ \E o \in {"ok", "failed"} : call' = [call EXCEPT ![g][i] = o]
  BY DEF CallEnds, Executor!CallEnds
<1>2. PICK r \in Replies(plan.calls[g][i], account) \cup {Lost} :
        /\ call'[g][i] = IF r.success THEN "ok" ELSE "failed"
        /\ reply' = [reply EXCEPT ![g][i] = r]
  BY DEF CallEnds
<1>3. /\ plan = GeneratePlan(thesis, desk) /\ Planned /\ thesis.testable
      /\ account \in Accounts
      /\ DOMAIN group = PlanGroups /\ DOMAIN call = PlanGroups
      /\ \A h \in PlanGroups : /\ DOMAIN call[h] = DOMAIN plan.calls[h]
                               /\ group[h] = "done" => Executor!Ended(h)
  BY <1>1, RunningFacts
<1>4. /\ DOMAIN plan.calls = PlanGroups
      /\ \A h \in PlanGroups : Executor!CallsOf(h) = DOMAIN plan.calls[h]
  BY <1>3, PlanFacts
<1>5. DOMAIN reply = PlanGroups /\ \A h \in PlanGroups : DOMAIN reply[h] = DOMAIN plan.calls[h]
  BY <1>4 DEF ReplyInv
<1>6. /\ DOMAIN call' = PlanGroups
      /\ \A h \in PlanGroups : DOMAIN call'[h] = DOMAIN plan.calls[h]
      /\ \A h \in PlanGroups : h # g => call'[h] = call[h] /\ reply'[h] = reply[h]
      /\ \A j \in DOMAIN plan.calls[g] : j # i => call'[g][j] = call[g][j] /\ reply'[g][j] = reply[g][j]
      /\ reply'[g][i] = r
  BY <1>1, <1>2, <1>3, <1>4, <1>5
<1>7. group[g] # "done"
  BY <1>1, <1>3, <1>4 DEF Executor!Ended
<1>8. \A h \in PlanGroups : group'[h] = "done" => Executor!Ended(h)'
  <2> SUFFICES ASSUME NEW h \in PlanGroups, group[h] = "done" PROVE Executor!Ended(h)'
    BY <1>1
  <2>1. h # g /\ call'[h] = call[h] /\ Executor!Ended(h)
    BY <1>3, <1>6, <1>7
  <2> QED
    BY <1>1, <2>1 DEF Executor!Ended, Executor!CallsOf
<1>9. Progress'
  BY <1>1, <1>6, <1>7, ProgressKept
<1>10. \A h \in PlanGroups : \A j \in DOMAIN plan.calls[h] :
         call'[h][j] \in {"ok", "failed"} =>
           /\ reply'[h][j] \in Replies(plan.calls[h][j], account) \cup {Lost}
           /\ call'[h][j] = "ok" <=> reply'[h][j].success
  <2> SUFFICES ASSUME NEW h \in PlanGroups, NEW j \in DOMAIN plan.calls[h],
                      call'[h][j] \in {"ok", "failed"}
               PROVE  /\ reply'[h][j] \in Replies(plan.calls[h][j], account) \cup {Lost}
                      /\ call'[h][j] = "ok" <=> reply'[h][j].success
    OBVIOUS
  <2>1. CASE h = g /\ j = i
    BY <1>2, <1>6, <2>1
  <2>2. CASE ~(h = g /\ j = i)
    <3>1. call'[h][j] = call[h][j] /\ reply'[h][j] = reply[h][j]
      BY <1>6, <2>2
    <3> QED
      BY <1>4, <3>1 DEF RunInv
  <2> QED
    BY <2>1, <2>2
<1> QED
  BY <1>1, <1>3, <1>4, <1>6, <1>8, <1>9, <1>10 DEF RunInv, Planned

\* A group returns.
LEMMA GroupRun ==
  ASSUME RunInv, NEW g \in DOMAIN plan.calls, GroupReturns(g)
  PROVE  RunInv'
<1>1. /\ stage = "running" /\ UNCHANGED <<stage, thesis, desk, account, reply>>
      /\ UNCHANGED <<plan, status, wave, completed, call, results>>
      /\ Executor!Ended(g) /\ group' = [group EXCEPT ![g] = "done"]
  BY DEF GroupReturns, Executor!GroupReturns
<1>2. /\ plan = GeneratePlan(thesis, desk) /\ Planned /\ thesis.testable
      /\ account \in Accounts
      /\ DOMAIN group = PlanGroups /\ DOMAIN call = PlanGroups
      /\ \A h \in PlanGroups : /\ DOMAIN call[h] = DOMAIN plan.calls[h]
                               /\ group[h] = "done" => Executor!Ended(h)
  BY <1>1, RunningFacts
<1>3. DOMAIN plan.calls = PlanGroups
  BY <1>2, PlanFacts
<1>4. DOMAIN group' = PlanGroups /\ \A h \in PlanGroups : group'[h] = IF h = g THEN "done" ELSE group[h]
  BY <1>1, <1>2
<1>5. \A h \in PlanGroups : group'[h] = "done" => Executor!Ended(h)'
  BY <1>1, <1>2, <1>4 DEF Executor!Ended, Executor!CallsOf
<1>6. Progress'
  BY <1>1, <1>4, ProgressKept
<1>7. \A h \in PlanGroups : \A j \in DOMAIN plan.calls[h] :
         call[h][j] \in {"ok", "failed"} =>
           /\ reply[h][j] \in Replies(plan.calls[h][j], account) \cup {Lost}
           /\ call[h][j] = "ok" <=> reply[h][j].success
  BY <1>3 DEF RunInv
<1> QED
  BY <1>1, <1>2, <1>3, <1>4, <1>5, <1>6, <1>7 DEF RunInv, Planned

\* Every step keeps to the plan.
LEMMA StepRun == ReplyInv /\ RunInv /\ [Next]_vars => RunInv'
<1> SUFFICES ASSUME ReplyInv, RunInv, [Next]_vars PROVE RunInv'
  OBVIOUS
<1>1. CASE Synthesise
  <2>0. stage' = "reported" => Scorable'
    <3>1. stage' = "reported" => Scorable
      BY <1>1 DEF Synthesise, Scorable
    <3>2. Results' = Results
      BY <1>1 DEF Synthesise, executorVars, Results, ResultsOf
    <3> QED
      BY <3>1, <3>2 DEF Scorable
  <2>1. /\ stage = "running" /\ status = "returned" /\ stage' \in {"reported", "raised"}
        /\ UNCHANGED <<thesis, desk, account, reply, plan, status, wave, completed, group, call, results>>
    BY <1>1 DEF Synthesise, executorVars
  <2>2. /\ plan = GeneratePlan(thesis, desk) /\ Planned /\ thesis.testable
        /\ account \in Accounts
        /\ DOMAIN group = PlanGroups /\ DOMAIN call = PlanGroups
        /\ \A h \in PlanGroups : /\ DOMAIN call[h] = DOMAIN plan.calls[h]
                                 /\ group[h] = "done" => Executor!Ended(h)
    BY <2>1, RunningFacts
  <2>3. DOMAIN plan.calls = PlanGroups
    BY <2>2, PlanFacts
  <2>4. \A h \in PlanGroups : group'[h] = "done" => Executor!Ended(h)'
    BY <2>1, <2>2 DEF Executor!Ended, Executor!CallsOf
  <2>5. Progress'
    BY <2>1, ProgressKept
  <2>6. \A h \in PlanGroups : \A j \in DOMAIN plan.calls[h] :
           call[h][j] \in {"ok", "failed"} =>
             /\ reply[h][j] \in Replies(plan.calls[h][j], account) \cup {Lost}
             /\ call[h][j] = "ok" <=> reply[h][j].success
    BY <2>3 DEF RunInv
  <2> QED
    BY <2>0, <2>1, <2>2, <2>3, <2>4, <2>5, <2>6 DEF RunInv, Planned
<1>2. CASE UNCHANGED vars
  <2>1. Scorable' <=> Scorable
    <3>1. Results' = Results
      BY <1>2 DEF vars, executorVars, Results, ResultsOf
    <3> QED
      BY <3>1 DEF Scorable
  <2> QED
    BY <1>2, <2>1 DEF vars, executorVars, RunInv, Planned, Progress, Booked,
                Executor!ResultsOf, Executor!Ended, Executor!CallsOf
<1> QED
  BY <1>1, <1>2, StartRun, RejectRun, WaveRun, GroupRun, CallRun DEF Next, Execute
-----------------------------------------------------------------------------
(***************************************************************************)
(* THE RESULTS: each call of the plan has one of them, in the order of the plan.*)
(***************************************************************************)

\* The results of a group as the synthesiser is given them, and those of all.
Delivered(g) ==
  [i \in DOMAIN plan.calls[g] |->
     [call |-> plan.calls[g][i], success |-> call[g][i] = "ok", data |-> reply[g][i].data]]
AllDelivered == UNION {{Delivered(g)[i] : i \in DOMAIN plan.calls[g]} : g \in PlanGroups}

\* The plan of the validation has been carried out.
Finished == ReplyInv /\ RunInv /\ stage = "reported" /\ thesis.testable

\* Every call has ended, and every group has its results.
LEMMA FinishedFacts ==
  ASSUME Finished
  PROVE  /\ plan = GeneratePlan(thesis, desk)
         /\ Shaped(plan.calls) /\ DOMAIN plan.calls = PlanGroups
         /\ AllAnswerable(plan.calls, desk)
         /\ DOMAIN call = PlanGroups
         /\ \A g \in PlanGroups : DOMAIN call[g] = DOMAIN plan.calls[g]
         /\ results = <<Executor!ResultsOf("market_data"), Executor!ResultsOf("risk_analysis"),
                        Executor!ResultsOf("research_context")>>
         /\ \A g \in PlanGroups : \A i \in DOMAIN plan.calls[g] :
              /\ call[g][i] \in {"ok", "failed"}
              /\ reply[g][i] \in Replies(plan.calls[g][i], account) \cup {Lost}
              /\ call[g][i] = "ok" <=> reply[g][i].success
<1>1. /\ plan = GeneratePlan(thesis, desk) /\ status = "returned" /\ Progress
      /\ DOMAIN call = DOMAIN plan.calls
      /\ \A g \in DOMAIN plan.calls : /\ DOMAIN call[g] = DOMAIN plan.calls[g]
                                      /\ group[g] = "done" => Executor!Ended(g)
  BY DEF Finished, RunInv, Planned
<1>2. /\ Shaped(plan.calls) /\ DOMAIN plan.calls = PlanGroups
      /\ \A g \in PlanGroups : Executor!CallsOf(g) = DOMAIN plan.calls[g]
  BY <1>1, PlanFacts
<1>3. /\ \A g \in PlanGroups : group[g] = "done"
      /\ results = <<Executor!ResultsOf("market_data"), Executor!ResultsOf("risk_analysis"),
                     Executor!ResultsOf("research_context")>>
  BY <1>1 DEF Progress, Booked, PlanGroups
<1>4. \A g \in PlanGroups : \A i \in DOMAIN plan.calls[g] : call[g][i] \in {"ok", "failed"}
  BY <1>1, <1>2, <1>3 DEF Executor!Ended
<1>5. \A g \in PlanGroups : \A i \in DOMAIN plan.calls[g] :
        /\ reply[g][i] \in Replies(plan.calls[g][i], account) \cup {Lost}
        /\ call[g][i] = "ok" <=> reply[g][i].success
  BY <1>2, <1>4 DEF Finished, RunInv
<1> QED
  BY <1>1, <1>2, <1>3, <1>4, <1>5 DEF Finished, ReplyInv

\* What counts as an answer is one, or the text of a refusal.
LEMMA ReplyServed ==
  ASSUME NEW c, NEW d, NEW a, Answerable(c, d), NEW r \in Replies(c, a) \cup {Lost}, r.success
  PROVE  \/ r.status = "ok" /\ r.data \in Served(c)
         \/ r.data = RawText /\ c.tool # "search_research"
<1>1. r \in Replies(c, a)
  BY DEF Lost
<1>2. c.tool = "search_research" =>
        WellFormed(c) /\ Servable(c) /\ Known(c) /\ c.server = "research"
  BY DEF Answerable, Known, ServerOf
<1> QED
  BY <1>1, <1>2 DEF Replies, Refusal

\* Which call the n-th result is of.
Origin ==
  LET m == Len(plan.calls["market_data"])
      k == Len(plan.calls["risk_analysis"])
  IN  [n \in DOMAIN Results |->
         IF n <= m THEN <<"market_data", n>>
         ELSE IF n <= m + k THEN <<"risk_analysis", n - m>>
         ELSE <<"research_context", n - m - k>>]

\* The results are those of the groups, one after the other.
LEMMA ResultsDelivered ==
  ASSUME Finished
  PROVE  /\ Results \in Seq(AllDelivered)
         /\ \A g \in PlanGroups : Delivered(g) \in Seq(AllDelivered)
                                  /\ Len(Delivered(g)) = Len(plan.calls[g])
         /\ Results = (Delivered("market_data") \o Delivered("risk_analysis"))
                        \o Delivered("research_context")
<1> DEFINE S == AllDelivered
           ss == [n \in DOMAIN results |-> ResultsOf(n)]
<1>1. /\ DOMAIN call = PlanGroups
      /\ \A g \in PlanGroups : DOMAIN call[g] = DOMAIN plan.calls[g]
      /\ results = <<Executor!ResultsOf("market_data"), Executor!ResultsOf("risk_analysis"),
                     Executor!ResultsOf("research_context")>>
  BY FinishedFacts
<1>2. ASSUME NEW n \in DOMAIN results, NEW g \in PlanGroups, results[n] = Executor!ResultsOf(g)
      PROVE  ResultsOf(n) = Delivered(g)
  <2>1. results[n].name = g /\ results[n].outcomes = call[g]
    BY <1>2 DEF Executor!ResultsOf
  <2> QED
    BY <1>1, <2>1 DEF ResultsOf, Delivered
<1>3. \A g \in PlanGroups : Delivered(g) \in Seq(S) /\ Len(Delivered(g)) = Len(plan.calls[g])
  <2> SUFFICES ASSUME NEW g \in PlanGroups
               PROVE  Delivered(g) \in Seq(S) /\ Len(Delivered(g)) = Len(plan.calls[g])
    OBVIOUS
  <2> DEFINE d == Delivered(g)
             l == Len(plan.calls[g])
  <2>1. DOMAIN plan.calls[g] = 1..l /\ l \in Nat
    BY FinishedFacts DEF Shaped
  <2>2. d = [i \in 1..l |-> d[i]]
    BY <2>1 DEF Delivered
  <2>3. \A i \in 1..l : d[i] \in S
    BY <2>1 DEF AllDelivered
  <2> HIDE DEF d, l, S
  <2>4. d \in Seq(S) /\ Len(d) = l
    BY <2>1, <2>2, <2>3, SeqDef
  <2> QED
    BY <2>4 DEF d, l
<1>4. /\ DOMAIN ss = 1..3 /\ ss = [n \in 1..3 |-> ss[n]]
      /\ ss[1] = Delivered("market_data") /\ ss[2] = Delivered("risk_analysis")
      /\ ss[3] = Delivered("research_context")
  <2>1. DOMAIN results = 1..3
    BY <1>1
  <2>2. ss = [n \in 1..3 |-> ResultsOf(n)]
    BY <2>1
  <2>3. /\ results[1] = Executor!ResultsOf("market_data")
        /\ results[2] = Executor!ResultsOf("risk_analysis")
        /\ results[3] = Executor!ResultsOf("research_context")
    BY <1>1
  <2>4. /\ ResultsOf(1) = Delivered("market_data") /\ ResultsOf(2) = Delivered("risk_analysis")
        /\ ResultsOf(3) = Delivered("research_context")
    BY <1>2, <2>1, <2>3 DEF PlanGroups
  <2> QED
    BY <2>2, <2>4
<1>5. Results = FlattenSeq(ss)
  BY DEF Results
<1>6. /\ Delivered("market_data") \in Seq(S) /\ Delivered("risk_analysis") \in Seq(S)
      /\ Delivered("research_context") \in Seq(S)
  BY <1>3 DEF PlanGroups
<1> HIDE DEF S, ss
<1>7. ss \in Seq(Seq(S)) /\ Len(ss) = 3
  <2> DEFINE T == Seq(S)
  <2>1. \A n \in 1..3 : n = 1 \/ n = 2 \/ n = 3
    OBVIOUS
  <2>2. ss[1] \in T /\ ss[2] \in T /\ ss[3] \in T
    BY <1>4, <1>6
  <2> HIDE DEF T
  <2>3. ss \in Seq(T) /\ Len(ss) = 3
    BY <1>4, <2>1, <2>2, SeqDef
  <2> QED
    BY <2>3 DEF T
<1>8. FlattenSeq(ss) = (ss[1] \o ss[2]) \o ss[3]
  BY <1>7, FlattenThree
<1>9. Results = (Delivered("market_data") \o Delivered("risk_analysis")) \o Delivered("research_context")
  BY <1>4, <1>5, <1>8, Zenon
<1>10. \A a, b, c \in Seq(S) : (a \o b) \o c \in Seq(S)
  OBVIOUS
<1> QED
  BY <1>3, <1>6, <1>9, <1>10 DEF S

\* Where the elements of two sequences are, one after the other ..
LEMMA ConcatTwo ==
  ASSUME NEW S, NEW a \in Seq(S), NEW b \in Seq(S)
  PROVE  /\ a \o b \in Seq(S) /\ Len(a \o b) = Len(a) + Len(b)
         /\ Len(a) \in Nat /\ Len(b) \in Nat
         /\ DOMAIN (a \o b) = 1..(Len(a) + Len(b))
         /\ \A n \in 1..Len(a) : (a \o b)[n] = a[n]
         /\ \A n \in (Len(a) + 1)..(Len(a) + Len(b)) : (a \o b)[n] = b[n - Len(a)]
OBVIOUS

\* .. and of three.
LEMMA ConcatAt ==
  ASSUME NEW S, NEW a \in Seq(S), NEW b \in Seq(S), NEW c \in Seq(S),
         NEW s, s = (a \o b) \o c
  PROVE  /\ DOMAIN s = 1..(Len(a) + Len(b) + Len(c))
         /\ \A n \in 1..Len(a) : s[n] = a[n]
         /\ \A n \in (Len(a) + 1)..(Len(a) + Len(b)) : s[n] = b[n - Len(a)]
         /\ \A n \in (Len(a) + Len(b) + 1)..(Len(a) + Len(b) + Len(c)) :
              s[n] = c[n - Len(a) - Len(b)]
<1> DEFINE d == a \o b
<1>1. /\ d \in Seq(S) /\ Len(d) = Len(a) + Len(b) /\ Len(a) \in Nat /\ Len(b) \in Nat /\ Len(c) \in Nat
      /\ \A n \in 1..Len(a) : d[n] = a[n]
      /\ \A n \in (Len(a) + 1)..(Len(a) + Len(b)) : d[n] = b[n - Len(a)]
  BY ConcatTwo
<1>2. s = d \o c
  OBVIOUS
<1> HIDE DEF d
<1>3. /\ DOMAIN (d \o c) = 1..(Len(d) + Len(c))
      /\ \A n \in 1..Len(d) : (d \o c)[n] = d[n]
      /\ \A n \in (Len(d) + 1)..(Len(d) + Len(c)) : (d \o c)[n] = c[n - Len(d)]
  <2>1. d \in Seq(S)
    BY <1>1
  <2> QED
    BY <2>1, ConcatTwo
<1> QED
  BY <1>1, <1>2, <1>3

\* Pairs.
LEMMA PairIn ==
  ASSUME NEW a, NEW B, NEW b \in B
  PROVE  <<a, b>> \in {a} \X B
OBVIOUS

\* .. and what the elements of such a set are.
LEMMA PairOf ==
  ASSUME NEW a, NEW B, NEW x \in {a} \X B
  PROVE  \E b \in B : x = <<a, b>>
<1>1. x = <<x[1], x[2]>> /\ x[1] \in {a} /\ x[2] \in B
  OBVIOUS
<1> QED
  BY <1>1

\* Each call of the plan has one result, and each result is of one call.
LEMMA ResultsOrigin ==
  ASSUME Finished
  PROVE  /\ Origin \in Bijection(DOMAIN Results, Made)
         /\ \A n \in DOMAIN Results : /\ Origin[n][1] \in PlanGroups
                                      /\ Origin[n][2] \in DOMAIN plan.calls[Origin[n][1]]
                                      /\ Results[n] = Delivered(Origin[n][1])[Origin[n][2]]
         /\ CallsInOrder(Results)
<1> DEFINE M == "market_data"
           K == "risk_analysis"
           Q == "research_context"
           m == Len(plan.calls[M])
           k == Len(plan.calls[K])
           q == Len(plan.calls[Q])
<1>1. /\ m \in Nat /\ k \in Nat /\ q \in Nat
      /\ DOMAIN plan.calls[M] = 1..m /\ DOMAIN plan.calls[K] = 1..k /\ DOMAIN plan.calls[Q] = 1..q
      /\ DOMAIN plan.calls = PlanGroups
  BY FinishedFacts DEF Shaped, PlanGroups
<1>2. /\ Delivered(M) \in Seq(AllDelivered) /\ Len(Delivered(M)) = m
      /\ Delivered(K) \in Seq(AllDelivered) /\ Len(Delivered(K)) = k
      /\ Delivered(Q) \in Seq(AllDelivered) /\ Len(Delivered(Q)) = q
      /\ Results = (Delivered(M) \o Delivered(K)) \o Delivered(Q)
  BY ResultsDelivered DEF PlanGroups
<1>3. /\ Origin = [n \in DOMAIN Results |->
           IF n <= m THEN <<M, n>> ELSE IF n <= m + k THEN <<K, n - m>> ELSE <<Q, n - m - k>>]
  BY DEF Origin
<1> HIDE DEF m, k, q
<1>4. /\ DOMAIN Results = 1..(m + k + q)
      /\ \A n \in 1..m : Results[n] = Delivered(M)[n]
      /\ \A n \in (m + 1)..(m + k) : Results[n] = Delivered(K)[n - m]
      /\ \A n \in (m + k + 1)..(m + k + q) : Results[n] = Delivered(Q)[n - m - k]
  BY SMTT(30), <1>2, ConcatAt
<1>5. ASSUME NEW n \in DOMAIN Results
      PROVE  \/ n \in 1..m /\ Origin[n] = <<M, n>>
             \/ n \in (m + 1)..(m + k) /\ n - m \in 1..k /\ Origin[n] = <<K, n - m>>
             \/ n \in (m + k + 1)..(m + k + q) /\ n - m - k \in 1..q /\ Origin[n] = <<Q, n - m - k>>
  BY <1>1, <1>3, <1>4
<1>6. \A n \in DOMAIN Results : /\ Origin[n][1] \in PlanGroups
                                /\ Origin[n][2] \in DOMAIN plan.calls[Origin[n][1]]
                                /\ Results[n] = Delivered(Origin[n][1])[Origin[n][2]]
  <2> SUFFICES ASSUME NEW n \in DOMAIN Results
               PROVE  /\ Origin[n][1] \in PlanGroups
                      /\ Origin[n][2] \in DOMAIN plan.calls[Origin[n][1]]
                      /\ Results[n] = Delivered(Origin[n][1])[Origin[n][2]]
    OBVIOUS
  <2>1. CASE n \in 1..m /\ Origin[n] = <<M, n>>
    <3>1. Origin[n][1] = M /\ Origin[n][2] = n
      BY <2>1
    <3> QED
      BY <1>1, <1>4, <2>1, <3>1 DEF PlanGroups
  <2>2. CASE n \in (m + 1)..(m + k) /\ n - m \in 1..k /\ Origin[n] = <<K, n - m>>
    <3>1. Origin[n][1] = K /\ Origin[n][2] = n - m
      BY <2>2
    <3> QED
      BY <1>1, <1>4, <2>2, <3>1 DEF PlanGroups
  <2>3. CASE n \in (m + k + 1)..(m + k + q) /\ n - m - k \in 1..q /\ Origin[n] = <<Q, n - m - k>>
    <3>1. Origin[n][1] = Q /\ Origin[n][2] = n - m - k
      BY <2>3
    <3> QED
      BY <1>1, <1>4, <2>3, <3>1 DEF PlanGroups
  <2> QED
    BY <1>5, <2>1, <2>2, <2>3
<1>7. Made = ({M} \X (1..m)) \cup ({K} \X (1..k)) \cup ({Q} \X (1..q))
  <2>1. Made = UNION {{g} \X DOMAIN plan.calls[g] : g \in {M, K, Q}}
    BY <1>1 DEF Made, PlanGroups
  <2>2. Made = ({M} \X DOMAIN plan.calls[M]) \cup ({K} \X DOMAIN plan.calls[K])
                 \cup ({Q} \X DOMAIN plan.calls[Q])
    BY <2>1, Zenon
  <2> QED
    BY <1>1, <2>2, Zenon
<1>8. Origin \in [DOMAIN Results -> Made]
  <2>1. \A n \in DOMAIN Results : Origin[n] \in Made
    <3>1. /\ \A n \in 1..m : <<M, n>> \in {M} \X (1..m)
          /\ \A n \in 1..k : <<K, n>> \in {K} \X (1..k)
          /\ \A n \in 1..q : <<Q, n>> \in {Q} \X (1..q)
      BY PairIn, Zenon
    <3>2. /\ \A n \in 1..m : <<M, n>> \in Made
          /\ \A n \in 1..k : <<K, n>> \in Made
          /\ \A n \in 1..q : <<Q, n>> \in Made
      BY <1>7, <3>1, Zenon
    <3> QED
      BY <1>5, <3>2
  <2>2. Origin = [n \in DOMAIN Results |-> Origin[n]]
    BY <1>3
  <2> QED
    BY <2>1, <2>2
<1>9. \A a, b \in DOMAIN Results : Origin[a] = Origin[b] => a = b
  <2> SUFFICES ASSUME NEW a \in DOMAIN Results, NEW b \in DOMAIN Results, Origin[a] = Origin[b]
               PROVE  a = b
    OBVIOUS
  <2>1. Origin[a][1] = Origin[b][1] /\ Origin[a][2] = Origin[b][2]
    OBVIOUS
  <2> QED
    BY <1>1, <1>4, <1>5, <2>1
<1>10. ASSUME NEW x \in Made PROVE \E n \in DOMAIN Results : Origin[n] = x
  <2>1. CASE x \in {M} \X (1..m)
    <3>1. PICK n \in 1..m : x = <<M, n>>
      BY <2>1, PairOf
    <3>2. n \in DOMAIN Results /\ Origin[n] = x
      BY <1>1, <1>3, <1>4, <3>1
    <3> QED
      BY <3>2
  <2>2. CASE x \in {K} \X (1..k)
    <3>1. PICK n \in 1..k : x = <<K, n>>
      BY <2>2, PairOf
    <3>2. n + m \in DOMAIN Results /\ ~(n + m <= m) /\ n + m <= m + k /\ (n + m) - m = n
      BY <1>1, <1>4, <3>1
    <3>3. Origin[n + m] = x
      BY <1>3, <3>1, <3>2
    <3> QED
      BY <3>2, <3>3
  <2>3. CASE x \in {Q} \X (1..q)
    <3>1. PICK n \in 1..q : x = <<Q, n>>
      BY <2>3, PairOf
    <3> DEFINE p == n + m + k
    <3>2. p \in DOMAIN Results /\ ~(p <= m) /\ ~(p <= m + k) /\ p - m - k = n
      BY <1>1, <1>4, <3>1
    <3> HIDE DEF p
    <3>3. Origin[p] = x
      BY <1>3, <3>1, <3>2
    <3> QED
      BY <3>2, <3>3
  <2> QED
    BY <1>7, <2>1, <2>2, <2>3
<1>11. Origin \in Bijection(DOMAIN Results, Made)
  BY <1>8, <1>9, <1>10 DEF Bijection, Injection, Surjection, IsInjective
<1>12. \A n \in DOMAIN Results :
         Results[n].call.server = IF n <= m THEN "bloomberg" ELSE IF n <= m + k THEN "risk" ELSE "research"
  <2>1. \A g \in PlanGroups : \A i \in DOMAIN plan.calls[g] :
          Delivered(g)[i].call.server = GroupServer[g]
    BY FinishedFacts DEF Shaped, Delivered
  <2>2. \A n \in DOMAIN Results : Results[n].call.server = GroupServer[Origin[n][1]]
    BY <1>6, <2>1
  <2>3. \A n \in DOMAIN Results : Origin[n][1] = IF n <= m THEN M ELSE IF n <= m + k THEN K ELSE Q
    BY <1>3
  <2>4. GroupServer[M] = "bloomberg" /\ GroupServer[K] = "risk" /\ GroupServer[Q] = "research"
    BY DEF GroupServer
  <2> QED
    BY <2>2, <2>3, <2>4
<1>13. CallsInOrder(Results)
  <2> SUFFICES ASSUME NEW a \in DOMAIN Results, NEW b \in DOMAIN Results, a < b
               PROVE  Position(Results[a].call.server) <= Position(Results[b].call.server)
    BY DEF CallsInOrder
  <2>1. a \in Int /\ b \in Int
    BY <1>4
  <2>2. Position("bloomberg") = 1 /\ Position("risk") = 2 /\ Position("research") = 3
    BY DEF Position
  <2> QED
    BY <1>1, <1>12, <2>1, <2>2
<1> QED
  BY <1>6, <1>11, <1>13
\* Each result of the market data is one of those of the validation.
LEMMA DeliveredThere ==
  ASSUME Finished, NEW g \in PlanGroups, NEW i \in DOMAIN plan.calls[g]
  PROVE  \E n \in DOMAIN Results : Results[n] = Delivered(g)[i]
<1>1. <<g, i>> \in Made
  <2>1. <<g, i>> \in {g} \X DOMAIN plan.calls[g]
    BY PairIn
  <2>2. g \in DOMAIN plan.calls
    BY FinishedFacts
  <2> QED
    BY <2>1, <2>2 DEF Made
<1>2. PICK n \in DOMAIN Results : Origin[n] = <<g, i>>
  BY <1>1, ResultsOrigin DEF Bijection, Surjection
<1>3. Origin[n][1] = g /\ Origin[n][2] = i
  BY <1>2
<1> QED
  BY <1>3, ResultsOrigin

\* What is delivered is what the lemmas about the evidence are about.
LEMMA DeliveredSound ==
  ASSUME Finished
  PROVE  AllSound(AllDelivered, desk)
<1> SUFFICES ASSUME NEW g \in PlanGroups, NEW i \in DOMAIN plan.calls[g]
             PROVE  Sound(Delivered(g)[i], desk)
  BY DEF AllSound, AllDelivered
<1> DEFINE r == Delivered(g)[i]
           c == plan.calls[g][i]
<1>1. r.call = c /\ r.success = (call[g][i] = "ok") /\ r.data = reply[g][i].data
  BY DEF Delivered
<1>2. Answerable(c, desk)
  BY FinishedFacts DEF AllAnswerable
<1>3. /\ reply[g][i] \in Replies(c, account) \cup {Lost}
      /\ call[g][i] = "ok" => reply[g][i].success
  BY FinishedFacts
<1>4. call[g][i] = "ok" =>
        \/ reply[g][i].data \in Served(c)
        \/ reply[g][i].data = RawText /\ c.tool # "search_research"
  BY <1>2, <1>3, ReplyServed
<1>5. ~Unscorable(r)
  <2>1. PICK n \in DOMAIN Results : Results[n] = r
    BY DeliveredThere
  <2>2. Scorable
    BY DEF Finished, RunInv
  <2> HIDE DEF r
  <2> QED
    BY <2>1, <2>2 DEF Scorable
<1> HIDE DEF r, c
<1>6. r.success \in BOOLEAN
  BY <1>1
<1>7. r.success => r.data \in Served(r.call) \/ Refused(r)
  <2> SUFFICES ASSUME r.success, r.data = RawText, c.tool # "search_research" PROVE Refused(r)
    BY <1>1, <1>4
  <2>1. "raw_text" \in DOMAIN r.data
    BY DEF RawText
  <2>2. c.tool # "get_ref_data"
    BY <1>1, <1>5, <2>1 DEF Unscorable
  <2> QED
    BY <1>1, <2>2 DEF Refused
<1>8. Sound(r, desk)
  BY <1>1, <1>2, <1>6, <1>7 DEF Sound
<1> QED
  BY <1>8 DEF r
-----------------------------------------------------------------------------
(***************************************************************************)
(* THE PROPERTIES of the report.                                           *)
(***************************************************************************)

\* The invariant of a validation.
ValidationInv == ReplyInv /\ RunInv

\* A validation carries out the plan of its thesis and holds of each call an answer to
\* that call, in every reachable state (validate_hypothesis, plan_executor.py).
THEOREM ValidationIsPlanned == Spec => []ValidationInv
<1>1. Init => ValidationInv
  BY InitReplies, InitRun DEF ValidationInv
<1>2. ValidationInv /\ [Next]_vars => ValidationInv'
  BY StepReplies, StepRun DEF ValidationInv
<1> QED
  BY <1>1, <1>2, PTL DEF Spec

\* The evidence of what was delivered.
LEMMA ReportedEvidence ==
  ASSUME Finished
  PROVE  /\ Report.evidence = ScoreEvidence(Results, thesis)
         /\ Report.verdict = VerdictOf(Report.evidence)
         /\ Report.confidence = Confidence(Report.evidence)
         /\ Report.evidence \in Seq(EvidenceItem)
         /\ AllSound(AllDelivered, desk) /\ Results \in Seq(AllDelivered)
<1>1. Report = GenerateReport(Results, thesis)
  BY DEF Report, Finished
<1>2. AllSound(AllDelivered, desk) /\ Results \in Seq(AllDelivered)
  BY DeliveredSound, ResultsDelivered
<1>3. /\ Report.evidence = ScoreEvidence(Results, thesis)
      /\ Report.verdict = VerdictOf(Report.evidence)
      /\ Report.confidence = Confidence(Report.evidence)
  BY <1>1 DEF GenerateReport
<1>4. ScoreEvidence(Results, thesis) \in Seq(EvidenceItem)
  BY <1>2, EvidenceSteps
<1> QED
  BY <1>2, <1>3, <1>4

\* Nothing is found for a thesis that cannot be tested.
LEMMA UntestedReport ==
  ASSUME ~thesis.testable
  PROVE  /\ Report.evidence = <<>> /\ Report.verdict = "INCONCLUSIVE"
         /\ \A class : Classified(Report.evidence, class) = {}
BY DEF Report, UntestableReport, Classified

\* Each item is of a result: neutral and a gap if its call failed, and otherwise of
\* an answer.
LEMMA ItemOrigin ==
  ASSUME Finished, NEW n \in DOMAIN Report.evidence
  PROVE  \E g \in PlanGroups : \E i \in DOMAIN plan.calls[g] :
           /\ Report.evidence[n].source = plan.calls[g][i].server
           /\ call[g][i] # "ok" => Report.evidence[n].gap /\ Report.evidence[n].class = "NEUTRAL"
           /\ call[g][i] = "ok" => reply[g][i].status = "ok"
<1> DEFINE e == Report.evidence
           S == AllDelivered
<1>1. AllSound(S, desk) /\ Results \in Seq(S) /\ e = ScoreEvidence(Results, thesis)
  BY ReportedEvidence
<1>2. Gathers(e, Scores(S, thesis), Results)
  BY <1>1, EvidenceOrigins
<1>3. \A i \in DOMAIN Results : Results[i] \in S /\ Sound(Results[i], desk)
  BY <1>1 DEF AllSound
<1>4. PICK k \in DOMAIN Results :
        \E j \in DOMAIN ScoreResult(Results[k], thesis) : e[n] = ScoreResult(Results[k], thesis)[j]
  <2> HIDE DEF S
  <2>1. n \in DOMAIN e
    OBVIOUS
  <2> HIDE DEF e
  <2> QED
    BY <1>2, <1>3, <2>1 DEF Gathers, Scores
<1> DEFINE r == Results[k]
<1>5. PICK j \in DOMAIN ScoreResult(r, thesis) : e[n] = ScoreResult(r, thesis)[j]
  BY <1>4
<1>6. e[n].source = r.call.server
  BY <1>3, <1>5, SourceOfItem
<1>7. ~r.success => e[n].gap /\ e[n].class = "NEUTRAL"
  <2> SUFFICES ASSUME ~r.success PROVE e[n].gap /\ e[n].class = "NEUTRAL"
    OBVIOUS
  <2>1. PICK x \in GapItems(r.call.server) : ScoreResult(r, thesis) = <<x>> /\ x.class = "NEUTRAL"
    BY <1>3, GapOfFailure
  <2>2. e[n] = x
    BY <1>5, <2>1
  <2> QED
    BY <2>1, <2>2 DEF GapItems
<1> DEFINE g == Origin[k][1]
           i == Origin[k][2]
<1>8. g \in PlanGroups /\ i \in DOMAIN plan.calls[g] /\ r = Delivered(g)[i]
  BY ResultsOrigin
<1>9. /\ r.call = plan.calls[g][i] /\ r.success = (call[g][i] = "ok")
      /\ r.data = reply[g][i].data
  <2> DEFINE d == Delivered(g)[i]
  <2> HIDE DEF g, i, r
  <2>1. /\ d.call = plan.calls[g][i] /\ d.success = (call[g][i] = "ok")
        /\ d.data = reply[g][i].data
    BY <1>8 DEF Delivered
  <2> QED
    BY <1>8, <2>1
<1>10. ~(r.success /\ Refused(r))
  <2> SUFFICES ASSUME r.success, Refused(r) PROVE FALSE
    OBVIOUS
  <2>1. ScoreResult(r, thesis) = <<>>
    BY <1>3, RefusalSilent
  <2> QED
    BY <1>5, <2>1
<1>11. Sound(r, desk)
  BY <1>3
<1> HIDE DEF g, i, r, e
<1>12. ASSUME call[g][i] = "ok" PROVE reply[g][i].status = "ok"
  <2>1. /\ reply[g][i] \in Replies(plan.calls[g][i], account) \cup {Lost} /\ reply[g][i].success
        /\ Answerable(plan.calls[g][i], desk)
    BY <1>8, <1>12, FinishedFacts DEF AllAnswerable
  <2>2. \/ reply[g][i].status = "ok"
        \/ reply[g][i].data = RawText /\ plan.calls[g][i].tool # "search_research"
    BY <2>1, ReplyServed
  <2> SUFFICES ASSUME r.data = RawText, r.call.tool # "search_research" PROVE FALSE
    BY <1>9, <2>2
  <2>3. r.success
    BY <1>9, <1>12
  <2>4. r.call.tool = "get_ref_data"
    BY <1>10, <2>3 DEF Refused
  <2>5. Unscorable(r)
    BY <2>3, <2>4 DEF Unscorable, RawText
  <2>6. Scorable
    BY DEF Finished, RunInv
  <2> QED
    BY <2>5, <2>6 DEF Scorable, r
<1> QED
  BY <1>6, <1>7, <1>8, <1>9, <1>12 DEF e
-----------------------------------------------------------------------------
\* Had an item spoken for the thesis instead of against it, the report would have
\* been no worse (report_generator.py, _compute_confidence and _compute_verdict).
THEOREM FavourableEvidenceIsNoWorse == Spec => []FavourableIsNoWorse
<1>1. ValidationInv => FavourableIsNoWorse
  <2> SUFFICES ASSUME ValidationInv, stage = "reported",
                      NEW n \in Classified(Report.evidence, "AGAINST")
               PROVE  LET turned == [Report.evidence EXCEPT ![n].class = "FOR"]
                      IN  /\ Confidence(turned) >= Report.confidence
                          /\ Rank(VerdictOf(turned)) >= Rank(Report.verdict)
    BY DEF FavourableIsNoWorse
  <2> DEFINE e == Report.evidence
             turned == [e EXCEPT ![n].class = "FOR"]
  <2>1. Finished
    BY UntestedReport DEF Finished, ValidationInv
  <2>2. e \in Seq(EvidenceItem) /\ Report.verdict = VerdictOf(e) /\ Report.confidence = Confidence(e)
    BY <2>1, ReportedEvidence
  <2>3. /\ Confidence(e) \in Shares /\ Confidence(turned) \in Shares
        /\ Confidence(e) <= Confidence(turned)
        /\ VerdictOf(e) = "SUPPORTED" => VerdictOf(turned) = "SUPPORTED"
        /\ VerdictOf(turned) = "UNSUPPORTED" => VerdictOf(e) = "UNSUPPORTED"
    <3>1. e \in Seq(EvidenceItem) /\ n \in Classified(e, "AGAINST")
      BY <2>2
    <3> HIDE DEF e
    <3> QED
      BY <3>1, FavourableEvidence
  <2>4. Confidence(turned) >= Confidence(e)
    <3>1. \A a, b \in Shares : a <= b => b >= a
      BY DEF Shares
    <3> QED
      BY <2>3, <3>1
  <2>5. VerdictOf(turned) \in {"SUPPORTED", "UNSUPPORTED", "INCONCLUSIVE"}
        /\ VerdictOf(e) \in {"SUPPORTED", "UNSUPPORTED", "INCONCLUSIVE"}
    BY DEF VerdictOf, Verdict
  <2> HIDE DEF turned, e
  <2>6. Rank(VerdictOf(turned)) >= Rank(VerdictOf(e))
    BY <2>3, <2>5 DEF Rank
  <2> QED
    BY <2>2, <2>4, <2>6 DEF turned, e
<1> QED
  BY <1>1, ValidationIsPlanned, PTL

\* A failed call never makes a thesis supported (evidence_scorer.py,
\* _make_data_gap_item; report_generator.py, the pull of the neutral items).
THEOREM GapsNeverSupport == Spec => []GapNeverSupports
<1>1. ValidationInv => GapNeverSupports
  <2> SUFFICES ASSUME ValidationInv, stage = "reported", Report.verdict = "SUPPORTED"
               PROVE  GenerateReport(Successes(Results), thesis).verdict = "SUPPORTED"
    BY DEF GapNeverSupports
  <2>1. Finished
    BY UntestedReport DEF Finished, ValidationInv
  <2>2. /\ AllSound(AllDelivered, desk) /\ Results \in Seq(AllDelivered)
        /\ VerdictOf(ScoreEvidence(Results, thesis)) = "SUPPORTED"
    BY <2>1, ReportedEvidence
  <2>3. VerdictOf(ScoreEvidence(Successes(Results), thesis)) = "SUPPORTED"
    BY <2>2, SuccessesSupport
  <2> QED
    BY <2>3 DEF GenerateReport
<1> QED
  BY <1>1, ValidationIsPlanned, PTL

\* A sequence of one element is put at the end as Append puts it.
LEMMA OneAppended ==
  ASSUME NEW S, NEW s \in Seq(S), NEW q \in Seq(S), Len(q) = 1
  PROVE  s \o q = Append(s, q[1])
<1>1. q = <<q[1]>>
  OBVIOUS
<1>2. Append(s, q[1]) = s \o <<q[1]>>
  OBVIOUS
<1> QED
  BY <1>1, <1>2

\* The call of a search is the last of the plan, so that all research in a report
\* is its last item.
LEMMA ResearchIsLast ==
  ASSUME Finished, NEW n \in Classified(Report.evidence, "FOR"),
         Report.evidence[n].source # "bloomberg"
  PROVE  n = Len(Report.evidence)
<1> DEFINE S == AllDelivered
           u == Delivered("market_data") \o Delivered("risk_analysis")
           q == Delivered("research_context")
           r == q[1]
           e == ScoreEvidence(u, thesis)
           items == ScoreResult(r, thesis)
<1>1. /\ AllSound(S, desk) /\ Results \in Seq(S)
      /\ Report.evidence = ScoreEvidence(Results, thesis)
  BY ReportedEvidence
<1>2. /\ Delivered("market_data") \in Seq(S) /\ Delivered("risk_analysis") \in Seq(S)
      /\ q \in Seq(S) /\ Len(q) = 1 /\ Results = u \o q
  BY ResultsDelivered, FinishedFacts DEF PlanGroups, Shaped
<1>3. u \in Seq(S) /\ r \in S
  BY <1>2
<1>4. Results = Append(u, r)
  <2> HIDE DEF u, q, S
  <2>1. u \o q = Append(u, q[1])
    BY <1>2, <1>3, OneAppended
  <2> QED
    BY <1>2, <2>1 DEF r
<1>5. e \in Seq(EvidenceItem) /\ Report.evidence = e \o items
  <2> HIDE DEF S, u, r
  <2> QED
    BY <1>1, <1>3, <1>4, EvidenceSteps
<1>6. Report.evidence[n].source = "research" /\ n \in DOMAIN Report.evidence
  BY <1>1, OthersAreResearch DEF Classified
<1>7. items \in Seq(EvidenceItem) /\ Len(items) <= 1
  <2>1. Sound(r, desk)
    BY <1>1, <1>3 DEF AllSound
  <2>2. r.call.server = "research"
    <3>1. r.call = plan.calls["research_context"][1]
      <4>1. Len(plan.calls["research_context"]) = 1
        BY FinishedFacts DEF Shaped
      <4>2. DOMAIN plan.calls["research_context"] =
              1..Len(plan.calls["research_context"])
        BY FinishedFacts DEF Shaped, PlanGroups
      <4>3. 1 \in DOMAIN plan.calls["research_context"]
        BY <4>1, <4>2
      <4>4. \A g : \A i \in DOMAIN plan.calls[g] : Delivered(g)[i].call = plan.calls[g][i]
        BY DEF Delivered
      <4> QED
        BY <4>3, <4>4
    <3>2. plan.calls["research_context"][1].server = "research"
      BY FinishedFacts DEF Shaped, PlanGroups, GroupServer
    <3> QED
      BY <3>1, <3>2
  <2>3. items \in Seq(EvidenceItem)
    BY <2>1, ItemsOfResult
  <2>4. CASE r.success
    BY <2>1, <2>2, <2>3, <2>4, ItemsOfAnswer
  <2>5. CASE ~r.success
    <3>1. PICK x \in GapItems(r.call.server) : items = <<x>>
      BY <2>1, <2>5, GapOfFailure
    <3>2. Len(<<x>>) = 1
      OBVIOUS
    <3>3. Len(items) = 1
      BY <3>1, <3>2
    <3> HIDE DEF items
    <3> QED
      BY <2>3, <3>3
  <2> QED
    BY <2>1, <2>3, <2>4, <2>5 DEF Sound
<1>8. \A k \in DOMAIN e : e[k].source # "research"
  <2> SUFFICES ASSUME NEW k \in DOMAIN e PROVE e[k].source # "research"
    OBVIOUS
  <2>1. Gathers(e, Scores(S, thesis), u)
    BY <1>1, <1>3, EvidenceOrigins
  <2>2. \A i \in DOMAIN u : u[i] \in S /\ Sound(u[i], desk)
    BY <1>1, <1>3 DEF AllSound
  <2>3. PICK i \in DOMAIN u : \E j \in DOMAIN ScoreResult(u[i], thesis) :
          e[k] = ScoreResult(u[i], thesis)[j]
    <3> HIDE DEF e, u, S
    <3> QED
      BY <2>1, <2>2 DEF Gathers, Scores
  <2>4. e[k].source = u[i].call.server
    BY <2>2, <2>3, SourceOfItem
  <2>5. \E g \in {"market_data", "risk_analysis"} : \E j \in DOMAIN plan.calls[g] :
          u[i] = Delivered(g)[j]
    <3>1. /\ DOMAIN Delivered("market_data") = DOMAIN plan.calls["market_data"]
          /\ DOMAIN Delivered("risk_analysis") = DOMAIN plan.calls["risk_analysis"]
      BY DEF Delivered
    <3>2. \A a, b \in Seq(S) : \A m \in DOMAIN (a \o b) :
            \/ m \in DOMAIN a /\ (a \o b)[m] = a[m]
            \/ m - Len(a) \in DOMAIN b /\ (a \o b)[m] = b[m - Len(a)]
      OBVIOUS
    <3>3. \/ i \in DOMAIN Delivered("market_data") /\ u[i] = Delivered("market_data")[i]
          \/ /\ i - Len(Delivered("market_data")) \in DOMAIN Delivered("risk_analysis")
             /\ u[i] = Delivered("risk_analysis")[i - Len(Delivered("market_data"))]
      BY <1>2, <3>2
    <3> QED
      BY <3>1, <3>3
  <2>6. PICK g \in {"market_data", "risk_analysis"} : \E j \in DOMAIN plan.calls[g] :
          u[i] = Delivered(g)[j]
    BY <2>5
  <2>7. PICK j \in DOMAIN plan.calls[g] : u[i] = Delivered(g)[j]
    BY <2>6
  <2>8. Delivered(g)[j].call = plan.calls[g][j]
    BY DEF Delivered
  <2>9. g \in PlanGroups /\ GroupServer[g] # "research"
    BY DEF PlanGroups, GroupServer
  <2>10. plan.calls[g][j].server # "research"
    BY <2>9, FinishedFacts DEF Shaped
  <2> QED
    BY <2>4, <2>7, <2>8, <2>10
<1> DEFINE v == Report.evidence
<1> HIDE DEF e, items
<1>9. n \notin DOMAIN e
  <2> SUFFICES ASSUME n \in DOMAIN e PROVE FALSE
    OBVIOUS
  <2>1. Report.evidence[n] = e[n]
    BY <1>5, <1>7
  <2> QED
    BY <1>6, <1>8, <2>1
<1> QED
  BY <1>5, <1>6, <1>7, <1>9

\* What supports a thesis without an item of market data in favour is research
\* alone, which counts for too little beside a neutral item.
LEMMA SupportedByMarket ==
  ASSUME Finished, Report.verdict = "SUPPORTED",
         \A n \in Classified(Report.evidence, "FOR") : Report.evidence[n].source # "bloomberg"
  PROVE  /\ \A n \in DOMAIN Report.evidence : Report.evidence[n].source # "bloomberg"
         /\ \A i \in DOMAIN plan.calls["market_data"] : call["market_data"][i] = "ok"
<1> DEFINE e == Report.evidence
<1>1. /\ AllSound(AllDelivered, desk) /\ Results \in Seq(AllDelivered)
      /\ e = ScoreEvidence(Results, thesis) /\ e \in Seq(EvidenceItem)
      /\ VerdictOf(e) = "SUPPORTED"
  BY ReportedEvidence
<1>2. Classified(e, "NEUTRAL") = {}
  BY <1>1, SupportOfBloomberg
<1>3. \A n \in Classified(e, "FOR") : n = Len(e)
  BY ResearchIsLast
<1>4. \A n \in DOMAIN e : e[n].class \in Classes
  <2> HIDE DEF e
  <2>1. \A n \in DOMAIN e : e[n] \in EvidenceItem
    BY <1>1
  <2> QED
    BY <2>1 DEF EvidenceItem
<1>5. Classified(e, "AGAINST") = {}
  <2> DEFINE F == Classified(e, "FOR")
             A == Classified(e, "AGAINST")
  <2>1. IsFiniteSet(F) /\ IsFiniteSet(A) /\ Cardinality(A) \in Nat /\ Cardinality(F) \in Nat
    BY <1>1, TallyType, FS_CardinalityType
  <2>2. Cardinality(F) > Cardinality(A)
    BY <1>1 DEF VerdictOf, Verdict
  <2>3. F \subseteq {Len(e)}
    BY <1>3
  <2> HIDE DEF F, A, e
  <2>4. Cardinality({Len(e)}) = 1 /\ IsFiniteSet({Len(e)})
    BY FS_Singleton
  <2>5. Cardinality(F) <= 1
    BY <2>3, <2>4, FS_Subset
  <2>6. Cardinality(A) = 0
    BY <2>1, <2>2, <2>5
  <2> QED
    BY <2>1, <2>6, FS_EmptySet DEF A
<1>6. \A n \in DOMAIN e : n \in Classified(e, "FOR")
  BY <1>2, <1>4, <1>5 DEF Classified, Classes
<1>7. ASSUME NEW i \in DOMAIN plan.calls["market_data"]
      PROVE  call["market_data"][i] = "ok"
  <2> SUFFICES ASSUME call["market_data"][i] # "ok" PROVE FALSE
    OBVIOUS
  <2> DEFINE r == Delivered("market_data")[i]
  <2>1. PICK k \in DOMAIN Results : Results[k] = r
    BY DeliveredThere DEF PlanGroups
  <2>2. r \in AllDelivered /\ Sound(r, desk)
    BY <1>1 DEF AllSound, AllDelivered, PlanGroups
  <2>3. ~r.success
    BY DEF Delivered
  <2>4. PICK x \in GapItems(r.call.server) : ScoreResult(r, thesis) = <<x>> /\ x.class = "NEUTRAL"
    BY <2>2, <2>3, GapOfFailure
  <2>5. Gathers(e, Scores(AllDelivered, thesis), Results)
    BY <1>1, EvidenceOrigins
  <2>6. \E n \in DOMAIN e : e[n] = x
    <3>1. Scores(AllDelivered, thesis)[Results[k]] = <<x>>
      BY <2>1, <2>2, <2>4 DEF Scores
    <3> HIDE DEF e, r
    <3>2. 1 \in DOMAIN <<x>> /\ <<x>>[1] = x
      OBVIOUS
    <3> QED
      BY <2>5, <3>1, <3>2 DEF Gathers
  <2> HIDE DEF e
  <2> QED
    BY <1>2, <2>4, <2>6 DEF Classified
<1> HIDE DEF e
<1> QED
  BY <1>6, <1>7 DEF e

\* "Bloomberg market data provides the primary empirical evidence"
\* (report_generator.py): no thesis is supported on the other servers alone unless
\* every call for market data succeeded and left nothing.
THEOREM SupportIsMarketData == Spec => []SupportNeedsMarketData
<1>1. ValidationInv => SupportNeedsMarketData
  <2> DEFINE e == Report.evidence
             market == {n \in DOMAIN e : e[n].source = "bloomberg"}
  <2> SUFFICES ASSUME ValidationInv, stage = "reported", Report.verdict = "SUPPORTED",
                      ~\E n \in market : e[n].class = "FOR"
               PROVE  market = {} /\ \A gi \in MadeTo("bloomberg") : call[gi[1]][gi[2]] = "ok"
    BY DEF SupportNeedsMarketData
  <2>1. Finished
    BY UntestedReport DEF Finished, ValidationInv
  <2>2. \A n \in Classified(e, "FOR") : e[n].source # "bloomberg"
    BY DEF Classified
  <2>3. /\ \A n \in DOMAIN e : e[n].source # "bloomberg"
        /\ \A i \in DOMAIN plan.calls["market_data"] : call["market_data"][i] = "ok"
    BY <2>1, <2>2, SupportedByMarket
  <2>4. ASSUME NEW gi \in MadeTo("bloomberg") PROVE call[gi[1]][gi[2]] = "ok"
    <3>1. gi \in Made /\ plan.calls[gi[1]][gi[2]].server = "bloomberg"
      BY DEF MadeTo
    <3>2. PICK g \in DOMAIN plan.calls : gi \in {g} \X DOMAIN plan.calls[g]
      BY <3>1 DEF Made
    <3>3. PICK i \in DOMAIN plan.calls[g] : gi = <<g, i>>
      BY <3>2, PairOf
    <3>4. gi[1] = g /\ gi[2] = i
      BY <3>3
    <3>5. g \in PlanGroups /\ GroupServer[g] = "bloomberg"
      BY <2>1, <3>1, <3>4, FinishedFacts DEF Shaped
    <3>6. g = "market_data"
      BY <3>5 DEF PlanGroups, GroupServer
    <3> QED
      BY <2>3, <3>3, <3>4, <3>6
  <2> QED
    BY <2>3, <2>4
<1> QED
  BY <1>1, ValidationIsPlanned, PTL

\* A validation for a desk that the account has no access to (DeskIsolation.enforce
\* of the servers) reports gaps only, but for the research, and supports nothing.
THEOREM DesksAreIsolated == Spec => []DeskIsolated
<1>1. ValidationInv => DeskIsolated
  <2> SUFFICES ASSUME ValidationInv, stage = "reported", desk \notin account.desks
               PROVE  /\ \A n \in DOMAIN Report.evidence :
                           Report.evidence[n].source # "research" => Report.evidence[n].gap
                      /\ Report.verdict # "SUPPORTED"
    BY DEF DeskIsolated
  <2>1. CASE ~thesis.testable
    BY <2>1, UntestedReport
  <2>2. CASE thesis.testable
    <3>1. Finished
      BY <2>2 DEF Finished, ValidationInv
    <3>2. ASSUME NEW n \in DOMAIN Report.evidence, Report.evidence[n].source # "research"
          PROVE  Report.evidence[n].gap /\ Report.evidence[n].class = "NEUTRAL"
      <4>1. PICK g \in PlanGroups : \E i \in DOMAIN plan.calls[g] :
              /\ Report.evidence[n].source = plan.calls[g][i].server
              /\ call[g][i] # "ok" => Report.evidence[n].gap /\ Report.evidence[n].class = "NEUTRAL"
              /\ call[g][i] = "ok" => reply[g][i].status = "ok"
        BY <3>1, ItemOrigin
      <4>2. PICK i \in DOMAIN plan.calls[g] :
              /\ Report.evidence[n].source = plan.calls[g][i].server
              /\ call[g][i] # "ok" => Report.evidence[n].gap /\ Report.evidence[n].class = "NEUTRAL"
              /\ call[g][i] = "ok" => reply[g][i].status = "ok"
        BY <4>1
      <4>3. call[g][i] # "ok"
        <5> SUFFICES ASSUME call[g][i] = "ok" PROVE FALSE
          OBVIOUS
        <5>1. /\ reply[g][i] \in Replies(plan.calls[g][i], account) \cup {Lost}
              /\ reply[g][i].status = "ok" /\ Answerable(plan.calls[g][i], desk)
          BY <3>1, <4>2, FinishedFacts DEF AllAnswerable
        <5>2. plan.calls[g][i].tool # "search_research"
          BY <3>2, <4>2, <5>1 DEF Answerable, ServerOf
        <5> QED
          BY <5>1, <5>2, PermittedReply
      <4> QED
        BY <4>2, <4>3
    <3>3. Report.verdict # "SUPPORTED"
      <4> SUFFICES ASSUME Report.verdict = "SUPPORTED" PROVE FALSE
        OBVIOUS
      <4> DEFINE M == plan.calls["market_data"]
      <4>1. \A n \in Classified(Report.evidence, "FOR") : Report.evidence[n].source # "bloomberg"
        BY <3>2 DEF Classified
      <4>2. \A i \in DOMAIN M : call["market_data"][i] = "ok"
        BY <3>1, <4>1, SupportedByMarket
      <4>3. PICK i \in DOMAIN M : M[i].tool = "get_ref_data"
        BY <3>1, FinishedFacts DEF Shaped, HasSnapshot
      <4> DEFINE c == M[i]
                 p == reply["market_data"][i]
      <4>4. /\ p \in Replies(c, account) \cup {Lost} /\ p.success /\ Answerable(c, desk)
        BY <3>1, <4>2, FinishedFacts DEF AllAnswerable, PlanGroups
      <4>5. PICK n \in DOMAIN Results : Results[n] = Delivered("market_data")[i]
        BY <3>1, DeliveredThere DEF PlanGroups
      <4>6. ~Unscorable(Delivered("market_data")[i])
        BY <3>1, <4>5 DEF Scorable, Finished, RunInv
      <4>7. p.data # RawText
        BY <4>2, <4>3, <4>6 DEF Unscorable, Delivered, RawText
      <4> HIDE DEF c, p
      <4>8. p.status = "ok"
        BY <4>4, <4>7, ReplyServed
      <4>9. c.tool # "search_research"
        BY <4>3 DEF c
      <4> QED
        BY <4>4, <4>8, <4>9, PermittedReply
    <3> QED
      BY <3>2, <3>3
  <2> QED
    BY <2>1, <2>2
<1> QED
  BY <1>1, ValidationIsPlanned, PTL
-----------------------------------------------------------------------------
\* The calls of the plan to a server that failed.
FailedCalls(server) == {gi \in MadeTo(server) : call[gi[1]][gi[2]] # "ok"}

\* .. are as many as the results of failed calls.
LEMMA FailedResults ==
  ASSUME Finished, NEW server
  PROVE  Cardinality(Places(Results, Failures(AllDelivered, server)))
           = Cardinality(FailedCalls(server))
<1> DEFINE P == Places(Results, Failures(AllDelivered, server))
           F == FailedCalls(server)
           f == [n \in P |-> Origin[n]]
<1>1. /\ Origin \in [DOMAIN Results -> Made]
      /\ \A a, b \in DOMAIN Results : Origin[a] = Origin[b] => a = b
      /\ \A x \in Made : \E n \in DOMAIN Results : Origin[n] = x
  BY ResultsOrigin DEF Bijection, Injection, Surjection, IsInjective
<1>2. ASSUME NEW n \in DOMAIN Results PROVE n \in P <=> Origin[n] \in F
  <2> DEFINE g == Origin[n][1]
             i == Origin[n][2]
  <2>1. Results[n] = Delivered(g)[i] /\ g \in PlanGroups /\ i \in DOMAIN plan.calls[g]
    BY ResultsOrigin
  <2>2. Results[n].call = plan.calls[g][i] /\ Results[n].success = (call[g][i] = "ok")
    BY <2>1 DEF Delivered
  <2>3. Results[n] \in AllDelivered /\ Origin[n] \in Made
    BY <1>1, ResultsDelivered
  <2> QED
    BY <2>2, <2>3 DEF Places, Failures, FailedCalls, MadeTo
<1>3. P \subseteq DOMAIN Results
  BY DEF Places
<1>4. IsFiniteSet(P)
  BY PlacesFinite, ResultsDelivered
<1>5. F \subseteq Made
  BY DEF FailedCalls, MadeTo
<1> HIDE DEF P, F
<1>6. f \in Bijection(P, F)
  <2>1. f \in [P -> F]
    BY <1>2, <1>3
  <2>2. \A a, b \in P : f[a] = f[b] => a = b
    BY <1>1, <1>3
  <2>3. \A x \in F : \E n \in P : f[n] = x
    BY <1>1, <1>2, <1>5
  <2> QED
    BY <2>1, <2>2, <2>3 DEF Bijection, Injection, Surjection, IsInjective
<1>7. ExistsBijection(P, F)
  BY <1>6 DEF ExistsBijection
<1> QED
  BY <1>4, <1>7, FS_Bijection DEF P, F

\* The evidence is "ordered: bloomberg -> risk -> research", and has a gap for each
\* call that failed, whenever the calls ended (evidence_scorer.py, score_evidence).
THEOREM EvidenceIsInOrder == Spec => []EvidenceInOrder
<1>1. ValidationInv => EvidenceInOrder
  <2> SUFFICES ASSUME ValidationInv, stage = "reported" PROVE EvidenceInOrder
    BY DEF EvidenceInOrder
  <2> DEFINE e == Report.evidence
             Gaps(server) == {n \in DOMAIN e : e[n].gap /\ e[n].source = server}
  <2>1. SourcesInOrder(e) /\ \A n \in DOMAIN e : e[n].source \in Sources
    <3>1. CASE thesis.testable
      <4>1. Finished
        BY <3>1 DEF Finished, ValidationInv
      <4>2. /\ AllSound(AllDelivered, desk) /\ Results \in Seq(AllDelivered)
            /\ e = ScoreEvidence(Results, thesis) /\ e \in Seq(EvidenceItem)
        BY <4>1, ReportedEvidence
      <4>3. CallsInOrder(Results)
        BY <4>1, ResultsOrigin
      <4>4. SourcesInOrder(e)
        BY <4>2, <4>3, EvidenceFollowsCalls
      <4> HIDE DEF e
      <4>5. \A n \in DOMAIN e : e[n] \in EvidenceItem
        BY <4>2
      <4> QED
        BY <4>4, <4>5 DEF EvidenceItem
    <3>2. CASE ~thesis.testable
      <4>1. DOMAIN e = {}
        BY <3>2, UntestedReport
      <4> QED
        BY <4>1 DEF SourcesInOrder
    <3> QED
      BY <3>1, <3>2
  <2>2. ASSUME NEW server
        PROVE  Cardinality(Gaps(server)) = Cardinality(FailedCalls(server))
    <3>1. CASE thesis.testable
      <4>1. Finished
        BY <3>1 DEF Finished, ValidationInv
      <4>2. /\ AllSound(AllDelivered, desk) /\ Results \in Seq(AllDelivered)
            /\ e = ScoreEvidence(Results, thesis) /\ e \in Seq(EvidenceItem)
        BY <4>1, ReportedEvidence
      <4>3. Cardinality(Places(e, GapItems(server)))
              = Cardinality(Places(Results, Failures(AllDelivered, server)))
        BY <4>2, GapPerFailure
      <4>4. Gaps(server) = Places(e, GapItems(server))
        <5> HIDE DEF e
        <5>1. \A n \in DOMAIN e : e[n] \in EvidenceItem
          BY <4>2
        <5> QED
          BY <5>1 DEF Places, GapItems
      <4> QED
        BY <4>1, <4>3, <4>4, FailedResults
    <3>2. CASE ~thesis.testable
      <4>1. plan.calls = <<>>
        BY <3>2 DEF ValidationInv, RunInv, Planned
      <4>2. Made = {}
        BY <4>1 DEF Made
      <4>3. FailedCalls(server) = {}
        BY <4>2 DEF FailedCalls, MadeTo
      <4>4. Gaps(server) = {}
        BY <3>2, UntestedReport
      <4> QED
        BY <4>3, <4>4
    <3> QED
      BY <3>1, <3>2
  <2>3. \A m, n \in DOMAIN e : m < n =>
          [bloomberg |-> 1, risk |-> 2, research |-> 3][e[m].source]
            <= [bloomberg |-> 1, risk |-> 2, research |-> 3][e[n].source]
    BY <2>1 DEF SourcesInOrder, Position
  <2> HIDE DEF e
  <2> QED
    BY <2>2, <2>3 DEF EvidenceInOrder, FailedCalls, e
<1> QED
  BY <1>1, ValidationIsPlanned, PTL
=============================================================================
