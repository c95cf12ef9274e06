---------------------------- MODULE GatewayProofs ----------------------------
(***************************************************************************)
(* Proofs about Gateway.tla, for any number of requests, tokens, routes    *)
(* and audiences, any lifetimes and any clock bound.                       *)
(*                                                                         *)
(* PipelineInv is the inductive invariant.  SubjectPreserved alone is not  *)
(* inductive: what a backend is shown is the bearer, the bearer may be     *)
(* what the cache held, and the cache holds what some other request got    *)
(* from Keycloak, so the invariant follows the token through all of them.  *)
(***************************************************************************)
EXTENDS Gateway, WellFoundedInduction, SequenceTheorems, TLAPS

\* The router (PathRouter.tla): what CHOOSE takes exists.

\* A set of positions that is not empty has a first one ...
LEMMA FirstPosition ==
  ASSUME NEW S \in SUBSET Nat, S # {}
  PROVE  \E i \in S : \A j \in S : i <= j
<1>1. PICK i \in S : \A j \in S : ~(<<j, i>> \in OpToRel(<, Nat))
  BY WFMin, NatLessThanWellFounded
<1>2. ASSUME NEW j \in S PROVE i <= j
  <2>1. <<j, i>> \in Nat \X Nat
    OBVIOUS
  <2>2. ~(j < i)
    BY <1>1, <2>1 DEF OpToRel
  <2> QED
    BY <2>2
<1> QED
  BY <1>2

\* ... and, below a bound, a last one.
LEMMA LastPosition ==
  ASSUME NEW n \in Nat, NEW S \in SUBSET (1..n), S # {}
  PROVE  \E i \in S : \A j \in S : j <= i
<1> DEFINE D == {n - i : i \in S}
<1>1. D \in SUBSET Nat /\ D # {}
  <2>1. \A i \in 1..n : n - i \in Nat
    OBVIOUS
  <2>2. \A i \in S : n - i \in Nat
    BY <2>1, Zenon
  <2>3. PICK i \in S : TRUE
    OBVIOUS
  <2>4. n - i \in D
    BY <2>3, Zenon
  <2> QED
    BY <2>2, <2>4, Zenon
<1>2. PICK d \in D : \A e \in D : d <= e
  BY <1>1, FirstPosition
<1>3. PICK i \in S : d = n - i
  OBVIOUS
<1>4. ASSUME NEW j \in S PROVE j <= i
  <2>1. n - j \in D
    OBVIOUS
  <2> QED
    BY <1>2, <1>3, <2>1
<1> QED
  BY <1>4

\* What strip("/") leaves lies between the first and the last character kept.
LEMMA StripBounds ==
  ASSUME NEW s \in Seq(Char), Kept(s) # {}
  PROVE  \E a, b \in Kept(s) :
           /\ a <= b /\ Strip(s) = SubSeq(s, a, b)
           /\ \A j \in Kept(s) : a <= j /\ j <= b
<1>1. Kept(s) \in SUBSET (1..Len(s)) /\ Kept(s) \in SUBSET Nat /\ Len(s) \in Nat
  BY DEF Kept
<1> DEFINE a == CHOOSE i \in Kept(s) : \A j \in Kept(s) : i <= j
           b == CHOOSE i \in Kept(s) : \A j \in Kept(s) : j <= i
<1>2. a \in Kept(s) /\ \A j \in Kept(s) : a <= j
  <2>1. \E i \in Kept(s) : \A j \in Kept(s) : i <= j
    BY <1>1, FirstPosition
  <2> QED
    BY <2>1
<1>3. b \in Kept(s) /\ \A j \in Kept(s) : j <= b
  <2>1. \E i \in Kept(s) : \A j \in Kept(s) : j <= i
    BY <1>1, LastPosition
  <2> QED
    BY <2>1
<1>4. Strip(s) = SubSeq(s, a, b)
  BY DEF Strip
<1> HIDE DEF a, b
<1> QED
  BY <1>2, <1>3, <1>4

\* It is a sequence of characters.
LEMMA StripType == ASSUME NEW s \in Seq(Char) PROVE Strip(s) \in Seq(Char)
<1>1. CASE Kept(s) = {}
  BY <1>1 DEF Strip
<1>2. CASE Kept(s) # {}
  <2>1. PICK a, b \in Kept(s) : Strip(s) = SubSeq(s, a, b)
    BY <1>2, StripBounds
  <2>2. a \in 1..Len(s) /\ b \in 1..Len(s)
    BY DEF Kept
  <2> QED
    BY <2>1, <2>2, SubSeqProperties
<1> QED
  BY <1>1, <1>2

\* Of a path_prefix strip("/") takes one character: sorting the raw prefixes by
\* length sorts the stripped ones too.
LEMMA PrefixStripped ==
  ASSUME NEW p \in Route
  PROVE  /\ Strip(PathPrefix[p]) \in Seq(Char)
         /\ Len(Strip(PathPrefix[p])) = Len(PathPrefix[p]) - 1
         /\ Len(Strip(PathPrefix[p])) > 0
<1> DEFINE s == PathPrefix[p]
<1>1. /\ s \in Seq(Char) /\ Len(s) \in Nat /\ Len(s) > 1
      /\ s[1] = Slash /\ s[2] # Slash /\ s[Len(s)] # Slash
  BY RouterAssumption
<1> HIDE DEF s
<1>2. 2 \in Kept(s) /\ Len(s) \in Kept(s) /\ 1 \notin Kept(s)
  BY <1>1 DEF Kept
<1>3. Kept(s) \subseteq 1..Len(s)
  BY DEF Kept
<1>4. PICK a, b \in Kept(s) :
        /\ a <= b /\ Strip(s) = SubSeq(s, a, b)
        /\ \A j \in Kept(s) : a <= j /\ j <= b
  BY <1>1, <1>2, StripBounds
<1>5. a = 2 /\ b = Len(s)
  BY <1>1, <1>2, <1>3, <1>4
<1>6. Len(SubSeq(s, 2, Len(s))) = Len(s) - 1
  BY <1>1, SubSeqProperties
<1> QED
  BY <1>1, <1>4, <1>5, <1>6, StripType DEF s

\* The code's test, equality or a prefix that a slash ends, is the test of whole
\* segments.
LEMMA MatchesIsCovers ==
  ASSUME NEW p \in Route, NEW x \in Paths
  PROVE  Matches(p, x) <=> Covers(p, x)
<1> DEFINE s == Strip(x)
           q == Strip(PathPrefix[p])
<1>1. /\ s \in Seq(Char) /\ q \in Seq(Char) /\ Slash \in Char
      /\ Len(s) \in Nat /\ Len(q) \in Nat /\ Len(q) > 0
  BY RouterAssumption, StripType, PrefixStripped
<1> HIDE DEF s, q
<1>2. /\ Append(q, Slash) \in Seq(Char) /\ Len(Append(q, Slash)) = Len(q) + 1
      /\ \A i \in 1..Len(q) : Append(q, Slash)[i] = q[i]
      /\ Append(q, Slash)[Len(q) + 1] = Slash
  BY <1>1, AppendProperties
<1>3. ASSUME NEW k \in 0..Len(s)
      PROVE  /\ SubSeq(s, 1, k) \in Seq(Char) /\ Len(SubSeq(s, 1, k)) = k
             /\ \A i \in 1..k : SubSeq(s, 1, k)[i] = s[i]
  <2>1. \A i \in 1..k : s[i] \in Char
    BY <1>1
  <2> QED
    BY <1>1, <2>1, SubSeqProperties
<1>4. ASSUME s = q
      PROVE  \E k \in 0..Len(s) : SubSeq(s, 1, k) = q /\ (k = Len(s) \/ s[k + 1] = Slash)
  <2>1. SubSeq(s, 1, Len(s)) = s
    BY <1>1, <1>3, SeqEqual
  <2>2. Len(s) \in 0..Len(s) /\ SubSeq(s, 1, Len(s)) = q
    BY <1>1, <1>4, <2>1
  <2> QED
    BY <2>2, Zenon
<1>5. ASSUME StartsWith(s, Append(q, Slash))
      PROVE  \E k \in 0..Len(s) : SubSeq(s, 1, k) = q /\ (k = Len(s) \/ s[k + 1] = Slash)
  <2>1. Len(q) + 1 <= Len(s) /\ SubSeq(s, 1, Len(q) + 1) = Append(q, Slash)
    BY <1>2, <1>5 DEF StartsWith
  <2>2. \A i \in 1..(Len(q) + 1) : s[i] = Append(q, Slash)[i]
    BY <1>1, <1>3, <2>1
  <2>3. SubSeq(s, 1, Len(q)) = q
    BY <1>1, <1>2, <1>3, <2>1, <2>2, SeqEqual
  <2>4. s[Len(q) + 1] = Slash /\ Len(q) \in 0..Len(s)
    BY <1>1, <1>2, <2>1, <2>2
  <2> QED
    BY <2>3, <2>4
<1>6. ASSUME NEW k \in 0..Len(s), SubSeq(s, 1, k) = q, k = Len(s) \/ s[k + 1] = Slash
      PROVE  s = q \/ StartsWith(s, Append(q, Slash))
  <2>1. k = Len(q) /\ \A i \in 1..k : q[i] = s[i]
    BY <1>3, <1>6
  <2>2. CASE k = Len(s)
    BY <1>1, <2>1, <2>2, SeqEqual
  <2>3. CASE k < Len(s) /\ s[k + 1] = Slash
    <3>1. k + 1 \in 0..Len(s)
      BY <1>1, <2>3
    <3>2. \A i \in 1..(k + 1) : SubSeq(s, 1, k + 1)[i] = Append(q, Slash)[i]
      <4>1. \A i \in 1..(k + 1) : SubSeq(s, 1, k + 1)[i] = s[i]
        BY <1>3, <3>1
      <4>2. \A i \in 1..(k + 1) : s[i] = Append(q, Slash)[i]
        BY <1>1, <1>2, <2>1, <2>3
      <4> QED
        BY <4>1, <4>2
    <3>3. SubSeq(s, 1, k + 1) \in Seq(Char) /\ Len(SubSeq(s, 1, k + 1)) = k + 1
      BY <1>3, <3>1
    <3>4. SubSeq(s, 1, k + 1) = Append(q, Slash)
      BY <1>1, <1>2, <2>1, <3>2, <3>3, SeqEqual
    <3> QED
      BY <1>1, <1>2, <2>1, <2>3, <3>4 DEF StartsWith
  <2> QED
    BY <1>1, <1>6, <2>2, <2>3
<1> QED
  BY <1>4, <1>5, <1>6 DEF Matches, Covers, s, q

\* The route that is returned passes the test, and no route before it does.
LEMMA MatchIsFirstHit ==
  ASSUME NEW x \in Paths
  PROVE  /\ Hits(x) = {} => Match(x) = None
         /\ Hits(x) # {} =>
              \E i \in Hits(x) :
                Match(x) = SortedRoutes[i] /\ \A j \in Hits(x) : i <= j
<1>1. Hits(x) \in SUBSET Nat
  BY RouterAssumption DEF Hits, Position
<1>2. CASE Hits(x) = {}
  BY <1>2 DEF Match
<1>3. CASE Hits(x) # {}
  <2>1. \E i \in Hits(x) : \A j \in Hits(x) : i <= j
    BY <1>1, <1>3, FirstPosition
  <2> DEFINE m == CHOOSE i \in Hits(x) : \A j \in Hits(x) : i <= j
  <2>2. m \in Hits(x) /\ \A j \in Hits(x) : m <= j
    BY <2>1
  <2>3. Match(x) = SortedRoutes[m]
    BY <1>3 DEF Match
  <2> HIDE DEF m
  <2> QED
    BY <1>3, <2>2, <2>3
<1> QED
  BY <1>2, <1>3

\* The path the backend is asked for is what the prefix leaves of the request's.
LEMMA BackendPathIsTheRest ==
  ASSUME NEW p \in Route, NEW x \in Paths, Covers(p, x)
  PROVE  /\ BackendPath(x, p)[1] = Slash
         /\ \/ Strip(x) = Strip(PathPrefix[p]) /\ BackendPath(x, p) = <<Slash>>
            \/ Strip(x) = Strip(PathPrefix[p]) \o BackendPath(x, p)
<1> DEFINE s == Strip(x)
           q == Strip(PathPrefix[p])
           rest == SubSeq(s, Len(q) + 1, Len(s))
<1>1. /\ s \in Seq(Char) /\ q \in Seq(Char) /\ Slash \in Char
      /\ Len(s) \in Nat /\ Len(q) \in Nat
  BY RouterAssumption, StripType, PrefixStripped
<1>2. BackendPath(x, p) = IF rest = <<>> THEN <<Slash>>
                          ELSE IF rest[1] = Slash THEN rest ELSE <<Slash>> \o rest
  BY DEF BackendPath
<1>3. PICK k \in 0..Len(s) : SubSeq(s, 1, k) = q /\ (k = Len(s) \/ s[k + 1] = Slash)
  BY DEF Covers
<1> HIDE DEF s, q
<1>4. \A i \in 1..Len(s) : s[i] \in Char
  BY <1>1
<1>5. k = Len(q) /\ \A i \in 1..k : q[i] = s[i]
  <2>1. \A i \in 1..k : s[i] \in Char
    BY <1>1, <1>4
  <2> QED
    BY <1>1, <1>3, <2>1, SubSeqProperties
<1>6. /\ rest \in Seq(Char)
      /\ Len(rest) = Len(s) - k
      /\ \A i \in 1..(Len(s) - k) : rest[i] = s[k + i]
  <2>1. \A i \in (k + 1)..Len(s) : s[i] \in Char
    BY <1>1, <1>4
  <2>2. /\ rest \in Seq(Char)
        /\ Len(rest) = IF k + 1 <= Len(s) THEN Len(s) - (k + 1) + 1 ELSE 0
        /\ \A i \in 1..(Len(s) - (k + 1) + 1) : rest[i] = s[(k + 1) + i - 1]
    BY <1>1, <1>5, <2>1, SubSeqProperties
  <2> HIDE DEF rest
  <2> QED
    BY <1>1, <2>2
<1> HIDE DEF rest
<1>7. CASE k = Len(s)
  <2>1. s = q
    BY <1>1, <1>5, <1>7, SeqEqual
  <2>2. Len(rest) = 0
    BY <1>1, <1>6, <1>7
  <2>3. rest = <<>>
    BY <1>6, <2>2
  <2>4. BackendPath(x, p) = <<Slash>>
    BY <1>2, <2>3
  <2> QED
    BY <2>1, <2>4 DEF s, q
<1>8. CASE k < Len(s)
  <2>1. rest # <<>> /\ rest[1] = Slash
    BY <1>1, <1>3, <1>6, <1>8, EmptySeq
  <2>2. /\ q \o rest \in Seq(Char) /\ Len(q \o rest) = Len(s)
        /\ \A i \in 1..Len(s) : (q \o rest)[i] = IF i <= k THEN q[i] ELSE rest[i - k]
    BY <1>1, <1>5, <1>6, <1>8, ConcatProperties
  <2>3. \A i \in 1..Len(s) : (q \o rest)[i] = s[i]
    <3>1. ASSUME NEW i \in 1..Len(s) PROVE (q \o rest)[i] = s[i]
      <4>1. CASE i <= k
        BY <1>1, <1>5, <2>2, <4>1
      <4>2. CASE i > k
        <5>1. i - k \in 1..(Len(s) - k) /\ k + (i - k) = i
          BY <1>1, <4>2
        <5>2. rest[i - k] = s[k + (i - k)]
          BY <1>6, <5>1
        <5> QED
          BY <1>1, <2>2, <4>2, <5>1, <5>2
      <4>3. i <= k \/ i > k
        BY <1>1
      <4> QED
        BY <4>1, <4>2, <4>3, Zenon
    <3> QED
      BY <3>1
  <2>4. s = q \o rest
    BY <1>1, <2>2, <2>3, SeqEqual
  <2> QED
    BY <1>2, <2>1, <2>4 DEF s, q
<1> QED
  BY <1>1, <1>7, <1>8

\* However many routes there are, whatever their prefixes and their order in
\* routes.yaml, match finds the longest prefix of whole segments, or there is none.
LEMMA MatchIsLongestPrefix ==
  ASSUME NEW x \in Paths
  PROVE  /\ Match(x) = None => Covering[x] = {}
         /\ Match(x) # None => Match(x) \in Route /\ Forwards(x, Match(x))
<1>1. ASSUME NEW p \in Route, Covers(p, x)
      PROVE  \E i \in Hits(x) : SortedRoutes[i] = p
  BY <1>1, MatchesIsCovers, RouterAssumption DEF Hits
<1>2. CASE Hits(x) = {}
  BY <1>1, <1>2, MatchIsFirstHit DEF Covering
<1>3. CASE Hits(x) # {}
  <2>1. PICK i \in Hits(x) : Match(x) = SortedRoutes[i] /\ \A j \in Hits(x) : i <= j
    BY <1>3, MatchIsFirstHit
  <2>2. i \in Position /\ Match(x) \in Route /\ Covers(Match(x), x)
    <3>1. i \in Position /\ Matches(Match(x), x)
      BY <2>1 DEF Hits
    <3>2. Match(x) \in Route
      BY <2>1, <3>1, RouterAssumption DEF Position
    <3> QED
      BY <3>1, <3>2, MatchesIsCovers
  <2>3. ASSUME NEW p \in Route, Covers(p, x)
        PROVE  Len(PathPrefix[p]) <= Len(PathPrefix[Match(x)])
    <3>1. PICK j \in Hits(x) : SortedRoutes[j] = p
      BY <1>1, <2>3
    <3>2. j \in Position /\ i <= j
      BY <2>1, <3>1 DEF Hits
    <3>3. CASE i = j
      BY <2>1, <2>2, <3>1, <3>3, RouterAssumption
    <3>4. CASE i < j
      BY <2>1, <2>2, <3>1, <3>2, <3>4, RouterAssumption
    <3> QED
      BY <2>2, <3>2, <3>3, <3>4 DEF Position
  <2>4. None \notin Route
    BY NoneAssumption
  <2> QED
    BY <2>2, <2>3, <2>4, BackendPathIsTheRest DEF Forwards, Covering
<1> QED
  BY <1>2, <1>3

\* What the router answers is a route or None.
LEMMA MatchedType ==
  ASSUME NEW x \in Paths
  PROVE  Matched[x] \in Route \cup {None}
BY MatchIsLongestPrefix DEF Matched

-----------------------------------------------------------------------------
\* The token a caller presents, seen as the one that is forwarded, is a token.
LEMMA OriginalType == ASSUME NEW t \in Token PROVE Original(t) \in JWT
BY GatewayAssumption DEF Original, JWT

\* A TTL is at most what remains of the token, whatever is configured.
LEMMA TtlBound ==
  ASSUME NEW e \in Nat, NEW t \in Nat
  PROVE  Ttl(e, t) \in Int /\ Ttl(e, t) <= e - t
BY GatewayAssumption DEF Ttl

\* The key of a request that has been admitted is a key of the cache.
LEMMA KeyType ==
  ASSUME NEW r \in Requests, Authorised(r)
  PROVE  KeyOf(r) \in Keys /\ KeyOf(r) = <<token[r], RouteAud[route[r]]>>
BY GatewayAssumption DEF Authorised, KeyOf, CacheKey, Keys

-----------------------------------------------------------------------------
\* Type correctness, one action at a time.

\* The initial state has the types.
LEMMA InitType == Init => TypeOK
BY GatewayAssumption, NoneAssumption DEF Init, TypeOK

\* A request that arrives is rejected, not routed or admitted within the types.
LEMMA ArriveType ==
  ASSUME TypeOK, NEW r \in Requests, Arrive(r)
  PROVE  TypeOK'
<1>1. CASE RejectNoBearer(r)
  BY <1>1 DEF RejectNoBearer, Answer, TypeOK, local, Status
<1>2. ASSUME NEW t \in Token, NEW s \in Subject \cup {None},
             NEW st \in Status, Reject(r, t, s, st),
             path' \in [Requests -> Paths \cup {None}]
      PROVE  TypeOK'
  <2>1. [decision |-> "DENY", sub |-> s, performed |-> performed[r]] \in AuditEntry
    BY DEF TypeOK, AuditEntry
  <2>2. audit' \in [Requests -> Seq(AuditEntry)]
    BY <1>2, <2>1 DEF Reject, Log, TypeOK
  <2> QED
    BY <1>2, <2>2 DEF Reject, Answer, TypeOK
<1>3. ASSUME NEW t \in Token, NEW x \in Paths, Admit(r, t, x)
      PROVE  TypeOK'
  BY <1>3, OriginalType, MatchedType DEF Admit, TypeOK, InFlight
<1>4. \A t \in Token : SubOf[t] \in Subject
  BY GatewayAssumption
<1>5. \A x \in Paths : [path EXCEPT ![r] = x] \in [Requests -> Paths \cup {None}]
  BY DEF TypeOK
<1>6. path \in [Requests -> Paths \cup {None}]
  BY DEF TypeOK
<1> QED
  BY <1>1, <1>2, <1>3, <1>4, <1>5, <1>6
  DEF Arrive, RejectInvalid, RejectNoRoute, RejectScope, Status
\* The token an in-flight request holds is a token, and what it would store an entry.
LEMMA InFlightTypes ==
  ASSUME TypeOK, NEW r \in Requests, RequestInv(r), pc[r] \in InFlight
  PROVE  /\ Authorised(r) /\ token[r] \in Token
         /\ SubOf[token[r]] \in Subject /\ RouteAud[route[r]] \in Audience
         /\ KeyOf(r) \in Keys /\ KeyOf(r) = <<token[r], RouteAud[route[r]]>>
         /\ bearer[r] \in JWT
<1>1. Authorised(r) /\ BearerSound(r)
  BY DEF RequestInv
<1>2. token[r] \in Token /\ route[r] \in Route
  BY <1>1, GatewayAssumption DEF Authorised
<1> QED
  BY <1>1, <1>2, OriginalType, KeyType, GatewayAssumption DEF BearerSound

\* What setex is given is an entry with a positive lifetime.
LEMMA StoredType ==
  ASSUME TypeOK, NEW r \in Requests, RequestInv(r), pc[r] = "store"
  PROVE  [tok |-> exchanged[r], dies |-> now + Ttl(exchanged[r].exp, sentAt[r])] \in Entry
<1>1. exchanged[r] \in JWT /\ Ttl(exchanged[r].exp, sentAt[r]) > 0
  BY DEF RequestInv, ExchangedSound
<1>2. exchanged[r].exp \in Nat /\ sentAt[r] \in Nat /\ now \in Nat
  BY <1>1 DEF TypeOK, JWT
<1> QED
  BY <1>1, <1>2, TtlBound DEF Entry

\* The token exchange keeps the types, whichever await it ends.
LEMMA ExchangeType ==
  ASSUME TypeOK, NEW r \in Requests, RequestInv(r), Exchange(r)
  PROVE  TypeOK'
<1> USE DEF InFlight
<1>1. CASE LookupHit(r)
  <2>1. KeyOf(r) \in Keys
    BY <1>1, InFlightTypes DEF LookupHit
  <2>2. cache[KeyOf(r)].tok \in JWT
    BY <1>1, <2>1 DEF LookupHit, TypeOK, Entry
  <2> QED
    BY <1>1, <2>2 DEF LookupHit, Forward, LeaveExchange, TypeOK
<1>2. CASE LookupMiss(r)
  BY <1>2 DEF LookupMiss, local, TypeOK
<1>3. CASE LookupFail(r)
  BY <1>3 DEF LookupFail, FallBack, LeaveExchange, TypeOK
<1>4. CASE KeycloakIssue(r)
  <2>1. PICK life \in Lifespans :
          exchanged' = [exchanged EXCEPT ![r] =
            [sub |-> SubOf[token[r]], aud |-> RouteAud[route[r]],
             act |-> McpGateway, exp |-> now + life]]
    BY <1>4 DEF KeycloakIssue
  <2>2. SubOf[token[r]] \in Subject /\ RouteAud[route[r]] \in Audience
    BY <1>4, InFlightTypes DEF KeycloakIssue
  <2>3. life \in Nat
    BY GatewayAssumption
  <2>4. exchanged'  \in [Requests -> JWT \cup {None}]
    BY <2>1, <2>2, <2>3 DEF TypeOK, JWT
  <2> QED
    BY <1>4, <2>4 DEF KeycloakIssue, TypeOK
<1>5. CASE KeycloakFail(r)
  BY <1>5 DEF KeycloakFail, FallBack, LeaveExchange, TypeOK
<1>6. CASE SendStore(r)
  BY <1>6 DEF SendStore, TypeOK
<1>7. CASE SkipStore(r)
  <2>1. exchanged[r] \in JWT
    BY <1>7 DEF SkipStore, RequestInv, ExchangedSound
  <2> QED
    BY <1>7, <2>1 DEF SkipStore, Forward, LeaveExchange, TypeOK
<1>8. ASSUME pc[r] = "store", CacheWrite(r)
      PROVE  cache' \in [Keys -> Entry \cup {None}]
  BY <1>8, StoredType, InFlightTypes DEF CacheWrite, TypeOK
<1>9. CASE Store(r)
  <2>1. exchanged[r] \in JWT
    BY <1>9 DEF Store, RequestInv, ExchangedSound
  <2>2. cache' \in [Keys -> Entry \cup {None}]
    BY <1>8, <1>9 DEF Store
  <2> QED
    BY <1>9, <2>1, <2>2 DEF Store, Forward, LeaveExchange, TypeOK
<1>10. CASE StoreFail(r)
  <2>1. cache' \in [Keys -> Entry \cup {None}]
    BY <1>8, <1>10 DEF StoreFail, TypeOK
  <2> QED
    BY <1>10, <2>1 DEF StoreFail, FallBack, LeaveExchange, TypeOK
<1> QED
  BY <1>1, <1>2, <1>3, <1>4, <1>5, <1>6, <1>7, <1>9, <1>10 DEF Exchange

\* The backend's request and its answer keep the types.
LEMMA ProxyType ==
  ASSUME TypeOK, NEW r \in Requests, RequestInv(r), Proxy(r)
  PROVE  TypeOK'
<1> USE DEF InFlight
<1>1. CASE BackendReceive(r)
  <2>1. Seen(bearer[r]) \in SeenClaims
    BY <1>1, InFlightTypes DEF BackendReceive, Seen, JWT, SeenClaims
  <2> QED
    BY <1>1, <2>1 DEF BackendReceive, local, TypeOK
<1>2. ASSUME NEW d \in {"PERMIT", "ERROR"}, pc[r] \in {"proxy", "await"},
             Log(r, d, SubOf[token[r]])
      PROVE  audit' \in [Requests -> Seq(AuditEntry)]
  <2>1. [decision |-> d, sub |-> SubOf[token[r]], performed |-> performed[r]] \in AuditEntry
    BY <1>2, InFlightTypes DEF TypeOK, AuditEntry
  <2> QED
    BY <1>2, <2>1 DEF Log, TypeOK
<1>3. CASE BackendReply(r)
  BY <1>2, <1>3 DEF BackendReply, Answer, TypeOK, Status
<1>4. CASE ProxyFail(r)
  BY <1>2, <1>4 DEF ProxyFail, Answer, TypeOK, Status
<1> QED
  BY <1>1, <1>3, <1>4 DEF Proxy

\* A crash, an eviction and the clock keep the types.
LEMMA EnvironmentType ==
  ASSUME TypeOK, Crash \/ (\E k \in Keys : Evict(k)) \/ Tick
  PROVE  TypeOK'
<1>1. CASE Crash
  BY <1>1 DEF Crash, TypeOK, InFlight
<1>2. ASSUME NEW k \in Keys, Evict(k) PROVE TypeOK'
  BY <1>2 DEF Evict, local, TypeOK
<1>3. CASE Tick
  BY <1>3 DEF Tick, local, TypeOK
<1> QED
  BY <1>1, <1>2, <1>3
-----------------------------------------------------------------------------
\* The inductive invariant holds initially.
LEMMA InitInv == Init => PipelineInv
<1> SUFFICES ASSUME Init PROVE PipelineInv
  OBVIOUS
<1>1. TypeOK
  BY InitType
<1>2. ASSUME NEW r \in Requests PROVE RequestInv(r)
  <2>1. /\ pc[r] = "new" /\ token[r] = None /\ route[r] = None
        /\ delivered[r] = None /\ audit[r] = <<>> /\ resp[r] = None
    BY DEF Init
  <2>2. ~performed[r]
    BY DEF Init
  <2>3. resp[r] # "backend"
    BY <2>1, NoneAssumption DEF Status
  <2> QED
    BY <2>1, <2>2, <2>3 DEF RequestInv, DeliveredSound, InFlight
<1>3. ASSUME NEW t \in Token, NEW a \in Audience PROVE EntryInv(t, a)
  BY DEF Init, EntryInv, Keys
<1>4. ASSUME NEW r \in Requests PROVE RoutedInv(r)
  <2>1. route[r] = None /\ resp[r] = None /\ None # "404"
    BY NoneAssumption DEF Init, Status
  <2> QED
    BY <2>1 DEF RoutedInv
<1> QED
  BY <1>1, <1>2, <1>3, <1>4 DEF PipelineInv

\* A request nothing happens to keeps its part of the invariant.
SameAt(q) ==
  /\ pc'[q] = pc[q] /\ token'[q] = token[q]
  /\ route'[q] = route[q] /\ path'[q] = path[q]
  /\ exchanged'[q] = exchanged[q] /\ sentAt'[q] = sentAt[q]
  /\ bearer'[q] = bearer[q] /\ performed'[q] = performed[q]
  /\ delivered'[q] = delivered[q] /\ audit'[q] = audit[q] /\ resp'[q] = resp[q]

\* A request whose variables do not change keeps its part of the invariant.
LEMMA RequestFrame ==
  ASSUME NEW q \in Requests, RequestInv(q), SameAt(q),
         now' = now \/ pc[q] # "store"
  PROVE  RequestInv(q)'
BY DEF SameAt, RequestInv, DeliveredSound, Authorised, MayUse, BearerSound,
       Original, ExchangedSound, Ttl, Seen, Decision

\* A step of one request touches no other request.
LEMMA OthersUntouched ==
  ASSUME TypeOK, NEW r \in Requests, NEW q \in Requests \ {r},
         Arrive(r) \/ Exchange(r) \/ Proxy(r)
  PROVE  SameAt(q) /\ now' = now
<1> USE DEF TypeOK, SameAt, local, Answer, Log, Forward, FallBack, LeaveExchange
<1>1. CASE Arrive(r)
  BY <1>1, ZenonT(60) DEF Arrive, RejectNoBearer, RejectInvalid, RejectNoRoute, RejectScope,
              Reject, Admit
<1>2. CASE Exchange(r)
  <2>1. CASE LookupHit(r)      BY <2>1 DEF LookupHit
  <2>2. CASE LookupMiss(r)     BY <2>2 DEF LookupMiss
  <2>3. CASE LookupFail(r)     BY <2>3 DEF LookupFail
  <2>4. CASE KeycloakIssue(r)  BY <2>4 DEF KeycloakIssue
  <2>5. CASE KeycloakFail(r)   BY <2>5 DEF KeycloakFail
  <2>6. CASE SendStore(r)      BY <2>6 DEF SendStore
  <2>7. CASE SkipStore(r)      BY <2>7 DEF SkipStore
  <2>8. CASE Store(r)          BY <2>8 DEF Store
  <2>9. CASE StoreFail(r)      BY <2>9 DEF StoreFail
  <2> QED
    BY <1>2, <2>1, <2>2, <2>3, <2>4, <2>5, <2>6, <2>7, <2>8, <2>9 DEF Exchange
<1>3. CASE Proxy(r)
  <2>1. CASE BackendReceive(r) BY <2>1 DEF BackendReceive
  <2>2. CASE BackendReply(r)   BY <2>2 DEF BackendReply
  <2>3. CASE ProxyFail(r)      BY <2>3 DEF ProxyFail
  <2> QED
    BY <1>3, <2>1, <2>2, <2>3 DEF Proxy
<1> QED
  BY <1>1, <1>2, <1>3
\* Each step of a request preserves that request's part of the invariant.

\* An early return, or the admission (gateway_handler).
LEMMA ArriveInv ==
  ASSUME TypeOK, NEW r \in Requests, RequestInv(r), Arrive(r)
  PROVE  RequestInv(r)'
<1>1. CASE RejectNoBearer(r)
  <2>1. /\ pc'[r] = "done" /\ resp'[r] = "401" /\ token'[r] = None
        /\ delivered'[r] = None /\ ~performed'[r]
    BY <1>1 DEF RejectNoBearer, Answer, TypeOK, RequestInv
  <2> QED
    BY <2>1, NoneAssumption DEF RequestInv, DeliveredSound, InFlight, Status
<1>2. ASSUME NEW t \in Token, NEW s, NEW st \in {"401", "403", "404"},
             Reject(r, t, s, st)
      PROVE  RequestInv(r)'
  <2>1. /\ pc'[r] = "done" /\ resp'[r] = st /\ token'[r] = t
        /\ delivered'[r] = None
    BY <1>2 DEF Reject, Answer, TypeOK, RequestInv
  <2>2. audit'[r] = <<[decision |-> "DENY", sub |-> s, performed |-> performed[r]]>>
    BY <1>2 DEF Reject, Log, TypeOK, RequestInv
  <2>3. Len(audit'[r]) = 1 /\ audit'[r][1].decision = "DENY"
    BY <2>2
  <2>4. st # None
    BY NoneAssumption DEF Status
  <2> QED
    BY <2>1, <2>3, <2>4 DEF RequestInv, DeliveredSound, InFlight, Decision
<1>3. ASSUME NEW t \in Token, NEW x \in Paths, Admit(r, t, x)
      PROVE  RequestInv(r)'
  <2> DEFINE p == Matched[x]
  <2>0. p \in Route
    BY <1>3, MatchedType DEF Admit
  <2>1. /\ pc'[r] = "lookup" /\ token'[r] = t /\ route'[r] = p
        /\ bearer'[r] = Original(t) /\ ~performed'[r] /\ delivered'[r] = None
        /\ resp'[r] = None /\ audit'[r] = <<>>
    BY <1>3 DEF Admit, TypeOK, RequestInv
  <2>2. t \in Genuine /\ MayUse(t, p)
    BY <1>3 DEF Admit, Valid
  <2> HIDE DEF p
  <2> QED
    BY <2>0, <2>1, <2>2, NoneAssumption
    DEF RequestInv, DeliveredSound, InFlight, Authorised, BearerSound, MayUse,
        Original, Status
<1> QED
  BY <1>1, <1>2, <1>3 DEF Arrive, RejectInvalid, RejectNoRoute, RejectScope

\* What the router answered is kept as long as the request.
LEMMA RoutedFrame ==
  ASSUME NEW q \in Requests, RoutedInv(q), route'[q] = route[q], path'[q] = path[q],
         resp'[q] = resp[q] \/ resp'[q] # "404"
  PROVE  RoutedInv(q)'
BY DEF RoutedInv

\* The route of a request that arrives is the one its path has.
LEMMA ArriveRouted ==
  ASSUME TypeOK, NEW r \in Requests, RequestInv(r), RoutedInv(r), Arrive(r)
  PROVE  RoutedInv(r)'
<1>1. pc[r] = "new" => route[r] = None /\ resp[r] = None /\ None # "404"
  BY NoneAssumption DEF RequestInv, Status
<1>2. CASE RejectNoBearer(r)
  BY <1>2, RoutedFrame DEF RejectNoBearer, Answer, TypeOK
<1>3. ASSUME NEW t \in Token, RejectInvalid(r, t) PROVE RoutedInv(r)'
  BY <1>3, RoutedFrame DEF RejectInvalid, Reject, Answer, TypeOK
<1>4. ASSUME NEW t \in Token, NEW x \in Paths, RejectNoRoute(r, t, x) PROVE RoutedInv(r)'
  BY <1>1, <1>4 DEF RejectNoRoute, Reject, TypeOK, RoutedInv
<1>5. ASSUME NEW t \in Token, NEW x \in Paths, RejectScope(r, t, x) PROVE RoutedInv(r)'
  <2>1. route'[r] = None /\ resp'[r] = "403"
    BY <1>1, <1>5 DEF RejectScope, Reject, Answer, TypeOK
  <2> QED
    BY <2>1 DEF RoutedInv
<1>6. ASSUME NEW t \in Token, NEW x \in Paths, Admit(r, t, x) PROVE RoutedInv(r)'
  <2>1. route'[r] = Matched[x] /\ path'[r] = x /\ resp'[r] = None
    BY <1>1, <1>6 DEF Admit, TypeOK
  <2>2. None # "404"
    BY NoneAssumption DEF Status
  <2> QED
    BY <2>1, <2>2 DEF RoutedInv
<1> QED
  BY <1>2, <1>3, <1>4, <1>5, <1>6 DEF Arrive

\* After that neither the route nor the path changes.
LEMMA LaterRouted ==
  ASSUME TypeOK, NEW r \in Requests, RoutedInv(r), Exchange(r) \/ Proxy(r)
  PROVE  RoutedInv(r)'
<1>1. UNCHANGED <<route, path>>
  BY DEF Exchange, LookupHit, LookupMiss, LookupFail, KeycloakIssue, KeycloakFail, SendStore,
         SkipStore, Store, StoreFail, Proxy, BackendReceive, BackendReply, ProxyFail, local
<1>2. resp' = resp \/ \E st \in {"backend", "502"} : resp' = [resp EXCEPT ![r] = st]
  BY DEF Exchange, LookupHit, LookupMiss, LookupFail, KeycloakIssue, KeycloakFail, SendStore,
         SkipStore, Store, StoreFail, Proxy, BackendReceive, BackendReply, ProxyFail, Answer
<1>3. resp'[r] = resp[r] \/ resp'[r] # "404"
  BY <1>2 DEF TypeOK
<1> QED
  BY <1>1, <1>3, RoutedFrame

\* The locals of exchange() are gone; what is left is the bearer for step 5.
LEMMA ForwardInv ==
  ASSUME TypeOK, NEW r \in Requests, RequestInv(r),
         pc[r] \in {"lookup", "call", "reply", "store"},
         pc'[r] = "proxy", BearerSound(r)',
         token'[r] = token[r], route'[r] = route[r], delivered' = delivered,
         resp' = resp, audit' = audit
  PROVE  RequestInv(r)'
BY NoneAssumption
DEF RequestInv, DeliveredSound, InFlight, Authorised, MayUse, Status

\* A step of the exchange, which may be a hit in the shared cache.
LEMMA ExchangeInv ==
  ASSUME TypeOK, NEW r \in Requests, RequestInv(r), Exchange(r),
         \A t \in Token, a \in Audience : EntryInv(t, a)
  PROVE  RequestInv(r)'
<1>1. ASSUME FallBack(r), pc[r] \in {"lookup", "call", "reply", "store"},
             UNCHANGED <<token, route, delivered, audit, resp>>
      PROVE  RequestInv(r)'
  <2>1. BearerSound(r)' /\ pc'[r] = "proxy"
    BY <1>1 DEF FallBack, LeaveExchange, RequestInv, BearerSound, InFlight,
                Original, TypeOK
  <2> QED
    BY <1>1, <2>1, ForwardInv
<1>2. ASSUME NEW tok \in JWT, Forward(r, tok),
             pc[r] \in {"lookup", "call", "reply", "store"},
             UNCHANGED <<token, route, delivered, audit, resp>>,
             tok.sub = SubOf[token[r]], tok.aud = RouteAud[route[r]],
             tok.act = McpGateway
      PROVE  RequestInv(r)'
  <2>1. BearerSound(r)' /\ pc'[r] = "proxy"
    BY <1>2 DEF Forward, LeaveExchange, BearerSound, TypeOK
  <2> QED
    BY <1>2, <2>1, ForwardInv
<1>3. CASE LookupHit(r)
  <2>1. /\ token[r] \in Token /\ RouteAud[route[r]] \in Audience
        /\ KeyOf(r) = <<token[r], RouteAud[route[r]]>> /\ KeyOf(r) \in Keys
    BY <1>3, InFlightTypes DEF LookupHit, InFlight
  <2>2. EntryInv(token[r], RouteAud[route[r]])
    BY <2>1
  <2>3. cache[KeyOf(r)].tok \in JWT
    BY <1>3, <2>1 DEF LookupHit, TypeOK, Entry
  <2> QED
    BY <1>2, <1>3, <2>1, <2>2, <2>3 DEF LookupHit, EntryInv
<1>4. CASE LookupFail(r) \/ KeycloakFail(r) \/ StoreFail(r)
  BY <1>1, <1>4 DEF LookupFail, KeycloakFail, StoreFail
<1>5. CASE SkipStore(r) \/ Store(r)
  BY <1>2, <1>5 DEF SkipStore, Store, RequestInv, ExchangedSound
<1>6. CASE LookupMiss(r)
  BY <1>6, NoneAssumption
  DEF LookupMiss, local, TypeOK, RequestInv, DeliveredSound, InFlight, Authorised,
      MayUse, BearerSound, Original, Status
<1>7. CASE KeycloakIssue(r)
  <2>1. PICK life \in Lifespans :
          exchanged' = [exchanged EXCEPT ![r] =
            [sub |-> SubOf[token[r]], aud |-> RouteAud[route[r]],
             act |-> McpGateway, exp |-> now + life]]
    BY <1>7 DEF KeycloakIssue
  <2>2. exchanged'[r] = [sub |-> SubOf[token[r]], aud |-> RouteAud[route[r]],
                         act |-> McpGateway, exp |-> now + life]
    BY <2>1 DEF TypeOK
  <2>3. SubOf[token[r]] \in Subject /\ RouteAud[route[r]] \in Audience /\ life \in Nat
    BY <1>7, InFlightTypes, GatewayAssumption DEF KeycloakIssue, InFlight
  <2>4. exchanged'[r] \in JWT
    BY <2>2, <2>3 DEF JWT, TypeOK
  <2>5. ExchangedSound(r)'
    BY <1>7, <2>2, <2>4 DEF KeycloakIssue, ExchangedSound
  <2> QED
    BY <1>7, <2>5, NoneAssumption
    DEF KeycloakIssue, TypeOK, RequestInv, DeliveredSound, InFlight, Authorised,
        MayUse, BearerSound, Original, Status
<1>8. CASE SendStore(r)
  <2>1. /\ pc'[r] = "store" /\ sentAt'[r] = now /\ now' = now /\ now \in Nat
        /\ Ttl(exchanged[r].exp, now) > 0
    BY <1>8 DEF SendStore, TypeOK
  <2>2. sentAt'[r] <= now' /\ now' <= sentAt'[r] + StoreDelay
    BY <2>1, GatewayAssumption
  <2>3. (Ttl(exchanged[r].exp, sentAt[r]) > 0)'
    BY <1>8, <2>1 DEF SendStore, Ttl
  <2> QED
    BY <1>8, <2>1, <2>2, <2>3, NoneAssumption
    DEF SendStore, TypeOK, RequestInv, DeliveredSound, InFlight, Authorised,
        MayUse, BearerSound, Original, ExchangedSound, Status
<1> QED
  BY <1>3, <1>4, <1>5, <1>6, <1>7, <1>8 DEF Exchange

\* The request of the backend, its answer or its failure.
LEMMA ProxyInv ==
  ASSUME TypeOK, NEW r \in Requests, RequestInv(r), Proxy(r)
  PROVE  RequestInv(r)'
<1>1. CASE BackendReceive(r)
  <2>1. /\ pc'[r] = "await" /\ delivered'[r] = Seen(bearer[r])
        /\ bearer'[r] = bearer[r]
    BY <1>1 DEF BackendReceive, local, TypeOK
  <2>2. Authorised(r) /\ BearerSound(r)
    BY <1>1 DEF BackendReceive, RequestInv, InFlight
  <2>3. DeliveredSound(r)'
    BY <1>1, <2>1, <2>2
    DEF BackendReceive, local, DeliveredSound, BearerSound, Authorised, MayUse,
        Seen, Original
  <2> QED
    BY <1>1, <2>1, <2>2, <2>3, NoneAssumption
    DEF BackendReceive, local, RequestInv, InFlight, Authorised, MayUse,
        BearerSound, Original, Seen, Status
<1>2. ASSUME NEW d \in {"PERMIT", "ERROR"}, NEW st \in {"backend", "502"},
             pc[r] \in {"proxy", "await"}, d = Decision(st),
             st = "backend" => pc[r] = "await",
             Log(r, d, SubOf[token[r]]), Answer(r, st),
             UNCHANGED <<now, token, route, exchanged, sentAt, cache, delivered>>
      PROVE  RequestInv(r)'
  <2>0. audit[r] = <<>>
    BY <1>2 DEF RequestInv
  <2>1. /\ pc'[r] = "done" /\ resp'[r] = st
        /\ audit'[r] = <<[decision |-> d, sub |-> SubOf[token[r]],
                          performed |-> performed[r]]>>
    <3>1. pc'[r] = "done" /\ resp'[r] = st
      BY <1>2 DEF Answer, TypeOK
    <3>2. audit'[r] = Append(audit[r], [decision |-> d, sub |-> SubOf[token[r]],
                                        performed |-> performed[r]])
      BY <1>2 DEF Log, TypeOK
    <3> QED
      BY <2>0, <3>1, <3>2
  <2>2. /\ Len(audit'[r]) = 1 /\ audit'[r][1].decision = d
        /\ audit'[r][1].sub = SubOf[token[r]]
        /\ audit'[r][1].performed = performed[r]
    BY <2>1
  <2>3. /\ DeliveredSound(r) /\ Authorised(r) /\ BearerSound(r)
        /\ pc[r] = "await" => delivered[r] = Seen(bearer[r])
        /\ pc[r] = "proxy" => delivered[r] = None
    BY <1>2 DEF RequestInv, InFlight
  <2>4. delivered[r] # None =>
          /\ delivered[r].sub = SubOf[token[r]]
          /\ performed[r] = (delivered[r].aud # McpGateway)
    <3>1. RouteAud[route[r]] # McpGateway
      BY <2>3, GatewayAssumption DEF Authorised
    <3>2. performed[r] \in BOOLEAN
      BY DEF TypeOK
    <3>3. Original(token[r]).aud = McpGateway
      BY DEF Original
    <3>4. bearer[r].aud = McpGateway <=> ~performed[r]
      BY <2>3, <3>1, <3>3 DEF BearerSound
    <3>5. delivered[r] # None => delivered[r].aud = bearer[r].aud
      BY <1>2, <2>3 DEF Seen
    <3>6. delivered[r] # None => delivered[r].sub = SubOf[token[r]]
      BY <2>3 DEF DeliveredSound
    <3> QED
      BY <3>2, <3>4, <3>5, <3>6
  <2>5. st = "backend" => delivered[r] # None
    BY <1>2, <2>3, NoneAssumption, InFlightTypes DEF Seen, SeenClaims, JWT, InFlight
  <2>6. DeliveredSound(r)'
    BY <1>2, <2>3 DEF DeliveredSound, Authorised, MayUse
  <2>7. resp'[r] # None
    BY <2>1, NoneAssumption DEF Status
  <2> QED
    BY <1>2, <2>1, <2>2, <2>4, <2>5, <2>6, <2>7 DEF RequestInv, InFlight
<1>3. CASE BackendReply(r)
  BY <1>2, <1>3 DEF BackendReply, Decision
<1>4. CASE ProxyFail(r)
  BY <1>2, <1>4 DEF ProxyFail, Decision
<1> QED
  BY <1>1, <1>3, <1>4 DEF Proxy

-----------------------------------------------------------------------------
\* The shared cache: only a completed exchange writes it, and what it writes is
\* sound for every request that will read it.

\* An entry that is not touched stays sound.
LEMMA CacheFrame ==
  ASSUME NEW t \in Token, NEW a \in Audience, EntryInv(t, a),
         cache' = cache, now' = now
  PROVE  EntryInv(t, a)'
BY DEF EntryInv, MayUse

\* What setex writes is sound for every request that finds it.
LEMMA CacheWriteInv ==
  ASSUME TypeOK, NEW r \in Requests, RequestInv(r), pc[r] = "store",
         CacheWrite(r), now' = now,
         NEW t \in Token, NEW a \in Audience, EntryInv(t, a)
  PROVE  EntryInv(t, a)'
<1> DEFINE ttl == Ttl(exchanged[r].exp, sentAt[r])
<1>1. /\ Authorised(r) /\ KeyOf(r) \in Keys
      /\ KeyOf(r) = <<token[r], RouteAud[route[r]]>>
  BY InFlightTypes DEF InFlight
<1>2. CASE <<t, a>> = KeyOf(r)
  <2>1. cache'[<<t, a>>] = [tok |-> exchanged[r], dies |-> now + ttl]
    BY <1>1, <1>2 DEF CacheWrite, TypeOK
  <2>2. ExchangedSound(r) /\ ttl > 0 /\ sentAt[r] <= now /\ now <= sentAt[r] + StoreDelay
    BY DEF RequestInv
  <2>3. exchanged[r].exp \in Nat /\ sentAt[r] \in Nat /\ now \in Nat
    BY <2>2 DEF ExchangedSound, JWT, TypeOK
  <2>4. ttl \in Int /\ ttl <= exchanged[r].exp - sentAt[r]
    BY <2>3, TtlBound
  <2>5. now < now + ttl /\ now + ttl <= exchanged[r].exp + StoreDelay
    BY <2>2, <2>3, <2>4, GatewayAssumption
  <2>6. t = token[r] /\ a = RouteAud[route[r]]
    BY <1>1, <1>2
  <2> QED
    BY <1>1, <2>1, <2>2, <2>5, <2>6 DEF EntryInv, Authorised, ExchangedSound, MayUse
<1>3. CASE <<t, a>> # KeyOf(r)
  <2>1. cache'[<<t, a>>] = cache[<<t, a>>]
    BY <1>1, <1>3 DEF CacheWrite, TypeOK, Keys
  <2> QED
    BY <2>1 DEF EntryInv, MayUse
<1> QED
  BY <1>2, <1>3

\* No step of a request leaves an entry that is not sound.
LEMMA StepCacheInv ==
  ASSUME TypeOK, NEW r \in Requests, RequestInv(r),
         Arrive(r) \/ Exchange(r) \/ Proxy(r),
         NEW t \in Token, NEW a \in Audience, EntryInv(t, a)
  PROVE  EntryInv(t, a)'
<1>1. CASE Arrive(r)
  BY <1>1, CacheFrame
  DEF Arrive, RejectNoBearer, RejectInvalid, RejectNoRoute, RejectScope, Reject, Admit
<1>2. CASE Proxy(r)
  BY <1>2, CacheFrame DEF Proxy, BackendReceive, BackendReply, ProxyFail
<1>3. CASE Store(r) \/ StoreFail(r)
  BY <1>3, CacheWriteInv, CacheFrame DEF Store, StoreFail
<1>4. CASE Exchange(r) /\ ~Store(r) /\ ~StoreFail(r)
  BY <1>4, CacheFrame
  DEF Exchange, LookupHit, LookupMiss, LookupFail, KeycloakIssue, KeycloakFail,
      SendStore, SkipStore
<1> QED
  BY <1>1, <1>2, <1>3, <1>4

\* Crashes, evictions and the clock disturb neither part of the invariant.
LEMMA EnvironmentInv ==
  ASSUME PipelineInv, Crash \/ (\E k \in Keys : Evict(k)) \/ Tick
  PROVE  PipelineInv'
<1>1. TypeOK'
  BY EnvironmentType DEF PipelineInv
<1>2. TypeOK
  BY DEF PipelineInv
<1>3. ASSUME NEW q \in Requests PROVE RequestInv(q)'
  <2> RequestInv(q)
    BY DEF PipelineInv
  <2>1. CASE Crash /\ pc[q] \in InFlight
    <3>1. /\ pc'[q] = "lost" /\ token' = token /\ route' = route
          /\ delivered' = delivered /\ resp' = resp /\ audit' = audit
      BY <2>1, <1>2 DEF Crash, TypeOK
    <3> QED
      BY <3>1, <2>1, NoneAssumption
      DEF RequestInv, DeliveredSound, InFlight, Authorised, MayUse, Status
  <2>2. CASE Crash /\ pc[q] \notin InFlight
    <3>1. /\ pc'[q] = pc[q] /\ token' = token /\ route' = route
          /\ delivered' = delivered /\ resp' = resp /\ audit' = audit
          /\ ~performed'[q]
      BY <2>2, <1>2 DEF Crash, TypeOK
    <3> QED
      BY <3>1, <2>2 DEF RequestInv, DeliveredSound, InFlight, Authorised, MayUse
  <2>3. CASE \E k \in Keys : Evict(k)
    BY <2>3, RequestFrame DEF Evict, local, SameAt
  <2>4. CASE Tick /\ pc[q] # "store"
    BY <2>4, RequestFrame DEF Tick, local, SameAt
  <2>5. CASE Tick /\ pc[q] = "store"
    <3>1. sentAt'[q] <= now' /\ now' <= sentAt'[q] + StoreDelay
      BY <2>5, <1>2, GatewayAssumption DEF Tick, local, TypeOK, RequestInv
    <3> QED
      BY <2>5, <3>1
      DEF Tick, local, RequestInv, DeliveredSound, InFlight, Authorised, MayUse,
          BearerSound, Original, ExchangedSound, Ttl
  <2> QED
    BY <2>1, <2>2, <2>3, <2>4, <2>5
<1>4. ASSUME NEW t \in Token, NEW a \in Audience PROVE EntryInv(t, a)'
  <2> EntryInv(t, a)
    BY DEF PipelineInv
  <2>0. <<t, a>> \in Keys
    BY DEF Keys
  <2>1. CASE Crash
    BY <2>1, CacheFrame DEF Crash
  <2>2. ASSUME NEW k \in Keys, Evict(k) PROVE EntryInv(t, a)'
    <3>1. cache'[<<t, a>>] \in {cache[<<t, a>>], None} /\ now' = now
      BY <2>0, <2>2, <1>2 DEF Evict, TypeOK
    <3> QED
      BY <3>1 DEF EntryInv, MayUse
  <2>3. CASE Tick
    <3>1. now' = now + 1 /\ now \in Nat
      BY <2>3, <1>2 DEF Tick, TypeOK
    <3>2. cache'[<<t, a>>] = IF cache[<<t, a>>] # None /\ cache[<<t, a>>].dies <= now + 1
                             THEN None ELSE cache[<<t, a>>]
      BY <2>3, <2>0 DEF Tick
    <3>3. cache'[<<t, a>>] # None =>
            /\ cache'[<<t, a>>] = cache[<<t, a>>]
            /\ cache[<<t, a>>] \in Entry
            /\ ~(cache[<<t, a>>].dies <= now + 1)
      BY <3>2, <2>0, <1>2 DEF TypeOK
    <3>4. cache'[<<t, a>>] # None => now' < cache'[<<t, a>>].dies
      BY <3>1, <3>3 DEF Entry
    <3> QED
      BY <3>3, <3>4 DEF EntryInv, MayUse
  <2> QED
    BY <2>1, <2>2, <2>3
<1>5. ASSUME NEW q \in Requests PROVE RoutedInv(q)'
  <2>1. RoutedInv(q)
    BY DEF PipelineInv
  <2>2. UNCHANGED <<route, path, resp>>
    BY DEF Crash, Evict, Tick, local
  <2> QED
    BY <2>1, <2>2, RoutedFrame
<1> QED
  BY <1>1, <1>3, <1>4, <1>5 DEF PipelineInv

-----------------------------------------------------------------------------
\* One step of the pipeline, of any request or of the environment.
LEMMA NextInv == PipelineInv /\ [Next]_vars => PipelineInv'
<1> SUFFICES ASSUME PipelineInv, [Next]_vars PROVE PipelineInv'
  OBVIOUS
<1>1. TypeOK
  BY DEF PipelineInv
<1>2. ASSUME NEW r \in Requests, Arrive(r) \/ Exchange(r) \/ Proxy(r)
      PROVE  PipelineInv'
  <2>1. RequestInv(r)
    BY DEF PipelineInv
  <2>2. \A t \in Token, a \in Audience : EntryInv(t, a)
    BY DEF PipelineInv
  <2>3. TypeOK'
    BY <1>1, <1>2, <2>1, ArriveType, ExchangeType, ProxyType
  <2>4. RequestInv(r)'
    BY <1>1, <1>2, <2>1, <2>2, ArriveInv, ExchangeInv, ProxyInv
  <2>7. RoutedInv(r)'
    BY <1>1, <1>2, <2>1, ArriveRouted, LaterRouted DEF PipelineInv
  <2>5. ASSUME NEW q \in Requests \ {r} PROVE RequestInv(q)' /\ RoutedInv(q)'
    <3>1. SameAt(q) /\ now' = now
      BY <1>1, <1>2, OthersUntouched
    <3>2. RequestInv(q) /\ RoutedInv(q)
      BY DEF PipelineInv
    <3>3. RoutedInv(q)'
      BY <3>1, <3>2, RoutedFrame DEF SameAt
    <3> QED
      BY <3>1, <3>2, <3>3, RequestFrame
  <2>6. ASSUME NEW t \in Token, NEW a \in Audience PROVE EntryInv(t, a)'
    BY <1>1, <1>2, <2>1, <2>2, StepCacheInv
  <2> QED
    BY <2>3, <2>4, <2>5, <2>6, <2>7 DEF PipelineInv
<1>3. CASE UNCHANGED vars
  <2>1. ASSUME NEW q \in Requests PROVE RequestInv(q)'
    BY <1>3, RequestFrame DEF vars, local, SameAt, PipelineInv
  <2>4. ASSUME NEW q \in Requests PROVE RoutedInv(q)'
    BY <1>3, RoutedFrame DEF vars, local, PipelineInv
  <2>2. ASSUME NEW t \in Token, NEW a \in Audience PROVE EntryInv(t, a)'
    BY <1>3, CacheFrame DEF vars, PipelineInv
  <2>3. TypeOK'
    BY <1>1, <1>3 DEF vars, local, TypeOK
  <2> QED
    BY <2>1, <2>2, <2>3, <2>4 DEF PipelineInv
<1> QED
  BY <1>2, <1>3, EnvironmentInv DEF Next

\* The inductive invariant holds in every reachable state.
THEOREM PipelineInvariant == Spec => []PipelineInv
BY InitInv, NextInv, PTL DEF Spec
\* Every variable keeps its type, for any instance.
THEOREM TypeCorrect == Spec => []TypeOK
<1>1. PipelineInv => TypeOK
  BY DEF PipelineInv
<1> QED
  BY <1>1, PipelineInvariant, PTL

\* What the inductive invariant says of one state.
LEMMA InvSafe ==
  PipelineInv => SubjectPreserved /\ CacheSound /\ CacheStalenessBounded /\ AuditMatchesOutcome
<1> SUFFICES ASSUME PipelineInv
             PROVE SubjectPreserved /\ CacheSound /\ CacheStalenessBounded /\ AuditMatchesOutcome
  OBVIOUS
<1>1. TypeOK
  BY DEF PipelineInv
<1>2. SubjectPreserved
  <2>1. ASSUME NEW r \in Requests, delivered[r] # None
        PROVE  /\ delivered[r].sub = SubOf[token[r]]
               /\ delivered[r].aud \in {RouteAud[route[r]], McpGateway}
               /\ delivered[r].aud # McpGateway => delivered[r].act = McpGateway
    BY <2>1 DEF PipelineInv, RequestInv, DeliveredSound
  <2> QED
    BY <2>1 DEF SubjectPreserved
<1>3. CacheSound
  BY DEF PipelineInv, EntryInv, CacheSound, MayUse
<1>4. CacheStalenessBounded
  <2> SUFFICES ASSUME NEW k \in Keys, cache[k] # None
               PROVE  now < cache[k].tok.exp + StoreDelay
    BY DEF CacheStalenessBounded
  <2>1. PICK t \in Token, a \in Audience : k = <<t, a>>
    BY DEF Keys
  <2>2. /\ now < cache[k].dies
        /\ cache[k].dies <= cache[k].tok.exp + StoreDelay
    BY <2>1 DEF PipelineInv, EntryInv
  <2>3. cache[k] \in Entry
    BY <1>1 DEF TypeOK
  <2> QED
    BY <1>1, <2>2, <2>3, GatewayAssumption DEF Entry, JWT, TypeOK
<1>5. AuditMatchesOutcome
  <2>1. ASSUME NEW r \in Requests, resp[r] = None PROVE audit[r] = <<>>
    BY <2>1 DEF PipelineInv, RequestInv
  <2>2. ASSUME NEW r \in Requests, resp[r] # None PROVE pc[r] = "done"
    BY <2>2 DEF PipelineInv, RequestInv
  <2> QED
    BY <2>1, <2>2 DEF PipelineInv, RequestInv, AuditMatchesOutcome
<1> QED
  BY <1>2, <1>3, <1>4, <1>5
\* A backend sees a request only under its caller's subject.
THEOREM SubjectIsPreserved == Spec => []SubjectPreserved
BY InvSafe, PipelineInvariant, PTL

\* The shared cache holds only tokens of the login and audience they are under.
THEOREM CacheIsSound == Spec => []CacheSound
BY InvSafe, PipelineInvariant, PTL

\* A cached token outlives its expiry by at most the time a setex takes.
THEOREM CacheStalenessIsBounded == Spec => []CacheStalenessBounded
BY InvSafe, PipelineInvariant, PTL

\* Every request goes to the route with the longest prefix of whole segments, for
\* any table of routes and any paths.
THEOREM RouterIsLongestPrefix == Spec => []RoutesByWholeSegments
<1>1. PipelineInv => RoutesByWholeSegments
  <2> SUFFICES ASSUME PipelineInv, NEW r \in Requests
               PROVE  /\ route[r] # None => Forwards(path[r], route[r])
                      /\ resp[r] = "404" => Covering[path[r]] = {}
    BY DEF RoutesByWholeSegments
  <2>1. RoutedInv(r)
    BY DEF PipelineInv
  <2> QED
    BY <2>1, MatchIsLongestPrefix DEF RoutedInv, Matched
<1> QED
  BY <1>1, PipelineInvariant, PTL

\* The audit entry of an answered request tells what was done.
THEOREM AuditTellsTheTruth == Spec => []AuditMatchesOutcome
BY InvSafe, PipelineInvariant, PTL
-----------------------------------------------------------------------------
\* The pipeline implements AccessDecision: the admission of a request is its
\* Deny or its Grant, the backend's receipt its Show, the answer its Permit or
\* Fail; the exchange, the cache and the clock are invisible.

AbstractVars == <<AskedFor, Shown, OutcomeOf>>

\* What the abstract state says of r, from what the concrete state does.
LEMMA AbstractOf ==
  ASSUME TypeOK, NEW r \in Requests, RequestInv(r)
  PROVE  /\ AskedFor[r] = IF route[r] = None THEN None ELSE Access(token[r], route[r])
         /\ Shown[r] = IF delivered[r] = None THEN None
                       ELSE [sub |-> delivered[r].sub, aud |-> delivered[r].aud]
         /\ OutcomeOf[r] = Outcome(pc[r], resp[r])
         /\ delivered[r] # None => Shown[r] # None
         /\ pc[r] = "new" => AskedFor[r] = None /\ OutcomeOf[r] = "pending"
         /\ pc[r] \in InFlight =>
              AskedFor[r] = Access(token[r], route[r]) /\ AskedFor[r] # None
              /\ OutcomeOf[r] = "pending"
<1>1. /\ AskedFor[r] = IF route[r] = None THEN None ELSE Access(token[r], route[r])
      /\ Shown[r] = IF delivered[r] = None THEN None
                    ELSE [sub |-> delivered[r].sub, aud |-> delivered[r].aud]
      /\ OutcomeOf[r] = Outcome(pc[r], resp[r])
  BY DEF AskedFor, Shown, OutcomeOf
<1>2. ASSUME delivered[r] # None PROVE Shown[r] # None
  <2>1. delivered[r].sub \in Subject /\ delivered[r].aud \in Audience \cup {McpGateway}
    BY <1>2 DEF TypeOK, SeenClaims
  <2>2. Shown[r] \in [sub: Subject, aud: Audience \cup {McpGateway}]
    BY <1>1, <1>2, <2>1
  <2> QED
    BY <2>2, NoneAssumption
<1>3. ASSUME pc[r] \in InFlight
      PROVE  AskedFor[r] = Access(token[r], route[r]) /\ AskedFor[r] # None
  <2>1. /\ route[r] \in Route /\ SubOf[token[r]] \in Subject
        /\ RouteAud[route[r]] \in Audience
    BY <1>3, InFlightTypes DEF Authorised
  <2>2. Access(token[r], route[r]) \in [sub: Subject, aud: Audience \cup {McpGateway}]
    BY <2>1 DEF Access
  <2> QED
    BY <1>1, <2>1, <2>2, NoneAssumption
<1>4. pc[r] \in InFlight => OutcomeOf[r] = "pending"
  BY <1>1 DEF Outcome, InFlight
<1>5. pc[r] = "new" => AskedFor[r] = None /\ OutcomeOf[r] = "pending"
  BY <1>1 DEF Outcome, RequestInv
<1> QED
  BY <1>1, <1>2, <1>3, <1>4, <1>5

\* A step that changes at most request r changes the abstract state at most at r.
LEMMA AbstractFrame ==
  ASSUME NEW r \in Requests, \A q \in Requests \ {r} : SameAt(q)
  PROVE  /\ AskedFor' = [AskedFor EXCEPT ![r] = AskedFor'[r]]
         /\ Shown' = [Shown EXCEPT ![r] = Shown'[r]]
         /\ OutcomeOf' = [OutcomeOf EXCEPT ![r] = OutcomeOf'[r]]
<1>1. ASSUME NEW q \in Requests \ {r}
      PROVE  /\ AskedFor'[q] = AskedFor[q]
             /\ Shown'[q] = Shown[q]
             /\ OutcomeOf'[q] = OutcomeOf[q]
  BY DEF AskedFor, Shown, OutcomeOf, SameAt, Access, Outcome
<1>2. /\ AskedFor = [q \in Requests |-> AskedFor[q]]
      /\ Shown = [q \in Requests |-> Shown[q]]
      /\ OutcomeOf = [q \in Requests |-> OutcomeOf[q]]
  BY DEF AskedFor, Shown, OutcomeOf
<1>3. /\ AskedFor' = [q \in Requests |-> AskedFor'[q]]
      /\ Shown' = [q \in Requests |-> Shown'[q]]
      /\ OutcomeOf' = [q \in Requests |-> OutcomeOf'[q]]
  BY DEF AskedFor, Shown, OutcomeOf
<1>4. AskedFor' = [AskedFor EXCEPT ![r] = AskedFor'[r]]
  BY <1>1, <1>2, <1>3
<1>5. Shown' = [Shown EXCEPT ![r] = Shown'[r]]
  BY <1>1, <1>2, <1>3
<1>6. OutcomeOf' = [OutcomeOf EXCEPT ![r] = OutcomeOf'[r]]
  BY <1>1, <1>2, <1>3
<1> QED
  BY <1>4, <1>5, <1>6

\* An early return denies, and the admission grants.
LEMMA ArriveDecides ==
  ASSUME PipelineInv, PipelineInv', NEW r \in Requests, Arrive(r)
  PROVE  Decided!Deny(r) \/ Decided!Grant(r)
<1> USE DEF PipelineInv
<1>0. /\ AskedFor' = [AskedFor EXCEPT ![r] = AskedFor'[r]]
      /\ Shown' = [Shown EXCEPT ![r] = Shown'[r]]
      /\ OutcomeOf' = [OutcomeOf EXCEPT ![r] = OutcomeOf'[r]]
  BY AbstractFrame, OthersUntouched
<1>1. /\ AskedFor' [r] = IF route'[r] = None THEN None ELSE Access(token'[r], route'[r])
      /\ Shown'[r] = IF delivered'[r] = None THEN None
                     ELSE [sub |-> delivered'[r].sub, aud |-> delivered'[r].aud]
      /\ OutcomeOf'[r] = Outcome(pc'[r], resp'[r])
  BY DEF AskedFor, Shown, OutcomeOf
<1>2. ASSUME pc[r] = "new" PROVE AskedFor[r] = None /\ OutcomeOf[r] = "pending"
  BY <1>2, AbstractOf
<1>3. ASSUME pc[r] = "new", pc'[r] = "done", resp'[r] \in {"401", "403", "404"},
             route'[r] = route[r], delivered'[r] = delivered[r]
      PROVE  Decided!Deny(r)
  <2>1. route[r] = None /\ delivered[r] = None
    BY <1>3 DEF RequestInv
  <2>2. AskedFor'[r] = AskedFor[r] /\ Shown'[r] = Shown[r] /\ OutcomeOf'[r] = "deny"
    BY <1>1, <1>3, <2>1 DEF Outcome, AskedFor, Shown
  <2>3. AskedFor' = AskedFor /\ Shown' = Shown
    BY <1>0, <2>2, ZenonT(60) DEF AskedFor, Shown
  <2> QED
    BY <1>0, <1>2, <1>3, <2>2, <2>3 DEF Decided!Deny
<1>4. ASSUME NEW t \in Token, NEW x \in Paths, Admit(r, t, x)
      PROVE  Decided!Grant(r)
  <2> DEFINE p == Matched[x]
  <2>0. p \in Route
    BY <1>4, MatchedType DEF Admit
  <2>1. /\ pc[r] = "new" /\ pc'[r] = "lookup" /\ route'[r] = p /\ token'[r] = t
        /\ delivered' = delivered /\ p # None
    BY <1>4, NoneAssumption DEF Admit, TypeOK
  <2>9. t \in Genuine /\ RouteScope[p] \in ScopesOf[t]
    BY <1>4 DEF Admit, Valid, MayUse
  <2> HIDE DEF p
  <2>2. AskedFor'[r] = Access(t, p) /\ Shown'[r] = Shown[r] /\ OutcomeOf'[r] = "pending"
    BY <1>1, <2>1 DEF Outcome, Shown
  <2>3. Access(t, p) \in Granted
    <3>2. <<t, p>> \in {y \in Genuine \X Route : RouteScope[y[2]] \in ScopesOf[y[1]]}
      BY <2>0, <2>9
    <3>3. Access(<<t, p>>[1], <<t, p>>[2]) \in Granted
      BY <3>2 DEF Granted
    <3> QED
      BY <3>3
  <2>4. Shown' = Shown
    BY <2>1 DEF Shown
  <2>5. OutcomeOf' = OutcomeOf
    <3>1. OutcomeOf'[r] = OutcomeOf[r]
      BY <1>2, <2>1, <2>2
    <3> QED
      BY <1>0, <3>1 DEF OutcomeOf
  <2> QED
    BY <1>0, <1>2, <2>1, <2>2, <2>3, <2>4, <2>5 DEF Decided!Grant
<1>5. CASE RejectNoBearer(r)
  BY <1>3, <1>5 DEF RejectNoBearer, Answer, TypeOK
<1>6. ASSUME NEW t, NEW s, NEW st \in {"401", "403", "404"}, Reject(r, t, s, st)
      PROVE  Decided!Deny(r)
  BY <1>3, <1>6 DEF Reject, Answer, TypeOK
<1> QED
  BY <1>4, <1>5, <1>6 DEF Arrive, RejectInvalid, RejectNoRoute, RejectScope

\* Nothing the exchange does is visible: the request stays granted and pending.
LEMMA ExchangeInvisible ==
  ASSUME PipelineInv, PipelineInv', NEW r \in Requests, Exchange(r)
  PROVE  UNCHANGED AbstractVars
<1> USE DEF PipelineInv
<1>1. /\ pc[r] \in InFlight /\ pc'[r] \in InFlight /\ token' = token
      /\ route' = route /\ delivered' = delivered /\ resp' = resp
  BY DEF TypeOK, InFlight, Exchange, LookupHit, LookupMiss, LookupFail, KeycloakIssue,
         KeycloakFail, SendStore, SkipStore, Store, StoreFail, Forward, FallBack,
         LeaveExchange, local
<1>2. AskedFor' = AskedFor /\ Shown' = Shown
  BY <1>1 DEF AskedFor, Shown
<1>3. OutcomeOf'[r] = OutcomeOf[r]
  BY <1>1 DEF OutcomeOf, Outcome, InFlight
<1>4. OutcomeOf' = [OutcomeOf EXCEPT ![r] = OutcomeOf'[r]]
  BY AbstractFrame, OthersUntouched
<1>5. OutcomeOf' = OutcomeOf
  BY <1>3, <1>4 DEF OutcomeOf
<1> QED
  BY <1>2, <1>5 DEF AbstractVars

\* The backend is shown the request, permits it, or fails.
LEMMA ProxyDecides ==
  ASSUME PipelineInv, PipelineInv', NEW r \in Requests, Proxy(r)
  PROVE  Decided!Show(r) \/ Decided!Permit(r) \/ Decided!Fail(r)
<1> USE DEF PipelineInv
<1>0. /\ AskedFor' = [AskedFor EXCEPT ![r] = AskedFor'[r]]
      /\ Shown' = [Shown EXCEPT ![r] = Shown'[r]]
      /\ OutcomeOf' = [OutcomeOf EXCEPT ![r] = OutcomeOf'[r]]
  BY AbstractFrame, OthersUntouched
<1>1. pc[r] \in InFlight /\ token' = token /\ route' = route
  BY DEF Proxy, BackendReceive, BackendReply, ProxyFail, local, InFlight
<1>2. /\ AskedFor' = AskedFor /\ AskedFor[r] = Access(token[r], route[r])
      /\ AskedFor[r] # None /\ OutcomeOf[r] = "pending"
  BY <1>1, AbstractOf DEF AskedFor
<1>3. CASE BackendReceive(r)
  <2>1. /\ pc[r] = "proxy" /\ pc'[r] = "await" /\ delivered'[r] = Seen(bearer[r])
    BY <1>3 DEF BackendReceive, TypeOK
  <2>2. bearer[r] \in JWT /\ BearerSound(r) /\ Authorised(r) /\ delivered[r] = None
    BY <2>1, <1>1, InFlightTypes DEF RequestInv
  <2>3. delivered'[r] # None
    BY <2>1, <2>2, NoneAssumption DEF Seen, JWT, SeenClaims
  <2>4. Shown[r] = None /\ Shown'[r] = [sub |-> bearer[r].sub, aud |-> bearer[r].aud]
    BY <2>1, <2>2, <2>3 DEF Shown, Seen
  <2>5. bearer[r].sub = SubOf[token[r]] /\ bearer[r].aud \in {RouteAud[route[r]], McpGateway}
    BY <2>2 DEF BearerSound, Original
  <2>6. OutcomeOf'[r] = OutcomeOf[r]
    BY <1>2, <2>1 DEF OutcomeOf, Outcome
  <2>7. OutcomeOf' = OutcomeOf
    BY <1>0, <2>6 DEF OutcomeOf
  <2>8. AskedFor[r].sub = SubOf[token[r]] /\ AskedFor[r].aud = RouteAud[route[r]]
    BY <1>2 DEF Access
  <2>9. \E a \in {AskedFor[r].aud, McpGateway} :
          Shown' = [Shown EXCEPT ![r] = [sub |-> AskedFor[r].sub, aud |-> a]]
    BY <1>0, <2>4, <2>5, <2>8
  <2> QED
    BY <1>2, <2>4, <2>7, <2>9 DEF Decided!Show
<1>4. CASE BackendReply(r)
  <2>1. /\ pc[r] = "await" /\ pc'[r] = "done" /\ resp'[r] = "backend"
        /\ delivered' = delivered
    BY <1>4 DEF BackendReply, Answer, TypeOK
  <2>2. delivered[r] # None
    <3>1. resp'[r] = "backend" => delivered'[r] # None
      BY DEF RequestInv
    <3> QED
      BY <2>1, <3>1
  <2>3. Shown[r] # None /\ Shown' = Shown /\ OutcomeOf'[r] = "permit"
    BY <2>1, <2>2, AbstractOf DEF Shown, OutcomeOf, Outcome
  <2> QED
    BY <1>0, <1>2, <2>3 DEF Decided!Permit
<1>5. CASE ProxyFail(r)
  <2>1. /\ pc'[r] = "done" /\ resp'[r] = "502" /\ delivered' = delivered
    BY <1>5 DEF ProxyFail, Answer, TypeOK
  <2>2. Shown' = Shown /\ OutcomeOf'[r] = "error"
    BY <2>1 DEF Shown, OutcomeOf, Outcome
  <2> QED
    BY <1>0, <1>2, <2>2 DEF Decided!Fail
<1> QED
  BY <1>3, <1>4, <1>5 DEF Proxy

\* A crash loses the requests in flight; nothing else of the environment is seen.
LEMMA EnvironmentDecides ==
  ASSUME PipelineInv, Crash \/ (\E k \in Keys : Evict(k)) \/ Tick
  PROVE  Decided!LoseAll \/ UNCHANGED AbstractVars
<1> USE DEF PipelineInv
<1>1. CASE Crash
  <2>1. AskedFor' = AskedFor /\ Shown' = Shown
    BY <1>1 DEF Crash, AskedFor, Shown
  <2>2. ASSUME NEW r \in Requests
        PROVE  OutcomeOf'[r] = IF OutcomeOf[r] = "pending" /\ AskedFor[r] # None
                               THEN "lost" ELSE OutcomeOf[r]
    <3>1. CASE pc[r] \in InFlight
      <4>1. OutcomeOf[r] = "pending" /\ AskedFor[r] # None
        BY <3>1, AbstractOf
      <4>2. pc'[r] = "lost"
        BY <1>1, <3>1 DEF Crash
      <4> QED
        BY <4>1, <4>2 DEF OutcomeOf, Outcome
    <3>2. CASE pc[r] \notin InFlight
      <4>1. pc'[r] = pc[r] /\ resp' = resp
        BY <1>1, <3>2 DEF Crash
      <4>2. OutcomeOf'[r] = OutcomeOf[r]
        BY <4>1 DEF OutcomeOf
      <4>3. pc[r] \in {"new", "done", "lost"}
        BY <3>2 DEF TypeOK
      <4>4. OutcomeOf[r] = "pending" => AskedFor[r] = None
        BY <4>3, AbstractOf DEF Outcome
      <4> QED
        BY <4>2, <4>4
    <3> QED
      BY <3>1, <3>2
  <2>3. OutcomeOf' = [r \in Requests |-> OutcomeOf'[r]]
    BY DEF OutcomeOf
  <2>4. OutcomeOf' = [r \in Requests |->
                        IF OutcomeOf[r] = "pending" /\ AskedFor[r] # None
                        THEN "lost" ELSE OutcomeOf[r]]
    BY <2>2, <2>3
  <2> QED
    BY <2>1, <2>4 DEF Decided!LoseAll
<1>2. CASE (\E k \in Keys : Evict(k)) \/ Tick
  BY <1>2 DEF Evict, Tick, local, AbstractVars, AskedFor, Shown, OutcomeOf
<1> QED
  BY <1>1, <1>2

\* Every behaviour of the pipeline is one AccessDecision allows: a request is
\* denied outright, or shown once to its own backend under its own caller's
\* subject, and permitted only after that.
THEOREM PipelineImplementsDecision == Spec => ImplementsAccessDecision
<1>1. Init => Decided!Init
  BY NoneAssumption DEF Init, Decided!Init, AskedFor, Shown, OutcomeOf, Outcome
<1>2. PipelineInv /\ PipelineInv' /\ [Next]_vars => [Decided!Next]_Decided!vars
  <2> SUFFICES ASSUME PipelineInv, PipelineInv', [Next]_vars
               PROVE  Decided!Next \/ UNCHANGED AbstractVars
    BY DEF Decided!vars, AbstractVars
  <2>1. ASSUME NEW r \in Requests, Arrive(r) \/ Exchange(r) \/ Proxy(r)
        PROVE  Decided!Next \/ UNCHANGED AbstractVars
    BY <2>1, ArriveDecides, ExchangeInvisible, ProxyDecides DEF Decided!Next
  <2>2. CASE UNCHANGED vars
    BY <2>2 DEF vars, local, AbstractVars, AskedFor, Shown, OutcomeOf
  <2> QED
    BY <2>1, <2>2, EnvironmentDecides DEF Next, Decided!Next
<1> QED
  BY <1>1, <1>2, PipelineInvariant, PTL DEF Spec, ImplementsAccessDecision, Decided!Spec
=============================================================================
