--------------------------- MODULE KeyCacheProofs ---------------------------
(***************************************************************************)
(* Proofs about KeyCache.tla, for any keys and kids, any lifespan, and any *)
(* number of rotations.                                                    *)
(*                                                                         *)
(* RotationIsSeen is not inductive: why a second decode cannot fail is     *)
(* that the new client has seen no other key under the token's kid, and    *)
(* that is because Keycloak publishes one key to a kid (KeyInv).           *)
(***************************************************************************)
EXTENDS KeyCache, TLAPS

\* A token the realm signed names the key that signed it.
LEMMA TokenType ==
  ASSUME NEW t \in Token
  PROVE  t.kid \in Kid /\ t.signer \in Key \cup {None}
         /\ (t.signer \in Key => KidOf[t.signer] = t.kid)
BY KeyAssumption DEF Token

\* The invariant holds before the first validation.
LEMMA InitInv == Init => KeyInv
<1> SUFFICES ASSUME Init
             PROVE  KeyInv
  OBVIOUS
<1>1. PICK k \in Key : published = {k}
  BY DEF Init
<1>2. found \in [Kid -> Key \cup {None}] /\ \A i \in Kid : found[i] = None
  BY DEF Init
<1> QED
  BY <1>1, <1>2, KeyAssumption DEF Init, KeyInv, RotationIsSeen, AcceptedWasPublished

\* A new validation starts from whatever the last one left cached.
LEMMA ValidateInv ==
  ASSUME KeyInv, NEW t \in Token, Validate(t)
  PROVE  KeyInv'
<1>1. attempt' = 1 /\ at' = "decode" /\ tok' = t
      /\ refresh' = FALSE /\ failed' = FALSE
      /\ UNCHANGED <<now, published, changes, jwks, fetchedAt, found, seen>>
  BY DEF Validate, client
<1>2. steady' = (t.signer \in published)
  BY DEF Validate
<1>3. steady' \in BOOLEAN
  BY <1>2
<1>4. steady' => t.signer \in published
  BY <1>2
<1>5. attempt' # 2 /\ at' # "refuse" /\ at' # "accept" /\ at' # "verify"
  BY <1>1
<1>6. RotationIsSeen' /\ AcceptedWasPublished'
  BY <1>5 DEF RotationIsSeen, AcceptedWasPublished
<1>7. \A i \in Kid : found'[i] # None => found'[i] \in With(seen, i)'
  BY <1>1 DEF KeyInv, With
<1>8. steady' => at' # "idle" /\ tok'.signer \in published'
  BY <1>1, <1>4
<1> QED
  BY <1>1, <1>3, <1>5, <1>6, <1>7, <1>8 DEF KeyInv

\* A key that is cached was published since the client was made.
LEMMA FindCachedInv == ASSUME KeyInv, FindCached PROVE KeyInv'
<1>1. tok \in Token /\ tok.kid \in Kid
  BY TokenType DEF KeyInv, FindCached
<1>2. key' \in With(seen, tok.kid)
  BY <1>1 DEF KeyInv, FindCached, With
<1>3. found' \in [Kid -> Key \cup {None}]
      /\ \A i \in Kid : found'[i] # None => found'[i] \in With(seen, i)
  BY <1>1, <1>2 DEF KeyInv, FindCached, With
<1> QED
  BY <1>1, <1>2, <1>3 DEF KeyInv, FindCached, With, RotationIsSeen, AcceptedWasPublished

\* What Keycloak publishes now is published since the client was made, and has
\* the key of a token whose key has been published throughout.
LEMMA FetchedInv == ASSUME KeyInv, Fetched PROVE KeyInv'
<1>1. tok \in Token /\ tok.kid \in Kid
  BY TokenType DEF KeyInv, Fetched
<1>2. CASE With(published, tok.kid) # {}
  <2>1. key' \in With(seen, tok.kid) /\ at' = "verify"
    BY <1>2 DEF KeyInv, Fetched, With
  <2>2. found' \in [Kid -> Key \cup {None}]
        /\ \A i \in Kid : found'[i] # None => found'[i] \in With(seen, i)
    BY <1>1, <1>2, <2>1 DEF KeyInv, Fetched, With
  <2> QED
    BY <1>1, <1>2, <2>1, <2>2
    DEF KeyInv, Fetched, With, RotationIsSeen, AcceptedWasPublished
<1>3. CASE With(published, tok.kid) = {}
  <2>1. ~steady
    BY <1>1, <1>3, TokenType DEF KeyInv, With
  <2> QED
    BY <1>1, <1>3, <2>1
    DEF KeyInv, Fetched, With, RotationIsSeen, AcceptedWasPublished
<1> QED
  BY <1>2, <1>3

\* A bad signature in the second decode is not the realm's: the new client has
\* seen one key under the kid, the signer's.
LEMMA BadSignatureInv == ASSUME KeyInv, BadSignature PROVE KeyInv'
<1>1. tok \in Token /\ key \in With(seen, tok.kid) /\ key # tok.signer
  BY DEF KeyInv, BadSignature
<1>2. CASE attempt = 1
  <2>1. steady => With(published, tok.kid) = {tok.signer}
    BY <1>1, TokenType DEF KeyInv, With
  <2>2. /\ jwks' = {} /\ fetchedAt' = None /\ seen' = published
        /\ attempt' = 2 /\ at' = "decode" /\ refresh' = FALSE
        /\ UNCHANGED <<now, published, changes, tok, failed, steady>>
    BY <1>2 DEF BadSignature, Retry, ReplaceClient
  <2>3. found' \in [Kid -> Key \cup {None}] /\ \A i \in Kid : found'[i] = None
    BY <1>2 DEF BadSignature, Retry, ReplaceClient
  <2> QED
    BY <1>1, <2>1, <2>2, <2>3
    DEF KeyInv, With, RotationIsSeen, AcceptedWasPublished
<1>3. CASE attempt # 1
  <2>1. ~steady
    BY <1>1, <1>3 DEF KeyInv
  <2> QED
    BY <1>1, <1>3, <2>1
    DEF KeyInv, BadSignature, Retry, client, With, RotationIsSeen,
        AcceptedWasPublished
<1> QED
  BY <1>2, <1>3

\* The steps of a decode.
LEMMA DecodeInv == ASSUME KeyInv, Decode PROVE KeyInv'
<1>1. CASE StartFetch
  BY <1>1 DEF KeyInv, StartFetch, Fresh, client, With, RotationIsSeen, AcceptedWasPublished
<1>2. CASE FetchFails
  BY <1>2 DEF KeyInv, FetchFails, With, RotationIsSeen, AcceptedWasPublished
<1>3. CASE CheckClaims
  <2>1. tok.signer \in seen /\ (at' = "refuse" => ~tok.claims) /\ at' \in {"accept", "refuse"}
    BY <1>3 DEF KeyInv, CheckClaims, With
  <2>2. UNCHANGED <<now, published, changes, jwks, fetchedAt, found, tok, key, attempt,
                    refresh, failed, steady, seen>>
    BY <1>3 DEF CheckClaims, client
  <2>3. RotationIsSeen' /\ AcceptedWasPublished'
    BY <2>1, <2>2 DEF RotationIsSeen, AcceptedWasPublished
  <2> QED
    BY <1>3, <2>1, <2>2, <2>3 DEF KeyInv, CheckClaims, With
<1> QED
  BY <1>1, <1>2, <1>3, FindCachedInv, FetchedInv, BadSignatureInv DEF Decode

\* A key is published only under a kid that is free: while a token's key stays,
\* no other takes its kid.
LEMMA PublishInv ==
  ASSUME KeyInv, NEW k \in Key, Publish(k)
  PROVE  KeyInv'
<1>1. steady => KidOf[k] # tok.kid
  BY TokenType DEF KeyInv, Publish, With
<1> QED
  BY <1>1 DEF KeyInv, Publish, client, call, With, RotationIsSeen, AcceptedWasPublished

\* The invariant of a token's way to its key.
THEOREM KeyInvariant == Spec => []KeyInv
<1>1. KeyInv /\ [Next]_vars => KeyInv'
  <2> SUFFICES ASSUME KeyInv, [Next]_vars
               PROVE  KeyInv'
    OBVIOUS
  <2>1. ASSUME NEW t \in Token, Validate(t)
        PROVE  KeyInv'
    BY <2>1, ValidateInv
  <2>2. CASE Decode
    BY <2>2, DecodeInv
  <2>3. ASSUME NEW k \in Key, Publish(k)
        PROVE  KeyInv'
    BY <2>3, PublishInv
  <2>4. ASSUME NEW k \in Key, Retire(k)
        PROVE  KeyInv'
    <3>1. /\ published' = published \ {k} /\ changes' = changes + 1
          /\ steady' = (steady /\ tok.signer # k)
          /\ UNCHANGED <<now, jwks, fetchedAt, found, at, tok, key, attempt,
                         refresh, failed, seen>>
      BY <2>4 DEF Retire, client, call
    <3>2. steady' \in BOOLEAN /\ (steady' => steady /\ tok.signer # k)
      BY <3>1
    <3> QED
      BY <3>1, <3>2 DEF KeyInv, With, RotationIsSeen, AcceptedWasPublished
  <2>5. CASE Tick
    BY <2>5 DEF KeyInv, Tick, client, call, With, RotationIsSeen, AcceptedWasPublished
  <2>6. CASE UNCHANGED vars
    BY <2>6 DEF KeyInv, vars, client, call, With, RotationIsSeen, AcceptedWasPublished
  <2> QED
    BY <2>1, <2>2, <2>3, <2>4, <2>5, <2>6 DEF Next
<1> QED
  BY <1>1, InitInv, PTL DEF Spec

\* However Keycloak rotates its keys, and whatever was cached before, a token
\* whose key stays published is refused only for its claims or when a fetch has failed.
THEOREM RotationIsAlwaysSeen == Spec => []RotationIsSeen
<1>1. KeyInv => RotationIsSeen
  BY DEF KeyInv
<1> QED
  BY <1>1, KeyInvariant, PTL

\* No token is accepted under a key older than the client that found it.
THEOREM AcceptedKeysWerePublished == Spec => []AcceptedWasPublished
<1>1. KeyInv => AcceptedWasPublished
  BY DEF KeyInv
<1> QED
  BY <1>1, KeyInvariant, PTL
=============================================================================
