------------------------------ MODULE KeyCache ------------------------------
(***************************************************************************)
(* How the gateway comes by the key a token was signed with, while         *)
(* Keycloak rotates its keys (auth/jwt_validator.py: validate, _decode).   *)
(*                                                                         *)
(* validate awaits nothing: it holds the event loop while PyJWKClient      *)
(* fetches, so there is one validation at a time.  Keycloak and the clock  *)
(* go on between its fetches.                                              *)
(*                                                                         *)
(* at "idle"    no token is being validated                                *)
(*    "decode"  in _decode, before get_signing_key_from_jwt                *)
(*    "fetch"   in get_signing_key, a fetch of the key set is under way    *)
(*    "verify"  in jwt.decode with the key that was found                  *)
(*    "accept", "refuse"   how validate ended                              *)
(***************************************************************************)
EXTENDS Integers

CONSTANTS
  Key,         \* signing keys Keycloak may have
  Kid,
  KidOf,       \* KidOf[k], the key id k is published under
  Lifespan,    \* jwks_cache_ttl
  MaxTime,     \* bound on the clock
  MaxChanges,  \* bound on what Keycloak publishes and retires
  None

ASSUME KeyAssumption ==
  /\ KidOf \in [Key -> Kid]
  /\ Lifespan \in Nat /\ MaxTime \in Nat /\ MaxChanges \in Nat
  /\ None \notin Key \cup Nat

VARIABLES
  now,
  published,  \* the keys Keycloak publishes
  changes,    \* how often it has changed them
  jwks,       \* the key set _jwk_client holds
  fetchedAt,  \* when it was fetched, None if there is none
  found,      \* found[i], the key get_signing_key's own cache has for kid i
  at,
  tok,        \* the token being validated: its kid, its signer, its claims
  key,        \* the key found for it
  attempt,    \* 1, or 2 after the client was replaced
  refresh,    \* the fetch under way is the one for a kid that was not found
  failed,     \* a fetch for this token has failed
  steady,     \* the signer of this token has been published throughout
  seen        \* the keys published at some time since the client was made

client == <<jwks, fetchedAt, found>>
call == <<at, tok, key, attempt, refresh, failed>>
vars == <<now, published, changes, client, call, steady, seen>>

\* A token the realm signed names its key; one it did not may name any.  Its claims
\* (exp, nbf, iss, aud) are those _decode asks for, or not.
Token == {[kid |-> KidOf[k], signer |-> k, claims |-> c] : k \in Key, c \in BOOLEAN}
           \cup [kid: Kid, signer: {None}, claims: BOOLEAN]

With(keys, i) == {k \in keys : KidOf[k] = i}
-----------------------------------------------------------------------------
Init ==
  /\ now = 0
  /\ published \in {S \in SUBSET Key : \E k \in Key : S = {k}}
  /\ changes = 0
  /\ jwks = {} /\ fetchedAt = None
  /\ found = [i \in Kid |-> None]
  /\ at = "idle"
  /\ tok = None /\ key = None
  /\ attempt = 1 /\ refresh = FALSE /\ failed = FALSE
  /\ steady = FALSE
  /\ seen = published

\* validate(token) is called.
Validate(t) ==
  /\ at \in {"idle", "accept", "refuse"}
  /\ at' = "decode"
  /\ tok' = t
  /\ key' = None /\ attempt' = 1 /\ refresh' = FALSE /\ failed' = FALSE
  /\ steady' = (t.signer \in published)
  /\ UNCHANGED <<now, published, changes, client, seen>>

Fresh == fetchedAt # None /\ now <= fetchedAt + Lifespan

\* The key of the token's kid is at hand: cached by get_signing_key, for good,
\* or in a key set that has not expired.
FindCached ==
  /\ at = "decode"
  /\ IF found[tok.kid] # None THEN key' = found[tok.kid]
     ELSE Fresh /\ key' \in With(jwks, tok.kid)
  /\ found' = [found EXCEPT ![tok.kid] = key']
  /\ at' = "verify"
  /\ UNCHANGED <<now, published, changes, jwks, fetchedAt, tok, attempt,
                 refresh, failed, steady, seen>>

\* It is not: the set is fetched, again if the one at hand does not have it.
StartFetch ==
  /\ at = "decode"
  /\ found[tok.kid] = None
  /\ Fresh => With(jwks, tok.kid) = {}
  /\ at' = "fetch"
  /\ refresh' = Fresh
  /\ UNCHANGED <<now, published, changes, client, tok, key, attempt, failed,
                 steady, seen>>

\* A set that was not fetched for the kid's sake is fetched once more.
MayRefresh == ~refresh

\* The set arrives: the key is in it, or one more fetch is due, or there is none.
Fetched ==
  /\ at = "fetch"
  /\ jwks' = published /\ fetchedAt' = now
  /\ IF With(published, tok.kid) # {}
     THEN /\ key' \in With(published, tok.kid)
          /\ found' = [found EXCEPT ![tok.kid] = key']
          /\ at' = "verify" /\ UNCHANGED refresh
     ELSE /\ IF MayRefresh THEN refresh' = TRUE /\ UNCHANGED at
                           ELSE at' = "refuse" /\ UNCHANGED refresh
          /\ UNCHANGED <<key, found>>
  /\ UNCHANGED <<now, published, changes, tok, attempt, failed, steady, seen>>

\* The fetch raises: the set that was cached is dropped with it.
FetchFails ==
  /\ at = "fetch"
  /\ jwks' = {} /\ fetchedAt' = None
  /\ failed' = TRUE
  /\ at' = "refuse"
  /\ UNCHANGED <<now, published, changes, found, tok, key, attempt, refresh,
                 steady, seen>>

\* The signature is good: the claims decide.
CheckClaims ==
  /\ at = "verify" /\ key = tok.signer
  /\ at' = IF tok.claims THEN "accept" ELSE "refuse"
  /\ UNCHANGED <<now, published, changes, client, tok, key, attempt, refresh,
                 failed, steady, seen>>

\* Variants: only the key set is dropped; the old client is kept.
ReplaceClientSetOnly ==
  jwks' = {} /\ fetchedAt' = None /\ UNCHANGED found /\ seen' = published
ReplaceClientNot == UNCHANGED <<client, seen>>

\* A new PyJWKClient, with nothing cached.
ReplaceClient ==
  /\ jwks' = {} /\ fetchedAt' = None
  /\ found' = [i \in Kid |-> None]
  /\ seen' = published

\* Variant: every bad signature is tried again.
RetryAlways == TRUE

\* validate decodes a second time, and not a third.
Retry == attempt = 1

\* InvalidSignatureError: once with the keys cached, and once with new ones.
BadSignature ==
  /\ at = "verify" /\ key # tok.signer
  /\ IF Retry
     THEN /\ ReplaceClient
          /\ attempt' = 2 /\ at' = "decode" /\ key' = None /\ refresh' = FALSE
     ELSE /\ at' = "refuse"
          /\ UNCHANGED <<client, seen, attempt, key, refresh>>
  /\ UNCHANGED <<now, published, changes, tok, failed, steady>>

-----------------------------------------------------------------------------
\* Keycloak publishes a key under a kid it does not use, or retires one; a realm
\* that is imported again may use a kid for another key.
Publish(k) ==
  /\ changes < MaxChanges
  /\ With(published, KidOf[k]) = {}
  /\ published' = published \cup {k}
  /\ seen' = seen \cup {k}
  /\ changes' = changes + 1
  /\ UNCHANGED <<now, client, call, steady>>

Retire(k) ==
  /\ changes < MaxChanges
  /\ k \in published
  /\ published' = published \ {k}
  /\ steady' = (steady /\ tok.signer # k)
  /\ changes' = changes + 1
  /\ UNCHANGED <<now, client, call, seen>>

Tick == now < MaxTime /\ now' = now + 1
        /\ UNCHANGED <<published, changes, client, call, steady, seen>>

Decode == FindCached \/ StartFetch \/ Fetched \/ FetchFails \/ CheckClaims \/ BadSignature

Next ==
  \/ \E t \in Token : Validate(t)
  \/ Decode
  \/ \E k \in Key : Publish(k) \/ Retire(k)
  \/ Tick

Spec == Init /\ [][Next]_vars

\* The process runs, and urllib gives up on a fetch after its timeout.
FairSpec == Spec /\ WF_vars(Decode)
-----------------------------------------------------------------------------
\* A token whose key Keycloak has published throughout is refused only for its
\* claims or when a fetch failed, whatever is cached from before the rotation: a new
\* kid, and a kid that was used before, are both found (validate's two attempts).
RotationIsSeen == at = "refuse" /\ steady => failed \/ ~tok.claims

\* A token is accepted only if its signer's key has been published at some time
\* since the client was made: replacing the client forgets every older key.
AcceptedWasPublished == at = "accept" => tok.signer \in seen

\* What the steps preserve: one key to a kid, nothing cached that was not
\* published since the client was made, and a second decode that can find no key
\* but the signer's.
KeyInv ==
  /\ now \in Nat /\ changes \in Nat
  /\ published \subseteq seen /\ seen \subseteq Key
  /\ \A k, l \in published : KidOf[k] = KidOf[l] => k = l
  /\ jwks \subseteq seen
  /\ fetchedAt \in Nat \cup {None}
  /\ found \in [Kid -> Key \cup {None}]
  /\ \A i \in Kid : found[i] # None => found[i] \in With(seen, i)
  /\ at \in {"idle", "decode", "fetch", "verify", "accept", "refuse"}
  /\ at # "idle" => tok \in Token
  /\ at = "verify" => key \in With(seen, tok.kid)
  /\ attempt \in {1, 2}
  /\ refresh \in BOOLEAN /\ failed \in BOOLEAN /\ steady \in BOOLEAN
  /\ steady => at # "idle" /\ tok.signer \in published
  /\ steady /\ attempt = 2 => With(seen, tok.kid) = {tok.signer}
  /\ RotationIsSeen
  /\ AcceptedWasPublished

\* Every validation ends, after at most two decodes of two fetches each.
ValidationEnds == at = "decode" ~> at \in {"accept", "refuse"}
=============================================================================
