--------------------------- MODULE GatewayClient ---------------------------
(***************************************************************************)
(* GatewayClient (executor/gateway_client.py): the calls of a plan share   *)
(* one client and its cached token.  Everything between two awaits is one  *)
(* step; the token may be replaced or discarded by another call at every   *)
(* await of this one.                                                      *)
(***************************************************************************)
EXTENDS Integers

CONSTANTS
  Calls,     \* the calls made through the client
  Lifetime,  \* the lifetime of a token, which Keycloak reports as expires_in
  Buffer,    \* _TOKEN_REFRESH_BUFFER_S
  MaxTime,   \* bound on the clock
  None

Token == [iss : 0..MaxTime, exp : Nat]

ASSUME ClientAssumption ==
  /\ Lifetime \in Nat \ {0} /\ Buffer \in Nat /\ MaxTime \in Nat
  /\ None \notin Token /\ None \notin {"ok", "error"}

VARIABLES
  now,
  accessToken,  \* _access_token, a token or None
  expiresAt,    \* _token_expires_at
  pc,           \* pc[c]: "idle"; awaiting Keycloak ("fetch", then "issued": the
                \* token is on its way); awaiting the gateway ("post", then
                \* "answered"); "done"
  try,          \* try[c], 1 or, after a 401, 2
  began,        \* began[c], when _get_token of c last read the clock
  tok,          \* tok[c], the token c got or was issued
  code,       \* code[c], the status the gateway answered with
  executed,     \* executed[c], how often a backend has executed the tool
  result        \* result[c], how call_tool ended: "ok" or "error"

clientVars == <<now, accessToken, expiresAt, pc, try, began, tok, code, executed, result>>
-----------------------------------------------------------------------------
ClientInit ==
  /\ now = 0
  /\ accessToken = None /\ expiresAt = 0
  /\ pc = [c \in Calls |-> "idle"]
  /\ try = [c \in Calls |-> 1]
  /\ began = [c \in Calls |-> 0]
  /\ tok = [c \in Calls |-> None]
  /\ code = [c \in Calls |-> 0]
  /\ executed = [c \in Calls |-> 0]
  /\ result = [c \in Calls |-> None]

\* Variant: a token is used until it expires.
UsableNoBuffer == accessToken # None /\ now < expiresAt

\* The cached token need not be refreshed yet.
Usable == accessToken # None /\ now < expiresAt - Buffer

\* The expiry counts from before the fetch.
Expiry(c) == began[c] + Lifetime

\* Variants: any failure is retried; a 401 is retried for ever.
RetriedAny(c) == code[c] >= 400 /\ try[c] = 1
RetriedAlways(c) == code[c] = 401

\* A 401 is retried once.
Retried(c) == code[c] = 401 /\ try[c] = 1

\* Variant: the token a 401 was answered to stays in the cache.
RefreshKeep(c) ==
  /\ UNCHANGED accessToken
  /\ began' = [began EXCEPT ![c] = now]
  /\ tok' = [tok EXCEPT ![c] = IF Usable THEN accessToken ELSE None]
  /\ pc' = [pc EXCEPT ![c] = IF Usable THEN "post" ELSE "fetch"]

\* The cached token is dropped, whichever it is by now, so that _get_token
\* fetches one.
Refresh(c) ==
  /\ accessToken' = None
  /\ began' = [began EXCEPT ![c] = now]
  /\ tok' = [tok EXCEPT ![c] = None]
  /\ pc' = [pc EXCEPT ![c] = "fetch"]

\* call_tool returns or raises; its locals are gone.
Finish(c, r) ==
  /\ pc' = [pc EXCEPT ![c] = "done"]
  /\ result' = [result EXCEPT ![c] = r]
  /\ try' = [try EXCEPT ![c] = 1]
  /\ began' = [began EXCEPT ![c] = 0]
  /\ tok' = [tok EXCEPT ![c] = None]
  /\ code' = [code EXCEPT ![c] = 0]
-----------------------------------------------------------------------------
\* call_tool begins and finds a token in the cache ...
CallCached(c) ==
  /\ pc[c] = "idle" /\ Usable
  /\ tok' = [tok EXCEPT ![c] = accessToken]
  /\ pc' = [pc EXCEPT ![c] = "post"]
  /\ UNCHANGED <<now, accessToken, expiresAt, try, began, code, executed, result>>

\* ... or asks Keycloak for one; nothing keeps two calls from doing so at once.
CallFetch(c) ==
  /\ pc[c] = "idle" /\ ~Usable
  /\ began' = [began EXCEPT ![c] = now]
  /\ pc' = [pc EXCEPT ![c] = "fetch"]
  /\ UNCHANGED <<now, accessToken, expiresAt, try, tok, code, executed, result>>

\* Keycloak issues a token.
Issue(c) ==
  /\ pc[c] = "fetch"
  /\ tok' = [tok EXCEPT ![c] = [iss |-> now, exp |-> now + Lifetime]]
  /\ pc' = [pc EXCEPT ![c] = "issued"]
  /\ UNCHANGED <<now, accessToken, expiresAt, try, began, code, executed, result>>

\* The response arrives: the pair is stored, over what others stored meanwhile,
\* and the call goes on with its own token.
TokenArrives(c) ==
  /\ pc[c] = "issued"
  /\ accessToken' = tok[c]
  /\ expiresAt' = Expiry(c)
  /\ pc' = [pc EXCEPT ![c] = "post"]
  /\ UNCHANGED <<now, try, began, tok, code, executed, result>>

\* Keycloak refuses, answers without a token, or the connection fails.
FetchFails(c) ==
  /\ pc[c] \in {"fetch", "issued"}
  /\ Finish(c, "error")
  /\ UNCHANGED <<now, accessToken, expiresAt, executed>>

\* The gateway refuses the token, which it may do to a valid one (its key set
\* may be unavailable): nothing is executed.
Refuse(c) ==
  /\ pc[c] = "post"
  /\ code' = [code EXCEPT ![c] = 401]
  /\ pc' = [pc EXCEPT ![c] = "answered"]
  /\ UNCHANGED <<now, accessToken, expiresAt, try, began, tok, executed, result>>

\* The gateway accepts an unexpired token: the tool is executed and its result
\* or a backend's failure is on its way, or the request got no further.
Accept(c) ==
  /\ pc[c] = "post" /\ now < tok[c].exp
  /\ \/ \E s \in {200, 502} : /\ code' = [code EXCEPT ![c] = s]
                              /\ executed' = [executed EXCEPT ![c] = @ + 1]
     \/ code' = [code EXCEPT ![c] = 502] /\ UNCHANGED executed
  /\ pc' = [pc EXCEPT ![c] = "answered"]
  /\ UNCHANGED <<now, accessToken, expiresAt, try, began, tok, result>>

Retry(c) ==
  /\ pc[c] = "answered" /\ Retried(c)
  /\ Refresh(c)
  /\ try' = [try EXCEPT ![c] = 2]
  /\ code' = [code EXCEPT ![c] = 0]
  /\ UNCHANGED <<now, expiresAt, executed, result>>

\* An HTTP error, or a JSON-RPC error in a 200, raises GatewayError.
Conclude(c) ==
  /\ pc[c] = "answered" /\ ~Retried(c)
  /\ \/ code[c] = 200 /\ Finish(c, "ok")
     \/ Finish(c, "error")
  /\ UNCHANGED <<now, accessToken, expiresAt, executed>>

\* httpx raises (timeout=30.0), perhaps when the tool has been executed.
PostFails(c) ==
  /\ pc[c] \in {"post", "answered"}
  /\ Finish(c, "error")
  /\ UNCHANGED <<now, accessToken, expiresAt, executed>>

Tick ==
  /\ now < MaxTime
  /\ now' = now + 1
  /\ UNCHANGED <<accessToken, expiresAt, pc, try, began, tok, code, executed, result>>

Progress(c) ==
  \/ CallCached(c) \/ CallFetch(c)
  \/ Issue(c) \/ TokenArrives(c) \/ FetchFails(c)
  \/ Refuse(c) \/ Accept(c) \/ PostFails(c)
  \/ Retry(c) \/ Conclude(c)

ClientNext == Tick \/ \E c \in Calls : Progress(c)

ClientSpec == ClientInit /\ [][ClientNext]_clientVars

\* Every await of a call ends: Keycloak and the gateway answer or httpx raises.
ClientFairSpec == ClientSpec /\ \A c \in Calls : WF_clientVars(Progress(c))
-----------------------------------------------------------------------------
ClientTypeOK ==
  /\ now \in 0..MaxTime
  /\ accessToken \in Token \cup {None} /\ expiresAt \in Nat
  /\ pc \in [Calls -> {"idle", "fetch", "issued", "post", "answered", "done"}]
  /\ try \in [Calls -> {1, 2}]
  /\ began \in [Calls -> 0..MaxTime]
  /\ tok \in [Calls -> Token \cup {None}]
  /\ code \in [Calls -> {0, 200, 401, 502}]
  /\ executed \in [Calls -> Nat]
  /\ result \in [Calls -> {"ok", "error", None}]

\* A token and the expiry believed of it are of one fetch, and the belief is
\* never later than the truth, whatever the fetches of other calls did between.
PairConsistent ==
  accessToken # None => expiresAt <= accessToken.exp

\* A retry carries a token issued after the 401, never the one refused nor one
\* another call had fetched before.
RetryIsFresh ==
  \A c \in Calls :
    pc[c] \in {"post", "answered"} /\ try[c] = 2 => tok[c].iss >= began[c]

\* No tool is executed twice by one call, and a call that returns was executed.
AtMostOnce ==
  \A c \in Calls : executed[c] <= 1 /\ (result[c] = "ok" => executed[c] = 1)

\* What makes these inductive.
ClientInv ==
  /\ ClientTypeOK /\ PairConsistent /\ RetryIsFresh
  /\ \A c \in Calls :
       /\ began[c] <= now
       /\ pc[c] = "idle" => try[c] = 1
       /\ pc[c] = "issued" => tok[c].iss >= began[c]
       /\ pc[c] \in {"issued", "post", "answered"} =>
            tok[c] # None /\ tok[c].exp = tok[c].iss + Lifetime
       /\ pc[c] = "answered" =>
            /\ code[c] # 0
            /\ executed[c] <= 1 /\ (code[c] = 200 => executed[c] = 1)
            /\ code[c] = 401 => executed[c] = 0
       /\ pc[c] \in {"idle", "fetch", "issued", "post"} => executed[c] = 0
       /\ pc[c] # "done" => result[c] = None
  /\ accessToken # None => accessToken.exp = accessToken.iss + Lifetime
  /\ AtMostOnce

\* A call begins with a cached token only if the token outlives the buffer.
SentInTime ==
  [][\A c \in Calls :
       pc[c] = "idle" /\ pc'[c] = "post" => now + Buffer < tok'[c].exp]_clientVars

\* Every call ends, with at most one retry.
EveryCallEnds == \A c \in Calls : <>(pc[c] = "done")
=============================================================================
