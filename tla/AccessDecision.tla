--------------------------- MODULE AccessDecision ---------------------------
(***************************************************************************)
(* What the gateway promises to the backends and to the callers, without   *)
(* saying how: a request is denied outright, or it is granted one of the   *)
(* accesses the realm allows; a backend is shown a granted request at most *)
(* once, under its caller's own subject, with a token for that backend or  *)
(* the caller's own; it is permitted only after the backend has seen it.   *)
(* Gateway.tla is shown to implement this module.                          *)
(***************************************************************************)
CONSTANTS
  Requests,   \* the HTTP requests callers make
  Grants,     \* the accesses the realm allows: records [sub, aud]
  Gateway,    \* the audience of a caller's own, broad token
  None        \* no access granted yet, nothing shown yet

VARIABLES
  asked,      \* asked[r]: the access r was granted, or None
  shown,      \* shown[r]: the subject and audience a backend saw for r, or None
  outcome     \* outcome[r]: what became of r

vars == <<asked, shown, outcome>>

Outcomes == {"pending", "deny", "permit", "error", "lost"}

Init ==
  /\ asked = [r \in Requests |-> None]
  /\ shown = [r \in Requests |-> None]
  /\ outcome = [r \in Requests |-> "pending"]

\* r is turned away before anything is done on its behalf.
Deny(r) ==
  /\ outcome[r] = "pending" /\ asked[r] = None
  /\ outcome' = [outcome EXCEPT ![r] = "deny"]
  /\ UNCHANGED <<asked, shown>>

\* r is found to be one of the accesses the realm allows.
Grant(r) ==
  /\ outcome[r] = "pending" /\ asked[r] = None
  /\ \E g \in Grants : asked' = [asked EXCEPT ![r] = g]
  /\ UNCHANGED <<shown, outcome>>

\* A backend sees r, with a token narrowed to it or with the caller's own.
Show(r) ==
  /\ outcome[r] = "pending" /\ asked[r] # None /\ shown[r] = None
  /\ \E a \in {asked[r].aud, Gateway} :
       shown' = [shown EXCEPT ![r] = [sub |-> asked[r].sub, aud |-> a]]
  /\ UNCHANGED <<asked, outcome>>

Permit(r) ==
  /\ outcome[r] = "pending" /\ shown[r] # None
  /\ outcome' = [outcome EXCEPT ![r] = "permit"]
  /\ UNCHANGED <<asked, shown>>

Fail(r) ==
  /\ outcome[r] = "pending" /\ asked[r] # None
  /\ outcome' = [outcome EXCEPT ![r] = "error"]
  /\ UNCHANGED <<asked, shown>>

\* The gateway stops: every granted request it was serving is lost at once.
LoseAll ==
  /\ outcome' = [r \in Requests |->
                   IF outcome[r] = "pending" /\ asked[r] # None
                   THEN "lost" ELSE outcome[r]]
  /\ UNCHANGED <<asked, shown>>

Next ==
  \/ \E r \in Requests : Deny(r) \/ Grant(r) \/ Show(r) \/ Permit(r) \/ Fail(r)
  \/ LoseAll

Spec == Init /\ [][Next]_vars
=============================================================================
