----------------------------- MODULE MCKeyCache -----------------------------
(***************************************************************************)
(* Three keys, two of which share a kid, and time for a key set to expire. *)
(***************************************************************************)
EXTENDS KeyCache

MCKey == {"k1", "k2", "k3"}
MCKid == {"i", "j"}
MCKidOf == [k \in MCKey |-> IF k = "k2" THEN "j" ELSE "i"]
=============================================================================
