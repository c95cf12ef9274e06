------------------------- MODULE MCCognitiveServer -------------------------
(***************************************************************************)
(* One PM, whose rows and models everything competes for: two requests, a  *)
(* batch of up to two events, a crash.                                     *)
(***************************************************************************)
EXTENDS CognitiveServer

CONSTANTS alice, r1, r2, b1

MCPM == {alice}
MCRequests == {r1, r2}
MCBatches == {b1}
=============================================================================
