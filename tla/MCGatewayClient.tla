-------------------------- MODULE MCGatewayClient --------------------------
(***************************************************************************)
(* Two calls over one client; a token lives three units and is refreshed *)
(* one unit early, so that it can expire in flight.                        *)
(***************************************************************************)
EXTENDS GatewayClient

CONSTANTS c1, c2

MCCalls == {c1, c2}
=============================================================================
