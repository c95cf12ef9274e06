-------------------------- MODULE MCToolAggregator --------------------------
(***************************************************************************)
(* Two callers, of the same scopes or not, two backends that are redeployed*)
(* once each, and a clock that outlasts an entry.                          *)
(***************************************************************************)
EXTENDS ToolAggregator

CONSTANTS r1, r2

MCRequests == {r1, r2}
MCRoute == {"bloomberg", "risk"}
MCRouteScope == [b \in MCRoute |-> IF b = "risk" THEN "risk:read" ELSE "bloomberg:read"]
MCScopeSets == {{}, {"bloomberg:read"}, {"bloomberg:read", "risk:read"}}
=============================================================================
