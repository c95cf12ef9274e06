----------------------------- MODULE MCGateway ------------------------------
(***************************************************************************)
(* Two logins of different subjects and scopes, a token the realm did not  *)
(* sign, two routes, and a clock long enough for tokens and cache entries  *)
(* to expire at every await.                                               *)
(***************************************************************************)
EXTENDS Gateway

CONSTANTS r1, r2, alice, bob, tAlice, tBob, tForged, bloomberg, risk

MCRequests == {r1, r2}
MCToken == {tAlice, tBob, tForged}
MCGenuine == {tAlice, tBob}
MCSubject == {alice, bob}
MCSubOf == [t \in MCToken |-> IF t = tBob THEN bob ELSE alice]
MCScope == {"bloomberg:read", "risk:read"}
MCScopesOf ==
  [t \in MCToken |-> IF t = tAlice THEN {"bloomberg:read"} ELSE MCScope]
MCExpOf == [t \in MCToken |-> IF t = tBob THEN 2 ELSE 3]
MCRoute == {bloomberg, risk}
\* One prefix below the other; a path that is a prefix, one that only looks as if
\* it were below the longer, one that only looks as if it were below the shorter.
MCChar == {"/", "b", "r", "m"}
MCPathPrefix ==
  [p \in MCRoute |-> IF p = risk THEN <<"/", "b", "/", "r">> ELSE <<"/", "b">>]
MCSortedRoutes == <<risk, bloomberg>>
MCPaths == {<<"/", "b", "/", "r">>, <<"/", "b", "/", "r", "m", "/">>, <<"/", "b", "m">>}
MCRouteScope ==
  [p \in MCRoute |-> IF p = risk THEN "risk:read" ELSE "bloomberg:read"]
MCAudience == {"bloomberg-mcp", "risk-mcp"}
MCRouteAud ==
  [p \in MCRoute |-> IF p = risk THEN "risk-mcp" ELSE "bloomberg-mcp"]
MCLifespans == {1, 3}
=============================================================================
