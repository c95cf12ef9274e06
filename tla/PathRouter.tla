----------------------------- MODULE PathRouter -----------------------------
(***************************************************************************)
(* Which row of config/routes.yaml a request's path belongs to, and the    *)
(* path its backend is asked for (routing/path_router.py).  Paths and      *)
(* prefixes are sequences of characters, of which only the slash is told   *)
(* from the others.                                                        *)
(***************************************************************************)
EXTENDS Integers, Sequences

CONSTANTS
  Route,       \* the rows of config/routes.yaml
  Char,
  Slash,
  PathPrefix,  \* PathPrefix[p], the path_prefix of route p
  SortedRoutes,\* PathRouter._routes
  Paths,       \* the paths requests ask for
  None

Position == 1..Len(SortedRoutes)

\* What sorted() leaves in _routes: every route, the longest prefix first; a
\* path_prefix is written as in routes.yaml, one slash and no other around it.
ASSUME RouterAssumption ==
  /\ Slash \in Char
  /\ Paths \subseteq Seq(Char)
  /\ PathPrefix \in [Route -> Seq(Char)]
  /\ \A p \in Route :
       /\ Len(PathPrefix[p]) > 1
       /\ PathPrefix[p][1] = Slash
       /\ PathPrefix[p][2] # Slash
       /\ PathPrefix[p][Len(PathPrefix[p])] # Slash
  /\ SortedRoutes \in Seq(Route)
  /\ \A p \in Route : \E i \in Position : SortedRoutes[i] = p
  /\ \A i, j \in Position : i < j =>
       Len(PathPrefix[SortedRoutes[j]]) <= Len(PathPrefix[SortedRoutes[i]])
-----------------------------------------------------------------------------
\* strip("/"): the slashes at both ends go.
Kept(s) == {i \in 1..Len(s) : s[i] # Slash}
Strip(s) ==
  IF Kept(s) = {} THEN <<>>
  ELSE SubSeq(s, CHOOSE i \in Kept(s) : \A j \in Kept(s) : i <= j,
                 CHOOSE i \in Kept(s) : \A j \in Kept(s) : j <= i)

StartsWith(s, t) == Len(t) <= Len(s) /\ SubSeq(s, 1, Len(t)) = t

\* Variant: the prefix need not end where a segment ends.
MatchesAnywhere(p, x) == StartsWith(Strip(x), Strip(PathPrefix[p]))

\* The test match() makes of one route.
Matches(p, x) ==
  \/ Strip(x) = Strip(PathPrefix[p])
  \/ StartsWith(Strip(x), Append(Strip(PathPrefix[p]), Slash))

\* match: the first route of the table that passes the test, or None.
Hits(x) == {i \in Position : Matches(SortedRoutes[i], x)}
Match(x) ==
  IF Hits(x) = {} THEN None
  ELSE SortedRoutes[CHOOSE i \in Hits(x) : \A j \in Hits(x) : i <= j]

\* get_backend_path: what is left of the path after the prefix.
BackendPath(x, p) ==
  LET clean == Strip(x)
      remainder == SubSeq(clean, Len(Strip(PathPrefix[p])) + 1, Len(clean))
  IN IF remainder = <<>> THEN <<Slash>>
     ELSE IF remainder[1] = Slash THEN remainder ELSE <<Slash>> \o remainder
-----------------------------------------------------------------------------
\* The prefix of p is the whole of x, or its first segments.
Covers(p, x) ==
  \E k \in 0..Len(Strip(x)) :
    /\ SubSeq(Strip(x), 1, k) = Strip(PathPrefix[p])
    /\ k = Len(Strip(x)) \/ Strip(x)[k + 1] = Slash
=============================================================================
