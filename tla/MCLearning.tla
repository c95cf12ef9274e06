------------------------------ MODULE MCLearning ------------------------------
(***************************************************************************)
(* Three calls in two interleaved sessions, the last after a long pause,   *)
(* and two calls of one session.  The table has room for each call, or for *)
(* rows that are there again, which then make chains and ties of their     *)
(* own; a chain is shown without recurring (MinFrequency = 1).             *)
(***************************************************************************)
EXTENDS Learning, TLC

Call(t, s, i) == [tool |-> t, session |-> s, interval |-> i]

MCTool == {"price", "risk"}
MCHistories ==
  { << Call("price", 1, 2000), Call("price", 2, 2000), Call("risk", 1, 6000) >>,
    << Call("price", 1, 2000), Call("risk", 1, 2000) >> }

RequestSymmetry == Permutations(Requests)
=============================================================================
