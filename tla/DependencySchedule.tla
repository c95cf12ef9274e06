------------------------- MODULE DependencySchedule -------------------------
(***************************************************************************)
(* What the executor of a plan promises (planner/models.py,                *)
(* ToolCallGroup): a group does not start before every group it depends on *)
(* has completed, a plan is done when all its groups are, and it is given  *)
(* up only for a failed group or when no group can ever start.             *)
(***************************************************************************)
CONSTANT Plans  \* the plans, each with the groups' dependencies, plan.deps

VARIABLES
  plan,
  phase,   \* phase[g]: "waiting", "running" or "done"
  outcome  \* "running", "returned", "deadlock" or "aborted"

vars == <<plan, phase, outcome>>

Groups == DOMAIN plan.deps

In(p) == {g \in Groups : phase[g] = p}

Startable(g) == phase[g] = "waiting" /\ plan.deps[g] \subseteq In("done")

Init ==
  /\ plan \in Plans
  /\ phase = [g \in Groups |-> "waiting"]
  /\ outcome = "running"

\* Groups that depend on nothing unfinished start together.
Start(G) ==
  /\ outcome = "running"
  /\ \A g \in G : Startable(g)
  /\ phase' = [g \in Groups |-> IF g \in G THEN "running" ELSE phase[g]]
  /\ UNCHANGED <<plan, outcome>>

Finish(g) ==
  /\ outcome = "running" /\ phase[g] = "running"
  /\ phase' = [phase EXCEPT ![g] = "done"]
  /\ UNCHANGED <<plan, outcome>>

Return ==
  /\ outcome = "running" /\ In("done") = Groups
  /\ outcome' = "returned"
  /\ UNCHANGED <<plan, phase>>

Abort(g) ==
  /\ outcome = "running" /\ phase[g] = "running"
  /\ outcome' = "aborted"
  /\ UNCHANGED <<plan, phase>>

\* Nothing runs, nothing can start, and something is left.
Deadlock ==
  /\ outcome = "running"
  /\ In("running") = {} /\ In("waiting") # {}
  /\ \A g \in Groups : ~Startable(g)
  /\ outcome' = "deadlock"
  /\ UNCHANGED <<plan, phase>>

Next ==
  \/ \E G \in SUBSET Groups : Start(G)
  \/ \E g \in Groups : Finish(g) \/ Abort(g)
  \/ Return \/ Deadlock

Spec == Init /\ [][Next]_vars
=============================================================================
