---------------------------- MODULE PlanExecutor ----------------------------
(***************************************************************************)
(* execute_plan (executor/plan_executor.py): the groups of a plan are run  *)
(* in waves; a wave is every group whose dependencies have completed, and  *)
(* the next one is formed when the whole wave has ended.  All the calls of *)
(* a wave are in flight at once and end in any order.                      *)
(*                                                                         *)
(* A call is <<g, i>>, the i-th of group g.  A plan is a record            *)
(*   order    the groups, as the plan lists them                           *)
(*   deps     deps[g], the names of the groups g depends on                *)
(*   required required[g], for each call of g whether it is required       *)
(***************************************************************************)
EXTENDS Integers, SequencesExt

CONSTANT Plans

ASSUME PlansAssumption ==
  \A p \in Plans :
    /\ DOMAIN p.required = DOMAIN p.deps
    /\ \A g \in DOMAIN p.deps : p.required[g] \in Seq(BOOLEAN)
    /\ p.order \in Seq(DOMAIN p.deps) /\ IsInjective(p.order)
    /\ \A g \in DOMAIN p.deps : \E n \in DOMAIN p.order : p.order[n] = g

VARIABLES
  plan,
  strict,     \* not allow_partial_failure
  status,     \* "running", "returned", or how it raised: "deadlock", "aborted"
  wave,       \* the groups awaited by execute_plan
  completed,  \* completed_groups
  group,      \* group[g]: "waiting", "running", or "done": _execute_group returned
  call,       \* call[g][i]: "idle", "running", "ok" or "failed"
  results     \* all_results, group by group

vars == <<plan, strict, status, wave, completed, group, call, results>>

Groups == DOMAIN plan.deps
CallsOf(g) == DOMAIN plan.required[g]
-----------------------------------------------------------------------------
\* Variants: one dependency is enough; an unknown dependency is satisfied.
ReadyFirst(g, done) ==
  g \notin done /\ (plan.deps[g] = {} \/ plan.deps[g] \cap done # {})
ReadyKnown(g, done) == g \notin done /\ (plan.deps[g] \cap Groups) \subseteq done

\* The groups not executed whose dependencies are all in done.
Ready(g, done) == g \notin done /\ plan.deps[g] \subseteq done

\* Variants: the first call that ends ends the group; only success does.
EndedAny(g) == \E i \in CallsOf(g) : call[g][i] \in {"ok", "failed"}
EndedOk(g) == \A i \in CallsOf(g) : call[g][i] = "ok"

\* gather() of the calls of g returns: _execute_call never raises.
Ended(g) == \A i \in CallsOf(g) : call[g][i] \in {"ok", "failed"}

\* Variant: a failure aborts, required or not.
FatalAny(g) == strict /\ \E i \in CallsOf(g) : call[g][i] = "failed"

\* The group must raise PlanExecutionError.
Fatal(g) == strict /\ \E i \in CallsOf(g) : call[g][i] = "failed" /\ plan.required[g][i]

\* Variant: failed calls leave no result.
ResultsOfOk(g) == [name |-> g, outcomes |-> SelectSeq(call[g], LAMBDA o : o = "ok")]

\* The list a group returns: one result per call, in the order of the calls.
ResultsOf(g) == [name |-> g, outcomes |-> call[g]]

\* all_results is extended by the groups of the wave in the order of the plan.
Extended ==
  results \o FlattenSeq([n \in DOMAIN plan.order |->
    IF plan.order[n] \in wave THEN <<ResultsOf(plan.order[n])>> ELSE <<>>])

Done == completed \cup wave
-----------------------------------------------------------------------------
Init ==
  /\ plan \in Plans
  /\ strict \in BOOLEAN
  /\ status = "running"
  /\ wave = {} /\ completed = {}
  /\ group = [g \in Groups |-> "waiting"]
  /\ call = [g \in Groups |-> [i \in CallsOf(g) |-> "idle"]]
  /\ results = <<>>

\* execute_plan resumes, at its start or when every group of the wave is done,
\* books the wave and goes on to its next await, its return or its raise.
Resume ==
  /\ status = "running"
  /\ \A g \in wave : group[g] = "done"
  /\ completed' = Done
  /\ results' = Extended
  /\ UNCHANGED <<plan, strict>>

StartWave ==
  /\ Resume
  /\ \E g \in Groups : Ready(g, Done)
  /\ wave' = {g \in Groups : Ready(g, Done)}
  /\ group' = [g \in Groups |-> IF Ready(g, Done) THEN "running" ELSE group[g]]
  /\ call' = [g \in Groups |-> IF Ready(g, Done) THEN [i \in CallsOf(g) |-> "running"]
                                                 ELSE call[g]]
  /\ UNCHANGED status

Return ==
  /\ Resume
  /\ Groups \subseteq Done
  /\ status' = "returned"
  /\ wave' = {}
  /\ UNCHANGED <<group, call>>

Deadlock ==
  /\ Resume
  /\ ~ Groups \subseteq Done
  /\ \A g \in Groups : ~Ready(g, Done)
  /\ status' = "deadlock"
  /\ wave' = {}
  /\ UNCHANGED <<group, call>>

\* A call ends, also one left in flight when execute_plan has raised: gather()
\* does not cancel the siblings of the group that raised.
CallEnds(g, i) ==
  /\ call[g][i] = "running"
  /\ \E o \in {"ok", "failed"} : call' = [call EXCEPT ![g][i] = o]
  /\ UNCHANGED <<plan, strict, status, wave, completed, group, results>>

GroupReturns(g) ==
  /\ status = "running"
  /\ group[g] = "running" /\ Ended(g) /\ ~Fatal(g)
  /\ group' = [group EXCEPT ![g] = "done"]
  /\ UNCHANGED <<plan, strict, status, wave, completed, call, results>>

\* The first group to raise makes execute_plan raise.
GroupRaises(g) ==
  /\ status = "running"
  /\ group[g] = "running" /\ Ended(g) /\ Fatal(g)
  /\ status' = "aborted"
  /\ UNCHANGED <<plan, strict, wave, completed, group, call, results>>

Next ==
  \/ StartWave \/ Return \/ Deadlock
  \/ \E g \in Groups : \/ GroupReturns(g) \/ GroupRaises(g)
                       \/ \E i \in CallsOf(g) : CallEnds(g, i)

Spec == Init /\ [][Next]_vars

\* The event loop runs what is ready, and httpx ends every call (timeout=30.0).
FairSpec == Spec /\ WF_vars(Next)
-----------------------------------------------------------------------------
Outcome == {"idle", "running", "ok", "failed"}

TypeOK ==
  /\ plan \in Plans
  /\ strict \in BOOLEAN
  /\ status \in {"running", "returned", "deadlock", "aborted"}
  /\ group \in [Groups -> {"waiting", "running", "done"}]
  /\ DOMAIN call = Groups
  /\ \A g \in Groups : call[g] \in [CallsOf(g) -> Outcome]

\* A set of groups that contains each group whose dependencies it contains.
Closed(S) == \A g \in Groups : plan.deps[g] \subseteq S => g \in S

\* The groups that a chain of dependencies leads to: those in every closed set.
Orderable == {g \in Groups : \A S \in SUBSET Groups : Closed(S) => g \in S}

\* Where a group stands is where execute_plan has it, a group is done only when
\* its calls are, what was executed is closed under dependencies and in every
\* closed set.
ScheduleInv ==
  /\ TypeOK
  /\ wave \subseteq Groups /\ completed \subseteq Groups /\ wave \cap completed = {}
  /\ \A g \in Groups :
       /\ group[g] = "waiting" <=> g \notin Done
       /\ g \in completed => group[g] = "done"
       /\ group[g] = "waiting" => \A i \in CallsOf(g) : call[g][i] = "idle"
       /\ group[g] # "waiting" => \A i \in CallsOf(g) : call[g][i] # "idle"
       /\ group[g] = "done" => Ended(g) /\ ~Fatal(g)
       /\ g \in Done => plan.deps[g] \subseteq completed
  /\ Done \subseteq Orderable
  /\ status = "returned" => completed = Groups
  /\ status = "deadlock" => Closed(completed) /\ completed # Groups
  /\ status = "aborted" => \E g \in Groups : Fatal(g)

\* The results booked are those of the completed groups, each once and as its
\* calls ended, and none before one of a group it depends on.
ResultsInv ==
  /\ results \in Seq({ResultsOf(g) : g \in completed})
  /\ \A m, n \in DOMAIN results : results[m].name = results[n].name => m = n
  /\ \A g \in completed : \E n \in DOMAIN results : results[n] = ResultsOf(g)
  /\ \A m, n \in DOMAIN results : results[m].name \in plan.deps[results[n].name] => m < n

\* What makes the properties inductive.
ExecInv == ScheduleInv /\ ResultsInv

\* No call is in flight or has ended while a call of a group its own group
\* depends on has not: "a group will not start until all groups listed in
\* `dependencies` have completed".
DependenciesRespected ==
  \A g, d \in Groups :
    d \in plan.deps[g] /\ (\E i \in CallsOf(g) : call[g][i] # "idle") => Ended(d)

\* execute_plan returns every result: one per call, with the outcome the call
\* had, no group before one it depends on; and nothing is still in flight.
ResultsComplete ==
  status = "returned" =>
    /\ Len(results) = Len(plan.order)
    /\ \A g \in Groups : \E n \in 1..Len(results) :
         /\ results[n] = [name |-> g, outcomes |-> call[g]]
         /\ Ended(g)
         /\ \A m \in 1..Len(results) : results[m].name \in plan.deps[g] => m < n

\* The dependency deadlock is raised for exactly the plans that cannot be
\* executed, and not before everything that can be was.
DeadlockExact ==
  /\ status = "returned" => Orderable = Groups
  /\ status = "deadlock" => Orderable # Groups /\ completed = Orderable

\* A plan is aborted for a required call that failed and only in strict mode,
\* where no plan is returned with one.
RequiredFailures ==
  LET failed == \E g \in Groups : \E i \in CallsOf(g) :
                  plan.required[g][i] /\ call[g][i] = "failed"
  IN  /\ status = "aborted" => strict /\ failed
      /\ strict /\ failed => status # "returned"

\* execute_plan returns or raises, and leaves no call in flight for ever.
Terminates ==
  <>(status # "running" /\ \A g \in Groups : \A i \in CallsOf(g) : call[g][i] # "running")

\* The waves implement the schedule by dependencies.
Schedule == INSTANCE DependencySchedule WITH phase <- group, outcome <- status
ImplementsSchedule == Schedule!Spec
=============================================================================
