--------------------------- MODULE ExecutorProofs ---------------------------
(***************************************************************************)
(* The two parts of the orchestrator's executor package: execute_plan, and the*)
(* client its calls share.                                                 *)
(***************************************************************************)
EXTENDS PlanExecutor, GatewayClient, FoldFacts
-----------------------------------------------------------------------------
(***************************************************************************)
(* THE PLAN EXECUTOR.  ExecInv is inductive whatever the plans are, cyclic ones*)
(* and ones with unknown dependencies included: first ScheduleInv, then, given*)
(* it, ResultsInv.  The executor's safety properties and that it implements*)
(* DependencySchedule follow.                                              *)
(***************************************************************************)

\* Where the groups stand when execute_plan is called: nothing has been executed.
LEMMA InitSchedule == Init => ScheduleInv
<1> SUFFICES ASSUME Init PROVE ScheduleInv
  OBVIOUS
<1>1. TypeOK
  BY DEF Init, TypeOK, Outcome
<1>2. \A g \in Groups : call[g] = [i \in CallsOf(g) |-> "idle"] /\ group[g] = "waiting"
  BY DEF Init
<1> QED
  BY <1>1, <1>2 DEF Init, ScheduleInv, Done, Orderable

\* A group whose dependencies are all orderable is orderable.
LEMMA OrderableClosed ==
  ASSUME NEW g \in Groups, plan.deps[g] \subseteq Orderable
  PROVE  g \in Orderable
  BY DEF Orderable, Closed

\* The orderable groups lie in every closed set of groups.
LEMMA OrderableLeast ==
  ASSUME NEW S \in SUBSET Groups, Closed(S)
  PROVE  Orderable \subseteq S
  BY DEF Orderable

\* Every step of execute_plan, of a group and of a call preserves where the groups
\* stand.
LEMMA StepSchedule == ScheduleInv /\ [Next]_vars => ScheduleInv'
<1> SUFFICES ASSUME ScheduleInv, [Next]_vars PROVE ScheduleInv'
  OBVIOUS
<1> USE DEF ScheduleInv, TypeOK, Outcome
<1> plan' = plan /\ strict' = strict
  BY DEF Next, vars, StartWave, Return, Deadlock, Resume, GroupReturns, GroupRaises, CallEnds
<1> Groups' = Groups /\ \A g \in Groups : CallsOf(g)' = CallsOf(g)
  BY DEF Groups, CallsOf
<1> Orderable' = Orderable
  BY DEF Orderable, Closed
<1>1. CASE StartWave
  BY <1>1, OrderableClosed DEF StartWave, Resume, Ready, Done, Ended, Fatal, Closed
<1>2. CASE Return
  BY <1>2 DEF Return, Resume, Done, Ended, Fatal, Closed
<1>3. CASE Deadlock
  BY <1>3 DEF Deadlock, Resume, Ready, Done, Ended, Fatal, Closed
<1>4. ASSUME NEW g \in Groups, NEW i \in CallsOf(g), CallEnds(g, i) PROVE ScheduleInv'
  BY <1>4 DEF CallEnds, Done, Ended, Fatal, Closed
<1>5. ASSUME NEW g \in Groups, GroupReturns(g) PROVE ScheduleInv'
  BY <1>5 DEF GroupReturns, Done, Ended, Fatal, Closed
<1>6. ASSUME NEW g \in Groups, GroupRaises(g) PROVE ScheduleInv'
  BY <1>6 DEF GroupRaises, Done, Ended, Fatal, Closed
<1>7. CASE UNCHANGED vars
  BY <1>7 DEF vars, Done, Ended, Fatal, Closed
<1> QED
  BY <1>1, <1>2, <1>3, <1>4, <1>5, <1>6, <1>7 DEF Next

-----------------------------------------------------------------------------
\* What the wave adds to all_results: the results of its groups, in the order of
\* the plan, each once.
LEMMA WaveResults ==
  ASSUME plan \in Plans, wave \subseteq Groups
  PROVE  \E more \in Seq({ResultsOf(g) : g \in wave}) :
           /\ Extended = results \o more
           /\ \A g \in wave : \E n \in DOMAIN more : more[n] = ResultsOf(g)
           /\ \A m, n \in DOMAIN more : more[m].name = more[n].name => m = n
<1> DEFINE f == [g \in Groups |-> ResultsOf(g)]
           more == Kept(plan.order, wave, f)
<1>1. /\ plan.order \in Seq(Groups) /\ IsInjective(plan.order)
      /\ \A g \in Groups : \E i \in DOMAIN plan.order : plan.order[i] = g
  BY PlansAssumption DEF Groups
<1>2. \A n \in DOMAIN plan.order : plan.order[n] \in Groups
  BY <1>1
<1>3. \A g \in Groups : f[g] = ResultsOf(g) /\ f[g].name = g
  BY DEF ResultsOf
<1>4. Extended = results \o more
  <2>1. \A n \in DOMAIN plan.order : f[plan.order[n]] = ResultsOf(plan.order[n])
    BY <1>2, <1>3
  <2> HIDE DEF f
  <2>2. [n \in DOMAIN plan.order |->
           IF plan.order[n] \in wave THEN <<ResultsOf(plan.order[n])>> ELSE <<>>]
        = [n \in DOMAIN plan.order |->
             IF plan.order[n] \in wave THEN <<f[plan.order[n]]>> ELSE <<>>]
    BY <2>1
  <2> QED
    BY <2>2 DEF Extended, Kept
<1> HIDE DEF f
<1>5. Separates(f, Groups)
  BY <1>3 DEF Separates
<1>6. more \in Seq(Values(f, Groups)) /\ Lists(more, plan.order, wave, f)
  BY <1>1, <1>5, KeptElements
<1> HIDE DEF more
<1>7. \A n \in DOMAIN more : \E g \in wave : more[n] = ResultsOf(g) /\ more[n].name = g
  BY <1>2, <1>3, <1>6 DEF Lists
<1>8. more \in Seq({ResultsOf(g) : g \in wave})
  <2>1. more \in [1..Len(more) -> {ResultsOf(g) : g \in wave}] /\ Len(more) \in Nat
    BY <1>6, <1>7
  <2> QED
    BY <2>1, SeqDef
<1>9. ASSUME NEW g \in wave PROVE \E n \in DOMAIN more : more[n] = ResultsOf(g)
  <2>1. PICK i \in DOMAIN plan.order : plan.order[i] = g
    BY <1>1
  <2> QED
    BY <1>3, <1>6, <2>1 DEF Lists
<1>10. \A m, n \in DOMAIN more : more[m].name = more[n].name => m = n
  BY <1>1, <1>6, <1>7 DEF Lists, IsInjective
<1> QED
  BY <1>4, <1>8, <1>9, <1>10

\* Booking a wave keeps the results booked right: its groups are new, and what
\* they depend on was booked before.
LEMMA BookingResults ==
  ASSUME ScheduleInv, ResultsInv, Resume, \A g \in Done : ResultsOf(g)' = ResultsOf(g)
  PROVE  ResultsInv'
<1> DEFINE R == {ResultsOf(g) : g \in completed}
           N == {ResultsOf(g) : g \in wave}
<1>1. plan \in Plans /\ wave \subseteq Groups /\ completed \subseteq Groups
      /\ wave \cap completed = {}
      /\ \A g \in Done : plan.deps[g] \subseteq completed
  BY DEF ScheduleInv, TypeOK, Done
<1>2. PICK more \in Seq(N) :
           /\ Extended = results \o more
           /\ \A g \in wave : \E n \in DOMAIN more : more[n] = ResultsOf(g)
           /\ \A m, n \in DOMAIN more : more[m].name = more[n].name => m = n
  BY <1>1, WaveResults
<1>3. /\ results \in Seq(R)
      /\ \A m, n \in DOMAIN results : results[m].name = results[n].name => m = n
      /\ \A g \in completed : \E n \in DOMAIN results : results[n] = ResultsOf(g)
      /\ \A m, n \in DOMAIN results : results[m].name \in plan.deps[results[n].name] => m < n
  BY DEF ResultsInv
<1>4. results' = results \o more /\ completed' = Done /\ plan' = plan
  BY <1>2 DEF Resume
<1>5. {ResultsOf(g)' : g \in Done} = R \cup N
  BY DEF Done
<1>6. /\ \A x \in R : x.name \in completed
      /\ \A x \in N : x.name \in wave
  BY DEF ResultsOf
<1> HIDE DEF R, N
<1> DEFINE l == Len(results)
           k == Len(more)
<1>7. /\ l \in Nat /\ k \in Nat
      /\ DOMAIN results = 1..l /\ DOMAIN more = 1..k
      /\ \A n \in 1..l : results[n] \in R
      /\ \A n \in 1..k : more[n] \in N
  BY <1>2, <1>3
<1>8. /\ results' \in Seq(R \cup N)
      /\ DOMAIN results' = 1..(l + k)
      /\ \A n \in 1..l : results'[n] = results[n]
      /\ \A n \in (l + 1)..(l + k) : n - l \in 1..k /\ results'[n] = more[n - l]
      /\ \A n \in 1..k : n + l \in 1..(l + k) /\ results'[n + l] = more[n]
  BY <1>2, <1>3, <1>4
<1> HIDE DEF l, k
<1>9. ASSUME NEW m \in 1..(l + k), NEW n \in 1..(l + k)
      PROVE  /\ results'[m].name = results'[n].name => m = n
             /\ results'[m].name \in plan.deps[results'[n].name] => m < n
  <2>1. CASE m \in 1..l /\ n \in 1..l
    BY <1>3, <1>7, <1>8, <2>1
  <2>2. CASE m \in 1..l /\ n \notin 1..l
    <3>1. n \in (l + 1)..(l + k) /\ m < n
      BY <1>7, <2>2
    <3>2. results'[m].name \in completed /\ results'[n].name \in wave
      BY <1>6, <1>7, <1>8, <2>2, <3>1
    <3> QED
      BY <1>1, <3>1, <3>2
  <2>3. CASE m \notin 1..l /\ n \in 1..l
    <3>1. m \in (l + 1)..(l + k)
      BY <1>7, <2>3
    <3>2. results'[m].name \in wave /\ results'[n].name \in completed
      BY <1>6, <1>7, <1>8, <2>3, <3>1
    <3> QED
      BY <1>1, <3>2 DEF Done
  <2>4. CASE m \notin 1..l /\ n \notin 1..l
    <3>1. m \in (l + 1)..(l + k) /\ n \in (l + 1)..(l + k)
      BY <1>7, <2>4
    <3>2. results'[m].name \in wave /\ results'[n].name \in wave
      BY <1>6, <1>7, <1>8, <3>1
    <3>3. results'[m].name \notin plan.deps[results'[n].name]
      BY <1>1, <3>2 DEF Done
    <3>4. results'[m].name = results'[n].name => m - l = n - l
      <4>1. /\ m - l \in DOMAIN more /\ n - l \in DOMAIN more
            /\ results'[m] = more[m - l] /\ results'[n] = more[n - l]
        BY <1>7, <1>8, <3>1
      <4> QED
        BY <1>2, <4>1
    <3> QED
      BY <1>7, <3>1, <3>3, <3>4
  <2> QED
    BY <2>1, <2>2, <2>3, <2>4
<1>10. ASSUME NEW g \in Done PROVE \E n \in 1..(l + k) : results'[n] = ResultsOf(g)
  <2>1. CASE g \in completed
    <3>1. PICK n \in 1..l : results[n] = ResultsOf(g)
      BY <1>3, <1>7, <2>1
    <3>2. n \in 1..(l + k) /\ results'[n] = results[n]
      BY <1>7, <1>8
    <3> QED
      BY Zenon, <3>1, <3>2
  <2>2. CASE g \in wave
    <3>1. PICK n \in 1..k : more[n] = ResultsOf(g)
      BY <1>2, <1>7, <2>2
    <3>2. n + l \in 1..(l + k) /\ results'[n + l] = more[n]
      BY <1>8
    <3> QED
      BY Zenon, <3>1, <3>2
  <2> QED
    BY <2>1, <2>2 DEF Done
<1>11. results' \in Seq({ResultsOf(g) : g \in completed})'
  BY <1>4, <1>5, <1>8
<1>12. \A g \in completed' : \E n \in DOMAIN results' : results'[n] = ResultsOf(g)'
  BY <1>4, <1>8, <1>10
<1> QED
  BY <1>4, <1>8, <1>9, <1>11, <1>12 DEF ResultsInv

\* The calls of a group that is done have ended: no step changes its results.
LEMMA DoneIsFinal ==
  ASSUME ScheduleInv, [Next]_vars, NEW g \in Groups, group[g] = "done"
  PROVE  ResultsOf(g)' = ResultsOf(g)
<1>1. \A i \in CallsOf(g) : call[g][i] # "running"
  BY DEF ScheduleInv, Ended
<1>2. DOMAIN call = Groups
  BY DEF ScheduleInv, TypeOK
<1>3. call'[g] = call[g]
  BY <1>1, <1>2 DEF ScheduleInv, TypeOK, Next, vars, StartWave, Return, Deadlock, Ready, Done,
                    GroupReturns, GroupRaises, CallEnds
<1> QED
  BY <1>3 DEF ResultsOf

\* The invariant holds when execute_plan is called: nothing has been executed.
THEOREM InitInv == Init => ExecInv
<1> SUFFICES ASSUME Init PROVE ResultsInv
  BY InitSchedule DEF ExecInv
<1>1. results = <<>> /\ completed = {}
  BY DEF Init
<1>2. <<>> \in Seq({ResultsOf(g) : g \in {}}) /\ DOMAIN <<>> = {}
  OBVIOUS
<1> QED
  BY <1>1, <1>2 DEF ResultsInv

\* Every step of execute_plan, of a group and of a call preserves the invariant.
THEOREM StepInv == ExecInv /\ [Next]_vars => ExecInv'
<1> SUFFICES ASSUME ScheduleInv, ResultsInv, [Next]_vars PROVE ResultsInv'
  BY StepSchedule DEF ExecInv
<1>1. CASE Resume
  <2>1. \A g \in Done : g \in Groups /\ group[g] = "done"
    BY <1>1 DEF Resume, ScheduleInv, Done
  <2> QED
    BY <1>1, <2>1, DoneIsFinal, BookingResults
<1>2. CASE ~Resume
  <2>1. UNCHANGED <<plan, completed, results>>
    BY <1>2 DEF Next, vars, StartWave, Return, Deadlock, GroupReturns, GroupRaises, CallEnds
  <2>2. \A g \in completed : ResultsOf(g)' = ResultsOf(g)
    BY DoneIsFinal DEF ScheduleInv
  <2>3. {ResultsOf(g)' : g \in completed} = {ResultsOf(g) : g \in completed}
    BY <2>2
  <2> QED
    BY <2>1, <2>2, <2>3 DEF ResultsInv
<1> QED
  BY <1>1, <1>2

\* The invariant holds in every behaviour of the executor.
THEOREM ExecutorInvariant == Spec => []ExecInv
  BY InitInv, StepInv, PTL DEF Spec
-----------------------------------------------------------------------------
\* No call starts before the calls of the groups its group depends on have
\* ended (plan_executor.py, the ready list).
THEOREM DependenciesAreRespected == Spec => []DependenciesRespected
<1>1. ExecInv => DependenciesRespected
  BY DEF ExecInv, ScheduleInv, DependenciesRespected, Done
<1> QED
  BY <1>1, ExecutorInvariant, PTL

\* A plan that is returned comes with one result per call, in an order that
\* respects the dependencies (plan_executor.py, all_results).
THEOREM ResultsAreComplete == Spec => []ResultsComplete
<1>1. ExecInv => ResultsComplete
  <2> SUFFICES ASSUME ScheduleInv, ResultsInv, status = "returned" PROVE ResultsComplete
    BY DEF ExecInv, ResultsComplete
  <2>1. completed = Groups /\ plan \in Plans
    BY DEF ScheduleInv, TypeOK
  <2>2. /\ results \in Seq({ResultsOf(g) : g \in Groups})
        /\ DOMAIN results = 1..Len(results) /\ Len(results) \in Nat
    BY <2>1 DEF ResultsInv
  <2>3. \A n \in DOMAIN results : results[n].name \in Groups /\ results[n] = ResultsOf(results[n].name)
    BY <2>2 DEF ResultsOf
  <2>4. \A g \in Groups : \E n \in DOMAIN results : results[n] = ResultsOf(g) /\ results[n].name = g
    BY <2>1 DEF ResultsInv, ResultsOf
  <2>5. Len(results) = Len(plan.order)
    <3> DEFINE names == [n \in 1..Len(results) |-> results[n].name]
    <3>1. names \in Seq(Groups) /\ Len(names) = Len(results) /\ DOMAIN names = DOMAIN results
      BY <2>2, <2>3
    <3>2. IsInjective(names)
      BY <2>2 DEF ResultsInv, IsInjective
    <3>3. \A g \in Groups : \E n \in DOMAIN names : names[n] = g
      BY <2>2, <2>4
    <3> HIDE DEF names
    <3>4. Cardinality(Groups) = Len(results)
      BY <3>1, <3>2, <3>3, ListLength
    <3>5. Cardinality(Groups) = Len(plan.order)
      BY <2>1, PlansAssumption, ListLength DEF Groups
    <3> QED
      BY <3>4, <3>5
  <2>6. ASSUME NEW g \in Groups
        PROVE  \E n \in 1..Len(results) :
                 /\ results[n] = [name |-> g, outcomes |-> call[g]]
                 /\ Ended(g)
                 /\ \A m \in 1..Len(results) : results[m].name \in plan.deps[g] => m < n
    <3>1. Ended(g)
      BY <2>1 DEF ScheduleInv
    <3> QED
      BY <2>2, <2>4, <3>1 DEF ResultsInv, ResultsOf
  <2> QED
    BY <2>5, <2>6 DEF ResultsComplete
<1> QED
  BY <1>1, ExecutorInvariant, PTL

\* The deadlock is raised for exactly the plans that cannot be executed.
THEOREM DeadlockIsExact == Spec => []DeadlockExact
<1>1. ExecInv => DeadlockExact
  <2> SUFFICES ASSUME ExecInv PROVE DeadlockExact
    OBVIOUS
  <2>1. Orderable \subseteq Groups
    BY DEF Orderable
  <2>2. CASE status = "deadlock"
    BY <2>1, <2>2, OrderableLeast DEF ExecInv, ScheduleInv, DeadlockExact, Done
  <2>3. CASE status # "deadlock"
    BY <2>1, <2>3 DEF ExecInv, ScheduleInv, DeadlockExact, Done
  <2> QED
    BY <2>2, <2>3
<1> QED
  BY <1>1, ExecutorInvariant, PTL

\* Only a required failure aborts, only in strict mode, and then always.
THEOREM RequiredFailuresAbort == Spec => []RequiredFailures
<1>1. ExecInv => RequiredFailures
  BY DEF ExecInv, ScheduleInv, TypeOK, RequiredFailures, Done, Fatal
<1> QED
  BY <1>1, ExecutorInvariant, PTL
-----------------------------------------------------------------------------
\* The executor implements the schedule by dependencies.
THEOREM ExecutorImplementsSchedule == Spec => ImplementsSchedule
<1>1. Init => Schedule!Init
  BY DEF Init, Schedule!Init, Groups, Schedule!Groups
<1>2. ExecInv /\ [Next]_vars => [Schedule!Next]_Schedule!vars
  <2> SUFFICES ASSUME ExecInv, [Next]_vars
                 PROVE  Schedule!Next \/ UNCHANGED Schedule!vars
    OBVIOUS
  <2> USE DEF Groups, Schedule!Groups, Schedule!vars, Schedule!In, ExecInv, ScheduleInv, TypeOK, Done
  <2>1. CASE StartWave
    <3> DEFINE G == {g \in Groups : Ready(g, Done)}
    <3>1. \A g \in G : Schedule!Startable(g)
      BY <2>1 DEF StartWave, Resume, Ready, Schedule!Startable
    <3>2. Schedule!Start(G)
      BY <2>1, <3>1 DEF StartWave, Resume, Schedule!Start
    <3> QED
      BY <3>2 DEF Schedule!Next
  <2>2. CASE Return
    BY <2>2 DEF Return, Resume, Schedule!Return, Schedule!Next
  <2>3. CASE Deadlock
    BY <2>3 DEF Deadlock, Resume, Ready, Schedule!Deadlock, Schedule!Startable, Schedule!Next
  <2>4. ASSUME NEW g \in Groups, NEW i \in CallsOf(g), CallEnds(g, i)
          PROVE  UNCHANGED Schedule!vars
    BY <2>4 DEF CallEnds
  <2>5. ASSUME NEW g \in Groups, GroupReturns(g) PROVE Schedule!Next
    BY <2>5 DEF GroupReturns, Schedule!Finish, Schedule!Next
  <2>6. ASSUME NEW g \in Groups, GroupRaises(g) PROVE Schedule!Next
    BY <2>6 DEF GroupRaises, Schedule!Abort, Schedule!Next
  <2>7. CASE UNCHANGED vars
    BY <2>7 DEF vars
  <2> QED
    BY <2>1, <2>2, <2>3, <2>4, <2>5, <2>6, <2>7 DEF Next
<1> QED
  BY <1>1, <1>2, ExecutorInvariant, PTL DEF Spec, ImplementsSchedule, Schedule!Spec
-----------------------------------------------------------------------------
(***************************************************************************)
(* THE GATEWAY CLIENT.  ClientInv is inductive for any number of concurrent calls*)
(* and any lifetime and buffer; what a call may rely on of the shared token*)
(* follows.                                                                *)
(***************************************************************************)

\* A record of a token is a token, and None is none.
LEMMA TokenType ==
  /\ \A i \in 0..MaxTime : [iss |-> i, exp |-> i + Lifetime] \in Token
  /\ \A t \in Token : t # None /\ t.iss \in 0..MaxTime /\ t.exp \in Nat
BY ClientAssumption DEF Token

\* The invariant holds before the first call.
THEOREM InitClient == ClientInit => ClientInv
BY ClientAssumption, TokenType
DEF ClientInit, ClientInv, ClientTypeOK, PairConsistent, RetryIsFresh, AtMostOnce

\* Every step of a call and of the clock preserves the invariant.
THEOREM StepClient == ClientInv /\ [ClientNext]_clientVars => ClientInv'
<1> SUFFICES ASSUME ClientInv, [ClientNext]_clientVars PROVE ClientInv'
  OBVIOUS
<1> USE ClientAssumption, TokenType
    DEF ClientInv, ClientTypeOK, PairConsistent, RetryIsFresh, AtMostOnce
<1>1. ASSUME NEW c \in Calls, CallCached(c) PROVE ClientInv'
  BY <1>1 DEF CallCached, Usable
<1>2. ASSUME NEW c \in Calls, CallFetch(c) PROVE ClientInv'
  BY <1>2 DEF CallFetch
<1>3. ASSUME NEW c \in Calls, Issue(c) PROVE ClientInv'
  BY <1>3 DEF Issue
<1>4. ASSUME NEW c \in Calls, TokenArrives(c) PROVE ClientInv'
  BY <1>4 DEF TokenArrives, Expiry
<1>5. ASSUME NEW c \in Calls, FetchFails(c) PROVE ClientInv'
  BY <1>5 DEF FetchFails, Finish
<1>6. ASSUME NEW c \in Calls, Refuse(c) PROVE ClientInv'
  BY <1>6 DEF Refuse
<1>7. ASSUME NEW c \in Calls, Accept(c) PROVE ClientInv'
  BY <1>7 DEF Accept
<1>8. ASSUME NEW c \in Calls, PostFails(c) PROVE ClientInv'
  BY <1>8 DEF PostFails, Finish
<1>9. ASSUME NEW c \in Calls, Retry(c) PROVE ClientInv'
  BY <1>9 DEF Retry, Retried, Refresh
<1>10. ASSUME NEW c \in Calls, Conclude(c) PROVE ClientInv'
  BY <1>10, SMTT(30) DEF Conclude, Retried, Finish
<1>11. CASE Tick
  BY <1>11 DEF Tick
<1>12. CASE UNCHANGED clientVars
  BY <1>12 DEF clientVars
<1> QED
  BY <1>1, <1>2, <1>3, <1>4, <1>5, <1>6, <1>7, <1>8, <1>9, <1>10, <1>11, <1>12
  DEF ClientNext, Progress

\* The invariant holds in every behaviour of the client.
THEOREM ClientInvariant == ClientSpec => []ClientInv
BY InitClient, StepClient, PTL DEF ClientSpec
-----------------------------------------------------------------------------
\* The expiry the client believes in is that of the token it holds, or earlier
\* (gateway_client.py, _get_token).
THEOREM PairIsConsistent == ClientSpec => []PairConsistent
<1>1. ClientInv => PairConsistent
  BY DEF ClientInv
<1> QED
  BY <1>1, ClientInvariant, PTL

\* A retry never carries the token that was refused.
THEOREM RetryCarriesFreshToken == ClientSpec => []RetryIsFresh
<1>1. ClientInv => RetryIsFresh
  BY DEF ClientInv
<1> QED
  BY <1>1, ClientInvariant, PTL

\* No call executes its tool twice.
THEOREM ExecutedAtMostOnce == ClientSpec => []AtMostOnce
<1>1. ClientInv => AtMostOnce
  BY DEF ClientInv
<1> QED
  BY <1>1, ClientInvariant, PTL

\* A call begins with a cached token only if the token outlives the buffer.
THEOREM CachedTokenIsSentInTime == ClientSpec => SentInTime
<1> DEFINE InTime(c) == pc[c] = "idle" /\ pc'[c] = "post" => now + Buffer < tok'[c].exp
<1>1. ClientInv /\ [ClientNext]_clientVars => [\A c \in Calls : InTime(c)]_clientVars
  <2> SUFFICES ASSUME ClientInv, ClientNext, NEW c \in Calls, pc[c] = "idle", pc'[c] = "post"
               PROVE  now + Buffer < tok'[c].exp
    OBVIOUS
  <2> USE ClientAssumption DEF ClientInv, ClientTypeOK
  <2>1. CallCached(c)
    BY DEF ClientNext, Progress, Tick, CallCached, CallFetch, Issue, TokenArrives, FetchFails,
           Refuse, Accept, PostFails, Retry, Refresh, Conclude, Finish
  <2>2. tok'[c] = accessToken /\ accessToken # None /\ now < expiresAt - Buffer
    BY <2>1 DEF CallCached, Usable
  <2>3. accessToken.exp \in Nat /\ expiresAt <= accessToken.exp
    BY <2>2, TokenType DEF PairConsistent
  <2> QED
    BY <2>2, <2>3
<1> QED
  BY <1>1, ClientInvariant, PTL DEF ClientSpec, SentInTime
=============================================================================
