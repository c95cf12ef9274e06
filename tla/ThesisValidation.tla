--------------------------- MODULE ThesisValidation ---------------------------
(***************************************************************************)
(* validate_thesis (orchestrator/main.py): a thesis is parsed, a plan is   *)
(* made for it, the executor runs the plan's calls on the tool servers,    *)
(* and the results become a report.  The pieces are those of ThesisParser, *)
(* Planner, PlanExecutor, ToolServers and Synthesis; the executor's state is part   *)
(* of this module's, with the reply of each call beside it.                *)
(*                                                                         *)
(* The servers are asked in the name of account, what the orchestrator's   *)
(* own login carries: [actor, desks].  A call may be lost on its way       *)
(* through client, gateway and server, whatever the server would answer.   *)
(***************************************************************************)
EXTENDS ThesisParser, Planner, Synthesis

CONSTANTS
  DeskNames, \* the desks validate_thesis may be given: any text
  Accounts

VARIABLES
  stage,   \* "new", "running", "reported", or "raised": no report
  thesis,
  desk,
  account,
  reply,   \* reply[g][i]: what came of the i-th call of group g, or None
  plan, strict, status, wave, completed, group, call, results  \* of PlanExecutor

executorVars == <<plan, strict, status, wave, completed, group, call, results>>
vars == <<stage, thesis, desk, account, reply, executorVars>>

Executor == INSTANCE PlanExecutor WITH
  Plans <- {GeneratePlan(t, d) : t \in {u \in Theses : u.testable}, d \in DeskNames}

Lost == [status |-> "lost", success |-> FALSE, data |-> None]

\* The results of the executor, as the synthesiser is given them.
ResultsOf(n) ==
  LET g == results[n].name
  IN  [i \in DOMAIN results[n].outcomes |->
         [call |-> plan.calls[g][i], success |-> results[n].outcomes[i] = "ok",
          data |-> reply[g][i].data]]

Results == FlattenSeq([n \in DOMAIN results |-> ResultsOf(n)])

\* The answer for a thesis without an asset: nothing was called.
UntestableReport ==
  [evidence |-> <<>>, verdict |-> "INCONCLUSIVE", confidence |-> 0,
   risk_score |-> "UNKNOWN", made |-> 0, succeeded |-> 0]

\* What is reported, once it is: the synthesiser keeps no state.
Report == IF thesis.testable THEN GenerateReport(Results, thesis) ELSE UntestableReport
-----------------------------------------------------------------------------
Init ==
  /\ stage = "new"
  /\ thesis = None /\ desk = None
  /\ account \in Accounts
  /\ plan = [order |-> <<>>, deps |-> <<>>, calls |-> <<>>, required |-> <<>>]
  /\ strict = FALSE /\ status = "running"
  /\ wave = {} /\ completed = {}
  /\ group = <<>> /\ call = <<>> /\ results = <<>> /\ reply = <<>>

\* The handler up to its first await in execute_plan, which is called with
\* allow_partial_failure.
Start ==
  /\ stage = "new"
  /\ thesis' \in {t \in Theses : t.testable}
  /\ desk' \in DeskNames
  /\ stage' = "running"
  /\ plan' = GeneratePlan(thesis', desk')
  /\ group' = [g \in DOMAIN plan'.calls |-> "waiting"]
  /\ call' = [g \in DOMAIN plan'.calls |-> [i \in DOMAIN plan'.calls[g] |-> "idle"]]
  /\ reply' = [g \in DOMAIN plan'.calls |-> [i \in DOMAIN plan'.calls[g] |-> None]]
  /\ UNCHANGED <<account, strict, status, wave, completed, results>>

RejectUntestable ==
  /\ stage = "new"
  /\ thesis' \in {t \in Theses : ~t.testable}
  /\ desk' \in DeskNames
  /\ stage' = "reported"
  /\ UNCHANGED <<account, reply, executorVars>>

\* The executor books a wave and starts the next, or returns.
Wave ==
  /\ stage = "running"
  /\ Executor!StartWave \/ Executor!Return
  /\ UNCHANGED <<stage, thesis, desk, account, reply>>

\* A call ends with the server's reply, as the client takes it, or without.
CallEnds(g, i) ==
  /\ stage = "running"
  /\ Executor!CallEnds(g, i)
  /\ \E r \in Replies(plan.calls[g][i], account) \cup {Lost} :
       /\ call'[g][i] = IF r.success THEN "ok" ELSE "failed"
       /\ reply' = [reply EXCEPT ![g][i] = r]
  /\ UNCHANGED <<stage, thesis, desk, account>>

GroupReturns(g) ==
  /\ stage = "running"
  /\ Executor!GroupReturns(g)
  /\ UNCHANGED <<stage, thesis, desk, account, reply>>

\* execute_plan has returned: the rest of the handler has no await, but raises
\* on a snapshot that is a text.
Synthesise ==
  /\ stage = "running" /\ status = "returned"
  /\ stage' = IF \E n \in DOMAIN Results : Unscorable(Results[n]) THEN "raised" ELSE "reported"
  /\ UNCHANGED <<thesis, desk, account, reply, executorVars>>

Execute ==
  \/ Wave \/ Synthesise
  \/ \E g \in DOMAIN plan.calls : \/ GroupReturns(g)
                                  \/ \E i \in DOMAIN plan.calls[g] : CallEnds(g, i)

Next == Start \/ RejectUntestable \/ Execute

Spec == Init /\ [][Next]_vars

\* The event loop runs what is ready and each call ends, somehow; nothing
\* makes anyone ask for a validation.
FairSpec == Spec /\ WF_vars(Execute)
-----------------------------------------------------------------------------
\* The calls of the plan, as pairs, and those to a server.
Made == UNION {{g} \X DOMAIN plan.calls[g] : g \in DOMAIN plan.calls}
MadeTo(server) == {gi \in Made : plan.calls[gi[1]][gi[2]].server = server}

\* The calls of a plan are ones their servers can answer: no argument is ever
\* malformed but for a desk that is none, or out of the range a tool takes, and
\* a history that is found is long enough to be scored.
CallsAnswerable ==
  \A g \in DOMAIN plan.calls : \A i \in DOMAIN plan.calls[g] :
    reply[g][i] # None =>
      /\ reply[g][i].status = "malformed" => desk \notin Desks
      /\ reply[g][i].status # "invalid"
      /\ reply[g][i].status = "ok" /\ plan.calls[g][i].tool = "get_history"
           => reply[g][i].data.bars >= 10

\* A validation for a desk that the account has no access to shows nothing of
\* the market data and the book of the desk, and whatever the research says, it
\* does not support the thesis.
DeskIsolated ==
  stage = "reported" /\ desk \notin account.desks =>
    LET report == Report
    IN  /\ \A n \in DOMAIN report.evidence :
             report.evidence[n].source # "research" => report.evidence[n].gap
        /\ report.verdict # "SUPPORTED"

\* "Bloomberg market data provides the primary empirical evidence": no thesis is
\* supported on the other servers alone, when a call for market data failed or
\* there is an item of market data that is not in favour.  What is left is what
\* the code does: when each of the calls succeeds and none has anything to say,
\* an unknown ticker in a snapshot and a refusal taken for a history, research
\* alone supports.
SupportNeedsMarketData ==
  stage = "reported" =>
    LET report == Report
        market == {n \in DOMAIN report.evidence : report.evidence[n].source = "bloomberg"}
    IN  report.verdict = "SUPPORTED" =>
          \/ \E n \in market : report.evidence[n].class = "FOR"
          \/ market = {} /\ \A gi \in MadeTo("bloomberg") : call[gi[1]][gi[2]] = "ok"

\* A failed call never makes a thesis supported: without the calls that failed
\* it would have been as well.
GapNeverSupports ==
  stage = "reported" /\ Report.verdict = "SUPPORTED" =>
    GenerateReport(Successes(Results), thesis).verdict = "SUPPORTED"

Rank(verdict) ==
  IF verdict = "UNSUPPORTED" THEN 0 ELSE IF verdict = "INCONCLUSIVE" THEN 1 ELSE 2

\* Had an item spoken for the thesis instead of against it, the confidence and
\* the verdict would have been no worse.
FavourableIsNoWorse ==
  stage = "reported" =>
    LET report == Report
    IN  \A n \in Classified(report.evidence, "AGAINST") :
          LET turned == [report.evidence EXCEPT ![n].class = "FOR"]
          IN  /\ Confidence(turned) >= report.confidence
              /\ Rank(VerdictOf(turned)) >= Rank(report.verdict)

\* The evidence is "ordered: bloomberg -> risk -> research" however the calls
\* ended, and accounts for each call of the plan that failed.
EvidenceInOrder ==
  stage = "reported" =>
    LET position == [bloomberg |-> 1, risk |-> 2, research |-> 3]
        evidence == Report.evidence
    IN  /\ \A m, n \in DOMAIN evidence :
             m < n => position[evidence[m].source] <= position[evidence[n].source]
        /\ \A server \in DOMAIN position :
             Cardinality({n \in DOMAIN evidence :
                            evidence[n].gap /\ evidence[n].source = server})
               = Cardinality({gi \in MadeTo(server) : call[gi[1]][gi[2]] # "ok"})

\* Every validation that was started ends with a report, whatever fails: no plan
\* of the templates deadlocks, and no failure aborts it.  It can end without a
\* report, by what the scorer makes of a text, only if the account may not see
\* the desk: no other call for a snapshot is ever refused.
AlwaysReports ==
  stage = "running" ~>
    \/ stage = "reported"
    \/ stage = "raised" /\ ~(desk \in Desks /\ Permitted(account, desk))
-----------------------------------------------------------------------------
\* The absence of data "does not directly support or contradict the thesis"
\* (evidence_scorer.py): a thesis is found unsupported on evidence against it.
GapsDoNotContradict ==
  stage = "reported" /\ Report.verdict = "UNSUPPORTED" =>
    Classified(Report.evidence, "AGAINST") # {}

\* The thresholds of the risk score (risk_assessor.py): a VaR from 1% of the
\* portfolio is at least MEDIUM, from 3% at least HIGH, above 5% EXTREME.
RiskThresholdsMet ==
  stage = "reported" =>
    LET found == Results
        score == Report.risk_score
    IN  \A n \in DOMAIN found :
          /\ found[n].success /\ found[n].call.tool = "calculate_var"
          /\ "value_pct_nav" \in DOMAIN found[n].data =>
            LET var == found[n].data.value_pct_nav.value
            IN  /\ var > 10 => score \in {"MEDIUM", "HIGH", "EXTREME"}
                /\ var > 30 => score \in {"HIGH", "EXTREME"}
                /\ var > 50 => score = "EXTREME"
=============================================================================
