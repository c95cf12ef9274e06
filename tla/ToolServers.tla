----------------------------- MODULE ToolServers -----------------------------
(***************************************************************************)
(* The tools of the bloomberg, risk and research servers that a plan of    *)
(* the orchestrator calls: which calls a server accepts, from whom, and    *)
(* what its answer holds.  They keep no state.                             *)
(*                                                                         *)
(* A call is a record with the fields server and tool and the arguments of *)
(* the tool.  A reply is a record [status, success, data]: what the server *)
(* made of the call, whether the client takes the reply for a success, and *)
(* the data of the result the client then makes of it.  They can come      *)
(* apart: an error that arrives as the text of a result is a success.      *)
(*                                                                         *)
(* Units: volatilities and percentages of the NAV in thousandths (but for  *)
(* the snapshot, in ten-thousandths), confidences in ten-thousandths,      *)
(* magnitudes in tenths.  A value of a risk answer is tagged with its JSON *)
(* kind, which is what its reader trips over.                              *)
(***************************************************************************)
EXTENDS Integers, Sequences

CONSTANTS
  None,
  Securities,  \* SECURITIES: the fields of each ticker
  Books,       \* DESK_PORTFOLIOS: the underlyings and net Greeks of each desk
  Histories,   \* what can be derived from a generated history
  VaRs,        \* what calculate_var can come to, as a share of the NAV
  ProfitsAndLosses, \* what run_scenario can come to, as a share of the NAV
  Libraries    \* what a search can find: for each document, keywords of its title

\* The volatilities of a security are numbers if they are known, and what is
\* derived from a history is numbers (bloomberg/data.py).
ASSUME ServersAssumption ==
  /\ \A t \in DOMAIN Securities : \A f \in {"IMPLIED_VOL_30D", "HIST_REALIZED_VOL_30D"} :
       Securities[t][f] # None => Securities[t][f] \in Int
  /\ \A h \in Histories : {h.percentile, h.return, h.deviation} \subseteq Int

Desks == {"equities", "rates", "vol", "macro", "credit"}
TrustedActors == {"mcp-gateway"}

Number(n) == [kind |-> "number", value |-> n]
Object(r) == [kind |-> "object", value |-> r]
Text(s) == [kind |-> "text", value |-> s]

Within(n, lo, hi) == IF n < lo THEN lo ELSE IF n > hi THEN hi ELSE n
-----------------------------------------------------------------------------
\* Variant: a caller without the claim is not restricted.
PermittedByDefault(account, desk) ==
  /\ account.actor \in TrustedActors \cup {None}
  /\ account.desks = {} \/ desk \in account.desks

\* DeskIsolation.enforce: the claims of the token the server was shown.
Permitted(account, desk) ==
  /\ account.actor \in TrustedActors \cup {None}
  /\ desk \in account.desks

\* The arguments are those of the tool: checked before the tool is entered.
WellFormed(c) ==
  IF c.tool = "search_research" THEN TRUE
  ELSE /\ c.desk \in Desks
       /\ c.tool = "get_history" => c.frequency \in {"daily", "weekly", "monthly"}
       /\ c.tool = "calculate_var" =>
            /\ c.metric \in {"var", "cvar", "delta", "gamma", "vega", "theta", "rho"}
            /\ c.confidence \in 9000..9999
            /\ c.horizon_days \in 1..252
       /\ c.tool = "run_scenario" =>
            /\ c.scenario \in {"vol_spike", "rate_shock", "equity_crash", "custom"}
            /\ c.magnitude \in 1..100

\* The checks a bloomberg tool makes of its own once the desk is permitted.
Servable(c) ==
  /\ c.tool = "get_ref_data" => Len(c.tickers) <= 50
  /\ c.tool = "get_history" => c.start_date <= c.end_date /\ c.end_date - c.start_date <= 3 * 365

Known(c) == c.tool = "get_history" => c.ticker \in DOMAIN Securities
-----------------------------------------------------------------------------
\* A mapping from each ticker to its fields, in the order they were asked; the
\* fields of an unknown ticker are null.
RefData(c) ==
  [data |-> [i \in DOMAIN c.tickers |->
     [f \in c.fields |->
        IF c.tickers[i] \in DOMAIN Securities THEN Securities[c.tickers[i]][f] ELSE None]]]

\* The bars of a history: one every 7 or 30 days, or one a day but at weekends
\* (two days of an incomplete week may be one).
BarCount(c) ==
  LET days == c.end_date - c.start_date + 1
  IN  IF c.frequency = "daily" THEN (days \div 7) * 5 + Within((days % 7) - 2, 0, 5)
      ELSE IF c.frequency = "weekly" THEN (days - 1) \div 7 + 1 ELSE (days - 1) \div 30 + 1

\* What the synthesiser derives from the bars; the path is random.
HistoryOf(c, h) == [bars |-> BarCount(c), path |-> h]

ValueAtRisk(c, v) ==
  [metric |-> Text(c.metric), value_pct_nav |-> Number(v), horizon_days |-> Number(c.horizon_days)]

\* The Greeks of the desk under a key of their own, or an error as an answer.
GreeksOf(c) ==
  IF c.underlying \in Books[c.desk].underlyings
  THEN [aggregate_greeks |-> Object([vega |-> Books[c.desk].vega, delta |-> Books[c.desk].delta])]
  ELSE [error |-> Text("underlying")]

Scenario(c, p) ==
  [scenario |-> Text(c.scenario), magnitude |-> Number(c.magnitude),
   pnl_impact |-> Object([total_pct_nav |-> p])]

\* search_research does not look at the desks of its caller.
Found(c, titles) ==
  [results |-> SubSeq(titles, 1, Within(Within(c.max_results, 1, 20), 0, Len(titles)))]

Served(c) ==
  IF c.tool = "get_ref_data" THEN {RefData(c)}
  ELSE IF c.tool = "get_history" THEN {HistoryOf(c, h) : h \in Histories}
  ELSE IF c.tool = "calculate_var" THEN {ValueAtRisk(c, v) : v \in VaRs}
  ELSE IF c.tool = "get_greeks" THEN {GreeksOf(c)}
  ELSE IF c.tool = "run_scenario" THEN {Scenario(c, p) : p \in ProfitsAndLosses}
  ELSE {Found(c, t) : t \in Libraries}

RawText == [raw_text |-> Text("refused")]

\* The exception of a tool, as the client's _extract_result gets it: an error of
\* JSON-RPC, or the text of a result, whose isError it does not look at.  Which
\* of the two is up to the MCP library the servers run on.
Refusal(why) ==
  {[status |-> why, success |-> FALSE, data |-> None],
   [status |-> why, success |-> TRUE, data |-> RawText]}

\* What an account may get from a call, unless it is lost on the way.
Replies(c, account) ==
  IF ~WellFormed(c) THEN Refusal("malformed")
  ELSE IF c.server # "research" /\ ~Permitted(account, c.desk) THEN Refusal("denied")
  ELSE IF ~Servable(c) THEN Refusal("invalid")
  ELSE IF ~Known(c) THEN Refusal("unknown")
  ELSE {[status |-> "ok", success |-> TRUE, data |-> d] : d \in Served(c)}
=============================================================================
