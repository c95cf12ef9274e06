------------------------------- MODULE Planner -------------------------------
(***************************************************************************)
(* generate_plan (planner/plan_generator.py) and the templates it picks    *)
(* from (planner/plan_templates.py), one for each claim type: the calls of *)
(* each group, with their arguments, and the groups each group waits for.  *)
(*                                                                         *)
(* A thesis is what parse_thesis makes of a text: a record [claim, asset,  *)
(* direction, testable].  A ticker is a pair: "AAPL US Equity" is          *)
(* <<"AAPL", "US Equity">>.  Dates are days, today being Today.  Of the    *)
(* fields of a snapshot, those that the synthesiser reads.                 *)
(***************************************************************************)
EXTENDS Integers, Sequences

Today == 0

\* generate_plan: an instrument that was not recognised stands for the index.
Asset(thesis) == IF thesis.asset = "UNKNOWN" THEN "SPX" ELSE thesis.asset

\* No asset the parser yields has a space in it.
BloombergTicker(asset) == <<asset, "US Equity">>

SectorIndex(asset) ==
  IF asset \in {"AAPL", "MSFT", "GOOGL", "AMZN", "NVDA", "META"} THEN <<"XLK", "US Equity">>
  ELSE IF asset \in {"JPM", "GS", "MS", "BAC", "C", "WFC"} THEN <<"XLF", "US Equity">>
  ELSE <<"SPX", "Index">>
-----------------------------------------------------------------------------
RefDataCall(tickers, fields, desk) ==
  [server |-> "bloomberg", tool |-> "get_ref_data", required |-> TRUE,
   tickers |-> tickers, fields |-> fields, desk |-> desk]

\* Variant: the dates are swapped.
HistorySwapped(ticker, days, frequency, desk, required) ==
  [server |-> "bloomberg", tool |-> "get_history", required |-> required, ticker |-> ticker,
   start_date |-> Today, end_date |-> Today - days, frequency |-> frequency, desk |-> desk]

\* "{{date_minus_..}}" and "{{date_today}}" are already replaced.
HistoryCall(ticker, days, frequency, desk, required) ==
  [server |-> "bloomberg", tool |-> "get_history", required |-> required, ticker |-> ticker,
   start_date |-> Today - days, end_date |-> Today, frequency |-> frequency, desk |-> desk]

GreeksCall(asset, desk) ==
  [server |-> "risk", tool |-> "get_greeks", required |-> TRUE,
   desk |-> desk, underlying |-> asset]

ScenarioCall(scenario, magnitude, desk) ==
  [server |-> "risk", tool |-> "run_scenario", required |-> TRUE,
   desk |-> desk, scenario |-> scenario, magnitude |-> magnitude]

VarCall(metric, confidence, days, desk) ==
  [server |-> "risk", tool |-> "calculate_var", required |-> TRUE,
   desk |-> desk, metric |-> metric, confidence |-> confidence, horizon_days |-> days]

ResearchCall ==
  [server |-> "research", tool |-> "search_research", required |-> FALSE, max_results |-> 3]

\* The calls of the three groups; the search differs in its words only.
Calls(market, risk) ==
  [market_data |-> market, risk_analysis |-> risk, research_context |-> <<ResearchCall>>]
-----------------------------------------------------------------------------
\* date_minus_252d is 365 days ago.
Quarter == 90
Year == 365

VolMispricing(asset, desk) ==
  LET ticker == BloombergTicker(asset)
  IN  Calls(<<RefDataCall(<<ticker>>, {"PX_LAST", "IMPLIED_VOL_30D", "HIST_REALIZED_VOL_30D",
                                       "EARN_ANNOUNCE_DT"}, desk),
              HistoryCall(ticker, Quarter, "daily", desk, TRUE)>>,
            <<GreeksCall(asset, desk), ScenarioCall("vol_spike", 20, desk)>>)

Momentum(asset, desk) ==
  LET ticker == BloombergTicker(asset)
  IN  Calls(<<HistoryCall(ticker, Quarter, "daily", desk, TRUE),
              HistoryCall(SectorIndex(asset), Quarter, "daily", desk, FALSE),
              RefDataCall(<<ticker>>, {"PX_LAST", "HIST_REALIZED_VOL_30D"}, desk)>>,
            <<VarCall("var", 9900, 5, desk), ScenarioCall("equity_crash", 15, desk)>>)

RelativeValue(asset, desk) ==
  LET ticker == BloombergTicker(asset)
  IN  Calls(<<RefDataCall(<<ticker>>, {"PX_LAST", "HIST_REALIZED_VOL_30D"}, desk),
              HistoryCall(ticker, Year, "weekly", desk, TRUE)>>,
            <<ScenarioCall("custom", 20, desk), VarCall("cvar", 9500, 10, desk)>>)

MeanReversion(asset, desk) ==
  LET ticker == BloombergTicker(asset)
  IN  Calls(<<HistoryCall(ticker, Year, "weekly", desk, TRUE),
              RefDataCall(<<ticker>>, {"PX_LAST", "HIST_REALIZED_VOL_30D"}, desk)>>,
            <<VarCall("cvar", 9500, 10, desk), ScenarioCall("custom", 30, desk)>>)

EventDriven(asset, desk) ==
  LET ticker == BloombergTicker(asset)
  IN  Calls(<<RefDataCall(<<ticker>>, {"EARN_ANNOUNCE_DT", "IMPLIED_VOL_30D",
                                       "HIST_REALIZED_VOL_30D", "PX_LAST"}, desk),
              HistoryCall(ticker, Quarter, "daily", desk, TRUE)>>,
            <<GreeksCall(asset, desk), ScenarioCall("equity_crash", 20, desk)>>)

Macro(asset, desk) ==
  LET ticker == BloombergTicker(asset)
  IN  Calls(<<HistoryCall(ticker, Year, "weekly", desk, TRUE),
              RefDataCall(<<ticker, <<"SPX", "Index">>>>,
                          {"PX_LAST", "HIST_REALIZED_VOL_30D", "IMPLIED_VOL_30D"}, desk)>>,
            <<ScenarioCall("rate_shock", 20, desk), VarCall("var", 9900, 10, desk)>>)

\* TEMPLATES
Template(claim, asset, desk) ==
  IF claim = "vol_mispricing" THEN VolMispricing(asset, desk)
  ELSE IF claim = "momentum" THEN Momentum(asset, desk)
  ELSE IF claim = "relative_value" THEN RelativeValue(asset, desk)
  ELSE IF claim = "mean_reversion" THEN MeanReversion(asset, desk)
  ELSE IF claim = "event_driven" THEN EventDriven(asset, desk)
  ELSE Macro(asset, desk)

\* Variant: the research is listed before the risk.
GroupOrderResearchFirst == <<"market_data", "research_context", "risk_analysis">>

\* Alike in all templates.
GroupOrder == <<"market_data", "risk_analysis", "research_context">>
Dependencies ==
  [market_data |-> {}, risk_analysis |-> {"market_data"}, research_context |-> {"market_data"}]

\* A plan, with what the executor reads of it: order, deps and required.
GeneratePlan(thesis, desk) ==
  LET calls == Template(thesis.claim, Asset(thesis), desk)
  IN  [order |-> GroupOrder, deps |-> Dependencies, calls |-> calls,
       required |-> [g \in DOMAIN calls |-> [i \in DOMAIN calls[g] |-> calls[g][i].required]]]
=============================================================================
