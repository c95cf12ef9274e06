------------------------- MODULE MCThesisValidation -------------------------
(***************************************************************************)
(* Texts of every claim type on a stock the Bloomberg universe has, one    *)
(* it has not, and the index, whose ticker is not the one the planner      *)
(* makes.  The numbers are those of the servers' data, or in their range.  *)
(***************************************************************************)
EXTENDS ThesisValidation

Field == {"PX_LAST", "IMPLIED_VOL_30D", "HIST_REALIZED_VOL_30D", "EARN_ANNOUNCE_DT"}

Snapshot(px, iv, rv, earnings) ==
  [PX_LAST |-> px, IMPLIED_VOL_30D |-> iv, HIST_REALIZED_VOL_30D |-> rv,
   EARN_ANNOUNCE_DT |-> earnings]

MCSecurities ==
  (<<"AAPL", "US Equity">> :> Snapshot(189, 2215, 1980, "2025-01-30"))
  @@ (<<"SPX", "Index">> :> Snapshot(5500, 1523, 1280, None))

MCBooks ==
  [equities |-> [underlyings |-> {"SPX", "AAPL"}, vega |-> 890000, delta |-> 0],
   rates |-> [underlyings |-> {"UST10Y"}, vega |-> 1850000, delta |-> 0],
   vol |-> [underlyings |-> {"SPX", "AAPL", "TSLA"}, vega |-> 2450000, delta |-> 0],
   macro |-> [underlyings |-> {"SPX", "UST10Y"}, vega |-> 620000, delta |-> 0],
   credit |-> [underlyings |-> {"CDX.IG"}, vega |-> 380000, delta |-> 0]]

Path(percentile, return, deviation) ==
  [percentile |-> percentile, return |-> return, deviation |-> deviation]

MCHistories == {Path(95, 120, 300), Path(20, -120, -300), Path(60, 10, 100)}
MCVaRs == {64}
MCProfitsAndLosses == {-50, 1025}

Title(positive, negative) == [positive |-> positive, negative |-> negative]
MCLibraries ==
  {<<>>, <<Title(2, 0), Title(0, 0)>>, <<Title(0, 1), Title(0, 1), Title(0, 0)>>,
   <<Title(0, 0), Title(0, 0), Title(0, 0), Title(2, 0)>>}

\* An excerpt of the tables of keywords.
MCClaimKeywords ==
  [vol_mispricing |-> {"implied vol", "iv-rv"},
   momentum |-> {"momentum", "rsi", "divergence", "overbought"},
   relative_value |-> {"pair trade", "mispriced relative to"},
   event_driven |-> {"earnings", "catalyst", "earnings catalyst", "gap risk"},
   macro |-> {"inflation", "rate differential", "usd", "jpy"},
   mean_reversion |-> {"mean reversion", "too tight", "too wide"}]
MCDirectionKeywords ==
  [long |-> {"long", "buy", "bullish"}, short |-> {"short", "sell", "overbought"},
   neutral |-> {}, long_vol |-> {"long straddle", "buy vol"},
   short_vol |-> {"short straddle", "sell vol"}]
MCKnownTickers == {"AAPL", "NVDA", "TSLA", "SPX", "USD", "JPY"}
MCTickerLike == MCKnownTickers \cup {"MRNA", "GDP"}

MCText(keywords, words, phrase) == [keywords |-> keywords, words |-> words, phrase |-> phrase]

\* The examples at the head of thesis_parser.py ...
Examples ==
  {MCText({"implied vol", "iv-rv", "mispriced relative to"}, <<"AAPL", "IV", "RV">>, ""),
   MCText({"momentum", "divergence", "rsi", "overbought"}, <<"SPX", "RSI">>, "TECH_SECTOR"),
   MCText({"mean reversion", "rsi", "too tight"}, <<>>, "INVESTMENT_GRADE"),
   MCText({"earnings", "catalyst", "earnings catalyst", "gap risk", "long", "long straddle"},
        <<"NVDA">>, ""),
   MCText({"rate differential", "usd", "jpy", "too wide", "short"}, <<"USD/JPY", "USD">>, "")}

\* ... and texts of every claim type on a stock and the index, momentum and mean
\* reversion (which comes with "rsi") on a stock that is not in the universe, an
\* abbreviation taken for a ticker, and a currency pair the parser cannot see.
MCTexts ==
  Examples
  \cup {MCText({k, "buy"}, <<w>>, "") :
          k \in {"implied vol", "pair trade", "earnings", "inflation"}, w \in {"AAPL", "SPX"}}
  \cup {MCText({"mean reversion", "rsi", "too wide"}, w, "") :
          w \in {<<"IV", "AAPL">>, <<"SPX">>, <<"MRNA">>}}
  \cup {MCText({"momentum", "buy"}, <<"AAPL">>, ""), MCText({"momentum", "short"}, <<"AAPL">>, ""),
        MCText({"momentum", "bullish"}, <<"MRNA", "RV">>, ""),
        MCText({"momentum", "short", "short straddle"}, <<"TSLA">>, ""),
        MCText({}, <<"MRNA", "AAPL">>, ""), MCText({"inflation"}, <<"GDP">>, ""),
        MCText({"rate differential", "usd", "jpy"}, <<"USD/JPY">>, "")}

MCDeskNames == {"vol", "rates", "fx"}

\* The orchestrator's login with a desk and without any, through the exchange
\* or, when the exchange failed, with its own token.
MCAccounts ==
  {[actor |-> "mcp-gateway", desks |-> {"vol"}], [actor |-> None, desks |-> {}]}
=============================================================================
