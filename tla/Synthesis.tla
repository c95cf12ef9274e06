------------------------------ MODULE Synthesis ------------------------------
(***************************************************************************)
(* The synthesiser: the evidence in the results of a plan                  *)
(* (synthesiser/evidence_scorer.py), the risk score (risk_assessor.py),    *)
(* the confidence and the verdict (report_generator.py).                   *)
(*                                                                         *)
(* A result is a record [call, success, data].  An item of evidence is a   *)
(* record [source, class, confidence, gap]: the server it came from, how   *)
(* it is classified, the confidence in thousandths, whether it stands for  *)
(* a failed call.                                                          *)
(***************************************************************************)
EXTENDS ToolServers, FiniteSets, FiniteSetsExt, SequencesExt

Bloomberg == 850
Risk == 800
Research == 650

Item(source, class, confidence) ==
  <<[source |-> source, class |-> class, confidence |-> confidence, gap |-> FALSE]>>

Nothing == <<>>

\* d.get(key)
Get(d, key) == IF key \in DOMAIN d THEN d[key] ELSE None

Truthy(v) == v # None /\ (v.kind = "number" => v.value # 0)

\* _safe_float of d.get(k1) or d.get(k2) or ..: the first value that is truthy,
\* if it is a number.
FirstNumber(d, keys) ==
  LET given == {n \in DOMAIN keys : Truthy(Get(d, keys[n]))}
      first == d[keys[Min(given)]]
  IN  IF given = {} \/ first.kind # "number" THEN None ELSE first.value

Magnitude(n) == IF n < 0 THEN -n ELSE n
-----------------------------------------------------------------------------
\* Variant: no text is scored.
UnscorableText(result) == result.success /\ "raw_text" \in DOMAIN result.data

\* The fields of a ticker are looked up in whatever the data holds: a text has
\* none and raises.
Unscorable(result) ==
  result.success /\ result.call.tool = "get_ref_data" /\ "raw_text" \in DOMAIN result.data

\* The fields of the first ticker; the thresholds are in volatility points.
ScoreRefData(d, thesis) ==
  LET fields == d.data[1]
      iv == Get(fields, "IMPLIED_VOL_30D")
      rv == Get(fields, "HIST_REALIZED_VOL_30D")
      spread ==
        IF iv = None \/ rv = None \/ thesis.claim # "vol_mispricing" THEN Nothing
        ELSE IF iv - rv > 40000
             THEN Item("bloomberg", "FOR",
                       IF rv > 0 THEN Within(Bloomberg + (500 * (iv - rv)) \div rv, 0, 900)
                                 ELSE Bloomberg)
        ELSE IF iv - rv < -20000 THEN Item("bloomberg", "AGAINST", Bloomberg)
        ELSE Item("bloomberg", "NEUTRAL", 700)
      earnings ==
        IF Get(fields, "EARN_ANNOUNCE_DT") # None
           /\ thesis.claim \in {"event_driven", "vol_mispricing"}
        THEN Item("bloomberg", "FOR", 750) ELSE Nothing
      price ==
        IF Get(fields, "PX_LAST") # None THEN Item("bloomberg", "NEUTRAL", 950) ELSE Nothing
  IN  spread \o earnings \o price

\* The share of the days with a spread no larger than the last.
ScorePercentile(percentile) ==
  IF percentile >= 80
  THEN Item("bloomberg", "FOR", Within(Bloomberg + 10 * (percentile - 80), 0, 920))
  ELSE IF percentile <= 40 THEN Item("bloomberg", "AGAINST", Bloomberg)
  ELSE Item("bloomberg", "NEUTRAL", 700)

\* The price's return over the period.
ScoreReturn(return, direction) ==
  IF \/ direction \in {"long", "long_vol"} /\ return > 100
     \/ direction = "short" /\ return < -100
  THEN Item("bloomberg", "FOR", Within(Bloomberg + Magnitude(return), 0, 880))
  ELSE IF Magnitude(return) < 30 THEN Item("bloomberg", "AGAINST", 720)
  ELSE Nothing

\* The last realised volatility against its average.
ScoreDeviation(deviation) ==
  IF Magnitude(deviation) <= 250 THEN Nothing
  ELSE Item("bloomberg", IF deviation > 0 THEN "FOR" ELSE "NEUTRAL", 760)

ScoreHistory(d, thesis) ==
  IF "bars" \notin DOMAIN d \/ d.bars < 10 THEN Nothing
  ELSE IF thesis.claim = "vol_mispricing" THEN ScorePercentile(d.path.percentile)
  ELSE IF thesis.claim = "momentum" THEN ScoreReturn(d.path.return, thesis.direction)
  ELSE IF thesis.claim \in {"mean_reversion", "relative_value"}
       THEN ScoreDeviation(d.path.deviation)
  ELSE Nothing

ScoreVar(d) ==
  LET v == FirstNumber(d, <<"var", "VaR">>)
      val == IF v = None THEN FirstNumber(d, <<"cvar", "CVaR">>) ELSE v
  IN  IF val = None THEN Nothing
      ELSE Item("risk", IF Magnitude(val) > 30 THEN "AGAINST" ELSE "NEUTRAL", Risk)

\* An exposure is looked for at the top of the answer, then under "portfolio".
Exposure(d, greek) ==
  LET top == FirstNumber(d, <<greek>>)
  IN  IF top = None /\ "portfolio" \in DOMAIN d THEN FirstNumber(d.portfolio.value, <<greek>>)
      ELSE top

ScoreGreeks(d, thesis) ==
  LET vega == Exposure(d, "vega")
      class == IF thesis.claim # "vol_mispricing" \/ vega = None THEN "NEUTRAL"
               ELSE IF vega > 50000 THEN "AGAINST"
               ELSE IF vega < -50000 THEN "FOR" ELSE "NEUTRAL"
  IN  IF vega = None /\ Exposure(d, "delta") = None THEN Nothing
      ELSE Item("risk", class, Risk - 50)

ScoreScenario(d) ==
  LET pnl == FirstNumber(d, <<"pnl_impact", "total_pnl", "pnl">>)
  IN  IF pnl = None THEN Nothing
      ELSE IF pnl < -50 THEN Item("risk", "AGAINST", Risk)
      ELSE IF pnl > 20 THEN Item("risk", "FOR", Risk - 100)
      ELSE Item("risk", "NEUTRAL", 700)

\* The keywords in the titles of the first three documents; the answer has no
\* summaries, and its snippets are not read.
ScoreResearch(d) ==
  LET read == 1..Within(3, 0, Len(d.results))
      positive == MapThenSumSet(LAMBDA i : d.results[i].positive, read)
      negative == MapThenSumSet(LAMBDA i : d.results[i].negative, read)
  IN  IF d.results = <<>> THEN Item("research", "NEUTRAL", 500)
      ELSE IF positive > negative + 1 THEN Item("research", "FOR", Research - 100)
      ELSE IF negative > positive + 1 THEN Item("research", "AGAINST", Research - 100)
      ELSE Item("research", "NEUTRAL", Research - 150)

\* Variants: a failed call leaves no item.
NoGapItem(result) == Nothing

DataGapItem(result) ==
  <<[source |-> result.call.server, class |-> "NEUTRAL", confidence |-> 400, gap |-> TRUE]>>

ScoreResult(result, thesis) ==
  LET tool == result.call.tool
  IN  IF ~result.success THEN DataGapItem(result)
      ELSE IF tool = "get_ref_data" THEN ScoreRefData(result.data, thesis)
      ELSE IF tool = "get_history" THEN ScoreHistory(result.data, thesis)
      ELSE IF tool = "calculate_var" THEN ScoreVar(result.data)
      ELSE IF tool = "get_greeks" THEN ScoreGreeks(result.data, thesis)
      ELSE IF tool = "run_scenario" THEN ScoreScenario(result.data)
      ELSE ScoreResearch(result.data)

ScoreEvidence(results, thesis) ==
  FlattenSeq([n \in DOMAIN results |-> ScoreResult(results[n], thesis)])
-----------------------------------------------------------------------------
RiskLevels == <<"LOW", "MEDIUM", "HIGH", "EXTREME">>

\* The level of a loss, from 0, of either sign, for the thresholds of its kind.
LossLevel(loss, thresholds) ==
  IF loss = None THEN 0
  ELSE Cardinality({n \in DOMAIN thresholds : Magnitude(loss) >= thresholds[n]})

ComputeRiskScore(pnl, var, vega, delta) ==
  LET base == Max({LossLevel(pnl, <<20, 50, 100>>), LossLevel(var, <<10, 30, 50>>)})
      concentrated == LossLevel(vega, <<200000>>) + LossLevel(delta, <<500000>>) > 0
  IN  RiskLevels[1 + Within(IF concentrated THEN base + 1 ELSE base, 0, 3)]

\* The last of a sequence of values that is there.
LastKnown(values) ==
  LET known == SelectSeq(values, LAMBDA v : v # None)
  IN  IF known = <<>> THEN None ELSE Last(known)

\* assess_risk: the worst scenario, the last VaR, the last Greeks.
AssessRisk(results) ==
  LET Of(tool) == SelectSeq(results, LAMBDA r : r.success /\ r.call.tool = tool)
      Values(tool, Read(_)) == [n \in DOMAIN Of(tool) |-> Read(Of(tool)[n].data)]
      Book(d) == IF "portfolio" \in DOMAIN d THEN d.portfolio.value ELSE d
      pnls == Range(Values("run_scenario",
                LAMBDA d : FirstNumber(d, <<"pnl_impact", "total_pnl", "pnl">>))) \ {None}
  IN  ComputeRiskScore(
        IF pnls = {} THEN None ELSE Min(pnls),
        LastKnown(Values("calculate_var",
          LAMBDA d : FirstNumber(d, <<"var", "cvar", "VaR", "CVaR">>))),
        LastKnown(Values("get_greeks", LAMBDA d : FirstNumber(Book(d), <<"vega">>))),
        LastKnown(Values("get_greeks", LAMBDA d : FirstNumber(Book(d), <<"delta">>))))
-----------------------------------------------------------------------------
Classified(evidence, class) == {n \in DOMAIN evidence : evidence[n].class = class}

Total(evidence, class) ==
  SumFunctionOnSet([n \in DOMAIN evidence |-> evidence[n].confidence], Classified(evidence, class))

\* a / b to the nearest integer
Rounded(a, b) == (2 * a + b) \div (2 * b)

\* Variant: neutral items pull the confidence up to 1.
BlendUp(nFor, nAgainst, nNeutral, for, against) ==
  LET n == IF nFor + nAgainst = 0 THEN 1 ELSE nFor + nAgainst
      weight == Within(5 * nNeutral, 0, 20)
  IN  Within(Rounded((2 * for - against) * (100 - weight) + 2000 * n * weight, 200 * n), 0, 1000)

\* The mean of the FOR items, dragged by half of the AGAINST, and pulled to
\* 1/2 by up to 20% for the neutral items.
Blend(nFor, nAgainst, nNeutral, for, against) ==
  LET n == IF nFor + nAgainst = 0 THEN 1 ELSE nFor + nAgainst
      weight == Within(5 * nNeutral, 0, 20)
  IN  Within(Rounded((2 * for - against) * (100 - weight) + 1000 * n * weight, 200 * n), 0, 1000)

\* Variant: the drag is averaged by itself.
ConfidenceOfMeans(evidence) ==
  LET Count(class) == Cardinality(Classified(evidence, class))
      Mean(class) == IF Count(class) = 0 THEN 0 ELSE Total(evidence, class) \div Count(class)
      weight == Within(5 * Count("NEUTRAL"), 0, 20)
      blended == Mean("FOR") - Mean("AGAINST") \div 2
  IN  Within(Rounded(blended * (100 - weight) + 500 * weight, 100), 0, 1000)

\* _compute_confidence
Confidence(evidence) ==
  LET Count(class) == Cardinality(Classified(evidence, class))
  IN  IF evidence = <<>> THEN 500
      ELSE Blend(Count("FOR"), Count("AGAINST"), Count("NEUTRAL"),
                 Total(evidence, "FOR"), Total(evidence, "AGAINST"))

\* _compute_verdict
Verdict(nFor, nAgainst, confidence) ==
  IF confidence >= 550 /\ nFor > nAgainst THEN "SUPPORTED"
  ELSE IF confidence < 350 \/ (nAgainst >= 2 /\ nAgainst >= 2 * nFor) THEN "UNSUPPORTED"
  ELSE "INCONCLUSIVE"

VerdictOf(evidence) ==
  Verdict(Cardinality(Classified(evidence, "FOR")),
          Cardinality(Classified(evidence, "AGAINST")), Confidence(evidence))

Successes(results) ==
  FlattenSeq([n \in DOMAIN results |-> IF results[n].success THEN <<results[n]>> ELSE <<>>])

\* generate_report, without its prose.
GenerateReport(results, thesis) ==
  LET evidence == ScoreEvidence(results, thesis)
  IN  [evidence |-> evidence, verdict |-> VerdictOf(evidence), confidence |-> Confidence(evidence),
       risk_score |-> AssessRisk(results), made |-> Len(results),
       succeeded |-> Len(Successes(results))]
=============================================================================
