----------------------------- MODULE ThesisParser -----------------------------
(***************************************************************************)
(* parse_thesis (parser/thesis_parser.py): a text becomes a thesis, a      *)
(* record [claim, asset, direction, testable], by the keywords it contains *)
(* and the words in capitals it has.                                       *)
(*                                                                         *)
(* A text is a record [keywords, words, phrase]: the entries of the        *)
(* keyword tables that occur in it, anywhere and in any case, so that      *)
(* "long straddle" comes with "long"; its words of one to five capitals,   *)
(* or two such words with a slash, in order; and the first of the named    *)
(* instruments in it ("INVESTMENT_GRADE"), or "".  What parse_thesis finds *)
(* besides is only echoed: magnitude, timeframe, trade, asset class.       *)
(***************************************************************************)
EXTENDS Integers, Sequences, FiniteSets

CONSTANTS
  Texts,              \* the texts validate_thesis may be given
  ClaimKeywords,      \* _CLAIM_KEYWORDS, by claim type
  DirectionKeywords,  \* _DIRECTION_KEYWORDS, by direction: none for neutral
  KnownTickers,       \* _KNOWN_TICKERS
  TickerLike          \* the words of two to five letters that are no abbreviation

\* The enumerations, in the order that decides between equal scores.
ClaimTypes ==
  <<"vol_mispricing", "momentum", "relative_value", "event_driven", "macro", "mean_reversion">>
Directions == <<"long", "short", "neutral", "long_vol", "short_vol">>

Hits(text, keywords) == Cardinality(text.keywords \cap keywords)

\* The first of the best: max() over the scores, in the order of the enumeration.
Winner(order, table, text) ==
  order[CHOOSE n \in DOMAIN order : \A k \in DOMAIN order :
          LET best == Hits(text, table[order[n]])
              other == Hits(text, table[order[k]])
          IN other < best \/ (other = best /\ n <= k)]

NoSignal(order, table, text) == \A n \in DOMAIN order : Hits(text, table[order[n]]) = 0

ExtractClaimType(text) ==
  IF NoSignal(ClaimTypes, ClaimKeywords, text)
  THEN "relative_value"
  ELSE Winner(ClaimTypes, ClaimKeywords, text)

ExtractDirection(text, claim) ==
  IF NoSignal(Directions, DirectionKeywords, text)
  THEN IF claim = "vol_mispricing" THEN "long_vol" ELSE "neutral"
  ELSE Winner(Directions, DirectionKeywords, text)

\* The first word that is a known ticker, else the first that looks like one,
\* else the named instrument.
ExtractAsset(text) ==
  LET known == SelectSeq(text.words, LAMBDA w : w \in KnownTickers)
      candidates == SelectSeq(text.words, LAMBDA w : w \in TickerLike)
  IN IF known # <<>> THEN Head(known)
     ELSE IF candidates # <<>> THEN Head(candidates)
     ELSE IF text.phrase # "" THEN text.phrase
     ELSE "UNKNOWN"

ParseThesis(text) ==
  LET claim == ExtractClaimType(text)
  IN [claim |-> claim, asset |-> ExtractAsset(text),
      direction |-> ExtractDirection(text, claim), testable |-> ExtractAsset(text) # "UNKNOWN"]

Theses == {ParseThesis(text) : text \in Texts}
=============================================================================
