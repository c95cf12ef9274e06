\* The risk score against its thresholds.
SPECIFICATION Spec
CONSTANTS
  None = None
  Securities <- MCSecurities
  Books <- MCBooks
  Histories <- MCHistories
  VaRs <- MCVaRs
  ProfitsAndLosses <- MCProfitsAndLosses
  Libraries <- MCLibraries
  Texts <- MCTexts
  ClaimKeywords <- MCClaimKeywords
  DirectionKeywords <- MCDirectionKeywords
  KnownTickers <- MCKnownTickers
  TickerLike <- MCTickerLike
  DeskNames <- MCDeskNames
  Accounts <- MCAccounts
INVARIANTS
  RiskThresholdsMet
\* A validation ends with its report.
CHECK_DEADLOCK FALSE
