\* Every thesis, desk, outcome and order of calls: safety and liveness.
SPECIFICATION FairSpec
CONSTANTS
  None = None
  Securities <- MCSecurities
  Books <- MCBooks
  Histories <- MCHistories
  VaRs <- MCVaRs
  ProfitsAndLosses <- MCProfitsAndLosses
  Libraries <- MCLibraries
  Texts <- MCTexts
  ClaimKeywords <- MCClaimKeywords
  DirectionKeywords <- MCDirectionKeywords
  KnownTickers <- MCKnownTickers
  TickerLike <- MCTickerLike
  DeskNames <- MCDeskNames
  Accounts <- MCAccounts
INVARIANTS
  CallsAnswerable
  DeskIsolated
  SupportNeedsMarketData
  GapNeverSupports
  FavourableIsNoWorse
  EvidenceInOrder
PROPERTIES
  AlwaysReports
\* A validation ends with its report.
CHECK_DEADLOCK FALSE
