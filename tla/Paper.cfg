CONSTANTS
  Symbols = {"spus", "spsk"}
  Sessions <- MCSessions
  FirstCovered = 1
  LastCovered = 15
  Listed <- MCListed
  TruncatedAt = 7
  MaxMissingPct = 25
  CommissionMin = 0
  CommissionPerShare = 1
  SpreadBps = 20
  SlippageBps = 20
  SecFeeBps = 10
  TafPerShare = 1
  Start = 1
  End = 9
  TrainDays = 2
  TestDays = 4
  GapDays = 1
  MinHold = 1
  InitialCapital = 10000
  BufferPct = 5
  MaxWeightPct = 90
  Stopped = {"spus"}
  StopPct = 8
  TargetPct = 12
  Price <- MCPrice
  MaxAgeDays = 2
  None = None
  StartingCash = 40021
  SettlementDays = 1
  BuyFill = 5003
  SellFill = 4998
  LastPrice = 5000
  RiskBudget = 801
  StopDistance = 400
  MaxNotional = 12505
  MinNotional = 2000
  CashBuffer = 2501
  ExitAfter = 1
  MeaningfulTrades = 3
  FirstDay = 10
  LastDay = 14
  MaxFetches = 1
  MaxStarts = 3
  Ranges <- MCRanges
  EarlierRecords <- MCEarlierRecords
SPECIFICATION Spec
INVARIANTS
  BooksBalance
  TradesAreHonest
  DayPnlIsOfOneMode
PROPERTIES
  ActsOnNewestEvidence
  KeepsTheCashAccount
CHECK_DEADLOCK FALSE
