SPECIFICATION TokensSpec
CONSTANTS
  h1 = h1  h2 = h2  ArticleContract = eparticlectr  IqCode = IQ  None = None
  Holders = {h1, h2, eparticlectr}
  Codes = {IQ}
  Precisions = {0, 3}
  IqPrecision = 3
  MaxAmount = 200000
  IqMultiplier = 1000
  EditProposeIq = 50
  MaxStake = 125
  Caps = {25000, 150000}
  Amounts = {25000, 75000}
  Votes = {0, 25}
INVARIANTS TokensTypeOK SupplyIsBalances RowsInOrder StakesArrive
PROPERTIES ImplementsLedger
CHECK_DEADLOCK FALSE
