SPECIFICATION Spec
CONSTANTS
  u1 = u1  u2 = u2  u3 = u3  u4 = u4  None = None
  Users = {u1, u2, u3}
  Genesis <- Genesis100
  MaxDay = 3
  Voters = {u1}
  Candidates = {u2, u3}
  Leavers = {}
  Proxies = {}
  Ballots <- BallotsPay
  Factor <- Constant
  ClaimWindow = 3
  MinActivatedStake = 50
  Receivers = {u2}
  StakeQty <- All
  UnstakeQty = {}
  RefundDelay = 1
  RamGift = 1
  RamQty = {}
  RamBytes = {}
  RamSizes = {}
  RamRates = {}
  RamWord = 3
  FreeRam = 12
  RamQuote = 4
  Bidders = {}
  Names = {}
  Subnames = {}
  Suffix <- Empty
  PlainNames = {}
  BidQty = {}
  Producing = {u2, u3}
  ScheduleLimit = 1
  NameWait = 0
  DailyRate = 230
  MinVotePay = 1
  MaxSupply = 1000
  MaxUnpaid = 2
  AdminLimits = {}
  Creators = {}
  Revisable = TRUE
  MaxActivated = 100
INVARIANTS SharesAgree BucketsAreFunded
