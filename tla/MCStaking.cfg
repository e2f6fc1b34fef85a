SPECIFICATION Spec
CONSTANTS
  u1 = u1  u2 = u2  u3 = u3  u4 = u4  None = None
  Users = {u1, u2}
  Genesis <- Genesis40
  MaxDay = 1
  Voters = {u1, u2}
  Candidates = {}
  Leavers = {}
  Proxies = {}
  Ballots <- BallotsNone
  Factor <- Constant
  ClaimWindow = 3
  MinActivatedStake = 1
  Receivers = {u1, u2}
  StakeQty <- OnePair
  UnstakeQty <- Both
  RefundDelay = 1
  RamGift = 1
  RamQty = {}
  RamBytes = {}
  RamSizes = {}
  RamRates = {}
  RamWord = 3
  FreeRam = 12
  RamQuote = 4
  Bidders = {}
  Names = {}
  Subnames = {}
  Suffix <- Empty
  PlainNames = {}
  BidQty = {}
  Producing = {}
  ScheduleLimit = 2
  NameWait = 0
  DailyRate = 0
  MinVotePay = 0
  MaxSupply = 3
  MaxUnpaid = 0
  AdminLimits = {}
  Creators = {}
  Revisable = FALSE
  MaxActivated = 4
INVARIANTS StakesAreFunded DelegationsAgree DueRefundsPay
PROPERTIES ImplementsStakePool
