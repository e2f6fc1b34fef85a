SPECIFICATION FairSpec
CONSTANTS
  u1 = u1  u2 = u2  u3 = u3  u4 = u4  None = None
  Users = {u1, u2, u3}
  Genesis <- Genesis32
  MaxDay = 2
  Voters = {u3}
  Candidates = {}
  Leavers = {}
  Proxies = {}
  Ballots <- BallotsNone
  Factor <- Constant
  ClaimWindow = 3
  MinActivatedStake = 1
  Receivers = {u3}
  StakeQty <- One
  UnstakeQty = {}
  RefundDelay = 1
  RamGift = 1
  RamQty = {}
  RamBytes = {}
  RamSizes = {}
  RamRates = {}
  RamWord = 3
  FreeRam = 12
  RamQuote = 4
  Bidders = {u1, u2}
  Names = {"a", "b"}
  Subnames = {"x.a"}
  Suffix <- SuffixA
  PlainNames = {}
  BidQty = {1, 2, 3}
  Producing = {u3}
  ScheduleLimit = 1
  NameWait = 0
  DailyRate = 0
  MinVotePay = 1
  MaxSupply = 1000
  MaxUnpaid = 1
  AdminLimits = {}
  Creators = {u1, "a", "eosio"}
  Revisable = FALSE
  MaxActivated = 1
INVARIANTS BidsAreFunded
PROPERTIES BidRefundsArrive
