SPECIFICATION Spec
CONSTANTS
  u1 = u1  u2 = u2  u3 = u3  u4 = u4  None = None
  Users = {u1, u2}
  Genesis <- Genesis71
  MaxDay = 1
  Voters = {u2}
  Candidates = {}
  Leavers = {}
  Proxies = {}
  Ballots <- BallotsNone
  Factor <- Constant
  ClaimWindow = 3
  MinActivatedStake = 1
  Receivers = {u2, "n"}
  StakeQty <- One
  UnstakeQty <- One
  RefundDelay = 1
  RamGift = 1
  RamQty = {3, 5}
  RamBytes = {3, 6}
  RamSizes = {14}
  RamRates = {2, 4}
  RamWord = 3
  FreeRam = 12
  RamQuote = 4
  Bidders = {}
  Names = {}
  Subnames = {}
  Suffix <- Empty
  PlainNames = {"n"}
  BidQty = {}
  Producing = {}
  ScheduleLimit = 2
  NameWait = 0
  DailyRate = 0
  MinVotePay = 0
  MaxSupply = 3
  MaxUnpaid = 0
  AdminLimits = {0}
  Creators = {u1}
  Revisable = FALSE
  MaxActivated = 2
INVARIANTS SystemTypeOK RamIsAccounted
PROPERTIES ProductNeverFalls
