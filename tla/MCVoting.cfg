SPECIFICATION Spec
CONSTANTS
  u1 = u1  u2 = u2  u3 = u3  u4 = u4  None = None
  Users = {u1, u2, u3, u4}
  Genesis <- Genesis1
  MaxDay = 1
  Voters = {u1, u2, u3}
  Candidates = {u4}
  Leavers = {u4}
  Proxies = {u1, u2}
  Ballots <- BallotsOne
  Factor <- Doubling
  ClaimWindow = 3
  MinActivatedStake = 3
  Receivers = {u3}
  StakeQty <- One
  UnstakeQty <- One
  RefundDelay = 2
  RamGift = 1
  RamQty = {}
  RamBytes = {}
  RamSizes = {}
  RamRates = {}
  RamWord = 3
  FreeRam = 1
  RamQuote = 1
  Bidders = {}
  Names = {}
  Subnames = {}
  Suffix <- Empty
  PlainNames = {}
  BidQty = {}
  Producing = {}
  ScheduleLimit = 2
  NameWait = 0
  DailyRate = 0
  MinVotePay = 0
  MaxSupply = 3
  MaxUnpaid = 0
  AdminLimits = {}
  Creators = {}
  Revisable = FALSE
  MaxActivated = 4
SYMMETRY ProxySymmetry
INVARIANTS VotesAreWeights VotesAreBacked ProxiesEnd
PROPERTIES ActivationIsStaked
