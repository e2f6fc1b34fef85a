SPECIFICATION RefSpec
CONSTANTS
  rick = rick  dick = dick  EOS = EOS  USD = USD  IQ = IQ  FUD = FUD  HEY = HEY
  eosio_token = eosio_token
  Self = Self  IQContract = IQContract  NoName = NoName  None = None
  Users = {rick, dick}
  Symbols = {EOS, USD, IQ, FUD, HEY}
  CdpTypes = {FUD, HEY}
  Tokens = {eosio_token, IQContract}
  MaxAmount = 20000
  FeedFresh = 1
  Params <- MCParams
  PriceSym = USD
  Quoted <- MCQuoted
  Enacted <- FudEnacted
  VotePeriod = 2
  Proposers = {rick, dick}
  Offers <- OffersAll
  VoteQty = {1}
  Purse <- PurseTwo
  Callers = {}
INVARIANTS RefTypeOK   MajoritiesDecide SessionsStandAlone
PROPERTIES ImplementsBallot
