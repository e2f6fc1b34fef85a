SPECIFICATION LiqSpec
CONSTANTS
  u1 = u1  u2 = u2  EOS = EOS  USD = USD  IQ = IQ  FUD = FUD
  eosio_token = eosio_token
  Self = Self  IQContract = IQContract  NoName = NoName  None = None
  Users = {u1, u2}
  Symbols = {EOS, USD, IQ, FUD}
  CdpTypes = {FUD}
  Tokens = {eosio_token, IQContract}
  MaxAmount = 20000
  FeedFresh = 1
  Params <- MCParams
  SecYr = 10
  MaxAge = 0
  Supply <- MCSupply
  Qty <- MCQty
  Prices = {100}
  PriceSym = USD
  Fed = {EOS, IQ}
  Quoted <- MCQuoted
  Enacted <- MCEnacted
  BidQty <- MCBidQty
  MaxBidAge = 2
SYMMETRY UserSymmetry
PROPERTIES WinnersAreGivenCollateral
