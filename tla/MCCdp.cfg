SPECIFICATION CdpSpec
CONSTANTS
  u1 = u1  u2 = u2  EOS = EOS  USD = USD  IQ = IQ  FUD = FUD
  eosio_token = eosio_token  fakeos = fakeos
  Self = Self  IQContract = IQContract  NoName = NoName  None = None
  Users = {u1, u2}
  Symbols = {EOS, USD, IQ, FUD}
  CdpTypes = {FUD}
  Tokens = {eosio_token, fakeos, IQContract}
  MaxAmount = 45000
  FeedFresh = 0
  Params <- MCParams
  SecYr = 10
  MaxAge = 1
  Supply <- SupplyTwo
  Qty <- MCQty
  Prices = {100}
  PriceSym = USD
  Fed = {EOS, IQ}
  Quoted <- MCQuoted
  Enacted <- MCEnacted
INVARIANTS CdpTypeOK VaultMatchesClaims TotalIsDebt StablecoinIsDebt TotalCoversLocked
PROPERTIES OwnersStaySafe
