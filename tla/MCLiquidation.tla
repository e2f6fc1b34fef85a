--------------------------- MODULE MCLiquidation ----------------------------
(***************************************************************************)
(* Two users with a position of the type FUD each, and their bids on one   *)
(* another's: 40 drawn is 60 with a penalty of 50% and still 40 with one of*)
(* 1%, so the bids of an auction can fall short of it, meet it in a higher *)
(* bid or in a later round, and exceed it; a surplus of 20 is sold for 200 *)
(* IQ.  The users are interchangeable.                                     *)
(***************************************************************************)
EXTENDS Liquidation, TLC

CONSTANTS u1, u2, EOS, USD, FUD, eosio_token

\* IQ is not brought in; after the settlement each user has some of it.
MCSupply == [c \in Tokens |-> [s \in Symbols |->
  IF c = eosio_token /\ s = EOS THEN 20000 ELSE 0]]
MCQty == [s \in Symbols |-> CASE s = EOS -> {10000} [] s = USD -> {40}
                              [] s = IQ -> {100} [] OTHER -> {}]
MCBidQty == [s \in Symbols |-> CASE s = USD -> {20, 40} [] s = IQ -> {100}
                                 [] OTHER -> {}]
Param(ttl, penalty) ==
  [tau |-> 2, ttl |-> ttl, feeder |-> Self, global_ceil |-> 100,
   debt_ceiling |-> 40, stability_fee |-> 10, beg |-> 10,
   penalty_ratio |-> penalty, liquid8_ratio |-> 150]
MCParams == {Param(1, 1), Param(2, 50)}
MCEnacted ==
  [t \in CdpTypes |->
     [live |-> TRUE, par |-> Param(2, 50), fee_balance |-> 0,
      total_stablecoin |-> 0, ssym |-> USD, total_collateral |-> 0,
      csym |-> EOS, contract |-> eosio_token]]
UserSymmetry == Permutations(Users)
MCQuoted == [s \in Symbols |-> IF s \in {USD, EOS} THEN 100 ELSE 0]

\* The type after its settlement: both users locked 10000 and drew 40, the
\* price of EOS fell to 0 and is stale.
SettledRow == [live |-> TRUE, age |-> 0, collateral |-> 10000, csym |-> EOS,
               stablecoin |-> 40, ssym |-> USD]
SettledInit ==
  /\ stat = [p \in Scopes |-> [t \in CdpTypes |->
       IF p # Self THEN None
       ELSE [MCEnacted[t] EXCEPT !.live = FALSE, !.par = Param(1, 1),
               !.total_stablecoin = 80, !.total_collateral = 20000]]]
  /\ feed = [s \in Symbols |->
       IF s \notin {USD, EOS} THEN None
       ELSE [total |-> IF s = USD THEN 80 ELSE 0, psym |-> PriceSym,
             price |-> IF s = USD THEN 100 ELSE 0, age |-> FeedFresh + 1]]
  /\ acnt = [s \in Symbols |-> [o \in Users |->
       IF s = USD THEN [balance |-> 40, code |-> Self]
       ELSE IF s = EOS THEN [balance |-> 0, code |-> eosio_token]
       ELSE IF s = IQ THEN [balance |-> 100, code |-> IQContract] ELSE None]]
  /\ cdp = [t \in CdpTypes |-> [o \in Users |-> SettledRow]]
  /\ vault = [c \in Tokens |-> [s \in Symbols |->
       IF c = eosio_token /\ s = EOS THEN 20000
       ELSE IF c = IQContract /\ s = IQ THEN 200 ELSE 0]]
  /\ bid = [t \in CdpTypes |-> [o \in Users |-> None]]
AuctionSpec == (LiqInit \/ SettledInit) /\ [][LiqNext]_liqVars
=============================================================================
