------------------------------- MODULE MCCdp --------------------------------
(***************************************************************************)
(* A small instance of Cdp: the type FUD of Maker/test.sh, collateral EOS  *)
(* and stablecoin USD, with a price of 1.00 USD; amounts keep the units of *)
(* their tokens (10000 is 1.0000 EOS, 100 is 1.00 USD).                    *)
(***************************************************************************)
EXTENDS Cdp, TLC

CONSTANTS u1, u2, EOS, USD, FUD, eosio_token, fakeos

MCSupply(eos, fake, iq) ==
  [c \in Tokens |-> [s \in Symbols |->
     CASE c = eosio_token /\ s = EOS -> eos
       [] c = fakeos /\ s = EOS -> fake
       [] c = IQContract /\ s = IQ -> iq
       [] OTHER -> 0]]
MCQty == [s \in Symbols |-> CASE s = EOS -> {15000} [] s = USD -> {50}
                              [] s = IQ -> {200} [] OTHER -> {}]
MCParam == [tau |-> 2, ttl |-> 1, feeder |-> u1, global_ceil |-> 150,
            debt_ceiling |-> 100, stability_fee |-> 2, beg |-> 20,
            penalty_ratio |-> 10, liquid8_ratio |-> 180]
MCParams == {MCParam}
MCEnacted ==
  [t \in CdpTypes |->
     [live |-> TRUE, par |-> MCParam, fee_balance |-> 0,
      total_stablecoin |-> 0, ssym |-> USD, total_collateral |-> 0,
      csym |-> EOS, contract |-> eosio_token]]
MCQuoted == [s \in Symbols |-> IF s \in {USD, IQ} THEN 100 ELSE 0]
SupplyTwo == MCSupply(30000, 15000, 200)
=============================================================================
