---------------------------- MODULE MCReferendum ----------------------------
(***************************************************************************)
(* Small instances of Referendum.  The users dick and rick propose and vote*)
(* as in Maker/test.sh: new types, new parameters for FUD, and the flip of *)
(* its settlement by its feeder dick.                                      *)
(***************************************************************************)
EXTENDS Referendum, TLC

CONSTANTS rick, dick, EOS, USD, FUD, HEY, eosio_token

Param(ratio) ==
  [tau |-> 30, ttl |-> 5, feeder |-> dick, global_ceil |-> 200,
   debt_ceiling |-> 100, stability_fee |-> 10, beg |-> 20,
   penalty_ratio |-> 50, liquid8_ratio |-> ratio]
FlipParam == [Param(150) EXCEPT !.tau = 0, !.ttl = 0]
BadParam == Param(1500)
MCParams == {Param(150), Param(200), FlipParam, BadParam}
OfferOf(par) == [par |-> par, csym |-> EOS, ssym |-> USD, contract |-> eosio_token]
OffersAll == {OfferOf(par) : par \in {Param(200), FlipParam, BadParam}}
OffersOne == {OfferOf(Param(200))}
FudEnacted ==
  [t \in CdpTypes |->
     IF t # FUD THEN None
     ELSE [live |-> TRUE, par |-> Param(150), fee_balance |-> 0,
           total_stablecoin |-> 50, ssym |-> USD, total_collateral |-> 20000,
           csym |-> EOS, contract |-> eosio_token]]
MCQuoted == [s \in Symbols |-> IF s \in {USD, IQ, EOS} THEN 100 ELSE 0]
PurseTwo == [v \in Users |-> IF v = dick THEN 2 ELSE 1]
PurseOne == [v \in Users |-> 1]
NoneEnacted == [t \in CdpTypes |-> None]
=============================================================================
