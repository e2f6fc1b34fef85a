---------------------------- MODULE SystemContract --------------------------
(***************************************************************************)
(* The system contract: stakes and votes, the market of RAM, producers and *)
(* their pay, auctions of names, and the deferred calls of the chain.      *)
(* Source: src/decentralbank.system.                                       *)
(***************************************************************************)
EXTENDS RamMarket, ProducerPay

CONSTANTS
  AdminLimits,  \* the bytes of RAM that setalimits sets
  Creators,     \* the accounts that create accounts
  Revisable,    \* whether the system's account goes to revision 1
  MaxActivated  \* the bound of the activated stake, which restaking raises

ASSUME SystemAssumption ==
  AdminLimits \subseteq Int /\ Revisable \in BOOLEAN /\ MaxActivated \in Nat

vars == <<core, now, votingVars, stakingVars, ram, nameVars, payVars>>

Init == CoreInit /\ VotingInit /\ StakingInit /\ RamInit /\ NameInit /\ PayInit

Exists(r) == r \in Users \cup created

VotingOnly ==
  /\ VotingStep /\ gstate'.total_activated_stake <= MaxActivated
  /\ UNCHANGED <<core, now, stakingVars, ram, nameVars, payVars>>

StakingStep ==
  /\ \/ \E source \in Voters, r \in Receivers, q \in StakeQty, transfer \in BOOLEAN :
          Exists(r) /\ Delegatebw(source, r, q, transfer)
     \/ \E v \in Voters, r \in Receivers, q \in UnstakeQty : Undelegatebw(v, r, q)
  /\ gstate'.total_activated_stake <= MaxActivated
  /\ UNCHANGED <<now, ram, nameVars, payVars>>

RefundStep ==
  /\ \E v \in Voters : Refund(v) \/ RunRefund(v)
  /\ UNCHANGED <<now, votingVars, delband, userres, limits, ram, nameVars, payVars>>

RamStep ==
  /\ \/ \E payer \in Users, r \in Receivers :
          /\ Exists(r)
          /\ \/ \E quant \in RamQty : Buyram(payer, r, quant)
             \/ \E bytes \in RamBytes : Buyrambytes(payer, r, bytes)
     \/ \E r \in Receivers \cap Users, bytes \in RamBytes : Sellram(r, bytes)
  /\ UNCHANGED <<now, votingVars, refunds, deferred, nameVars, payVars>>

AdminStep ==
  \/ /\ \E size \in RamSizes : Setram(size)
     /\ UNCHANGED <<core, now, votingVars, stakingVars, nameVars, payVars>>
  \/ /\ \E rate \in RamRates : Setramrate(rate)
     /\ UNCHANGED <<core, now, votingVars, stakingVars, nameVars, payVars>>
  \/ /\ \E r \in Receivers, q \in StakeQty, bytes \in AdminLimits :
          Exists(r) /\ Setalimits(r, bytes, q)
     /\ UNCHANGED <<core, now, votingVars, refunds, deferred, ram, nameVars, payVars>>
  \/ /\ Revisable /\ Updtrevision
     /\ UNCHANGED <<core, now, votingVars, stakingVars, ram, nameVars,
                    supply, pay, schedule, minute, last_close>>

NameStep ==
  /\ \E n \in Names, b \in Bidders :
       \/ \E amount \in BidQty : Bidname(b, n, amount)
       \/ Bidrefund(n, b)
  /\ UNCHANGED <<now, votingVars, stakingVars, ram, payVars>>

BidrefundCall(n, b) ==
  RunBidrefund(n, b) /\ UNCHANGED <<now, votingVars, stakingVars, ram, payVars>>

\* A new account has a row of resources with nothing in it.
Newaccount(creator, n) ==
  /\ MayCreate(creator, n)
  /\ Created(creator, n)
  /\ IF n \in Receivers
     THEN /\ userres' = [userres EXCEPT ![n] = NoResources]
          /\ limits' = [limits EXCEPT ![n] = NoResources]
     ELSE UNCHANGED <<userres, limits>>
  /\ UNCHANGED <<core, now, votingVars, delband, refunds, deferred, ram, payVars>>

PayStep ==
  /\ \/ \E p \in Producing : Onblock(p)
     \/ \E p \in Candidates : Claimrewards(p)
  /\ UNCHANGED <<now, stakingVars, ram>>

\* A minute passes, or a day.
Tick ==
  /\ \/ ~ minute /\ UNCHANGED now
     \/ now < MaxDay /\ now' = now + 1
  /\ minute' = TRUE
  /\ UNCHANGED <<core, votingVars, stakingVars, ram, nameVars,
                 supply, pay, revision, schedule, last_close>>

Next ==
  \/ VotingOnly \/ StakingStep \/ RefundStep \/ RamStep \/ AdminStep
  \/ NameStep \/ \E n \in Names, b \in Bidders : BidrefundCall(n, b)
  \/ \E creator \in Creators, n \in NewNames : Newaccount(creator, n)
  \/ PayStep \/ Tick

Spec == Init /\ [][Next]_vars

\* The chain runs the deferred calls that it has been sent.
FairSpec == Spec /\ \A n \in Names, b \in Bidders : WF_vars(BidrefundCall(n, b))
-----------------------------------------------------------------------------
(* Properties *)

\* All tables hold values of their types: no balance, stake, bucket, tally of
\* votes, quota or market balance is ever negative, although they change by
\* differences and floors are few.
SystemTypeOK ==
  /\ core \in [Accounts -> Nat] /\ now \in 0 .. MaxDay
  /\ producers \in [Candidates -> ProducerRow \cup {None}]
  /\ voters \in [Voters -> VoterRow \cup {None}]
  /\ gstate \in GlobalState
  /\ delband \in [Voters -> [Receivers -> Amounts]]
  /\ userres \in [Receivers -> Resources \cup {None}]
  /\ limits \in [Receivers -> Limits]
  /\ refunds \in [Voters -> RefundRow \cup {None}]
  /\ deferred \in [Voters -> Nat \cup {None}]
  /\ ram \in RamMarketState
  /\ bids \in [Names -> BidRow \cup {None}]
  /\ bidrefunds \in [Names -> [Bidders -> Nat]]
  /\ bidcalls \subseteq Names \X Bidders
  /\ created \subseteq NewNames
  /\ supply \in Nat /\ pay \in PayState /\ revision \in {0, 1}
  /\ schedule \subseteq Candidates /\ minute \in BOOLEAN
  /\ last_close \in (0 .. MaxDay) \cup {None}

\* Staking, with everything else that moves the core token, implements the
\* abstract pool.
Pool == INSTANCE StakePool WITH
  Members <- Voters, Delay <- RefundDelay, LastDay <- MaxDay,
  purse <- [v \in Voters |-> core[v]], pool <- core["eosio.stake"],
  staked <- [v \in Voters |-> StakedBy(v)],
  pending <- [v \in Voters |-> TotalOf(Pending(v))],
  since <- [v \in Voters |-> IF refunds[v] = None THEN 0 ELSE refunds[v].request_time],
  day <- now

\* What is unstaked is paid to its owner once, after RefundDelay from the
\* last unstake, by hand or by the deferred call, and only the owner's own
\* stakes take from it (changebw, refund).
ImplementsStakePool == Pool!PoolSpec
=============================================================================
