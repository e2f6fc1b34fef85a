----------------------------- MODULE ProducerPay ----------------------------
(***************************************************************************)
(* What each block does: unpaid blocks are counted, once a minute the      *)
(* producers with the most votes are proposed as the schedule, and once a  *)
(* day an auction of a name is closed; and the pay that producers claim    *)
(* from inflation.  Source: src/decentralbank.system/producer_pay.cpp and  *)
(* voting.cpp.                                                             *)
(***************************************************************************)
EXTENDS Voting, NameAuction

CONSTANTS
  Producing,     \* the accounts that produce blocks
  ScheduleLimit, \* the most producers of a schedule (21)
  NameWait,      \* days from activation to the first closing of a name (14)
  DailyRate,     \* inflation of a day, in thousandths of the supply
  MinVotePay,    \* min_pervote_daily_pay
  MaxSupply,     \* the maximum supply of the core token
  MaxUnpaid      \* the bound of the blocks counted

ASSUME PayAssumption ==
  /\ ScheduleLimit \in Nat /\ NameWait \in Nat /\ DailyRate \in Nat
  /\ MinVotePay \in Nat /\ MaxSupply \in Nat /\ MaxUnpaid \in Nat

VARIABLES
  supply,     \* of the core token
  pay,        \* the buckets of the global state, and its unpaid blocks
  revision,   \* of the contract
  schedule,   \* the producers proposed last
  minute,     \* whether a minute has passed since the schedule was updated
  last_close  \* the day on which a name auction was closed, if any

payVars == <<supply, pay, revision, schedule, minute, last_close>>

PayState == [pervote_bucket: Nat, perblock_bucket: Nat, total_unpaid_blocks: Nat,
             last_pervote_bucket_fill: (0 .. MaxDay) \cup {None}]

PayInit ==
  /\ pay = [pervote_bucket |-> 0, perblock_bucket |-> 0, total_unpaid_blocks |-> 0,
            last_pervote_bucket_fill |-> None]
  /\ supply = SumFunction(Genesis)
  /\ revision = 0
  /\ schedule = {}
  /\ minute = TRUE
  /\ last_close = None

\* The block is counted for p, if it is registered.
CountedBlock(p) ==
  LET filled == [pay EXCEPT !.last_pervote_bucket_fill = IF @ = None THEN now ELSE @]
  IN IF p \in Candidates /\ producers[p] # None
     THEN /\ pay' = [filled EXCEPT !.total_unpaid_blocks = @ + 1]
          /\ producers' = [producers EXCEPT ![p] =
               [producers[p] EXCEPT !.unpaid_blocks = @ + 1]]
     ELSE pay' = filled /\ UNCHANGED producers

\* Those among the producers with the most votes that are active and have any.
Eligible == {p \in Candidates : /\ producers[p] # None /\ producers[p].is_active
                                /\ producers[p].total_votes > 0}
IsTop(T) ==
  /\ T \subseteq Eligible
  /\ Cardinality(T) = IF Cardinality(Eligible) < ScheduleLimit
                      THEN Cardinality(Eligible) ELSE ScheduleLimit
  /\ \A p \in T, q \in Eligible \ T : producers[p].total_votes >= producers[q].total_votes

UpdateSchedule ==
  \E T \in SUBSET Candidates :
     /\ IsTop(T)
     /\ schedule' = IF Cardinality(T) < Cardinality(schedule) THEN schedule ELSE T

MayClose(n) ==
  /\ last_close # None => now - last_close > 1
  /\ now - bids[n].last_bid_time > 1
  /\ gstate.thresh_activated_stake_time # None
  /\ now - gstate.thresh_activated_stake_time > NameWait

IsOpen(n) == bids[n] # None /\ bids[n].high_bid > 0
IsHighest(n) ==
  IsOpen(n) /\ \A m \in Names : IsOpen(m) => bids[m].high_bid <= bids[n].high_bid

\* Only the highest of all open bids can close; of several the chain has its
\* own order.
CloseName ==
  \/ \E n \in Names :
       /\ IsHighest(n)
       /\ IF MayClose(n)
          THEN /\ bids' = [bids EXCEPT ![n] = [bids[n] EXCEPT !.high_bid = -@]]
               /\ last_close' = now
          ELSE UNCHANGED <<bids, last_close>>
  \/ (\A n \in Names : ~ IsOpen(n)) /\ UNCHANGED <<bids, last_close>>

Onblock(p) ==
  /\ gstate.total_activated_stake >= MinActivatedStake
  /\ pay.total_unpaid_blocks < MaxUnpaid
  /\ CountedBlock(p)
  /\ IF minute THEN UpdateSchedule /\ CloseName
               ELSE UNCHANGED <<schedule, bids, last_close>>
  /\ minute' = FALSE
  /\ UNCHANGED <<voters, gstate, supply, revision, bidrefunds, bidcalls, created, core>>
-----------------------------------------------------------------------------
(* Claims *)

\* Inflation since the buckets were filled: four fifths are saved, and of
\* the rest a quarter pays for blocks and three for votes.
Inflation == IF pay.last_pervote_bucket_fill = None THEN 0
             ELSE (DailyRate * supply * (now - pay.last_pervote_bucket_fill)) \div 1000
ToProducers == Inflation \div 5
ToBlocks == ToProducers \div 4
ToVotes == ToProducers - ToBlocks

Filling == pay.last_pervote_bucket_fill # None /\ pay.last_pervote_bucket_fill < now
\* Payments of nothing fail, and so would the claim.
CanFill == ToBlocks > 0 /\ supply + Inflation <= MaxSupply

\* Faulty variant of Fill: the part for votes is rounded on its own.
FillApart ==
  [pay EXCEPT !.pervote_bucket = @ + (3 * Inflation) \div 20,
              !.perblock_bucket = @ + ToBlocks, !.last_pervote_bucket_fill = now]
Fill == IF ~ Filling THEN pay ELSE
  [pay EXCEPT !.pervote_bucket = @ + ToVotes, !.perblock_bucket = @ + ToBlocks,
              !.last_pervote_bucket_fill = now]
Issued == IF ~ Filling THEN core ELSE
  [core EXCEPT !["eosio.saving"] = @ + (Inflation - ToProducers),
               !["eosio.bpay"] = @ + ToBlocks, !["eosio.vpay"] = @ + ToVotes]

BlockPay(filled, row) ==
  IF filled.total_unpaid_blocks = 0 THEN 0
  ELSE (filled.perblock_bucket * row.unpaid_blocks) \div filled.total_unpaid_blocks

\* By the part of the shares; before revision 1 by the part of the votes.
VotePayOf(filled, row, shares) ==
  IF revision = 0
  THEN IF gstate.total_producer_vote_weight = 0 THEN 0
       ELSE (filled.pervote_bucket * row.total_votes)
              \div gstate.total_producer_vote_weight
  ELSE IF shares = 0 \/ Crossed(row) THEN 0
       ELSE LET part == (ShareNow(row) * filled.pervote_bucket) \div shares
            IN IF part > filled.pervote_bucket THEN filled.pervote_bucket ELSE part
VotePay(filled, row) ==
  LET part == VotePayOf(filled, row, AtLeast0(TotalShareNow(gstate)))
  IN IF part < MinVotePay THEN 0 ELSE part

Claimed(row) == [row EXCEPT !.unpaid_blocks = 0, !.last_claim_time = now,
                            !.votepay_share = 0, !.last_votepay_share_update = now]

\* The share of p leaves the total; if it had lapsed, p counts again.
SharesClaimed(row) ==
  TotalUpdated(gstate, ShareNow(row), IF Lapsed(row) THEN row.total_votes ELSE 0)

PaidOut(m, from, to, n) == IF n = 0 THEN m ELSE Paid(m, from, to, n)

Claimrewards(p) ==
  LET row == producers[p]
      filled == Fill
      forBlocks == BlockPay(filled, row)
      forVotes == VotePay(filled, row)
  IN /\ row # None /\ row.is_active
     /\ gstate.total_activated_stake >= MinActivatedStake
     /\ now - row.last_claim_time > 1
     /\ Filling => CanFill
     /\ supply' = IF Filling THEN supply + Inflation ELSE supply
     /\ pay' = [filled EXCEPT !.pervote_bucket = @ - forVotes,
                              !.perblock_bucket = @ - forBlocks,
                              !.total_unpaid_blocks = @ - row.unpaid_blocks]
     /\ forBlocks <= Issued["eosio.bpay"] /\ forVotes <= Issued["eosio.vpay"]
     /\ core' = PaidOut(PaidOut(Issued, "eosio.bpay", p, forBlocks),
                        "eosio.vpay", p, forVotes)
     /\ gstate' = SharesClaimed(row)
     /\ producers' = [producers EXCEPT ![p] = Claimed(row)]
     /\ UNCHANGED <<voters, revision, schedule, minute, last_close,
                    bids, bidrefunds, bidcalls, created>>

\* updtrevision, by the system's account: there is one revision to go to.
Updtrevision == revision = 0 /\ revision' = 1
-----------------------------------------------------------------------------
(* Properties *)

\* The total of the shares, which is brought up to date with a rate and
\* without visiting the producers, is what they have by their own rows, and
\* the rate is the votes of those whose shares still grow: also when shares
\* lapse, lapsed producers claim and votes change in any order (update_votes,
\* propagate_weight_change, claimrewards).
SharesAgree ==
  /\ TotalShareNow(gstate) =
       SumFunction([p \in Registered |-> ShareNow(producers[p])])
  /\ gstate.total_vpay_share_change_rate =
       SumFunction([p \in Registered |->
          IF Lapsed(producers[p]) THEN 0 ELSE producers[p].total_votes])

\* The two buckets from which producers are paid are covered by the accounts
\* that pay, and the blocks that share one of them are those of the producers
\* (onblock, claimrewards).  Equal, as no user sends tokens there itself.
BucketsAreFunded ==
  /\ core["eosio.bpay"] = pay.perblock_bucket
  /\ core["eosio.vpay"] = pay.pervote_bucket
  /\ pay.total_unpaid_blocks =
       SumFunction([p \in Registered |-> producers[p].unpaid_blocks])
=============================================================================
