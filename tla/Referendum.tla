----------------------------- MODULE Referendum -----------------------------
(***************************************************************************)
(* Proposals of CDP types, votes on them with staked IQ, and the referendum*)
(* that a deferred transaction holds after the voting period.  Source:     *)
(* propose, vote and referended in src/Maker/daiqcontract.cpp.             *)
(*                                                                         *)
(* A deferred transaction runs some time after its delay.  The chain takes *)
(* it off its queue first; if it fails, nothing of it is kept and it is    *)
(* not tried again.  Its id is its proposer and the second it was sent in, *)
(* and sending a second one with an id still in the queue fails.           *)
(***************************************************************************)
EXTENDS DaiqTables

CONSTANTS
  VotePeriod, \* VOTE_PERIOD, in seconds
  Proposers,  \* accounts that make proposals; _self may be one
  Offers,     \* what they propose
  VoteQty,    \* the amounts of IQ a vote may name
  Purse,      \* the IQ each user has deposited at the start
  Callers     \* accounts that call referended directly

VARIABLES
  prop,     \* proposals in session, by CDP type
  deferred  \* deferred calls of referended in the queue

refVars == <<stat, feed, acnt, prop, deferred>>

PropRow == [proposer: Scopes, left: 0 .. VotePeriod, yay: 0 .. MaxAmount,
            nay: 0 .. MaxAmount]
Call == [proposer: Scopes, type: CdpTypes, wait: 0 .. VotePeriod]
Offer == [par: Params, csym: Symbols, ssym: Symbols, contract: Tokens]

ASSUME ReferendumAssumption ==
  /\ VotePeriod \in Nat \ {0}
  /\ Proposers \subseteq Scopes /\ Offers \subseteq Offer
  /\ VoteQty \subseteq 1 .. MaxAmount
  /\ Purse \in [Users -> 0 .. MaxAmount] /\ Callers \subseteq Scopes
  /\ None \notin PropRow \cup Params \cup [live: BOOLEAN, par: Params]
  /\ None \notin [yay: Int, nay: Int, motion: Params \cup {None}]

RefTypeOK ==
  /\ TablesTypeOK
  /\ prop \in [CdpTypes -> PropRow \cup {None}]
  /\ deferred \in SUBSET Call

RefInit ==
  /\ StatInit /\ FeedInit
  /\ acnt = [s \in Symbols |-> [v \in Users |->
               IF s = IQ /\ Purse[v] > 0
               THEN [balance |-> Purse[v], code |-> IQContract] ELSE None]]
  /\ prop = [t \in CdpTypes |-> None]
  /\ deferred = {}
-----------------------------------------------------------------------------
\* Faulty variants: nothing is sent; a proposal in session may be replaced.
NothingSent(queue, p, t) == queue
MayReplace(p, t) == stat[p][t] = None

\* Sending a deferred referended from a queue: it fails on a taken id.
CanSend(queue, p) == \A d \in queue : d.proposer = p => d.wait # VotePeriod
Send(queue, p, t) ==
  queue \cup {[proposer |-> p, type |-> t, wait |-> VotePeriod]}

\* Zero tau and ttl stand for a flip of the settlement of an existing type.
IsFlip(par) == par.tau = 0 /\ par.ttl = 0

\* "bad props": the bounds on the parameters of a type.
GoodParams(par) ==
  /\ 0 < par.debt_ceiling /\ par.debt_ceiling < par.global_ceil
  /\ par.global_ceil <= par.debt_ceiling * 1000000
  /\ par.penalty_ratio \in 1 .. 100 /\ par.stability_fee \in 1 .. 100
  /\ par.beg \in 1 .. 100 /\ par.liquid8_ratio \in 100 .. 1000
  /\ par.tau <= 3600 /\ par.ttl <= 600

\* "already in session", "proposer already claimed this cdp type".
Unclaimed(p, t) == prop[t] = None /\ stat[p][t] = None
\* "only priviliged accounts may propose global settlement".
MayFlip(p, t) == stat[Self][t] # None /\ stat[Self][t].par.feeder = p

\* propose: the parameters wait in the proposer's scope of stat.
Propose(p, t, offer) ==
  /\ Unclaimed(p, t)
  /\ feed[t] = None /\ feed[offer.ssym] # None
  /\ \/ /\ IsFlip(offer.par)
        /\ MayFlip(p, t)
        /\ UNCHANGED stat
     \/ /\ ~IsFlip(offer.par) /\ GoodParams(offer.par)
        /\ stat' = [stat EXCEPT ![p][t] =
             [live |-> FALSE, par |-> offer.par, fee_balance |-> 0,
              total_stablecoin |-> 0, ssym |-> offer.ssym,
              total_collateral |-> 0, csym |-> offer.csym,
              contract |-> offer.contract]]
  /\ prop' = [prop EXCEPT ![t] =
       [proposer |-> p, left |-> VotePeriod, yay |-> 0, nay |-> 0]]
  /\ CanSend(deferred, p)
  /\ deferred' = Send(deferred, p, t)
  /\ UNCHANGED <<feed, acnt>>

\* vote: the IQ goes to a row in the scope of the type, which has no code.
Vote(v, t, against, q) ==
  LET at == acnt[t][v]
      staked == IF at = None THEN q ELSE at.balance + q
  IN  /\ prop[t] # None
      /\ CanDebit(acnt, v, IQ, q)
      /\ InRange(staked)
      /\ acnt' = [Debit(acnt, v, IQ, q) EXCEPT ![t][v] =
           [balance |-> staked, code |-> IF at = None THEN NoName ELSE at.code]]
      /\ IF against
         THEN /\ InRange(prop[t].nay + q)
              /\ prop' = [prop EXCEPT ![t].nay = @ + q]
         ELSE /\ InRange(prop[t].yay + q)
              /\ prop' = [prop EXCEPT ![t].yay = @ + q]
      /\ UNCHANGED <<stat, feed, deferred>>
-----------------------------------------------------------------------------
\* referended, on a tie: another voting period.
Tie(t) == prop[t].yay = prop[t].nay

\* Faulty variants: refunds are booked for no contract; a vote of new parameters
\* does not revive the type.
CanRefundNoName(t) ==
  \A v \in Users : acnt[t][v] # None => CanCredit(acnt, v, IQ, acnt[t][v].balance, NoName)
WonWithoutRevival(p, t) ==
  IF stat[p][t] = None THEN [stat[Self][t] EXCEPT !.live = ~@]
  ELSE IF stat[Self][t] = None THEN [stat[p][t] EXCEPT !.live = TRUE]
  ELSE [stat[Self][t] EXCEPT !.par = stat[p][t].par]

\* Otherwise every row in the scope of the type is paid out as IQ and erased.
CanRefund(t) ==
  \A v \in Users : acnt[t][v] # None =>
    CanCredit(acnt, v, IQ, acnt[t][v].balance, IQContract)

\* The IQ balance of v with the refund of the stake on t.
Refunded(t, v) == IF acnt[t][v] = None THEN acnt[IQ][v]
                  ELSE Paid(acnt[IQ][v], acnt[t][v].balance, IQContract)
\* Faulty variants: the stake is left, or the refund replaces the balance.
RefundKeepsStake(t) == [acnt EXCEPT ![IQ] = [v \in Users |-> Refunded(t, v)]]
RefundReplaces(t) ==
  [acnt EXCEPT ![IQ] = [v \in Users |-> IF acnt[t][v] = None THEN acnt[IQ][v]
                          ELSE [balance |-> acnt[t][v].balance, code |-> IQContract]],
               ![t] = [v \in Users |-> None]]

Refund(t) == [acnt EXCEPT ![IQ] = [v \in Users |-> Refunded(t, v)],
                          ![t] = [v \in Users |-> None]]

\* The CDP type once a proposal by p has won: its settlement flipped, when p's
\* scope has no parameters for it, or the parameters put in force.
Won(p, t) ==
  LET st == stat[Self][t]
      pst == stat[p][t]
  IN  IF pst = None THEN [st EXCEPT !.live = ~@]
      ELSE IF st = None THEN [pst EXCEPT !.live = TRUE]
      ELSE [st EXCEPT !.live = TRUE, !.par = pst.par]

\* The proposal's parameters are erased, those of a flip excepted: it has none.
Cleaned(p, t, st) == IF stat[p][t] = None THEN st ELSE [st EXCEPT ![p][t] = None]

CanDecide(p, t) ==
  /\ CanRefund(t)
  /\ prop[t].yay > prop[t].nay /\ stat[p][t] = None => stat[Self][t] # None

Decide(p, t) ==
  LET enacted == IF prop[t].yay > prop[t].nay
                 THEN [stat EXCEPT ![Self][t] = Won(p, t)] ELSE stat
  IN  /\ acnt' = Refund(t)
      /\ stat' = Cleaned(p, t, enacted)
      /\ prop' = [prop EXCEPT ![t] = None]

\* Whether referended succeeds when queue holds the other deferred calls, and
\* what it does.
CanReferend(p, t, queue) ==
  /\ prop[t] # None /\ prop[t].left = 0
  /\ IF Tie(t) THEN CanSend(queue, p) ELSE CanDecide(p, t)
Referended(p, t, queue) ==
  /\ CanReferend(p, t, queue)
  /\ \/ /\ Tie(t)
        /\ deferred' = Send(queue, p, t)
        /\ UNCHANGED <<stat, acnt, prop>>
     \/ /\ ~Tie(t)
        /\ Decide(p, t)
        /\ deferred' = queue
  /\ UNCHANGED feed

\* A deferred call whose delay has passed runs, or fails and is lost.
RunDeferred(d) ==
  /\ d.wait = 0
  /\ \/ Referended(d.proposer, d.type, deferred \ {d})
     \/ /\ ~CanReferend(d.proposer, d.type, deferred \ {d})
        /\ deferred' = deferred \ {d}
        /\ UNCHANGED <<stat, feed, acnt, prop>>

\* A direct call needs the authority of the contract's own account.  The
\* caller is taken to name the proposer that made the proposal.
CallReferended(caller, t) ==
  /\ caller = Self
  /\ prop[t] # None /\ Referended(prop[t].proposer, t, deferred)

AgeProposals ==
  /\ prop' = [t \in CdpTypes |->
       IF prop[t] = None \/ prop[t].left = 0 THEN prop[t]
       ELSE [prop[t] EXCEPT !.left = @ - 1]]
  /\ deferred' = {[d EXCEPT !.wait = IF @ = 0 THEN 0 ELSE @ - 1] : d \in deferred}
-----------------------------------------------------------------------------
ProposeStep == \E p \in Proposers, t \in CdpTypes, offer \in Offers : Propose(p, t, offer)
VoteStep ==
  \E v \in Users, t \in CdpTypes, against \in BOOLEAN, q \in VoteQty :
    Vote(v, t, against, q)
DeferredStep == \E d \in deferred : RunDeferred(d)
CallStep == \E c \in Callers, t \in CdpTypes : CallReferended(c, t)
RefTick == AgeProposals /\ UNCHANGED <<stat, feed, acnt>>

RefNext == ProposeStep \/ VoteStep \/ DeferredStep \/ CallStep \/ RefTick

RefSpec == RefInit /\ [][RefNext]_refVars

\* Time passes, and the chain runs every deferred call whose delay has passed.
RefFairness ==
  /\ WF_refVars(RefTick)
  /\ \A p \in Scopes, t \in CdpTypes :
       WF_refVars(\E d \in deferred :
                    d.proposer = p /\ d.type = t /\ RunDeferred(d))
RefFairSpec == RefSpec /\ RefFairness
-----------------------------------------------------------------------------
BalanceOf(s, o) == IF acnt[s][o] = None THEN 0 ELSE acnt[s][o].balance
StakeOn(t) == SumFunctionOnSet([v \in Users |-> BalanceOf(t, v)], Users)

\* The votes counted on a proposal are the IQ staked on it, and outside of a
\* session nothing is left in the scope of a type.
VotesAreStaked ==
  \A t \in CdpTypes :
    StakeOn(t) = IF prop[t] = None THEN 0 ELSE prop[t].yay + prop[t].nay

\* No voter's IQ is created or lost: what each has deposited is free or staked,
\* and a refund gives it back to the one that staked it.
IQIsKept ==
  \A v \in Users :
    BalanceOf(IQ, v) + SumFunctionOnSet([t \in CdpTypes |-> BalanceOf(t, v)], CdpTypes)
      = Purse[v]

\* Parameters wait in a proposer's scope only for a proposal of that proposer.
ParametersInSession ==
  \A p \in Users, t \in CdpTypes :
    stat[p][t] # None => prop[t] # None /\ prop[t].proposer = p

\* A majority can always be carried out: no refund of a stake fails, which would
\* revert the referendum with the refunds of all, and the type to change is there.
MajoritiesDecide ==
  \A t \in CdpTypes : prop[t] # None /\ ~Tie(t) => CanDecide(prop[t].proposer, t)

\* A queued call is for the proposal in session and its proposer.
CallsAreForSession ==
  \A d \in deferred : prop[d.type] # None /\ prop[d.type].proposer = d.proposer

\* What a session has stored and sent ends with it: no later proposal for the same
\* type enacts its parameters or is decided by its call, before all have voted.
SessionsStandAlone == ParametersInSession /\ CallsAreForSession

\* README.md:33: at a tie "another voting period is scheduled to take place
\* immediately".  So every proposal in session has a referended coming.
SessionScheduled ==
  \A t \in CdpTypes : prop[t] # None =>
    \E d \in deferred : d.type = t /\ d.proposer = prop[t].proposer

\* No proposal stays in session for ever with a decided majority.
SessionsEnd ==
  \A t \in CdpTypes : []<>(prop[t] = None \/ Tie(t))

\* The referendum implements Ballot: without its scopes, deferred calls, clocks
\* and contracts it is votes, a strict majority and an exact refund.
Flip == None
LawOf(st) == IF st = None THEN None ELSE [live |-> st.live, par |-> st.par]
MotionOf(row) == IF row = None THEN Flip ELSE row.par
LawAt(t) == LawOf(stat[Self][t])
VotesOn(t) ==
  IF prop[t] = None THEN None
  ELSE [yay |-> prop[t].yay, nay |-> prop[t].nay,
        motion |-> MotionOf(stat[prop[t].proposer][t])]
B == INSTANCE Ballot WITH
  Voters <- Users, Types <- CdpTypes, Motions <- Params, Stakes <- VoteQty,
  Laws <- [live: BOOLEAN, par: Params],
  law <- [t \in CdpTypes |-> LawAt(t)],
  ballot <- [t \in CdpTypes |-> VotesOn(t)],
  free <- [v \in Users |-> BalanceOf(IQ, v)],
  stake <- [t \in CdpTypes |-> [v \in Users |-> BalanceOf(t, v)]]
ImplementsBallot == B!BallotSpec
=============================================================================
