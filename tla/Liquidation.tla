---------------------------- MODULE Liquidation -----------------------------
(***************************************************************************)
(* The sale of an undercollateralised position by successive auction       *)
(* rounds: stablecoin bids for its collateral, then bids in stablecoin or  *)
(* IQ for what the last round left over.  One action of the contract,      *)
(* liquify (src/Maker/daiqcontract.cpp:363-520), does it all; each of its  *)
(* three branches is an action here.                                       *)
(***************************************************************************)
EXTENDS Cdp

CONSTANTS
  BidQty,    \* the amounts of a symbol a bid may name
  MaxBidAge  \* 3600, the largest tau: an older bid is out of time all the same

VARIABLE bid  \* the standing bid, by CDP type and owner of the position

liqVars == <<stat, feed, acnt, cdp, vault, bid>>

BidRow == [bidder: Users, amt: Amounts, sym: Symbols,
           started: 0 .. MaxBidAge, lastbid: 0 .. MaxBidAge]

ASSUME LiquidationAssumption ==
  /\ BidQty \in [Symbols -> SUBSET (1 .. MaxAmount)]
  /\ MaxBidAge \in Nat
  /\ \A p \in Params : p.tau <= MaxBidAge /\ p.ttl <= MaxBidAge
  /\ None \notin BidRow

LiqInit == CdpInit /\ bid = [t \in CdpTypes |-> [o \in Users |-> None]]
-----------------------------------------------------------------------------
\* The contract whose tokens pay out an amount of symbol s.
PayContract(t, s) ==
  IF s = IQ THEN IQContract
  ELSE IF s = stat[Self][t].csym THEN stat[Self][t].contract ELSE Self

\* Faulty variant of Ended: the rows of a finished auction are kept.
NeverEnded(row, x) == x

\* What the tail of liquify leaves of a row x of an auction: nothing once the
\* debt of its position is exactly met.
Ended(row, x) == IF row.stablecoin = 0 THEN None ELSE x

\* The tail of liquify: with debt left over, or too much raised, the auction
\* goes on; at exactly zero the bidder gets the collateral and both rows go.
\* row and bd are the position and bid, a and f the balances and feeds so far.
Conclude(t, o, row, bd, a, f) ==
  LET paid == row.stablecoin = 0 /\ row.collateral # 0
      c == PayContract(t, row.csym)
  IN  /\ paid => /\ CanCredit(a, bd.bidder, row.csym, row.collateral, c)
                 /\ CanCirculate(f, row.csym, row.collateral)
      /\ acnt' = IF paid THEN Credit(a, bd.bidder, row.csym, row.collateral, c) ELSE a
      /\ feed' = IF paid THEN Circulate(f, row.csym, row.collateral) ELSE f
      /\ cdp' = [cdp EXCEPT ![t][o] = Ended(row, row)]
      /\ bid' = [bid EXCEPT ![t][o] = Ended(row, bd)]

\* A live position below its liquidation ratio; a settled type's may be
\* judged by a stale price.
Liquidable(t, o) ==
  LET it == cdp[t][o]
      st == stat[Self][t]
  IN  /\ it.stablecoin > 0
      /\ feed[it.csym] # None
      /\ Fresh(it.csym) \/ ~st.live
      /\ st.par.liquid8_ratio > Ratio(feed[it.csym].price, it.stablecoin, it.collateral)

ForSale(t, o) == /\ stat[Self][t] # None /\ cdp[t][o] # None
                 /\ cdp[t][o].live => Liquidable(t, o)

\* Faulty variants: the position stays live, any symbol may be bid, a higher bid
\* counts as if it replaced none, the loser of a round is not refunded.
SeizedLive(t, o) == cdp[t][o]
AnySymbol(row, s) == TRUE
RaisedAnew(bt, q) == q
NotRefunded(a, bt, c) == a

\* "bid is of wrong symbol": bids are in the currency the position asks for.
RightSymbol(row, s) == s = row.ssym
\* What a bid of q raises on top of the standing bid it replaces.
Raised(bt, q) == q - bt.amt
\* The balances once the standing bid is paid back, in tokens of contract c.
Refunded(a, bt, c) == Credit(a, bt.bidder, bt.sym, bt.amt, c)

\* The position under auction; taking it over adds the penalty to its debt.
Seized(t, o) ==
  IF ~cdp[t][o].live THEN cdp[t][o]
  ELSE [cdp[t][o] EXCEPT !.live = FALSE,
          !.stablecoin = @ + (@ * stat[Self][t].par.penalty_ratio) \div 100]

NewBid(b, q, s) == [bidder |-> b, amt |-> q, sym |-> s, started |-> 0, lastbid |-> 0]

\* The first bid on a position.  One that meets the debt exactly reaches the
\* tail of liquify with no bid row to pay and erase, which fails.
FirstBid(b, o, t, s, q) ==
  LET it == Seized(t, o)
  IN  /\ ForSale(t, o)
      /\ bid[t][o] = None
      /\ RightSymbol(it, s)
      /\ CanDebit(acnt, b, s, q)
      /\ InRange(it.stablecoin - q) /\ it.stablecoin # q
      /\ acnt' = Debit(acnt, b, s, q)
      /\ cdp' = [cdp EXCEPT ![t][o] = [it EXCEPT !.stablecoin = @ - q]]
      /\ bid' = [bid EXCEPT ![t][o] = NewBid(b, q, s)]
      /\ UNCHANGED <<stat, feed, vault>>

\* The round is open: its last bid is younger than ttl, its first than tau.
RoundOpen(t, o) ==
  /\ stat[Self][t].par.ttl > bid[t][o].lastbid
  /\ stat[Self][t].par.tau > bid[t][o].started

\* A higher bid in an open round: the standing bid is refunded.
Outbid(b, o, t, s, q) ==
  LET it == Seized(t, o)
      bt == bid[t][o]
      paid == Debit(acnt, b, s, q)
      c == IF s = IQ THEN IQContract ELSE Self
  IN  /\ ForSale(t, o)
      /\ bt # None /\ RoundOpen(t, o)
      /\ RightSymbol(it, s)
      /\ q >= bt.amt + (bt.amt * stat[Self][t].par.beg) \div 100
      /\ CanDebit(acnt, b, s, q)
      /\ CanCredit(paid, bt.bidder, bt.sym, bt.amt, c)
      /\ bt.sym = s /\ InRange(it.stablecoin - Raised(bt, q))
      /\ Conclude(t, o, [it EXCEPT !.stablecoin = @ - Raised(bt, q)],
                  [bt EXCEPT !.bidder = b, !.amt = q, !.lastbid = 0],
                  Refunded(paid, bt, c), feed)
      /\ UNCHANGED <<stat, vault>>

\* What is sold and asked in a new round, for a position whose last round left
\* stablecoin to raise (the buyer gets fresh IQ, or fresh stablecoin when the
\* debt is in IQ) or raised too much (the buyer gets the surplus).
NewLot(it, iq) ==
  LET d == it.stablecoin
      owed == IF it.ssym = IQ
              THEN [amount |-> d * iq.price, sym |-> iq.psym]
              ELSE [amount |-> (d * 1000) \div iq.price, sym |-> IQ]
      asked == IF it.ssym = IQ
               THEN [amount |-> -d * iq.price, sym |-> iq.psym]
               ELSE [amount |-> (-d * 1000) \div iq.price, sym |-> IQ]
  IN  IF d > 0
      THEN [it EXCEPT !.collateral = owed.amount, !.csym = owed.sym]
      ELSE [it EXCEPT !.collateral = -d, !.csym = it.ssym,
                      !.stablecoin = asked.amount, !.ssym = asked.sym]

\* The round is over.  Its lot is written off before it is paid out, so the
\* winner is credited nothing, at the price of a row in the right contract.
\* The debt is not zero here (AuctionHasBid), so the code's test for it is left
\* out and the next round always follows.
NewRound(b, o, t, s, q) ==
  LET it == Seized(t, o)
      bt == bid[t][o]
      c == PayContract(t, it.csym)
      a == IF it.collateral = 0 THEN acnt ELSE Credit(acnt, bt.bidder, it.csym, 0, c)
      iq == feed[IQ]
      lot == NewLot([it EXCEPT !.collateral = 0], iq)
  IN  /\ ForSale(t, o)
      /\ bt # None /\ ~RoundOpen(t, o)
      /\ it.collateral # 0 =>
           feed[it.csym] # None /\ CanCredit(acnt, bt.bidder, it.csym, 0, c)
      /\ iq # None /\ Fresh(IQ)
      /\ it.ssym # IQ => iq.price # 0
      /\ InRange(lot.collateral) /\ InRange(lot.stablecoin)
      /\ RightSymbol(lot, s)
      /\ CanDebit(a, b, s, q)
      /\ CanCirculate(feed, s, -q)
      /\ InRange(lot.stablecoin - q)
      /\ Conclude(t, o, [lot EXCEPT !.stablecoin = @ - q], NewBid(b, q, s),
                  Debit(a, b, s, q), Circulate(feed, s, -q))
      /\ UNCHANGED <<stat, vault>>

LiquifyStep ==
  \E b, o \in Users, t \in CdpTypes, s \in Symbols : \E q \in BidQty[s] :
    \/ FirstBid(b, o, t, s, q)
    \/ Outbid(b, o, t, s, q)
    \/ NewRound(b, o, t, s, q)

OlderBid(d) ==
  IF d = None THEN d
  ELSE [d EXCEPT !.started = IF @ = MaxBidAge THEN @ ELSE @ + 1,
                 !.lastbid = IF @ = MaxBidAge THEN @ ELSE @ + 1]
LiqTick == /\ CdpTick
           /\ bid' = [t \in CdpTypes |-> [o \in Users |-> OlderBid(bid[t][o])]]

LiqNext ==
  \/ LiquifyStep
  \/ (OwnerStep \/ BalanceStep \/ SettleStep \/ FeedStep) /\ UNCHANGED bid
  \/ LiqTick

LiqSpec == LiqInit /\ [][LiqNext]_liqVars
-----------------------------------------------------------------------------
\* A position is under auction exactly while a bid stands on it, and such a
\* position always has a debt or a surplus left: taking a position over,
\* bidding on it and ending its auction keep both rows in step, and no auction
\* whose debt is met lingers (liquify trusts both when it reads the bid row).
AuctionHasBid ==
  \A t \in CdpTypes, o \in Users :
    /\ bid[t][o] # None <=> cdp[t][o] # None /\ ~cdp[t][o].live
    /\ bid[t][o] # None => cdp[t][o].stablecoin # 0

\* The standing bid is in the currency the position asks for, so a refund is
\* in the money that was paid, whatever rounds the auction went through.
BidInAskedCurrency ==
  \A t \in CdpTypes, o \in Users : bid[t][o] # None => bid[t][o].sym = cdp[t][o].ssym

\* The same round goes on in a step that does not restart its clock.
SameRound(t, o) ==
  /\ bid[t][o] # None /\ bid'[t][o] # None
  /\ RoundOpen(t, o) /\ cdp[t][o].csym = cdp'[t][o].csym

\* Within a round what is still asked and what is bid add up to the same sum:
\* a higher bid pays off the difference to the one it replaces, not more.
RoundTargetIsKept ==
  \A t \in CdpTypes, o \in Users :
    SameRound(t, o) => cdp'[t][o].stablecoin + bid'[t][o].amt = cdp[t][o].stablecoin + bid[t][o].amt
BidsRaiseOneTarget == [][RoundTargetIsKept]_liqVars

\* What users may claim of a token other than IQ never exceeds what the
\* contract holds of it, auctions included.
VaultCoversClaims ==
  \A c \in Tokens, s \in Symbols \ {IQ} : Claims(c, s) <= vault[c][s]

\* A refunded bid is paid in full: when another user overbids in a round, the
\* loser's balance in the currency of the bid grows by that bid.
RefundOnOverbid ==
  \A t \in CdpTypes, o \in Users :
    SameRound(t, o) /\ bid'[t][o].bidder # bid[t][o].bidder =>
      LET s == bid[t][o].sym
          b == bid[t][o].bidder
          before == IF acnt[s][b] = None THEN 0 ELSE acnt[s][b].balance
      IN  acnt'[s][b] # None /\ acnt'[s][b].balance = before + bid[t][o].amt
LosersAreRefunded == [][RefundOnOverbid]_liqVars

\* What is owed for positions that are not under auction.
LiveDebtOf(t) ==
  [o \in Users |-> IF cdp[t][o] # None /\ cdp[t][o].live THEN cdp[t][o].stablecoin ELSE 0]

\* The total of a type never falls below what the owners of its live positions
\* owe, whatever auctions took over and left of the others: wipe and shut, which
\* take their amounts off it, never take it below zero.
TotalCoversDebts ==
  \A t \in CdpTypes : stat[Self][t] # None =>
    /\ \A o \in Users : LiveDebtOf(t)[o] >= 0
    /\ stat[Self][t].total_stablecoin >= SumFunctionOnSet(LiveDebtOf(t), Users)

-----------------------------------------------------------------------------
(***************************************************************************)
(* What the documents say of auctions and the code does not do.            *)
(***************************************************************************)
\* README.md:18: "stable token bids for collateral".  When an auction is done
\* with a type's collateral, the bidder it ended with holds that collateral.
CollateralIsPaid ==
  \A t \in CdpTypes, o \in Users :
    LET st == stat[Self][t]
        s == cdp[t][o].csym
        b == bid[t][o].bidder
        before == IF acnt[s][b] = None THEN 0 ELSE acnt[s][b].balance
    IN  /\ cdp[t][o] # None /\ ~cdp[t][o].live /\ cdp[t][o].csym = st.csym
        /\ ~RoundOpen(t, o)
        /\ cdp'[t][o] = None \/ cdp'[t][o].csym # cdp[t][o].csym
        => acnt'[s][b] # None /\ acnt'[s][b].balance >= before + cdp[t][o].collateral
WinnersAreGivenCollateral == [][CollateralIsPaid]_liqVars
=============================================================================
