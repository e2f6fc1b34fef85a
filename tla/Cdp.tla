-------------------------------- MODULE Cdp ---------------------------------
(***************************************************************************)
(* Collateralised debt positions: opening one, locking and freeing its     *)
(* collateral, issuing and repaying stablecoin against it, closing it, and *)
(* the deposits and withdrawals that bring tokens in and out of the        *)
(* contract.  Source: src/Maker/daiqcontract.cpp.                          *)
(***************************************************************************)
EXTENDS DaiqTables

CONSTANTS
  SecYr,    \* SECYR, the seconds of a year in the fee formula
  MaxAge,   \* bound: a CDP older than MaxAge pays the fee of that age
  Supply,   \* what exists of a symbol at a token contract outside of Self
  Qty,      \* the amounts of a symbol an action may name
  Prices,   \* the price amounts an upfeed may name
  Fed       \* the symbols whose feeds an instance updates

VARIABLES
  cdp,   \* positions, by CDP type and owner
  vault  \* what Self holds at each token contract, by contract and symbol

cdpVars == <<stat, feed, acnt, cdp, vault>>

CdpRow == [age: 0 .. MaxAge, collateral: 0 .. MaxAmount, csym: Symbols,
           stablecoin: Amounts, ssym: Symbols, live: BOOLEAN]

ASSUME CdpAssumption ==
  /\ SecYr \in Nat \ {0} /\ MaxAge \in Nat
  /\ Supply \in [Tokens -> [Symbols -> 0 .. MaxAmount]]
  /\ Qty \in [Symbols -> SUBSET (1 .. MaxAmount)]
  /\ Prices \subseteq Nat \ {0} /\ Fed \subseteq Symbols
  /\ None \notin CdpRow
  \* cpp:588: a new type starts at zero, with stablecoin of precision 2, not 3.
  /\ \A t \in CdpTypes : Enacted[t] # None =>
       /\ Enacted[t].fee_balance = 0 /\ Enacted[t].total_stablecoin = 0
       /\ Enacted[t].total_collateral = 0 /\ Enacted[t].ssym # IQ

CdpTypeOK ==
  /\ TablesTypeOK
  /\ cdp \in [CdpTypes -> [Users -> CdpRow \cup {None}]]
  /\ vault \in [Tokens -> [Symbols -> 0 .. MaxAmount]]

CdpInit ==
  /\ StatInit /\ FeedInit
  /\ acnt = [s \in Symbols |-> [o \in Users |-> None]]
  /\ cdp = [t \in CdpTypes |-> [o \in Users |-> None]]
  /\ vault = [c \in Tokens |-> [s \in Symbols |-> 0]]
-----------------------------------------------------------------------------
Open(o, t) ==
  /\ stat[Self][t] # None /\ stat[Self][t].live
  /\ feed[stat[Self][t].csym] # None /\ Fresh(stat[Self][t].csym)
  /\ cdp[t][o] = None
  /\ cdp' = [cdp EXCEPT ![t][o] =
       [age |-> 0, collateral |-> 0, csym |-> stat[Self][t].csym,
        stablecoin |-> 0, ssym |-> stat[Self][t].ssym, live |-> TRUE]]
  /\ UNCHANGED <<stat, feed, acnt, vault>>

\* A live position of a known type: what every owner action first looks up.
LiveCdp(o, t) ==
  stat[Self][t] # None /\ cdp[t][o] # None /\ cdp[t][o].live

\* Faulty variants of the three operators below: bail judges the position
\* before its collateral is freed; lock and bail forget the total; any token
\* contract's balance may be locked.
RatioBeforeBail(o, t, q) ==
  LET it == cdp[t][o]
  IN  IF it.stablecoin = 0 THEN stat[Self][t].par.liquid8_ratio
      ELSE Ratio(feed[stat[Self][t].csym].price, it.stablecoin, it.collateral)
TotalForgotten(t, q) == stat
PaidByAny(o, t) == TRUE

\* The ratio bail judges: that of the position without the freed collateral.
RatioAfterBail(o, t, q) ==
  LET it == cdp[t][o]
  IN  IF it.stablecoin = 0 THEN stat[Self][t].par.liquid8_ratio
      ELSE Ratio(feed[stat[Self][t].csym].price, it.stablecoin, it.collateral - q)

\* The types after q more collateral was locked in positions of type t.
MoreCollateral(t, q) == [stat EXCEPT ![Self][t].total_collateral = @ + q]

\* "no using tokens from fake contracts": whose tokens the balance is in.
PaidByContract(o, t) == acnt[stat[Self][t].csym][o].code = stat[Self][t].contract

\* bail: free q of the collateral; a settled type needs no fresh price.
Bail(o, t, q) ==
  LET st == stat[Self][t]
  IN  /\ LiveCdp(o, t)
      /\ cdp[t][o].collateral > q
      /\ CanCirculate(feed, st.csym, q)
      /\ Fresh(st.csym) \/ ~st.live
      /\ RatioAfterBail(o, t, q) >= st.par.liquid8_ratio
      /\ CanCredit(acnt, o, st.csym, q, st.contract)
      /\ acnt' = Credit(acnt, o, st.csym, q, st.contract)
      /\ cdp' = [cdp EXCEPT ![t][o].collateral = @ - q]
      /\ InRange(st.total_collateral - q)
      /\ stat' = MoreCollateral(t, -q)
      /\ feed' = Circulate(feed, st.csym, q)
      /\ UNCHANGED vault

\* draw: issue q of stablecoin against the collateral.
Draw(o, t, q) ==
  LET st == stat[Self][t]
      it == cdp[t][o]
      debt == it.stablecoin + q
  IN  /\ LiveCdp(o, t)
      /\ st.live
      /\ st.par.debt_ceiling >= debt
      /\ st.par.global_ceil >= st.total_stablecoin + q
      /\ feed[it.csym] # None /\ Fresh(it.csym)
      /\ Ratio(feed[it.csym].price, debt, it.collateral) >= st.par.liquid8_ratio
      /\ CanCirculate(feed, st.ssym, q)
      /\ CanCredit(acnt, o, st.ssym, q, Self)
      /\ acnt' = Credit(acnt, o, st.ssym, q, Self)
      /\ InRange(debt)
      /\ cdp' = [cdp EXCEPT ![t][o].stablecoin = debt]
      /\ InRange(st.total_stablecoin + q)
      /\ stat' = [stat EXCEPT ![Self][t].total_stablecoin = @ + q]
      /\ feed' = Circulate(feed, st.ssym, q)
      /\ UNCHANGED vault

\* The stability fee of repaying q, in IQ, with every truncation of the code.
\* The 64-bit products of the code do not wrap within the bounds of a run.
Fee(fee, age, q, price) ==
  (((1000000 * fee * age) \div SecYr) * ((q * 100) \div price)) \div 100000

\* wipe: repay q of the debt and the stability fee on it.  A division by a
\* price of zero traps.
Wipe(o, t, q) ==
  LET st == stat[Self][t]
      it == cdp[t][o]
      fee == Fee(st.par.stability_fee, it.age, q, feed[IQ].price)
      paid == Debit(acnt, o, IQ, fee)
  IN  /\ LiveCdp(o, t)
      /\ it.stablecoin > q
      /\ feed[IQ] # None /\ feed[IQ].price # 0
      /\ InRange(fee)
      /\ CanDebit(acnt, o, IQ, fee) /\ CanDebit(paid, o, st.ssym, q)
      /\ acnt' = Debit(paid, o, st.ssym, q)
      /\ InRange(st.fee_balance + fee) /\ InRange(st.total_stablecoin - q)
      /\ stat' = [stat EXCEPT ![Self][t] =
           [st EXCEPT !.fee_balance = @ + fee, !.total_stablecoin = @ - q]]
      /\ cdp' = [cdp EXCEPT ![t][o].stablecoin = @ - q]
      /\ CanCirculate(feed, st.ssym, -q)
      /\ feed' = Circulate(feed, st.ssym, -q)
      /\ UNCHANGED vault

\* lock: move q of the owner's balance into the collateral; the balance must
\* come from the token contract the type names.
Lock(o, t, q) ==
  LET st == stat[Self][t]
  IN  /\ LiveCdp(o, t)
      /\ st.live
      /\ CanDebit(acnt, o, st.csym, q)
      /\ PaidByContract(o, t)
      /\ acnt' = Debit(acnt, o, st.csym, q)
      /\ InRange(st.total_collateral + q)
      /\ stat' = MoreCollateral(t, q)
      /\ InRange(cdp[t][o].collateral + q)
      /\ cdp' = [cdp EXCEPT ![t][o].collateral = @ + q]
      /\ CanCirculate(feed, st.csym, -q)
      /\ feed' = Circulate(feed, st.csym, -q)
      /\ UNCHANGED vault

\* Faulty variants of the two operators below: the debt is not paid; it is not
\* taken off the total; a penalty is taken off with it.
NothingRepaid(o, it) == acnt
DebtLeftInTotal(st, it) == [st EXCEPT !.total_collateral = @ + it.collateral]
PenaltyOffTotal(st, it) ==
  [st EXCEPT !.total_stablecoin =
               @ - it.stablecoin - (it.stablecoin * st.par.penalty_ratio) \div 100,
             !.total_collateral = @ + it.collateral]

\* What shut leaves of the balances of o before it frees the collateral, and
\* of the totals of the type: the code adds the freed collateral to them.
Repaid(o, it) ==
  IF it.stablecoin > 0 THEN Debit(acnt, o, it.ssym, it.stablecoin) ELSE acnt
TotalsAfterShut(st, it) ==
  [st EXCEPT !.total_stablecoin = @ - it.stablecoin,
             !.total_collateral = @ + it.collateral]

\* shut: repay the whole debt out of the balance, free all the collateral and
\* erase the position.
Shut(o, t) ==
  LET st == stat[Self][t]
      it == cdp[t][o]
      a == Repaid(o, it)
  IN  /\ LiveCdp(o, t)
      /\ it.stablecoin > 0 => CanDebit(acnt, o, it.ssym, it.stablecoin)
      /\ it.collateral > 0 => CanCredit(a, o, it.csym, it.collateral, st.contract)
      /\ acnt' = IF it.collateral > 0
                 THEN Credit(a, o, it.csym, it.collateral, st.contract) ELSE a
      /\ InRange(st.total_stablecoin - it.stablecoin)
      /\ InRange(st.total_collateral + it.collateral)
      /\ stat' = [stat EXCEPT ![Self][t] = TotalsAfterShut(st, it)]
      /\ cdp' = [cdp EXCEPT ![t][o] = None]
      /\ UNCHANGED <<feed, vault>>

\* settle: the feeder stops a type whose collateral no longer covers its debt.
Settle(feeder, t) ==
  LET st == stat[Self][t]
  IN  /\ st # None
      /\ st.total_stablecoin > 0 /\ st.live
      /\ st.par.feeder = feeder
      /\ feed[st.csym] # None
      /\ st.par.liquid8_ratio >=
           (feed[st.csym].price * 100 * st.total_collateral)
             \div (st.total_stablecoin * 10000)
      /\ stat' = [stat EXCEPT ![Self][t].live = FALSE]
      /\ UNCHANGED <<feed, acnt, cdp, vault>>

\* deposit: token contract c notifies a transfer of q from a user.
Deposit(from, c, s, q) ==
  /\ vault[c][s] + q <= Supply[c][s]
  /\ s = IQ => c = IQContract
  /\ CanCredit(acnt, from, s, q, c)
  /\ acnt' = Credit(acnt, from, s, q, c)
  /\ CanCirculate(feed, s, q)
  /\ feed' = Circulate(feed, s, q)
  /\ vault' = [vault EXCEPT ![c][s] = @ + q]
  /\ UNCHANGED <<stat, cdp>>

\* withdraw: an inline transfer at the contract the row names, which fails,
\* and reverts the withdrawal, when Self does not hold the tokens there.
Withdraw(o, s, asked) ==
  LET q == IF asked = 0 THEN acnt[s][o].balance ELSE asked
      code == acnt[s][o].code
  IN  /\ acnt[s][o] # None
      /\ CanDebit(acnt, o, s, q)
      /\ code \in Tokens
      /\ q > 0 /\ vault[code][s] >= q
      /\ acnt' = Debit(acnt, o, s, q)
      /\ CanCirculate(feed, s, -q)
      /\ feed' = Circulate(feed, s, -q)
      /\ vault' = [vault EXCEPT ![code][s] = @ - q]
      /\ UNCHANGED <<stat, cdp>>

\* close: the code erases through a copy of the row, which multi_index either
\* rejects or, reading past the copy, accepts; a step is the second outcome.
Close(o, s) ==
  /\ acnt[s][o] # None /\ acnt[s][o].balance = 0
  /\ acnt' = [acnt EXCEPT ![s][o] = None]
  /\ UNCHANGED <<stat, feed, cdp, vault>>

OlderCdp(c) == IF c = None \/ c.age = MaxAge THEN c ELSE [c EXCEPT !.age = @ + 1]
AgeCdps == cdp' = [t \in CdpTypes |-> [o \in Users |-> OlderCdp(cdp[t][o])]]

CdpTick == AgeFeeds /\ AgeCdps /\ UNCHANGED <<stat, acnt, vault>>

FeedStep ==
  \E f \in Scopes, p \in Prices, t \in CdpTypes, s \in Fed :
    Upfeed(f, p, PriceSym, t, s) /\ UNCHANGED <<cdp, vault>>

\* The amounts an owner may name: of the collateral and of the stablecoin.
ClatrlQty(t) == IF stat[Self][t] = None THEN {} ELSE Qty[stat[Self][t].csym]
StablQty(t) == IF stat[Self][t] = None THEN {} ELSE Qty[stat[Self][t].ssym]

OwnerStep ==
  \E o \in Users, t \in CdpTypes :
    \/ Open(o, t)
    \/ Shut(o, t)
    \/ \E q \in ClatrlQty(t) : Lock(o, t, q)
    \/ \E q \in ClatrlQty(t) : Bail(o, t, q)
    \/ \E q \in StablQty(t) : Draw(o, t, q)
    \/ \E q \in StablQty(t) : Wipe(o, t, q)

BalanceStep ==
  \E o \in Users, s \in Symbols :
    \/ \E c \in Tokens, q \in Qty[s] : Deposit(o, c, s, q)
    \/ \E q \in Qty[s] \cup {0} : Withdraw(o, s, q)
    \/ Close(o, s)

SettleStep == \E f \in Scopes, t \in CdpTypes : Settle(f, t)

CdpNext == OwnerStep \/ BalanceStep \/ SettleStep \/ FeedStep \/ CdpTick

CdpSpec == CdpInit /\ [][CdpNext]_cdpVars
-----------------------------------------------------------------------------
(***************************************************************************)
(* Claims on what the contract holds at the token contracts.               *)
(***************************************************************************)
RowsFrom(c, s) ==
  [o \in Users |-> IF acnt[s][o] # None /\ acnt[s][o].code = c
                   THEN acnt[s][o].balance ELSE 0]
LockedFrom(c, s) ==
  [k \in CdpTypes \X Users |->
     LET it == cdp[k[1]][k[2]]
         st == stat[Self][k[1]]
     IN  IF it # None /\ it.csym = s /\ st.csym = s /\ st.contract = c
         THEN it.collateral ELSE 0]
FeesFrom(c, s) ==
  [t \in CdpTypes |-> IF stat[Self][t] # None /\ c = IQContract /\ s = IQ
                      THEN stat[Self][t].fee_balance ELSE 0]
Claims(c, s) == SumFunctionOnSet(RowsFrom(c, s), Users)
                + SumFunctionOnSet(LockedFrom(c, s), CdpTypes \X Users)
                + SumFunctionOnSet(FeesFrom(c, s), CdpTypes)

\* What the contract holds of a token is what users may claim of it: their
\* balances from that token contract, the collateral of their positions and,
\* for IQ, the fees collected.  No sequence of deposits, locks, bails, shuts,
\* wipes and withdrawals creates or loses a token.
VaultMatchesClaims ==
  \A c \in Tokens, s \in Symbols : vault[c][s] = Claims(c, s)

\* The debts of the positions of a type, and those in one stablecoin.
Owed(it) == IF it = None THEN 0 ELSE it.stablecoin
DebtOf(t) == [o \in Users |-> Owed(cdp[t][o])]
DebtIn(s) ==
  [k \in CdpTypes \X Users |->
     LET it == cdp[k[1]][k[2]] IN IF it # None /\ it.ssym = s THEN it.stablecoin ELSE 0]

\* The total a type keeps of its stablecoin is the debt of its positions.
TotalIsDebt ==
  \A t \in CdpTypes : stat[Self][t] # None =>
    stat[Self][t].total_stablecoin = SumFunctionOnSet(DebtOf(t), Users)

\* Every unit of stablecoin a user holds is owed by some position, and every
\* unit owed is held: draw, wipe and shut issue and destroy both together.
StablecoinIsDebt ==
  \A s \in Symbols : SumFunctionOnSet(RowsFrom(Self, s), Users)
                     = SumFunctionOnSet(DebtIn(s), CdpTypes \X Users)

\* A position with no debt or a ratio at or above the type's is safe.
Safe(t, o) ==
  cdp[t][o].stablecoin > 0 =>
    Ratio(feed[cdp[t][o].csym].price, cdp[t][o].stablecoin, cdp[t][o].collateral)
      >= stat[Self][t].par.liquid8_ratio

\* No step other than a change of the price takes a safe position below its
\* liquidation ratio (README: you won't be permitted to dip below it).
OnlyPricesEndanger ==
  \A t \in CdpTypes, o \in Users :
    cdp[t][o] # None /\ feed[cdp[t][o].csym] # None /\ Safe(t, o)
    /\ cdp'[t][o] # None
    /\ feed'[cdp[t][o].csym].price = feed[cdp[t][o].csym].price
      => Safe(t, o)'
OwnersStaySafe == [][OnlyPricesEndanger]_cdpVars

\* The collateral of the positions of a type.
LockedOf(t) ==
  [o \in Users |-> IF cdp[t][o] = None THEN 0 ELSE cdp[t][o].collateral]

\* The total a type keeps never falls below what is locked in its positions,
\* so settle never takes a type for less covered than it is.
TotalCoversLocked ==
  \A t \in CdpTypes : stat[Self][t] # None =>
    stat[Self][t].total_collateral >= SumFunctionOnSet(LockedOf(t), Users)
=============================================================================
