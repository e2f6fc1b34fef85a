-------------------------- MODULE Liquidation_proof --------------------------
(***************************************************************************)
(* Theorems about the auctions: which positions are under one, what a bid  *)
(* raises, who is refunded, and that no auction creates claims on a token  *)
(* contract.                                                               *)
(***************************************************************************)
EXTENDS Liquidation, Cdp_proof

BidTable == [CdpTypes -> [Users -> BidRow \cup {None}]]
LiqTypeOK ==
  /\ CdpTypeOK /\ bid \in BidTable
  /\ \A t \in CdpTypes, o \in Users : bid[t][o] # None => bid[t][o].amt \in 1 .. MaxAmount

LEMMA BidIn ==
  ASSUME LiqTypeOK, NEW t \in CdpTypes, NEW o \in Users, bid[t][o] # None
  PROVE  bid[t][o] \in BidRow /\ bid[t][o].amt \in 1 .. MaxAmount
BY DEF LiqTypeOK, BidTable

\* A position taken over, once its debt is n.
Sold(it, n) == [it EXCEPT !.stablecoin = n]

LEMMA SeizedRow ==
  ASSUME CdpTypeOK, NEW t \in CdpTypes, NEW o \in Users, ForSale(t, o)
  PROVE  LET it == Seized(t, o)
         IN  /\ it \in [age: 0 .. MaxAge, collateral: 0 .. MaxAmount, csym: Symbols,
                        stablecoin: Int, ssym: Symbols, live: BOOLEAN]
             /\ ~it.live /\ it.collateral = cdp[t][o].collateral
             /\ it.csym = cdp[t][o].csym /\ it.ssym = cdp[t][o].ssym
             /\ ~cdp[t][o].live => it = cdp[t][o]
<1>1. cdp[t][o] \in CdpRow /\ stat[Self][t] \in StatRow BY CdpIn, StatIn DEF ForSale
<1>2. stat[Self][t].par.penalty_ratio \in Int
  BY <1>1, TablesAssumption DEF StatRow, ParamType
<1>3. cdp[t][o].stablecoin \in Int BY <1>1, TablesAssumption DEF CdpRow, Amounts
<1> DEFINE owed == cdp[t][o].stablecoin
             + (cdp[t][o].stablecoin * stat[Self][t].par.penalty_ratio) \div 100
<1>4. owed \in Int
  <2>1. cdp[t][o].stablecoin * stat[Self][t].par.penalty_ratio \in Int BY <1>2, <1>3
  <2> QED BY <1>3, <2>1
<1>5. Seized(t, o) = IF ~cdp[t][o].live THEN cdp[t][o]
                     ELSE [cdp[t][o] EXCEPT !.live = FALSE, !.stablecoin = owed]
  BY DEF Seized
<1> HIDE DEF owed
<1> QED BY <1>1, <1>3, <1>4, <1>5 DEF CdpRow

LEMMA SoldRow ==
  ASSUME NEW it \in [age: 0 .. MaxAge, collateral: 0 .. MaxAmount, csym: Symbols,
                     stablecoin: Int, ssym: Symbols, live: BOOLEAN],
         ~it.live, NEW n \in Amounts
  PROVE  /\ Sold(it, n) \in CdpRow /\ Sold(it, n) # None /\ ~Sold(it, n).live
         /\ Sold(it, n).collateral = it.collateral /\ Sold(it, n).csym = it.csym
         /\ Sold(it, n).ssym = it.ssym /\ Sold(it, n).stablecoin = n
<1>1. Sold(it, n) \in CdpRow BY DEF Sold, CdpRow
<1>2. Sold(it, n) # None BY <1>1, CdpAssumption
<1> QED BY <1>1, <1>2 DEF Sold

\* What is left of the position and of the bid when liquify ends.
Leaves(t, o, row, bd) ==
  /\ \A u \in CdpTypes, x \in Users : u # t \/ x # o =>
       cdp'[u][x] = cdp[u][x] /\ bid'[u][x] = bid[u][x]
  /\ row.stablecoin = 0 => cdp'[t][o] = None /\ bid'[t][o] = None
  /\ row.stablecoin # 0 => cdp'[t][o] = row /\ bid'[t][o] = bd

LEMMA ConcludeLeaves ==
  ASSUME LiqTypeOK, NEW t \in CdpTypes, NEW o \in Users, NEW row, NEW bd, NEW a, NEW f,
         Conclude(t, o, row, bd, a, f)
  PROVE  Leaves(t, o, row, bd)
<1>1. cdp \in CdpTable /\ bid \in BidTable BY TypeParts DEF LiqTypeOK
<1>2. /\ cdp' = [cdp EXCEPT ![t][o] = Ended(row, row)]
      /\ bid' = [bid EXCEPT ![t][o] = Ended(row, bd)]
  BY DEF Conclude
<1>3. /\ cdp'[t][o] = Ended(row, row)
      /\ \A u \in CdpTypes, x \in Users : u # t \/ x # o => cdp'[u][x] = cdp[u][x]
  BY <1>1, <1>2, WrittenAt DEF CdpTable
<1>4. /\ bid'[t][o] = Ended(row, bd)
      /\ \A u \in CdpTypes, x \in Users : u # t \/ x # o => bid'[u][x] = bid[u][x]
  BY <1>1, <1>2, WrittenAt DEF BidTable
<1> QED BY <1>3, <1>4 DEF Leaves, Ended

LEMMA PayContractIn ==
  ASSUME CdpTypeOK, NEW t \in CdpTypes, stat[Self][t] # None, NEW s
  PROVE  PayContract(t, s) \in Codes
BY StatIn, TablesAssumption DEF PayContract, Codes, StatRow

LEMMA ConcludeType ==
  ASSUME LiqTypeOK, NEW t \in CdpTypes, NEW o \in Users, stat[Self][t] # None,
         NEW row \in CdpRow, NEW bd \in BidRow, bd.amt \in 1 .. MaxAmount,
         NEW a \in Accounts, NEW f \in FeedTable, Conclude(t, o, row, bd, a, f),
         stat' = stat, vault' = vault
  PROVE  LiqTypeOK'
<1>0. CdpTypeOK BY DEF LiqTypeOK
<1>1. cdp \in CdpTable /\ bid \in BidTable BY <1>0, TypeParts DEF LiqTypeOK
<1>2. Ended(row, row) \in CdpRow \cup {None} /\ Ended(row, bd) \in BidRow \cup {None}
  BY DEF Ended
<1>3. /\ cdp' = [cdp EXCEPT ![t][o] = Ended(row, row)]
      /\ bid' = [bid EXCEPT ![t][o] = Ended(row, bd)]
  BY DEF Conclude
<1>4. cdp' \in CdpTable BY <1>1, <1>2, <1>3, Written DEF CdpTable
<1>5. bid' \in BidTable BY <1>1, <1>2, <1>3, Written DEF BidTable
<1> DEFINE paid == row.stablecoin = 0 /\ row.collateral # 0
           c == PayContract(t, row.csym)
<1>6. c \in Codes BY <1>0, PayContractIn
<1>7. /\ paid => /\ CanCredit(a, bd.bidder, row.csym, row.collateral, c)
                 /\ CanCirculate(f, row.csym, row.collateral)
      /\ acnt' = IF paid THEN Credit(a, bd.bidder, row.csym, row.collateral, c) ELSE a
      /\ feed' = IF paid THEN Circulate(f, row.csym, row.collateral) ELSE f
  BY DEF Conclude
<1>8. bd.bidder \in Users /\ row.csym \in Symbols /\ row.collateral \in 0 .. MaxAmount
      /\ row.collateral \in Int
  BY TablesAssumption DEF BidRow, CdpRow
<1> HIDE DEF paid, c
<1>9. acnt' \in Accounts BY <1>6, <1>7, <1>8, CreditType
<1>10. feed' \in FeedTable BY <1>7, <1>8, CirculateType
<1>11. CdpTypeOK' BY <1>0, <1>4, <1>9, <1>10, TypeParts, TypePartsNext
<1>12. \A u \in CdpTypes, x \in Users : bid'[u][x] # None => bid'[u][x].amt \in 1 .. MaxAmount
  <2> SUFFICES ASSUME NEW u \in CdpTypes, NEW x \in Users, bid'[u][x] # None
               PROVE  bid'[u][x].amt \in 1 .. MaxAmount
    OBVIOUS
  <2>1. Leaves(t, o, row, bd) BY ConcludeLeaves
  <2> QED BY <2>1 DEF Leaves, LiqTypeOK
<1> QED BY <1>5, <1>11, <1>12 DEF LiqTypeOK
-----------------------------------------------------------------------------
(***************************************************************************)
(* The three branches of liquify, each as what it leaves of the position   *)
(* and of the bid.                                                         *)
(***************************************************************************)
LEMMA NewBidRow ==
  ASSUME NEW b \in Users, NEW s \in Symbols, NEW q \in 1 .. MaxAmount
  PROVE  /\ NewBid(b, q, s) \in BidRow /\ NewBid(b, q, s) # None
         /\ NewBid(b, q, s).sym = s /\ NewBid(b, q, s).amt = q
<1>1. 0 \in 0 .. MaxBidAge /\ q \in Amounts
  BY TablesAssumption, LiquidationAssumption DEF Amounts
<1>2. NewBid(b, q, s) \in BidRow BY <1>1 DEF NewBid, BidRow
<1> QED BY <1>2, LiquidationAssumption DEF NewBid

\* The standing bid once user b has raised it to q.
RaisedBid(bt, b, q) == [bt EXCEPT !.bidder = b, !.amt = q, !.lastbid = 0]

LEMMA RaisedBidRow ==
  ASSUME NEW bt \in BidRow, NEW b \in Users, NEW q \in 1 .. MaxAmount
  PROVE  /\ RaisedBid(bt, b, q) \in BidRow /\ RaisedBid(bt, b, q) # None
         /\ RaisedBid(bt, b, q).sym = bt.sym /\ RaisedBid(bt, b, q).amt = q
         /\ RaisedBid(bt, b, q).bidder = b
<1>1. 0 \in 0 .. MaxBidAge /\ q \in Amounts
  BY TablesAssumption, LiquidationAssumption DEF Amounts
<1>2. RaisedBid(bt, b, q) \in BidRow BY <1>1 DEF RaisedBid, BidRow
<1> QED BY <1>2, LiquidationAssumption DEF RaisedBid, BidRow

LEMMA FirstBidLeaves ==
  ASSUME LiqTypeOK, NEW b \in Users, NEW o \in Users, NEW t \in CdpTypes,
         NEW s \in Symbols, NEW q \in 1 .. MaxAmount, FirstBid(b, o, t, s, q)
  PROVE  LET it == Seized(t, o)   row == Sold(it, it.stablecoin - q)
         IN  /\ Leaves(t, o, row, NewBid(b, q, s))
             /\ row.stablecoin # 0 /\ it.stablecoin - q \in Amounts
             /\ LiqTypeOK'
<1> DEFINE it == Seized(t, o)   n == it.stablecoin - q   row == Sold(it, n)
           bd == NewBid(b, q, s)
<1>0. CdpTypeOK BY DEF LiqTypeOK
<1>1. /\ ForSale(t, o) /\ CanDebit(acnt, b, s, q) /\ InRange(n) /\ it.stablecoin # q
      /\ acnt' = Debit(acnt, b, s, q) /\ cdp' = [cdp EXCEPT ![t][o] = row]
      /\ bid' = [bid EXCEPT ![t][o] = bd]
      /\ stat' = stat /\ feed' = feed /\ vault' = vault
  BY DEF FirstBid, Sold
<1>2. it \in [age: 0 .. MaxAge, collateral: 0 .. MaxAmount, csym: Symbols,
              stablecoin: Int, ssym: Symbols, live: BOOLEAN] /\ ~it.live
  BY <1>0, <1>1, SeizedRow
<1>3. bd \in BidRow /\ bd.amt = q BY NewBidRow
<1> HIDE DEF it, bd
<1>4. n \in Amounts /\ n # 0 BY <1>1, <1>2 DEF InRange
<1> HIDE DEF n
<1>5. row \in CdpRow /\ row.stablecoin = n BY <1>2, <1>4, SoldRow
<1> HIDE DEF row
<1>6. cdp \in CdpTable /\ bid \in BidTable /\ acnt \in Accounts
  BY <1>0, TypeParts DEF LiqTypeOK
<1>7. /\ cdp'[t][o] = row
      /\ \A u \in CdpTypes, x \in Users : u # t \/ x # o => cdp'[u][x] = cdp[u][x]
  BY <1>1, <1>6, WrittenAt DEF CdpTable
<1>8. /\ bid'[t][o] = bd
      /\ \A u \in CdpTypes, x \in Users : u # t \/ x # o => bid'[u][x] = bid[u][x]
  BY <1>1, <1>6, WrittenAt DEF BidTable
<1>9. Leaves(t, o, row, bd) BY <1>4, <1>5, <1>7, <1>8 DEF Leaves
<1>10. LiqTypeOK'
  <2>1. cdp' \in CdpTable BY <1>1, <1>5, <1>6, Written DEF CdpTable
  <2>2. bid' \in BidTable BY <1>1, <1>3, <1>6, Written DEF BidTable
  <2>3. q \in Nat OBVIOUS
  <2>4. acnt' \in Accounts BY <1>1, <1>6, <2>3, DebitType
  <2>5. CdpTypeOK' BY <1>0, <1>1, <2>1, <2>4, TypeParts, TypePartsNext
  <2>6. ASSUME NEW u \in CdpTypes, NEW x \in Users, bid'[u][x] # None
        PROVE  bid'[u][x].amt \in 1 .. MaxAmount
    BY <1>3, <1>8, <2>6 DEF LiqTypeOK
  <2> QED BY <2>2, <2>5, <2>6 DEF LiqTypeOK
<1> QED BY <1>4, <1>5, <1>9, <1>10 DEF it, n, row, bd

LEMMA OutbidLeaves ==
  ASSUME LiqTypeOK, NEW b \in Users, NEW o \in Users, NEW t \in CdpTypes,
         NEW s \in Symbols, NEW q \in 1 .. MaxAmount, Outbid(b, o, t, s, q)
  PROVE  LET it == Seized(t, o)   n == it.stablecoin - Raised(bid[t][o], q)
             c == IF s = IQ THEN IQContract ELSE Self
             a == Refunded(Debit(acnt, b, s, q), bid[t][o], c)
         IN  /\ Leaves(t, o, Sold(it, n), RaisedBid(bid[t][o], b, q))
             /\ Conclude(t, o, Sold(it, n), RaisedBid(bid[t][o], b, q), a, feed)
             /\ n \in Amounts /\ a \in Accounts /\ Debit(acnt, b, s, q) \in Accounts
             /\ LiqTypeOK'
<1> DEFINE it == Seized(t, o)   bt == bid[t][o]   n == it.stablecoin - Raised(bt, q)
           row == Sold(it, n)   bd == RaisedBid(bt, b, q)
           c == IF s = IQ THEN IQContract ELSE Self
           paid == Debit(acnt, b, s, q)   a == Refunded(paid, bt, c)
<1>0. CdpTypeOK BY DEF LiqTypeOK
<1>1. /\ ForSale(t, o) /\ bt # None /\ CanDebit(acnt, b, s, q)
      /\ CanCredit(paid, bt.bidder, bt.sym, bt.amt, c) /\ InRange(n)
      /\ Conclude(t, o, row, bd, a, feed)
      /\ stat' = stat /\ vault' = vault
  BY DEF Outbid, Sold, RaisedBid
<1>2. it \in [age: 0 .. MaxAge, collateral: 0 .. MaxAmount, csym: Symbols,
              stablecoin: Int, ssym: Symbols, live: BOOLEAN] /\ ~it.live
  BY <1>0, <1>1, SeizedRow
<1>3. bt \in BidRow /\ bt.amt \in 1 .. MaxAmount BY <1>1, BidIn
<1>4. bd \in BidRow /\ bd.amt = q BY <1>3, RaisedBidRow
<1>5. acnt \in Accounts /\ feed \in FeedTable /\ q \in Nat BY <1>0, TypeParts
<1>6. /\ c \in Codes /\ bt.bidder \in Users /\ bt.sym \in Symbols
      /\ bt.amt \in 0 .. MaxAmount
  BY <1>3, TablesAssumption DEF Codes, BidRow
<1>7. n \in Amounts BY <1>1 DEF InRange
<1> HIDE DEF it, bd, bt, c, n
<1>8. row \in CdpRow BY <1>2, <1>7, SoldRow
<1>9. paid \in Accounts BY <1>1, <1>5, DebitType
<1> HIDE DEF row, paid
<1>10. a \in Accounts BY <1>1, <1>6, <1>9, CreditType DEF Refunded
<1> HIDE DEF a
<1>11. stat[Self][t] # None BY <1>1 DEF ForSale
<1>12. bd.amt \in 1 .. MaxAmount BY <1>4
<1>13. LiqTypeOK' BY <1>1, <1>4, <1>5, <1>8, <1>10, <1>11, <1>12, ConcludeType
<1>14. Leaves(t, o, row, bd) BY <1>1, ConcludeLeaves
<1> QED BY <1>1, <1>7, <1>9, <1>10, <1>13, <1>14 DEF it, bt, n, row, bd, c, paid, a

\* A new lot, for an amount of 0 or more, in the symbols of the last round.
LEMMA NewLotRow ==
  ASSUME NEW it \in [age: 0 .. MaxAge, collateral: 0 .. MaxAmount, csym: Symbols,
                     stablecoin: Int, ssym: Symbols, live: BOOLEAN], ~it.live,
         NEW iq \in FeedRow, it.ssym # IQ => iq.price # 0,
         InRange(NewLot(it, iq).collateral)
  PROVE  /\ NewLot(it, iq) \in [age: 0 .. MaxAge, collateral: 0 .. MaxAmount, csym: Symbols,
                     stablecoin: Int, ssym: Symbols, live: BOOLEAN]
         /\ ~NewLot(it, iq).live
         /\ NewLot(it, iq).csym \in {it.ssym, IQ, iq.psym}
         /\ NewLot(it, iq).ssym \in {it.ssym, IQ, iq.psym}
<1> DEFINE d == it.stablecoin
<1>1. d \in Int /\ iq.price \in Nat /\ iq.psym \in Symbols /\ IQ \in Symbols /\ it.ssym \in Symbols
  BY TablesAssumption DEF FeedRow
<1> DEFINE owed == IF it.ssym = IQ
              THEN [amount |-> d * iq.price, sym |-> iq.psym]
              ELSE [amount |-> (d * 1000) \div iq.price, sym |-> IQ]
           asked == IF it.ssym = IQ
               THEN [amount |-> -d * iq.price, sym |-> iq.psym]
               ELSE [amount |-> (-d * 1000) \div iq.price, sym |-> IQ]
<1>2. NewLot(it, iq) = IF d > 0
      THEN [it EXCEPT !.collateral = owed.amount, !.csym = owed.sym]
      ELSE [it EXCEPT !.collateral = -d, !.csym = it.ssym,
                      !.stablecoin = asked.amount, !.ssym = asked.sym]
  BY DEF NewLot
<1>3. owed.sym \in Symbols /\ asked.sym \in Symbols /\ owed.sym \in {IQ, iq.psym}
      /\ asked.sym \in {IQ, iq.psym}
  BY <1>1
<1>4. d > 0 => owed.amount \in Int /\ owed.amount >= 0
  <2> SUFFICES ASSUME d > 0 PROVE owed.amount \in Int /\ owed.amount >= 0
    OBVIOUS
  <2>1. CASE it.ssym = IQ
    <3>1. owed.amount = d * iq.price BY <2>1
    <3>2. d * iq.price \in Int /\ d * iq.price >= 0 BY <1>1
    <3> QED BY <3>1, <3>2
  <2>2. CASE it.ssym # IQ
    <3>1. owed.amount = (d * 1000) \div iq.price BY <2>2
    <3>2. iq.price \in Nat \ {0} /\ d * 1000 \in Nat BY <1>1, <2>2
    <3>3. \A m \in Nat, k \in Nat \ {0} : m \div k \in Nat OBVIOUS
    <3> QED BY <3>1, <3>2, <3>3
  <2> QED BY <2>1, <2>2
<1>5. asked.amount \in Int
  <2>1. CASE it.ssym = IQ
    <3>1. asked.amount = -d * iq.price BY <2>1
    <3>2. -d * iq.price \in Int BY <1>1
    <3> QED BY <3>1, <3>2
  <2>2. CASE it.ssym # IQ
    <3>1. asked.amount = (-d * 1000) \div iq.price BY <2>2
    <3>2. iq.price \in Nat \ {0} /\ -d * 1000 \in Int BY <1>1, <2>2
    <3>3. \A m \in Int, k \in Nat \ {0} : m \div k \in Int OBVIOUS
    <3> QED BY <3>1, <3>2, <3>3
  <2> QED BY <2>1, <2>2
<1> HIDE DEF owed, asked
<1>6. CASE d > 0
  <2>1. NewLot(it, iq) = [it EXCEPT !.collateral = owed.amount, !.csym = owed.sym]
    BY <1>2, <1>6
  <2>2. NewLot(it, iq).collateral = owed.amount BY <2>1
  <2>3. owed.amount \in 0 .. MaxAmount
    BY <1>4, <1>6, <2>2, TablesAssumption DEF InRange, Amounts
  <2> QED BY <1>3, <2>1, <2>3
<1>7. CASE ~(d > 0)
  <2>1. NewLot(it, iq) = [it EXCEPT !.collateral = -d, !.csym = it.ssym,
                      !.stablecoin = asked.amount, !.ssym = asked.sym]
    BY <1>2, <1>7
  <2>2. NewLot(it, iq).collateral = -d BY <2>1
  <2>3. -d \in 0 .. MaxAmount
    BY <1>1, <1>7, <2>2, TablesAssumption DEF InRange, Amounts
  <2> QED BY <1>1, <1>3, <1>5, <2>1, <2>3
<1> QED BY <1>6, <1>7

\* The lot of the next round of the auction of a position, and the balances
\* after the winner of the last was paid the nothing it is owed by then.
WrittenOff(it) == [it EXCEPT !.collateral = 0]
NextLot(t, o) == NewLot(WrittenOff(Seized(t, o)), feed[IQ])
WonAccounts(t, o) ==
  LET it == Seized(t, o)
  IN  IF it.collateral = 0 THEN acnt
      ELSE Credit(acnt, bid[t][o].bidder, it.csym, 0, PayContract(t, it.csym))

LEMMA NewRoundLeaves ==
  ASSUME LiqTypeOK, NEW b \in Users, NEW o \in Users, NEW t \in CdpTypes,
         NEW s \in Symbols, NEW q \in 1 .. MaxAmount, NewRound(b, o, t, s, q)
  PROVE  LET lot == NextLot(t, o)   row == Sold(lot, lot.stablecoin - q)
             a == Debit(WonAccounts(t, o), b, s, q)
         IN  /\ Leaves(t, o, row, NewBid(b, q, s))
             /\ Conclude(t, o, row, NewBid(b, q, s), a, Circulate(feed, s, -q))
             /\ lot.stablecoin - q \in Amounts
             /\ lot \in [age: 0 .. MaxAge, collateral: 0 .. MaxAmount, csym: Symbols,
                     stablecoin: Int, ssym: Symbols, live: BOOLEAN]
             /\ ~lot.live
             /\ lot.csym \in {cdp[t][o].ssym, IQ, feed[IQ].psym}
             /\ lot.ssym \in {cdp[t][o].ssym, IQ, feed[IQ].psym}
             /\ lot.ssym = s /\ feed[IQ] \in FeedRow
             /\ WonAccounts(t, o) \in Accounts /\ CanDebit(WonAccounts(t, o), b, s, q)
             /\ a \in Accounts
             /\ LiqTypeOK'
<1> DEFINE it == Seized(t, o)   jt == WrittenOff(it)   iq == feed[IQ]
           lot == NextLot(t, o)   n == lot.stablecoin - q   row == Sold(lot, n)
           bd == NewBid(b, q, s)   bt == bid[t][o]   c == PayContract(t, it.csym)
           w == WonAccounts(t, o)   a == Debit(w, b, s, q)   f == Circulate(feed, s, -q)
<1>0. CdpTypeOK BY DEF LiqTypeOK
<1>1. /\ ForSale(t, o) /\ bt # None /\ CanDebit(w, b, s, q) /\ InRange(n)
      /\ it.collateral # 0 => CanCredit(acnt, bt.bidder, it.csym, 0, c)
      /\ iq # None
      /\ it.ssym # IQ => iq.price # 0
      /\ InRange(lot.collateral) /\ lot.ssym = s /\ CanCirculate(feed, s, -q)
      /\ Conclude(t, o, row, bd, a, f)
      /\ stat' = stat /\ vault' = vault
  BY DEF NewRound, Sold, NextLot, WrittenOff, WonAccounts, RightSymbol
<1>2. /\ it \in [age: 0 .. MaxAge, collateral: 0 .. MaxAmount, csym: Symbols,
                 stablecoin: Int, ssym: Symbols, live: BOOLEAN]
      /\ ~it.live /\ it.ssym = cdp[t][o].ssym
  BY <1>0, <1>1, SeizedRow
<1>3. bt \in BidRow /\ bt.amt \in 1 .. MaxAmount BY <1>1, BidIn
<1>4. bd \in BidRow /\ bd.amt = q BY NewBidRow
<1>5. /\ acnt \in Accounts /\ feed \in FeedTable /\ q \in Nat /\ -q \in Int
      /\ IQ \in Symbols /\ 0 \in 0 .. MaxAmount
  BY <1>0, TypeParts, TablesAssumption
<1>6. iq \in FeedRow BY <1>1, <1>5 DEF FeedTable
<1>7. w \in Accounts
  <2>1. CASE it.collateral = 0 BY <1>5, <2>1 DEF WonAccounts
  <2>2. CASE it.collateral # 0
    <3>1. w = Credit(acnt, bt.bidder, it.csym, 0, c) BY <2>2 DEF WonAccounts
    <3>2. c \in Codes BY <1>0, <1>1, PayContractIn DEF ForSale
    <3>3. bt.bidder \in Users /\ it.csym \in Symbols BY <1>2, <1>3 DEF BidRow
    <3>4. CanCredit(acnt, bt.bidder, it.csym, 0, c) BY <1>1, <2>2
    <3> HIDE DEF c, it, bt, w
    <3> QED BY <1>5, <3>1, <3>2, <3>3, <3>4, CreditType
  <2> QED BY <2>1, <2>2
<1>8. /\ jt \in [age: 0 .. MaxAge, collateral: 0 .. MaxAmount, csym: Symbols,
                 stablecoin: Int, ssym: Symbols, live: BOOLEAN]
      /\ ~jt.live /\ jt.ssym = it.ssym
  BY <1>2, <1>5 DEF WrittenOff
<1>9. lot = NewLot(jt, iq) BY DEF NextLot
<1> HIDE DEF it, jt, iq, lot, bd, bt, c, w
<1>10. /\ lot \in [age: 0 .. MaxAge, collateral: 0 .. MaxAmount, csym: Symbols,
                   stablecoin: Int, ssym: Symbols, live: BOOLEAN]
       /\ ~lot.live
       /\ lot.csym \in {jt.ssym, IQ, iq.psym} /\ lot.ssym \in {jt.ssym, IQ, iq.psym}
  BY <1>1, <1>6, <1>8, <1>9, NewLotRow
<1>11. n \in Amounts BY <1>1 DEF InRange
<1> HIDE DEF n
<1>12. row \in CdpRow BY <1>10, <1>11, SoldRow
<1>13. a \in Accounts BY <1>1, <1>5, <1>7, DebitType
<1>14. f \in FeedTable BY <1>1, <1>5, CirculateType
<1>15. stat[Self][t] # None /\ bd.amt \in 1 .. MaxAmount BY <1>1, <1>4 DEF ForSale
<1> HIDE DEF row, a, f
<1>16. LiqTypeOK' BY <1>1, <1>4, <1>12, <1>13, <1>14, <1>15, ConcludeType
<1>17. Leaves(t, o, row, bd) BY <1>1, ConcludeLeaves
<1> QED BY <1>1, <1>2, <1>6, <1>7, <1>8, <1>10, <1>11, <1>13, <1>16, <1>17
    DEF it, jt, iq, lot, n, row, bd, w, a, f
-----------------------------------------------------------------------------
(***************************************************************************)
(* The invariant of an auction: the rows of a position and of the bid on   *)
(* it come and go together, in one currency, with something left to pay.   *)
(***************************************************************************)
AuctionInv ==
  LiqTypeOK /\ AuctionHasBid /\ BidInAskedCurrency /\ LivePositions

\* What one step of liquify makes of a position and of the bid on it.
Auctions(t, o, row, bd) ==
  /\ Leaves(t, o, row, bd)
  /\ row # None /\ ~row.live /\ bd # None /\ bd.sym = row.ssym
  /\ cdp[t][o] # None

LEMMA LiquifyAuctions ==
  ASSUME AuctionInv, NEW b \in Users, NEW o \in Users, NEW t \in CdpTypes,
         NEW s \in Symbols, NEW q \in 1 .. MaxAmount,
         FirstBid(b, o, t, s, q) \/ Outbid(b, o, t, s, q) \/ NewRound(b, o, t, s, q)
  PROVE  LiqTypeOK' /\ stat' = stat /\ \E row, bd : Auctions(t, o, row, bd)
<1>0. LiqTypeOK /\ CdpTypeOK BY DEF AuctionInv, LiqTypeOK
<1>1. ForSale(t, o) /\ cdp[t][o] # None /\ stat' = stat
  BY DEF FirstBid, Outbid, NewRound, ForSale
<1> DEFINE it == Seized(t, o)
<1>2. it \in [age: 0 .. MaxAge, collateral: 0 .. MaxAmount, csym: Symbols,
              stablecoin: Int, ssym: Symbols, live: BOOLEAN] /\ ~it.live
  BY <1>0, <1>1, SeizedRow
<1>3. CASE FirstBid(b, o, t, s, q)
  <2> DEFINE n == it.stablecoin - q
  <2>1. Leaves(t, o, Sold(it, n), NewBid(b, q, s)) /\ n \in Amounts /\ LiqTypeOK'
    BY <1>0, <1>3, FirstBidLeaves
  <2>2. it.ssym = s BY <1>3 DEF FirstBid, RightSymbol
  <2>3. NewBid(b, q, s) # None /\ NewBid(b, q, s).sym = s BY NewBidRow
  <2> HIDE DEF it, n
  <2>4. Auctions(t, o, Sold(it, n), NewBid(b, q, s))
    BY <1>1, <1>2, <2>1, <2>2, <2>3, SoldRow DEF Auctions
  <2> QED BY <1>1, <2>1, <2>4
<1>4. CASE Outbid(b, o, t, s, q)
  <2> DEFINE bt == bid[t][o]   n == it.stablecoin - Raised(bt, q)
  <2>1. Leaves(t, o, Sold(it, n), RaisedBid(bt, b, q)) /\ n \in Amounts /\ LiqTypeOK'
    BY <1>0, <1>4, OutbidLeaves
  <2>2. it.ssym = s /\ bt.sym = s /\ bt # None BY <1>4 DEF Outbid, RightSymbol
  <2>3. bt \in BidRow BY <1>0, <2>2, BidIn
  <2>4. RaisedBid(bt, b, q) # None /\ RaisedBid(bt, b, q).sym = s
    BY <2>2, <2>3, RaisedBidRow
  <2> HIDE DEF it, n, bt
  <2>5. Auctions(t, o, Sold(it, n), RaisedBid(bt, b, q))
    BY <1>1, <1>2, <2>1, <2>2, <2>4, SoldRow DEF Auctions
  <2> QED BY <1>1, <2>1, <2>5
<1>5. CASE NewRound(b, o, t, s, q)
  <2> DEFINE lot == NextLot(t, o)   n == lot.stablecoin - q
  <2>1. /\ Leaves(t, o, Sold(lot, n), NewBid(b, q, s)) /\ n \in Amounts /\ LiqTypeOK'
        /\ lot \in [age: 0 .. MaxAge, collateral: 0 .. MaxAmount, csym: Symbols,
                    stablecoin: Int, ssym: Symbols, live: BOOLEAN]
        /\ ~lot.live /\ lot.ssym = s
    BY <1>0, <1>5, NewRoundLeaves
  <2>2. NewBid(b, q, s) # None /\ NewBid(b, q, s).sym = s BY NewBidRow
  <2> HIDE DEF lot, n
  <2>3. Auctions(t, o, Sold(lot, n), NewBid(b, q, s))
    BY <1>1, <2>1, <2>2, SoldRow DEF Auctions
  <2> QED BY <1>1, <2>1, <2>3
<1> QED BY <1>3, <1>4, <1>5

LEMMA LiquifyInv ==
  ASSUME AuctionInv, LiquifyStep
  PROVE  AuctionInv'
<1>1. PICK b \in Users, o \in Users, t \in CdpTypes, s \in Symbols : \E q \in BidQty[s] :
        FirstBid(b, o, t, s, q) \/ Outbid(b, o, t, s, q) \/ NewRound(b, o, t, s, q)
  BY DEF LiquifyStep
<1>2. BidQty[s] \subseteq 1 .. MaxAmount BY LiquidationAssumption
<1>3. LiqTypeOK' /\ stat' = stat /\ \E row, bd : Auctions(t, o, row, bd)
  BY <1>1, <1>2, LiquifyAuctions
<1>4. PICK row, bd : Auctions(t, o, row, bd) BY <1>3
<1>5. AuctionHasBid'
  <2> SUFFICES ASSUME NEW u \in CdpTypes, NEW x \in Users
               PROVE  /\ bid'[u][x] # None <=> cdp'[u][x] # None /\ ~cdp'[u][x].live
                      /\ bid'[u][x] # None => cdp'[u][x].stablecoin # 0
    BY DEF AuctionHasBid
  <2>1. CASE u = t /\ x = o BY <1>4, <2>1 DEF Auctions, Leaves
  <2>2. CASE ~(u = t /\ x = o)
    BY <1>4, <2>2 DEF Auctions, Leaves, AuctionInv, AuctionHasBid
  <2> QED BY <2>1, <2>2
<1>6. BidInAskedCurrency'
  <2> SUFFICES ASSUME NEW u \in CdpTypes, NEW x \in Users, bid'[u][x] # None
               PROVE  bid'[u][x].sym = cdp'[u][x].ssym
    BY DEF BidInAskedCurrency
  <2>1. CASE u = t /\ x = o BY <1>4, <2>1 DEF Auctions, Leaves
  <2>2. CASE ~(u = t /\ x = o)
    BY <1>4, <2>2 DEF Auctions, Leaves, AuctionInv, BidInAskedCurrency
  <2> QED BY <2>1, <2>2
<1>7. LivePositions'
  <2> SUFFICES ASSUME NEW u \in CdpTypes, NEW x \in Users, cdp'[u][x] # None, cdp'[u][x].live
               PROVE  MatchesType(cdp'[u][x], stat[Self][u])
    BY <1>3 DEF LivePositions
  <2>1. CASE u = t /\ x = o BY <1>4, <2>1 DEF Auctions, Leaves
  <2>2. CASE ~(u = t /\ x = o)
    BY <1>4, <2>2 DEF Auctions, Leaves, AuctionInv, LivePositions
  <2> QED BY <2>1, <2>2
<1> QED BY <1>3, <1>5, <1>6, <1>7 DEF AuctionInv

\* The actions of Cdp act on live positions alone: one under auction keeps its
\* debt, its currency and what is sold, and no other comes under one.
KeepsAuctions ==
  \A t \in CdpTypes, o \in Users :
    IF cdp[t][o] # None /\ ~cdp[t][o].live
    THEN /\ cdp'[t][o] # None /\ ~cdp'[t][o].live
         /\ cdp'[t][o].stablecoin = cdp[t][o].stablecoin
         /\ cdp'[t][o].ssym = cdp[t][o].ssym /\ cdp'[t][o].csym = cdp[t][o].csym
    ELSE cdp'[t][o] # None => cdp'[t][o].live

LEMMA OneLive ==
  ASSUME NEW t \in CdpTypes, NEW o \in Users, cdp[t][o] = None \/ cdp[t][o].live,
         cdp'[t][o] = None \/ cdp'[t][o].live,
         \A u \in CdpTypes, x \in Users : u # t \/ x # o => cdp'[u][x] = cdp[u][x]
  PROVE  KeepsAuctions
<1> SUFFICES ASSUME NEW u \in CdpTypes, NEW x \in Users
             PROVE  IF cdp[u][x] # None /\ ~cdp[u][x].live
                    THEN /\ cdp'[u][x] # None /\ ~cdp'[u][x].live
                         /\ cdp'[u][x].stablecoin = cdp[u][x].stablecoin
                         /\ cdp'[u][x].ssym = cdp[u][x].ssym /\ cdp'[u][x].csym = cdp[u][x].csym
                    ELSE cdp'[u][x] # None => cdp'[u][x].live
  BY DEF KeepsAuctions
<1>1. CASE u = t /\ x = o BY <1>1
<1>2. CASE ~(u = t /\ x = o) BY <1>2
<1> QED BY <1>1, <1>2

\* A live position that is written still matches its type.
LEMMA OneMatches ==
  ASSUME LivePositions, SameTypes(stat, stat'), NEW t \in CdpTypes, NEW o \in Users,
         \A u \in CdpTypes, x \in Users : u # t \/ x # o => cdp'[u][x] = cdp[u][x],
         cdp'[t][o] # None /\ cdp'[t][o].live => MatchesType(cdp'[t][o], stat[Self][t])
  PROVE  LivePositions'
<1>1. \A u \in CdpTypes : \A it : MatchesType(it, stat[Self][u]) => MatchesType(it, stat'[Self][u])
  BY DEF SameTypes, MatchesType
<1> SUFFICES ASSUME NEW u \in CdpTypes, NEW x \in Users, cdp'[u][x] # None, cdp'[u][x].live
             PROVE  MatchesType(cdp'[u][x], stat'[Self][u])
  BY DEF LivePositions
<1>2. CASE u = t /\ x = o BY <1>1, <1>2
<1>3. CASE ~(u = t /\ x = o)
  <2>1. MatchesType(cdp[u][x], stat[Self][u]) BY <1>3 DEF LivePositions
  <2> QED BY <1>1, <1>3, <2>1
<1> QED BY <1>2, <1>3

LEMMA MovedKeeps ==
  ASSUME CdpTypeOK, LivePositions, NEW t \in CdpTypes, NEW o \in Users, LiveCdp(o, t),
         NEW dc, NEW ds \in Int, NEW df, NEW tc, Moved(t, o, dc, ds, df, tc),
         cdp[t][o].stablecoin + ds >= 0
  PROVE  KeepsAuctions /\ LivePositions'
<1>1. /\ cdp[t][o] # None /\ cdp[t][o].live /\ MatchesType(cdp[t][o], stat[Self][t])
  BY DEF LiveCdp, LivePositions
<1>2. MatchesType(cdp'[t][o], stat[Self][t]) BY <1>1 DEF Moved, MatchesType
<1>3. KeepsAuctions BY <1>1, OneLive DEF Moved, OnlyWrites
<1>4. LivePositions' BY <1>2, OneMatches DEF Moved, OnlyWrites
<1> QED BY <1>3, <1>4

LEMMA OwnerKeeps ==
  ASSUME CdpTypeOK, LivePositions, OwnerStep
  PROVE  KeepsAuctions /\ LivePositions'
<1>1. PICK o \in Users, t \in CdpTypes :
        \/ Open(o, t)
        \/ Shut(o, t)
        \/ \E q \in ClatrlQty(t) : Lock(o, t, q) \/ Bail(o, t, q)
        \/ \E q \in StablQty(t) : Draw(o, t, q) \/ Wipe(o, t, q)
  BY DEF OwnerStep
<1>2. ClatrlQty(t) \subseteq 1 .. MaxAmount /\ StablQty(t) \subseteq 1 .. MaxAmount
  BY StatIn, CdpAssumption DEF ClatrlQty, StablQty, StatRow
<1>3. CASE Open(o, t)
  <2>1. MatchesType(cdp'[t][o], stat[Self][t]) BY <1>3, OpenWrites DEF MatchesType
  <2>2. KeepsAuctions BY <1>3, OpenWrites, OneLive
  <2>3. LivePositions' BY <1>3, <2>1, OpenWrites, OneMatches
  <2> QED BY <2>2, <2>3
<1>4. CASE Shut(o, t)
  <2>1. cdp[t][o] # None /\ cdp[t][o].live BY <1>4 DEF Shut, LiveCdp
  <2>2. KeepsAuctions BY <1>4, <2>1, ShutWrites, OneLive DEF OnlyWrites
  <2>3. LivePositions' BY <1>4, ShutWrites, OneMatches DEF OnlyWrites
  <2> QED BY <2>2, <2>3
<1>5. ASSUME LiveCdp(o, t) PROVE cdp[t][o].stablecoin \in Nat
  <2>1. cdp[t][o].stablecoin >= 0 BY <1>5 DEF LiveCdp, LivePositions, MatchesType
  <2>2. cdp[t][o] \in CdpRow BY <1>5, CdpIn DEF LiveCdp
  <2> QED BY <2>1, <2>2, TablesAssumption DEF CdpRow, Amounts
<1>6. ASSUME NEW q \in 1 .. MaxAmount, Lock(o, t, q) PROVE KeepsAuctions /\ LivePositions'
  <2>1. LiveCdp(o, t) /\ Moved(t, o, q, 0, 0, q) BY <1>6, LockMoves DEF Lock
  <2>2. cdp[t][o].stablecoin + 0 >= 0 BY <1>5, <2>1
  <2> QED BY <2>1, <2>2, MovedKeeps
<1>7. ASSUME NEW q \in 1 .. MaxAmount, Bail(o, t, q) PROVE KeepsAuctions /\ LivePositions'
  <2>1. LiveCdp(o, t) /\ Moved(t, o, -q, 0, 0, -q) BY <1>7, BailMoves DEF Bail
  <2>2. cdp[t][o].stablecoin + 0 >= 0 BY <1>5, <2>1
  <2> QED BY <2>1, <2>2, MovedKeeps
<1>8. ASSUME NEW q \in 1 .. MaxAmount, Draw(o, t, q) PROVE KeepsAuctions /\ LivePositions'
  <2>1. LiveCdp(o, t) /\ Moved(t, o, 0, q, 0, 0) BY <1>8, DrawMoves DEF Draw
  <2>2. cdp[t][o].stablecoin + q >= 0 BY <1>5, <2>1
  <2> QED BY <2>1, <2>2, MovedKeeps
<1>9. ASSUME NEW q \in 1 .. MaxAmount, Wipe(o, t, q) PROVE KeepsAuctions /\ LivePositions'
  <2>1. LiveCdp(o, t) /\ Moved(t, o, 0, -q, FeeOf(o, t, q), 0) /\ cdp[t][o].stablecoin > q
    BY <1>9, WipeMoves DEF Wipe
  <2>2. cdp[t][o].stablecoin + (-q) >= 0 /\ -q \in Int BY <1>5, <2>1
  <2> QED BY <2>1, <2>2, MovedKeeps
<1> QED BY <1>1, <1>2, <1>3, <1>4, <1>6, <1>7, <1>8, <1>9

LEMMA CdpKeeps ==
  ASSUME CdpTypeOK, LivePositions, CdpNext
  PROVE  KeepsAuctions /\ LivePositions' /\ CdpTypeOK'
<1>0. CdpTypeOK' BY StepType
<1>1. ASSUME BalanceStep PROVE KeepsAuctions /\ LivePositions'
  <2>1. stat' = stat /\ cdp' = cdp BY <1>1, BalanceKeeps
  <2> QED BY <2>1 DEF KeepsAuctions, LivePositions
<1>2. ASSUME IdleStep PROVE KeepsAuctions /\ LivePositions'
  <2>1. \A t \in CdpTypes, o \in Users :
          IF cdp[t][o] = None THEN cdp'[t][o] = None
          ELSE /\ cdp'[t][o] # None /\ cdp'[t][o].live = cdp[t][o].live
               /\ cdp'[t][o].csym = cdp[t][o].csym /\ cdp'[t][o].ssym = cdp[t][o].ssym
               /\ cdp'[t][o].stablecoin = cdp[t][o].stablecoin
    BY <1>2, IdleKeeps
  <2>2. KeepsAuctions BY <2>1 DEF KeepsAuctions
  <2>3. \A t \in CdpTypes : stat[Self][t] # None =>
          /\ stat'[Self][t] # None
          /\ stat'[Self][t].csym = stat[Self][t].csym /\ stat'[Self][t].ssym = stat[Self][t].ssym
    BY <1>2, IdleKeeps DEF SameTypes
  <2>4. LivePositions' BY <2>1, <2>3 DEF LivePositions, MatchesType
  <2> QED BY <2>2, <2>4
<1> QED BY <1>0, <1>1, <1>2, OwnerKeeps DEF CdpNext, IdleStep

\* Bids change in a step that is none of liquify's by their age alone.
BidsKept ==
  \A t \in CdpTypes, o \in Users :
    IF bid[t][o] = None THEN bid'[t][o] = None
    ELSE /\ bid'[t][o] # None /\ bid'[t][o].bidder = bid[t][o].bidder
         /\ bid'[t][o].amt = bid[t][o].amt /\ bid'[t][o].sym = bid[t][o].sym

LEMMA OlderBidIn ==
  ASSUME NEW d \in BidRow
  PROVE  /\ OlderBid(d) \in BidRow /\ OlderBid(d).bidder = d.bidder
         /\ OlderBid(d).amt = d.amt /\ OlderBid(d).sym = d.sym
<1> USE LiquidationAssumption
<1>1. \A n \in 0 .. MaxBidAge : (IF n = MaxBidAge THEN n ELSE n + 1) \in 0 .. MaxBidAge
  OBVIOUS
<1>2. d # None OBVIOUS
<1> QED BY <1>1, <1>2 DEF OlderBid, BidRow

LEMMA TickBids ==
  ASSUME LiqTypeOK, LiqTick
  PROVE  bid' \in BidTable /\ BidsKept
<1>1. bid \in BidTable BY DEF LiqTypeOK
<1>2. \A t \in CdpTypes, o \in Users : bid'[t][o] = OlderBid(bid[t][o]) BY DEF LiqTick
<1>3. \A t \in CdpTypes, o \in Users : OlderBid(bid[t][o]) \in BidRow \cup {None}
  <2> SUFFICES ASSUME NEW t \in CdpTypes, NEW o \in Users
               PROVE  OlderBid(bid[t][o]) \in BidRow \cup {None}
    OBVIOUS
  <2>1. bid[t][o] \in BidRow \cup {None} BY <1>1 DEF BidTable
  <2>2. CASE bid[t][o] = None BY <2>2 DEF OlderBid
  <2>3. CASE bid[t][o] # None BY <2>1, <2>3, OlderBidIn
  <2> QED BY <2>2, <2>3
<1>4. bid' \in BidTable BY <1>3 DEF LiqTick, BidTable
<1>5. BidsKept
  <2> SUFFICES ASSUME NEW t \in CdpTypes, NEW o \in Users
               PROVE  IF bid[t][o] = None THEN bid'[t][o] = None
                      ELSE /\ bid'[t][o] # None /\ bid'[t][o].bidder = bid[t][o].bidder
                           /\ bid'[t][o].amt = bid[t][o].amt /\ bid'[t][o].sym = bid[t][o].sym
    BY DEF BidsKept
  <2>1. CASE bid[t][o] = None BY <1>2, <2>1 DEF OlderBid
  <2>2. CASE bid[t][o] # None
    <3>1. bid[t][o] \in BidRow BY <1>1, <2>2 DEF BidTable
    <3>2. OlderBid(bid[t][o]) # None BY <3>1, OlderBidIn, LiquidationAssumption
    <3> QED BY <1>2, <2>2, <3>1, <3>2, OlderBidIn
  <2> QED BY <2>1, <2>2
<1> QED BY <1>4, <1>5

LEMMA OtherBids ==
  ASSUME LiqTypeOK, LivePositions, (CdpNext /\ UNCHANGED bid) \/ LiqTick \/ UNCHANGED liqVars
  PROVE  bid' \in BidTable /\ BidsKept /\ KeepsAuctions /\ CdpTypeOK' /\ LivePositions'
<1>0. CdpTypeOK BY DEF LiqTypeOK
<1>1. CASE CdpNext /\ UNCHANGED bid
  <2>1. bid' \in BidTable /\ BidsKept BY <1>1 DEF LiqTypeOK, BidsKept
  <2> QED BY <1>0, <1>1, <2>1, CdpKeeps
<1>2. CASE LiqTick
  <2>1. CdpNext BY <1>2 DEF LiqTick, CdpNext
  <2> QED BY <1>0, <1>2, <2>1, CdpKeeps, TickBids
<1>3. CASE UNCHANGED liqVars
  <2>1. stat' = stat /\ feed' = feed /\ acnt' = acnt /\ cdp' = cdp /\ vault' = vault /\ bid' = bid
    BY <1>3 DEF liqVars
  <2>2. CdpTypeOK' BY <1>0, <2>1, TypeParts, TypePartsNext
  <2>3. bid' \in BidTable /\ BidsKept BY <2>1 DEF LiqTypeOK, BidsKept
  <2> QED BY <2>1, <2>2, <2>3 DEF KeepsAuctions, LivePositions
<1> QED BY <1>1, <1>2, <1>3

LEMMA StepAuctions ==
  ASSUME AuctionInv, [LiqNext]_liqVars
  PROVE  AuctionInv'
<1>1. ASSUME (CdpNext /\ UNCHANGED bid) \/ LiqTick \/ UNCHANGED liqVars
      PROVE  AuctionInv'
  <2>1. /\ bid' \in BidTable /\ BidsKept /\ KeepsAuctions /\ CdpTypeOK' /\ LivePositions'
    BY <1>1, OtherBids DEF AuctionInv
  <2>2. LiqTypeOK' BY <2>1 DEF LiqTypeOK, AuctionInv, BidsKept
  <2>3. AuctionHasBid'
    <3> SUFFICES ASSUME NEW u \in CdpTypes, NEW x \in Users
                 PROVE  /\ bid'[u][x] # None <=> cdp'[u][x] # None /\ ~cdp'[u][x].live
                        /\ bid'[u][x] # None => cdp'[u][x].stablecoin # 0
      BY DEF AuctionHasBid
    <3> QED BY <2>1 DEF AuctionInv, AuctionHasBid, BidsKept, KeepsAuctions
  <2>4. BidInAskedCurrency'
    <3> SUFFICES ASSUME NEW u \in CdpTypes, NEW x \in Users, bid'[u][x] # None
                 PROVE  bid'[u][x].sym = cdp'[u][x].ssym
      BY DEF BidInAskedCurrency
    <3> QED BY <2>1
      DEF AuctionInv, AuctionHasBid, BidInAskedCurrency, BidsKept, KeepsAuctions
  <2> QED BY <2>1, <2>2, <2>3, <2>4 DEF AuctionInv
<1> QED BY <1>1, LiquifyInv DEF LiqNext, CdpNext

LEMMA InitAuctions == LiqInit => AuctionInv
<1> SUFFICES ASSUME LiqInit PROVE AuctionInv
  OBVIOUS
<1>1. CdpInit /\ \A t \in CdpTypes, o \in Users : bid[t][o] = None BY DEF LiqInit
<1>2. CdpInv BY <1>1, InitInv
<1>3. bid \in BidTable BY DEF LiqInit, BidTable
<1>4. \A t \in CdpTypes, o \in Users : cdp[t][o] = None BY <1>1 DEF CdpInit
<1> QED BY <1>1, <1>2, <1>3, <1>4
    DEF AuctionInv, LiqTypeOK, CdpInv, AuctionHasBid, BidInAskedCurrency

LEMMA AuctionInvariant == LiqSpec => []AuctionInv
<1>1. AuctionInv /\ [LiqNext]_liqVars => AuctionInv' BY StepAuctions
<1> QED BY <1>1, InitAuctions, PTL DEF LiqSpec

\* Every position under auction has a standing bid and something left to pay,
\* and no bid stands on another: liquify may trust the bid row it reads.
THEOREM AuctionRowsAgree == LiqSpec => []AuctionHasBid
<1>1. AuctionInv => AuctionHasBid BY DEF AuctionInv
<1> QED BY <1>1, AuctionInvariant, PTL

\* The standing bid is in the currency the position asks for in its round, so a
\* refund is in the money that was paid.
THEOREM BidsInAskedCurrency == LiqSpec => []BidInAskedCurrency
<1>1. AuctionInv => BidInAskedCurrency BY DEF AuctionInv
<1> QED BY <1>1, AuctionInvariant, PTL
-----------------------------------------------------------------------------
(***************************************************************************)
(* What a higher bid does within a round.                                  *)
(***************************************************************************)
\* A step in which a round goes on with another row or bid is a higher bid in it.
LEMMA RoundGoesOn ==
  ASSUME AuctionInv, [LiqNext]_liqVars, NEW t \in CdpTypes, NEW o \in Users,
         SameRound(t, o)
  PROVE  \/ /\ bid'[t][o].bidder = bid[t][o].bidder /\ bid'[t][o].amt = bid[t][o].amt
            /\ cdp'[t][o].stablecoin = cdp[t][o].stablecoin
         \/ \E b \in Users, s \in Symbols : \E q \in BidQty[s] : Outbid(b, o, t, s, q)
<1>1. bid[t][o] # None /\ bid'[t][o] # None /\ RoundOpen(t, o) BY DEF SameRound
<1>2. cdp[t][o] # None /\ ~cdp[t][o].live BY <1>1 DEF AuctionInv, AuctionHasBid
<1>3. CASE (CdpNext /\ UNCHANGED bid) \/ LiqTick \/ UNCHANGED liqVars
  <2>1. BidsKept /\ KeepsAuctions BY <1>3, OtherBids DEF AuctionInv
  <2> QED BY <1>1, <1>2, <2>1 DEF BidsKept, KeepsAuctions
<1>4. CASE LiquifyStep
  <2>1. PICK b \in Users, x \in Users, u \in CdpTypes, s \in Symbols : \E q \in BidQty[s] :
          FirstBid(b, x, u, s, q) \/ Outbid(b, x, u, s, q) \/ NewRound(b, x, u, s, q)
    BY <1>4 DEF LiquifyStep
  <2>2. PICK q \in BidQty[s] :
          FirstBid(b, x, u, s, q) \/ Outbid(b, x, u, s, q) \/ NewRound(b, x, u, s, q)
    BY <2>1
  <2>3. CASE u = t /\ x = o
    <3>1. ~FirstBid(b, x, u, s, q) BY <1>1, <2>3 DEF FirstBid
    <3>2. ~NewRound(b, x, u, s, q) BY <1>1, <2>3 DEF NewRound
    <3> QED BY <2>2, <2>3, <3>1, <3>2
  <2>4. CASE ~(u = t /\ x = o)
    <3>1. q \in 1 .. MaxAmount BY LiquidationAssumption
    <3>2. \E row, bd : Auctions(u, x, row, bd) BY <2>2, <3>1, LiquifyAuctions
    <3> QED BY <2>4, <3>2 DEF Auctions, Leaves
  <2> QED BY <2>3, <2>4
<1> QED BY <1>3, <1>4 DEF LiqNext, CdpNext

\* What a higher bid leaves of the position, of the bid and of the balances.
LEMMA OutbidMakes ==
  ASSUME AuctionInv, NEW b \in Users, NEW o \in Users, NEW t \in CdpTypes,
         NEW s \in Symbols, NEW q \in BidQty[s], Outbid(b, o, t, s, q), bid'[t][o] # None
  PROVE  LET bt == bid[t][o]   c == IF s = IQ THEN IQContract ELSE Self
         IN  /\ cdp'[t][o].stablecoin = cdp[t][o].stablecoin - (q - bt.amt)
             /\ bid'[t][o].amt = q /\ bid'[t][o].bidder = b
             /\ bt.sym = s /\ q \in Nat /\ cdp[t][o].stablecoin \in Int
             /\ bt.amt \in 0 .. MaxAmount /\ bt.bidder \in Users /\ c \in Codes
             /\ CanDebit(acnt, b, s, q)
             /\ CanCredit(Debit(acnt, b, s, q), bt.bidder, s, bt.amt, c)
             /\ acnt' = Credit(Debit(acnt, b, s, q), bt.bidder, s, bt.amt, c)
<1> DEFINE bt == bid[t][o]   c == IF s = IQ THEN IQContract ELSE Self
           it == Seized(t, o)   n == it.stablecoin - Raised(bt, q)
           a == Refunded(Debit(acnt, b, s, q), bt, c)
<1>0. LiqTypeOK /\ CdpTypeOK /\ q \in 1 .. MaxAmount
  BY LiquidationAssumption DEF AuctionInv, LiqTypeOK
<1>1. /\ Leaves(t, o, Sold(it, n), RaisedBid(bt, b, q))
      /\ Conclude(t, o, Sold(it, n), RaisedBid(bt, b, q), a, feed)
  BY <1>0, OutbidLeaves
<1>2. bt # None /\ bt.sym = s /\ ForSale(t, o) /\ CanDebit(acnt, b, s, q)
      /\ CanCredit(Debit(acnt, b, s, q), bt.bidder, bt.sym, bt.amt, c)
  BY DEF Outbid
<1>3. ~cdp[t][o].live /\ cdp[t][o] # None BY <1>2 DEF AuctionInv, AuctionHasBid
<1>4. it = cdp[t][o] BY <1>3 DEF Seized
<1>5. bt \in BidRow /\ bt.amt \in 1 .. MaxAmount BY <1>0, <1>2, BidIn
<1>6. /\ RaisedBid(bt, b, q).amt = q /\ RaisedBid(bt, b, q).bidder = b
  BY <1>0, <1>5, RaisedBidRow
<1>7. cdp[t][o] \in CdpRow BY <1>0, <1>3, CdpIn
<1>8. Sold(it, n).stablecoin = n BY <1>4, <1>7 DEF Sold, CdpRow
<1>9. Sold(it, n).stablecoin # 0 /\ cdp'[t][o] = Sold(it, n) /\ bid'[t][o] = RaisedBid(bt, b, q)
  BY <1>1 DEF Leaves
<1>10. acnt' = a BY <1>1, <1>9 DEF Conclude
<1>11. cdp[t][o].stablecoin \in Int BY <1>7, TablesAssumption DEF CdpRow, Amounts
<1>12. cdp'[t][o].stablecoin = cdp[t][o].stablecoin - (q - bt.amt)
  BY <1>4, <1>8, <1>9 DEF Raised
<1>13. c \in Codes /\ bt.bidder \in Users /\ bt.amt \in 0 .. MaxAmount /\ q \in Nat
  BY <1>0, <1>5, TablesAssumption DEF Codes, BidRow
<1> HIDE DEF it, n
<1> QED BY <1>2, <1>6, <1>9, <1>10, <1>11, <1>12, <1>13 DEF Refunded

LEMMA TargetKept ==
  ASSUME AuctionInv, [LiqNext]_liqVars
  PROVE  RoundTargetIsKept
<1> SUFFICES ASSUME NEW t \in CdpTypes, NEW o \in Users, SameRound(t, o)
             PROVE  cdp'[t][o].stablecoin + bid'[t][o].amt
                      = cdp[t][o].stablecoin + bid[t][o].amt
  BY DEF RoundTargetIsKept
<1>1. bid'[t][o] # None BY DEF SameRound
<1>2. ASSUME NEW b \in Users, NEW s \in Symbols, NEW q \in BidQty[s], Outbid(b, o, t, s, q)
      PROVE  cdp'[t][o].stablecoin + bid'[t][o].amt = cdp[t][o].stablecoin + bid[t][o].amt
  <2>1. /\ cdp'[t][o].stablecoin = cdp[t][o].stablecoin - (q - bid[t][o].amt)
        /\ bid'[t][o].amt = q /\ q \in Nat /\ cdp[t][o].stablecoin \in Int
        /\ bid[t][o].amt \in 0 .. MaxAmount
    BY <1>1, <1>2, OutbidMakes
  <2>2. bid[t][o].amt \in Int BY <2>1, TablesAssumption
  <2>3. \A x, y, z \in Int : (x - (y - z)) + y = x + z OBVIOUS
  <2> QED BY <2>1, <2>2, <2>3
<1> QED BY <1>2, RoundGoesOn

\* In an open round, what is still asked and what is bid add up to one sum: a
\* higher bid pays off just what it adds to the bid it replaces.
THEOREM BidsPayOffOneSum == LiqSpec => BidsRaiseOneTarget
<1>1. AuctionInv /\ [LiqNext]_liqVars => [RoundTargetIsKept]_liqVars BY TargetKept
<1> QED BY <1>1, AuctionInvariant, PTL DEF LiqSpec, BidsRaiseOneTarget

LEMMA RefundPaid ==
  ASSUME AuctionInv, [LiqNext]_liqVars
  PROVE  RefundOnOverbid
<1> SUFFICES ASSUME NEW t \in CdpTypes, NEW o \in Users, SameRound(t, o),
                    bid'[t][o].bidder # bid[t][o].bidder
             PROVE  LET s == bid[t][o].sym
                        b == bid[t][o].bidder
                        before == IF acnt[s][b] = None THEN 0 ELSE acnt[s][b].balance
                    IN  acnt'[s][b] # None /\ acnt'[s][b].balance = before + bid[t][o].amt
  BY DEF RefundOnOverbid
<1>1. bid'[t][o] # None BY DEF SameRound
<1>2. PICK b \in Users, s \in Symbols : \E q \in BidQty[s] : Outbid(b, o, t, s, q)
  BY RoundGoesOn
<1>3. PICK q \in BidQty[s] : Outbid(b, o, t, s, q) BY <1>2
<1> DEFINE m == bid[t][o].amt   l == bid[t][o].bidder   c == IF s = IQ THEN IQContract ELSE Self
           a == Debit(acnt, b, s, q)
<1>4. /\ bid'[t][o].bidder = b /\ bid[t][o].sym = s /\ q \in Nat
      /\ m \in 0 .. MaxAmount /\ l \in Users /\ c \in Codes
      /\ CanDebit(acnt, b, s, q) /\ CanCredit(a, l, s, m, c)
      /\ acnt' = Credit(a, l, s, m, c)
  BY <1>1, <1>3, OutbidMakes
<1>5. acnt \in Accounts BY TypeParts DEF AuctionInv, LiqTypeOK
<1>6. l # b BY <1>4
<1> HIDE DEF l, c, m
<1>7. a \in Accounts BY <1>4, <1>5, DebitType
<1>8. a[s][l] = acnt[s][l] BY <1>4, <1>5, <1>6, DebitOthers
<1> HIDE DEF a
<1>9. PICK row \in AccountRow :
        /\ row # None /\ row.code = c
        /\ a[s][l] # None => a[s][l] \in AccountRow /\ a[s][l].code = c
        /\ row.balance = m + (IF a[s][l] = None THEN 0 ELSE a[s][l].balance)
        /\ Credit(a, l, s, m, c) = [a EXCEPT ![s][l] = row]
  BY <1>4, <1>7, CreditOne
<1>10. acnt'[s][l] = row BY <1>4, <1>7, <1>9, WrittenAt DEF Accounts
<1>11. m \in Int /\ (IF acnt[s][l] = None THEN 0 ELSE acnt[s][l].balance) \in Int
  BY <1>4, <1>5, TablesAssumption DEF Accounts, AccountRow
<1>12. row.balance = (IF acnt[s][l] = None THEN 0 ELSE acnt[s][l].balance) + m
  BY <1>8, <1>9, <1>11
<1> QED BY <1>4, <1>9, <1>10, <1>12 DEF l, m

\* A user outbid within a round is paid the whole bid back, in its currency.
THEOREM OutbidIsRefunded == LiqSpec => LosersAreRefunded
<1>1. AuctionInv /\ [LiqNext]_liqVars => [RefundOnOverbid]_liqVars BY RefundPaid
<1> QED BY <1>1, AuctionInvariant, PTL DEF LiqSpec, LosersAreRefunded
-----------------------------------------------------------------------------
(***************************************************************************)
(* Claims on the token contracts.  The code sells any lot of the type's    *)
(* collateral symbol as if it were locked collateral, so the theorem is    *)
(* about types whose collateral is neither the stablecoin they issue nor   *)
(* the one prices are in: propose leaves that to the voters.               *)
(***************************************************************************)
Apart(st) == st.csym # IQ => st.csym \notin {st.ssym, PriceSym}
MoneyIsNotCollateral == \A t \in CdpTypes : Enacted[t] # None => Apart(Enacted[t])

\* The inductive invariant: no auction asks for, or prices in, the collateral
\* symbol of its type, so what it sells after its first round never passes for
\* locked collateral.
TypesApart == \A t \in CdpTypes : stat[Self][t] # None => Apart(stat[Self][t])
PricedInMoney == \A s \in Symbols : feed[s] # None => feed[s].psym = PriceSym
AskedIsNotSold ==
  \A t \in CdpTypes, o \in Users : cdp[t][o] # None =>
    /\ stat[Self][t] # None
    /\ stat[Self][t].csym # IQ => cdp[t][o].ssym # stat[Self][t].csym
ClaimsInv ==
  AuctionInv /\ TypesApart /\ PricedInMoney /\ AskedIsNotSold /\ VaultCoversClaims

LEMMA StepSameTypes ==
  ASSUME CdpTypeOK, CdpNext
  PROVE  SameTypes(stat, stat')
<1>1. CASE OwnerStep
  <2>1. PICK o \in Users, t \in CdpTypes :
          \/ Open(o, t)
          \/ Shut(o, t)
          \/ \E q \in ClatrlQty(t) : Lock(o, t, q) \/ Bail(o, t, q)
          \/ \E q \in StablQty(t) : Draw(o, t, q) \/ Wipe(o, t, q)
    BY <1>1 DEF OwnerStep
  <2>2. ClatrlQty(t) \subseteq 1 .. MaxAmount /\ StablQty(t) \subseteq 1 .. MaxAmount
    BY StatIn, CdpAssumption DEF ClatrlQty, StablQty, StatRow
  <2>3. CASE Open(o, t) BY <2>3, OpenWrites
  <2>4. CASE Shut(o, t) BY <2>4, ShutWrites DEF OnlyWrites
  <2>5. ASSUME NEW q \in 1 .. MaxAmount, Lock(o, t, q) PROVE SameTypes(stat, stat')
    BY <2>5, LockMoves DEF Moved, OnlyWrites
  <2>6. ASSUME NEW q \in 1 .. MaxAmount, Bail(o, t, q) PROVE SameTypes(stat, stat')
    BY <2>6, BailMoves DEF Moved, OnlyWrites
  <2>7. ASSUME NEW q \in 1 .. MaxAmount, Draw(o, t, q) PROVE SameTypes(stat, stat')
    BY <2>7, DrawMoves DEF Moved, OnlyWrites
  <2>8. ASSUME NEW q \in 1 .. MaxAmount, Wipe(o, t, q) PROVE SameTypes(stat, stat')
    BY <2>8, WipeMoves DEF Moved, OnlyWrites
  <2> QED BY <2>1, <2>2, <2>3, <2>4, <2>5, <2>6, <2>7, <2>8
<1>2. CASE BalanceStep BY <1>2, BalanceKeeps DEF SameTypes
<1>3. CASE IdleStep BY <1>3, IdleKeeps
<1> QED BY <1>1, <1>2, <1>3 DEF CdpNext, IdleStep

\* A feed keeps the symbol of its price, or is priced in PriceSym.
SamePricing(f, g) ==
  \A s \in Symbols : g[s] # None =>
    g[s].psym = PriceSym \/ (f[s] # None /\ g[s].psym = f[s].psym)

LEMMA CirculatePricing ==
  ASSUME NEW f \in FeedTable, NEW s \in Symbols, NEW q \in Int, CanCirculate(f, s, q)
  PROVE  SamePricing(f, Circulate(f, s, q))
<1>1. f[s] # None /\ f[s] \in FeedRow BY DEF CanCirculate, FeedTable
<1>2. \A x \in Symbols : Circulate(f, s, q)[x]
        = IF x = s THEN [f[s] EXCEPT !.total = @ + q] ELSE f[x]
  BY DEF Circulate, FeedTable
<1>3. [f[s] EXCEPT !.total = @ + q].psym = f[s].psym BY <1>1 DEF FeedRow
<1> QED BY <1>1, <1>2, <1>3 DEF SamePricing

LEMMA FeedPricing ==
  ASSUME CdpTypeOK, FeedStep
  PROVE  SamePricing(feed, feed')
<1>1. PICK g \in Scopes, p \in Prices, t \in CdpTypes, s \in Fed : Upfeed(g, p, PriceSym, t, s)
  BY DEF FeedStep
<1>2. feed \in FeedTable /\ s \in Symbols BY TypeParts, CdpAssumption
<1>3. feed' = [feed EXCEPT ![s] = Repriced(feed[s], p, PriceSym)] BY <1>1 DEF Upfeed
<1>4. \A x \in Symbols : feed'[x] = IF x = s THEN Repriced(feed[s], p, PriceSym) ELSE feed[x]
  BY <1>2, <1>3 DEF FeedTable
<1>5. feed[s] # None => Repriced(feed[s], p, PriceSym).psym = feed[s].psym
  <2> SUFFICES ASSUME feed[s] # None PROVE Repriced(feed[s], p, PriceSym).psym = feed[s].psym
    OBVIOUS
  <2>1. feed[s] \in FeedRow BY <1>2 DEF FeedTable
  <2> QED BY <2>1 DEF Repriced, FeedRow
<1>6. feed[s] = None => Repriced(feed[s], p, PriceSym).psym = PriceSym BY DEF Repriced
<1> QED BY <1>4, <1>5, <1>6 DEF SamePricing

LEMMA StepPricing ==
  ASSUME CdpTypeOK, CdpNext
  PROVE  SamePricing(feed, feed')
<1>0. feed \in FeedTable BY TypeParts
<1>1. feed' = feed => SamePricing(feed, feed') BY DEF SamePricing
<1>2. CASE OwnerStep
  <2>1. PICK o \in Users, t \in CdpTypes :
          \/ Open(o, t)
          \/ Shut(o, t)
          \/ \E q \in ClatrlQty(t) : Lock(o, t, q) \/ Bail(o, t, q)
          \/ \E q \in StablQty(t) : Draw(o, t, q) \/ Wipe(o, t, q)
    BY <1>2 DEF OwnerStep
  <2>2. ClatrlQty(t) \subseteq 1 .. MaxAmount /\ StablQty(t) \subseteq 1 .. MaxAmount
    BY StatIn, CdpAssumption DEF ClatrlQty, StablQty, StatRow
  <2>3. CASE Open(o, t) \/ Shut(o, t) BY <1>1, <2>3 DEF Open, Shut
  <2> DEFINE st == stat[Self][t]
  <2>4. LiveCdp(o, t) => st.csym \in Symbols /\ st.ssym \in Symbols
    BY StatIn DEF LiveCdp, StatRow
  <2>5. ASSUME NEW q \in 1 .. MaxAmount, Lock(o, t, q) PROVE SamePricing(feed, feed')
    <3>1. LiveCdp(o, t) /\ CanCirculate(feed, st.csym, -q) /\ feed' = Circulate(feed, st.csym, -q)
      BY <2>5 DEF Lock
    <3>2. -q \in Int OBVIOUS
    <3> QED BY <1>0, <2>4, <3>1, <3>2, CirculatePricing
  <2>6. ASSUME NEW q \in 1 .. MaxAmount, Bail(o, t, q) PROVE SamePricing(feed, feed')
    <3>1. LiveCdp(o, t) /\ CanCirculate(feed, st.csym, q) /\ feed' = Circulate(feed, st.csym, q)
      BY <2>6 DEF Bail
    <3> QED BY <1>0, <2>4, <3>1, CirculatePricing
  <2>7. ASSUME NEW q \in 1 .. MaxAmount, Draw(o, t, q) PROVE SamePricing(feed, feed')
    <3>1. LiveCdp(o, t) /\ CanCirculate(feed, st.ssym, q) /\ feed' = Circulate(feed, st.ssym, q)
      BY <2>7 DEF Draw
    <3> QED BY <1>0, <2>4, <3>1, CirculatePricing
  <2>8. ASSUME NEW q \in 1 .. MaxAmount, Wipe(o, t, q) PROVE SamePricing(feed, feed')
    <3>1. LiveCdp(o, t) /\ CanCirculate(feed, st.ssym, -q) /\ feed' = Circulate(feed, st.ssym, -q)
      BY <2>8 DEF Wipe
    <3>2. -q \in Int OBVIOUS
    <3> QED BY <1>0, <2>4, <3>1, <3>2, CirculatePricing
  <2> QED BY <2>1, <2>2, <2>3, <2>5, <2>6, <2>7, <2>8
<1>3. CASE BalanceStep
  <2>1. PICK o \in Users, s \in Symbols :
          \/ \E c \in Tokens, q \in Qty[s] : Deposit(o, c, s, q)
          \/ \E q \in Qty[s] \cup {0} : Withdraw(o, s, q)
          \/ Close(o, s)
    BY <1>3 DEF BalanceStep
  <2>2. ASSUME NEW c \in Tokens, NEW q \in Qty[s], Deposit(o, c, s, q)
        PROVE  SamePricing(feed, feed')
    <3>1. q \in Int BY CdpAssumption
    <3> QED BY <1>0, <2>2, <3>1, CirculatePricing DEF Deposit
  <2>3. ASSUME NEW asked \in Qty[s] \cup {0}, Withdraw(o, s, asked)
        PROVE  SamePricing(feed, feed')
    <3> DEFINE q == IF asked = 0 THEN acnt[s][o].balance ELSE asked
    <3>1. acnt[s][o] # None /\ CanCirculate(feed, s, -q) /\ feed' = Circulate(feed, s, -q)
      BY <2>3 DEF Withdraw
    <3>2. acnt[s][o] \in AccountRow BY <3>1, TypeParts DEF Accounts
    <3>3. q \in Int BY <3>2, CdpAssumption, TablesAssumption DEF AccountRow
    <3>4. -q \in Int BY <3>3
    <3> HIDE DEF q
    <3> QED BY <1>0, <3>1, <3>4, CirculatePricing
  <2>4. Close(o, s) => feed' = feed BY DEF Close
  <2> QED BY <1>1, <2>1, <2>2, <2>3, <2>4
<1>4. SettleStep => feed' = feed BY DEF SettleStep, Settle
<1>5. CASE CdpTick
  <2>1. \A s \in Symbols : feed'[s] = OlderFeed(feed[s]) BY <1>5 DEF CdpTick, AgeFeeds
  <2>2. \A s \in Symbols : feed[s] \in FeedRow \cup {None} BY <1>0 DEF FeedTable
  <2>3. \A s \in Symbols : IF feed[s] = None THEN feed'[s] = None
                           ELSE feed'[s].psym = feed[s].psym
    BY <2>1, <2>2 DEF OlderFeed, FeedRow
  <2> QED BY <2>3 DEF SamePricing
<1> QED BY <1>1, <1>2, <1>3, <1>4, <1>5, FeedPricing DEF CdpNext

\* What Conclude leaves claimed of a token contract is no more than the balances
\* it is given and the locked collateral it finds.
LEMMA ConcludeClaims ==
  ASSUME LiqTypeOK, LiqTypeOK', NEW t \in CdpTypes, NEW o \in Users, stat[Self][t] # None,
         stat' = stat, NEW row \in CdpRow, NEW bd \in BidRow, NEW a \in Accounts, NEW f,
         Conclude(t, o, row, bd, a, f), NEW c \in Tokens, NEW s \in Symbols, s # IQ,
         LockedAt(row, stat[Self][t], c, s) <= LockedAt(cdp[t][o], stat[Self][t], c, s)
  PROVE  Held(acnt', c, s) + Locked(cdp', stat', c, s)
           <= Held(a, c, s) + Locked(cdp, stat, c, s)
<1> DEFINE st == stat[Self][t]
           old == LockedAt(cdp[t][o], st, c, s)
           new == LockedAt(cdp'[t][o], st, c, s)
           sold == LockedAt(row, st, c, s)
<1>0. CdpTypeOK /\ CdpTypeOK' BY DEF LiqTypeOK
<1>1. cdp \in CdpTable /\ cdp' \in CdpTable BY <1>0, TypeParts, TypePartsNext
<1>2. Leaves(t, o, row, bd) BY ConcludeLeaves
<1>3. SameTypes(stat, stat') BY DEF SameTypes
<1>4. Locked(cdp', stat', c, s) = Locked(cdp, stat, c, s) - old + new
  BY <1>1, <1>2, <1>3, LockedWritten DEF Leaves
<1>5. Locked(cdp, stat, c, s) \in Int /\ old \in Nat /\ new \in Nat BY <1>1, LockedNat
<1>6. Held(a, c, s) \in Int BY HeldNat
<1>7. row # None /\ row.collateral \in 0 .. MaxAmount /\ row.csym \in Symbols
  BY CdpAssumption DEF CdpRow
<1>8. sold \in Nat BY <1>7, TablesAssumption DEF LockedAt
<1> DEFINE paid == row.stablecoin = 0 /\ row.collateral # 0
           d == PayContract(t, row.csym)
<1>9. /\ paid => CanCredit(a, bd.bidder, row.csym, row.collateral, d)
      /\ acnt' = IF paid THEN Credit(a, bd.bidder, row.csym, row.collateral, d) ELSE a
  BY DEF Conclude
<1>10. d \in Codes BY <1>0, PayContractIn
<1>11. c # Self /\ Self \notin Tokens BY TablesAssumption
<1>12. s = row.csym /\ d = c => row.collateral = sold
  BY <1>7, <1>11 DEF PayContract, LockedAt
<1>13. row.stablecoin # 0 => new = sold BY <1>2 DEF Leaves
<1>14. row.stablecoin = 0 => new = 0 BY <1>2 DEF Leaves, LockedAt
<1>15. bd.bidder \in Users BY DEF BidRow
<1> HIDE DEF d, old, new, sold
<1>16. CASE row.stablecoin # 0
  <2>1. acnt' = a /\ new <= old BY <1>9, <1>13, <1>16 DEF sold, old
  <2> QED BY <1>4, <1>5, <1>6, <2>1
<1>17. CASE row.stablecoin = 0 /\ ~paid
  <2>1. acnt' = a BY <1>9, <1>17
  <2> QED BY <1>4, <1>5, <1>6, <1>14, <1>17, <2>1
<1>18. CASE paid
  <2>1. Held(acnt', c, s)
          = Held(a, c, s) + (IF s = row.csym /\ d = c THEN row.collateral ELSE 0)
    BY <1>7, <1>9, <1>10, <1>15, <1>18, CreditHeld
  <2>2. (IF s = row.csym /\ d = c THEN row.collateral ELSE 0) <= sold BY <1>8, <1>12
  <2>3. sold <= old BY DEF sold, old
  <2>4. (IF s = row.csym /\ d = c THEN row.collateral ELSE 0) \in Int
    BY <1>8, <1>12
  <2>5. new = 0 BY <1>14, <1>18
  <2>6. \A h, l, x, y, z \in Int : x <= y /\ y <= z => h + x + (l - z + 0) <= h + l OBVIOUS
  <2>7. sold \in Int /\ old \in Int BY <1>5, <1>8
  <2> QED BY <1>4, <1>5, <1>6, <2>1, <2>2, <2>3, <2>4, <2>5, <2>6, <2>7
<1> QED BY <1>16, <1>17, <1>18

LEMMA DebitFalls ==
  ASSUME NEW a \in Accounts, NEW o \in Users, NEW s \in Symbols, NEW q \in Nat,
         CanDebit(a, o, s, q), NEW c, NEW x \in Symbols
  PROVE  Held(Debit(a, o, s, q), c, x) <= Held(a, c, x)
<1>1. Held(Debit(a, o, s, q), c, x)
        = Held(a, c, x) - (IF x = s /\ a[s][o].code = c THEN q ELSE 0)
  BY DebitHeld
<1>2. Held(a, c, x) \in Nat BY HeldNat
<1> QED BY <1>1, <1>2

\* What is sold is locked collateral if it is in the symbol the type locks.
LEMMA SoldLocked ==
  ASSUME NEW it \in [age: 0 .. MaxAge, collateral: 0 .. MaxAmount, csym: Symbols,
                     stablecoin: Int, ssym: Symbols, live: BOOLEAN],
         ~it.live, NEW n \in Amounts, NEW st, NEW c, NEW s
  PROVE  LockedAt(Sold(it, n), st, c, s)
           = IF it.csym = s /\ st.csym = s /\ st.contract = c THEN it.collateral ELSE 0
BY SoldRow DEF LockedAt

LEMMA LiquifyClaims ==
  ASSUME AuctionInv, TypesApart, PricedInMoney, AskedIsNotSold,
         NEW b \in Users, NEW o \in Users, NEW t \in CdpTypes, NEW r \in Symbols,
         NEW q \in 1 .. MaxAmount,
         FirstBid(b, o, t, r, q) \/ Outbid(b, o, t, r, q) \/ NewRound(b, o, t, r, q),
         NEW c \in Tokens, NEW s \in Symbols, s # IQ
  PROVE  Claims(c, s)' <= Claims(c, s) /\ vault' = vault
<1> DEFINE it == Seized(t, o)   st == stat[Self][t]
<1>0. LiqTypeOK /\ CdpTypeOK BY DEF AuctionInv, LiqTypeOK
<1>1. /\ ForSale(t, o) /\ st # None /\ cdp[t][o] # None /\ stat' = stat /\ vault' = vault
      /\ st.csym # IQ => cdp[t][o].ssym # st.csym /\ st.csym # PriceSym
  BY DEF FirstBid, Outbid, NewRound, ForSale, AskedIsNotSold, TypesApart, Apart
<1>2. /\ it \in [age: 0 .. MaxAge, collateral: 0 .. MaxAmount, csym: Symbols,
                 stablecoin: Int, ssym: Symbols, live: BOOLEAN]
      /\ ~it.live /\ it.collateral = cdp[t][o].collateral
      /\ it.csym = cdp[t][o].csym /\ it.ssym = cdp[t][o].ssym
  BY <1>0, <1>1, SeizedRow
<1>3. LiqTypeOK' /\ CdpTypeOK' /\ acnt \in Accounts /\ q \in Nat
  BY <1>0, LiquifyAuctions, TypeParts DEF LiqTypeOK
<1>4. SUFFICES Held(acnt', c, s) + Locked(cdp', stat', c, s)
                 <= Held(acnt, c, s) + Locked(cdp, stat, c, s)
  <2>1. Fees(stat', c, s) = Fees(stat, c, s) BY <1>1
  <2>2. /\ Held(acnt, c, s) \in Int /\ Held(acnt', c, s) \in Int
        /\ Locked(cdp, stat, c, s) \in Int /\ Locked(cdp', stat', c, s) \in Int
        /\ Fees(stat, c, s) \in Int
    BY <1>0, <1>3, ClaimsInt, HeldNat, LockedNat, TypePartsNext
  <2>3. \A x, y, z, v, w \in Int : x + y <= z + v => x + y + w <= z + v + w OBVIOUS
  <2>4. Held(acnt', c, s) + Locked(cdp', stat', c, s) + Fees(stat, c, s)
          <= Held(acnt, c, s) + Locked(cdp, stat, c, s) + Fees(stat, c, s)
    BY <1>4, <2>2, <2>3
  <2> QED BY <1>1, <2>1, <2>4, ClaimsParts
<1>5. ASSUME NEW n \in Amounts
      PROVE  LockedAt(Sold(it, n), st, c, s) = LockedAt(cdp[t][o], st, c, s)
  BY <1>1, <1>2, SoldLocked DEF LockedAt
<1>6. cdp \in CdpTable /\ cdp' \in CdpTable BY <1>0, <1>3, TypeParts, TypePartsNext
<1>7. Locked(cdp, stat, c, s) \in Nat /\ LockedAt(cdp[t][o], st, c, s) \in Nat
  BY <1>6, LockedNat
<1>8. Held(acnt, c, s) \in Nat /\ Held(acnt', c, s) \in Nat
  BY <1>3, HeldNat, TypePartsNext
<1> HIDE DEF st
<1>9. CASE FirstBid(b, o, t, r, q)
  <2> DEFINE n == it.stablecoin - q
  <2>1. Leaves(t, o, Sold(it, n), NewBid(b, q, r)) /\ n \in Amounts /\ Sold(it, n).stablecoin # 0
    BY <1>0, <1>9, FirstBidLeaves
  <2>2. CanDebit(acnt, b, r, q) /\ acnt' = Debit(acnt, b, r, q) BY <1>9 DEF FirstBid
  <2>3. Held(acnt', c, s) <= Held(acnt, c, s) BY <1>3, <2>2, DebitFalls
  <2> HIDE DEF n, it
  <2>4. SameTypes(stat, stat') BY <1>1 DEF SameTypes
  <2>5. Locked(cdp', stat', c, s) = Locked(cdp, stat, c, s)
          - LockedAt(cdp[t][o], st, c, s) + LockedAt(cdp'[t][o], st, c, s)
    BY <1>6, <2>1, <2>4, LockedWritten DEF Leaves, st
  <2>6. LockedAt(cdp'[t][o], st, c, s) = LockedAt(cdp[t][o], st, c, s)
    BY <1>5, <2>1 DEF Leaves
  <2> QED BY <1>7, <1>8, <2>3, <2>5, <2>6
<1>10. CASE Outbid(b, o, t, r, q)
  <2> DEFINE bt == bid[t][o]   n == it.stablecoin - Raised(bt, q)
             d == IF r = IQ THEN IQContract ELSE Self
             p == Debit(acnt, b, r, q)   a == Refunded(p, bt, d)
  <2>1. /\ Conclude(t, o, Sold(it, n), RaisedBid(bt, b, q), a, feed)
        /\ n \in Amounts /\ a \in Accounts /\ p \in Accounts
    BY <1>0, <1>10, OutbidLeaves
  <2>2. /\ bt # None /\ bt.sym = r /\ CanDebit(acnt, b, r, q)
        /\ CanCredit(p, bt.bidder, bt.sym, bt.amt, d)
    BY <1>10 DEF Outbid
  <2>3. bt \in BidRow /\ bt.amt \in 1 .. MaxAmount BY <1>0, <2>2, BidIn
  <2>4. /\ bt.bidder \in Users /\ bt.amt \in 0 .. MaxAmount /\ d \in Codes
    BY <2>3, TablesAssumption DEF BidRow, Codes
  <2>5. RaisedBid(bt, b, q) \in BidRow BY <2>3, RaisedBidRow
  <2>6. Held(p, c, s) <= Held(acnt, c, s) BY <1>3, <2>2, DebitFalls
  <2>7. ~(s = r /\ d = c) BY TablesAssumption
  <2> HIDE DEF bt, n, d, p, it
  <2>8. Held(a, c, s) = Held(p, c, s) + (IF s = bt.sym /\ d = c THEN bt.amt ELSE 0)
    BY <2>1, <2>2, <2>4, CreditHeld DEF Refunded
  <2>9. Held(p, c, s) \in Nat BY <2>1, HeldNat
  <2>10. Held(a, c, s) <= Held(acnt, c, s) BY <1>8, <2>2, <2>6, <2>7, <2>8, <2>9
  <2>11. Sold(it, n) \in CdpRow BY <1>2, <2>1, SoldRow
  <2>12. LockedAt(Sold(it, n), st, c, s) <= LockedAt(cdp[t][o], st, c, s)
    BY <1>5, <1>7, <2>1
  <2> HIDE DEF a
  <2>13. Held(acnt', c, s) + Locked(cdp', stat', c, s) <= Held(a, c, s) + Locked(cdp, stat, c, s)
    BY <1>0, <1>1, <1>3, <2>1, <2>5, <2>11, <2>12, ConcludeClaims DEF st
  <2>14. Locked(cdp', stat', c, s) \in Nat /\ Held(a, c, s) \in Nat
    BY <1>6, <2>1, LockedNat, HeldNat
  <2> QED BY <1>7, <1>8, <2>10, <2>13, <2>14
<1>11. CASE NewRound(b, o, t, r, q)
  <2> DEFINE lot == NextLot(t, o)   n == lot.stablecoin - q   w == WonAccounts(t, o)
             a == Debit(w, b, r, q)   bd == NewBid(b, q, r)
             f == Circulate(feed, r, -q)
  <2>1. /\ Conclude(t, o, Sold(lot, n), bd, a, f)
        /\ n \in Amounts
        /\ lot \in [age: 0 .. MaxAge, collateral: 0 .. MaxAmount, csym: Symbols,
                    stablecoin: Int, ssym: Symbols, live: BOOLEAN]
        /\ ~lot.live /\ lot.csym \in {cdp[t][o].ssym, IQ, feed[IQ].psym}
        /\ w \in Accounts /\ CanDebit(w, b, r, q) /\ a \in Accounts
    BY <1>0, <1>11, NewRoundLeaves
  <2>2. bd \in BidRow BY NewBidRow
  <2>3. feed[IQ] # None /\ IQ \in Symbols BY <1>11, TablesAssumption DEF NewRound
  <2>4. feed[IQ].psym = PriceSym BY <2>3 DEF PricedInMoney
  <2>5. st.csym # IQ => lot.csym # st.csym BY <1>1, <2>1, <2>4
  <2>6. Held(w, c, s) = Held(acnt, c, s)
    <3> DEFINE l == bid[t][o].bidder   e == PayContract(t, it.csym)
    <3>1. CASE it.collateral = 0 BY <3>1 DEF WonAccounts
    <3>2. CASE it.collateral # 0
      <4>1. w = Credit(acnt, l, it.csym, 0, e) BY <3>2 DEF WonAccounts
      <4>2. CanCredit(acnt, l, it.csym, 0, e) /\ bid[t][o] # None
        BY <1>11, <3>2 DEF NewRound
      <4>3. bid[t][o] \in BidRow BY <1>0, <4>2, BidIn
      <4>4. l \in Users BY <4>3 DEF BidRow
      <4>5. it.csym \in Symbols BY <1>2
      <4>6. e \in Codes BY <1>0, <1>1, PayContractIn DEF st
      <4>7. 0 \in 0 .. MaxAmount BY TablesAssumption
      <4> HIDE DEF l, e, w, it
      <4>8. Held(w, c, s) = Held(acnt, c, s) + (IF s = it.csym /\ e = c THEN 0 ELSE 0)
        BY <1>3, <4>1, <4>2, <4>4, <4>5, <4>6, <4>7, CreditHeld
      <4> QED BY <1>8, <4>8
    <3> QED BY <3>1, <3>2
  <2> HIDE DEF lot, n, w, bd, f
  <2>7. Held(a, c, s) <= Held(acnt, c, s) BY <1>3, <2>1, <2>6, DebitFalls
  <2>8. Sold(lot, n) \in CdpRow BY <2>1, SoldRow
  <2>9. LockedAt(Sold(lot, n), st, c, s) = 0
    BY <2>1, <2>5, SoldLocked
  <2>10. LockedAt(Sold(lot, n), st, c, s) <= LockedAt(cdp[t][o], st, c, s)
    BY <1>7, <2>9
  <2> HIDE DEF a
  <2>11. Held(acnt', c, s) + Locked(cdp', stat', c, s) <= Held(a, c, s) + Locked(cdp, stat, c, s)
    BY <1>0, <1>1, <1>3, <2>1, <2>2, <2>8, <2>10, ConcludeClaims DEF st
  <2>12. Locked(cdp', stat', c, s) \in Nat /\ Held(a, c, s) \in Nat
    BY <1>6, <2>1, LockedNat, HeldNat
  <2> QED BY <1>7, <1>8, <2>7, <2>11, <2>12
<1> QED BY <1>9, <1>10, <1>11

LEMMA CdpClaims ==
  ASSUME CdpTypeOK, CdpTypeOK', LivePositions, CdpNext, NEW c \in Tokens, NEW s \in Symbols,
         s # IQ, Claims(c, s) <= vault[c][s]
  PROVE  Claims(c, s)' <= vault'[c][s]
<1>1. ASSUME NEW x \in Nat, ClaimsFall(c, s, x) PROVE Claims(c, s)' <= vault'[c][s]
  <2>1. Claims(c, s) \in Int /\ vault[c][s] \in Int BY ClaimsInt, ClaimsParts
  <2>2. vault'[c][s] \in Int BY TypePartsNext, TablesAssumption DEF Vaults
  <2>3. Claims(c, s)' \in Int
    <3>1. Held(acnt', c, s) \in Int BY HeldNat, TypePartsNext
    <3>2. Locked(cdp', stat', c, s) \in Int BY LockedNat, TypePartsNext
    <3>3. Fees(stat', c, s) \in Int BY FeesNat, TypePartsNext
    <3> QED BY <3>1, <3>2, <3>3, ClaimsParts
  <2>4. Claims(c, s)' - vault'[c][s] = Claims(c, s) - vault[c][s] - x
    BY <1>1 DEF ClaimsFall
  <2>5. \A a, b, d, e, y \in Int : a - b = d - e - y /\ d <= e /\ y >= 0 => a <= b
    OBVIOUS
  <2> DEFINE k == Claims(c, s)
  <2> HIDE DEF k
  <2>6. k \in Int /\ k' \in Int /\ k' - vault'[c][s] = k - vault[c][s] - x /\ k <= vault[c][s]
    BY <2>1, <2>3, <2>4 DEF k
  <2>7. k' <= vault'[c][s] BY <2>1, <2>2, <2>5, <2>6
  <2> QED BY <2>7 DEF k
<1>2. ClaimsFall(c, s, 0) => Claims(c, s)' <= vault'[c][s] BY <1>1
<1>3. ASSUME NEW o, NEW r, NEW q \in 0 .. MaxAmount, ClaimsFall(c, s, OffRow(o, r, q, c, s))
      PROVE  Claims(c, s)' <= vault'[c][s]
  <2>1. OffRow(o, r, q, c, s) \in Nat BY TablesAssumption DEF OffRow
  <2> QED BY <1>1, <1>3, <2>1
<1>4. CASE OwnerStep
  <2>1. PICK o \in Users, t \in CdpTypes :
          \/ Open(o, t)
          \/ Shut(o, t)
          \/ \E q \in ClatrlQty(t) : Lock(o, t, q) \/ Bail(o, t, q)
          \/ \E q \in StablQty(t) : Draw(o, t, q) \/ Wipe(o, t, q)
    BY <1>4 DEF OwnerStep
  <2>2. ClatrlQty(t) \subseteq 1 .. MaxAmount /\ StablQty(t) \subseteq 1 .. MaxAmount
    BY StatIn, CdpAssumption DEF ClatrlQty, StablQty, StatRow
  <2>3. Open(o, t) => ClaimsFall(c, s, 0) BY OpenClaims
  <2>4. CASE Shut(o, t)
    <3>1. cdp[t][o] # None /\ cdp[t][o] \in CdpRow /\ cdp[t][o].stablecoin >= 0
      BY <2>4, CdpIn DEF Shut, LiveCdp, LivePositions, MatchesType
    <3>2. cdp[t][o].stablecoin \in 0 .. MaxAmount
      BY <3>1, TablesAssumption DEF CdpRow, Amounts
    <3> QED BY <1>3, <2>4, <3>2, ShutClaims
  <2>5. ASSUME NEW q \in 1 .. MaxAmount, Lock(o, t, q) PROVE ClaimsFall(c, s, 0)
    BY <2>5, LockClaims
  <2>6. ASSUME NEW q \in 1 .. MaxAmount, Bail(o, t, q) PROVE ClaimsFall(c, s, 0)
    BY <2>6, BailClaims
  <2>7. ASSUME NEW q \in 1 .. MaxAmount, Draw(o, t, q) PROVE ClaimsFall(c, s, 0)
    BY <2>7, DrawClaims
  <2>8. ASSUME NEW q \in 1 .. MaxAmount, Wipe(o, t, q) PROVE Claims(c, s)' <= vault'[c][s]
    <3>1. q \in 0 .. MaxAmount BY TablesAssumption
    <3> QED BY <1>3, <2>8, <3>1, WipeClaims
  <2> QED BY <1>2, <2>1, <2>2, <2>3, <2>4, <2>5, <2>6, <2>7, <2>8
<1>5. CASE BalanceStep
  <2>1. PICK o \in Users, r \in Symbols :
          \/ \E d \in Tokens, q \in Qty[r] : Deposit(o, d, r, q)
          \/ \E q \in Qty[r] \cup {0} : Withdraw(o, r, q)
          \/ Close(o, r)
    BY <1>5 DEF BalanceStep
  <2>2. Qty[r] \subseteq 1 .. MaxAmount /\ Qty[r] \cup {0} \subseteq 0 .. MaxAmount
    BY CdpAssumption, TablesAssumption
  <2> QED BY <1>2, <2>1, <2>2, DepositClaims, WithdrawClaims, CloseClaims
<1>6. CASE IdleStep BY <1>2, <1>6, IdleClaims
<1> QED BY <1>4, <1>5, <1>6 DEF CdpNext, IdleStep

LEMMA AskedKept ==
  ASSUME TypesApart, AskedIsNotSold, LivePositions', SameTypes(stat, stat'), KeepsAuctions
  PROVE  TypesApart' /\ AskedIsNotSold'
<1>1. TypesApart'
  <2> SUFFICES ASSUME NEW t \in CdpTypes, stat'[Self][t] # None PROVE Apart(stat'[Self][t])
    BY DEF TypesApart
  <2>1. /\ stat[Self][t] # None
        /\ stat'[Self][t].csym = stat[Self][t].csym /\ stat'[Self][t].ssym = stat[Self][t].ssym
    BY DEF SameTypes
  <2> QED BY <2>1 DEF TypesApart, Apart
<1>2. AskedIsNotSold'
  <2> SUFFICES ASSUME NEW t \in CdpTypes, NEW o \in Users, cdp'[t][o] # None
               PROVE  /\ stat'[Self][t] # None
                      /\ stat'[Self][t].csym # IQ => cdp'[t][o].ssym # stat'[Self][t].csym
    BY DEF AskedIsNotSold
  <2>1. CASE cdp'[t][o].live
    <3>1. MatchesType(cdp'[t][o], stat'[Self][t]) BY <2>1 DEF LivePositions
    <3> QED BY <1>1, <3>1 DEF MatchesType, TypesApart, Apart
  <2>2. CASE ~cdp'[t][o].live
    <3>1. cdp[t][o] # None /\ ~cdp[t][o].live /\ cdp'[t][o].ssym = cdp[t][o].ssym
      BY <2>2 DEF KeepsAuctions
    <3> QED BY <3>1 DEF AskedIsNotSold, SameTypes
  <2> QED BY <2>1, <2>2
<1> QED BY <1>1, <1>2

\* What liquify leaves asks for no collateral of the type either, and it
\* prices nothing.
LEMMA LiquifyAsks ==
  ASSUME AuctionInv, TypesApart, PricedInMoney, AskedIsNotSold,
         NEW b \in Users, NEW o \in Users, NEW t \in CdpTypes, NEW r \in Symbols,
         NEW q \in 1 .. MaxAmount,
         FirstBid(b, o, t, r, q) \/ Outbid(b, o, t, r, q) \/ NewRound(b, o, t, r, q)
  PROVE  TypesApart' /\ PricedInMoney' /\ AskedIsNotSold'
<1> DEFINE it == Seized(t, o)
<1>0. LiqTypeOK /\ CdpTypeOK /\ feed \in FeedTable
  BY TypeParts DEF AuctionInv, LiqTypeOK
<1>1. /\ ForSale(t, o) /\ cdp[t][o] # None /\ stat' = stat /\ stat[Self][t] # None
      /\ stat[Self][t].csym # IQ =>
           cdp[t][o].ssym # stat[Self][t].csym /\ stat[Self][t].csym # PriceSym
  BY DEF FirstBid, Outbid, NewRound, ForSale, AskedIsNotSold, TypesApart, Apart
<1>2. TypesApart' BY <1>1 DEF TypesApart
<1>3. /\ it \in [age: 0 .. MaxAge, collateral: 0 .. MaxAmount, csym: Symbols,
                 stablecoin: Int, ssym: Symbols, live: BOOLEAN]
      /\ ~it.live /\ it.ssym = cdp[t][o].ssym
  BY <1>0, <1>1, SeizedRow
<1>4. ASSUME NEW f \in FeedTable, SamePricing(feed, f), NEW row, NEW bd, NEW a,
             row \in CdpRow,
             Conclude(t, o, row, bd, a, f),
             stat[Self][t].csym # IQ => row.ssym # stat[Self][t].csym
      PROVE  PricedInMoney' /\ AskedIsNotSold'
  <2>1. Leaves(t, o, row, bd) BY <1>0, <1>4, ConcludeLeaves
  <2>2. AskedIsNotSold'
    <3> SUFFICES ASSUME NEW u \in CdpTypes, NEW x \in Users, cdp'[u][x] # None
                 PROVE  /\ stat[Self][u] # None
                        /\ stat[Self][u].csym # IQ => cdp'[u][x].ssym # stat[Self][u].csym
      BY <1>1 DEF AskedIsNotSold
    <3>1. CASE u = t /\ x = o BY <1>1, <1>4, <2>1, <3>1 DEF Leaves
    <3>2. CASE ~(u = t /\ x = o) BY <2>1, <3>2 DEF Leaves, AskedIsNotSold
    <3> QED BY <3>1, <3>2
  <2>3. SamePricing(f, feed')
    <3> DEFINE paid == row.stablecoin = 0 /\ row.collateral # 0
    <3>1. /\ paid => CanCirculate(f, row.csym, row.collateral)
          /\ feed' = IF paid THEN Circulate(f, row.csym, row.collateral) ELSE f
      BY <1>4 DEF Conclude
    <3>2. row.csym \in Symbols /\ row.collateral \in Int
      BY <1>4, TablesAssumption DEF CdpRow
    <3>3. CASE paid BY <1>4, <3>1, <3>2, <3>3, CirculatePricing
    <3>4. CASE ~paid BY <3>1, <3>4 DEF SamePricing
    <3> QED BY <3>3, <3>4
  <2>4. PricedInMoney' BY <1>4, <2>3 DEF PricedInMoney, SamePricing
  <2> QED BY <2>2, <2>4
<1>5. CASE FirstBid(b, o, t, r, q)
  <2> DEFINE n == it.stablecoin - q
  <2>1. Leaves(t, o, Sold(it, n), NewBid(b, q, r)) /\ n \in Amounts
    BY <1>0, <1>5, FirstBidLeaves
  <2>2. feed' = feed BY <1>5 DEF FirstBid
  <2> HIDE DEF n, it
  <2>3. AskedIsNotSold'
    <3> SUFFICES ASSUME NEW u \in CdpTypes, NEW x \in Users, cdp'[u][x] # None
                 PROVE  /\ stat[Self][u] # None
                        /\ stat[Self][u].csym # IQ => cdp'[u][x].ssym # stat[Self][u].csym
      BY <1>1 DEF AskedIsNotSold
    <3>1. Sold(it, n).ssym = cdp[t][o].ssym BY <1>3, <2>1, SoldRow
    <3>2. CASE u = t /\ x = o BY <1>1, <2>1, <3>1, <3>2 DEF Leaves
    <3>3. CASE ~(u = t /\ x = o) BY <2>1, <3>3 DEF Leaves, AskedIsNotSold
    <3> QED BY <3>2, <3>3
  <2> QED BY <1>2, <2>2, <2>3 DEF PricedInMoney
<1>6. CASE Outbid(b, o, t, r, q)
  <2> DEFINE bt == bid[t][o]   n == it.stablecoin - Raised(bt, q)
             c == IF r = IQ THEN IQContract ELSE Self
             a == Refunded(Debit(acnt, b, r, q), bt, c)
  <2>1. Conclude(t, o, Sold(it, n), RaisedBid(bt, b, q), a, feed) /\ n \in Amounts
    BY <1>0, <1>6, OutbidLeaves
  <2> HIDE DEF it, n, bt, a
  <2>2. Sold(it, n) \in CdpRow /\ Sold(it, n).ssym = cdp[t][o].ssym BY <1>3, <2>1, SoldRow
  <2>3. SamePricing(feed, feed) BY DEF SamePricing
  <2> QED BY <1>0, <1>1, <1>2, <1>4, <2>1, <2>2, <2>3
<1>7. CASE NewRound(b, o, t, r, q)
  <2> DEFINE lot == NextLot(t, o)   n == lot.stablecoin - q
             a == Debit(WonAccounts(t, o), b, r, q)   f == Circulate(feed, r, -q)
  <2>1. /\ Conclude(t, o, Sold(lot, n), NewBid(b, q, r), a, f)
        /\ n \in Amounts
        /\ lot \in [age: 0 .. MaxAge, collateral: 0 .. MaxAmount, csym: Symbols,
                    stablecoin: Int, ssym: Symbols, live: BOOLEAN]
        /\ ~lot.live /\ lot.ssym \in {cdp[t][o].ssym, IQ, feed[IQ].psym}
    BY <1>0, <1>7, NewRoundLeaves
  <2>2. feed[IQ] # None /\ CanCirculate(feed, r, -q) /\ IQ \in Symbols /\ -q \in Int
    BY <1>7, TablesAssumption DEF NewRound
  <2>3. feed[IQ].psym = PriceSym BY <2>2 DEF PricedInMoney
  <2>4. f \in FeedTable /\ SamePricing(feed, f)
    BY <1>0, <2>2, CirculateType, CirculatePricing
  <2> HIDE DEF lot, n, a, f
  <2>5. Sold(lot, n) \in CdpRow /\ Sold(lot, n).ssym = lot.ssym BY <2>1, SoldRow
  <2>6. stat[Self][t].csym # IQ => Sold(lot, n).ssym # stat[Self][t].csym
    BY <1>1, <2>1, <2>3, <2>5
  <2> QED BY <1>2, <1>4, <2>1, <2>4, <2>5, <2>6
<1> QED BY <1>5, <1>6, <1>7

LEMMA StepClaims ==
  ASSUME ClaimsInv, [LiqNext]_liqVars
  PROVE  ClaimsInv'
<1>0. /\ AuctionInv /\ LiqTypeOK /\ CdpTypeOK /\ LivePositions
      /\ TypesApart /\ PricedInMoney /\ AskedIsNotSold /\ VaultCoversClaims
  BY DEF ClaimsInv, AuctionInv, LiqTypeOK
<1>1. AuctionInv' BY <1>0, StepAuctions
<1>2. ASSUME CdpNext, (CdpNext /\ UNCHANGED bid) \/ LiqTick
      PROVE  ClaimsInv'
  <2>1. KeepsAuctions /\ CdpTypeOK' /\ LivePositions' BY <1>0, <1>2, CdpKeeps
  <2>2. SameTypes(stat, stat') /\ SamePricing(feed, feed')
    BY <1>0, <1>2, StepSameTypes, StepPricing
  <2>3. TypesApart' /\ AskedIsNotSold' BY <1>0, <2>1, <2>2, AskedKept
  <2>4. PricedInMoney' BY <1>0, <2>2 DEF PricedInMoney, SamePricing
  <2>5. VaultCoversClaims'
    <3> SUFFICES ASSUME NEW c \in Tokens, NEW s \in Symbols \ {IQ}
                 PROVE  Claims(c, s)' <= vault'[c][s]
      BY DEF VaultCoversClaims
    <3>1. Claims(c, s) <= vault[c][s] BY <1>0 DEF VaultCoversClaims
    <3> QED BY <1>0, <1>2, <2>1, <3>1, CdpClaims
  <2> QED BY <1>1, <2>3, <2>4, <2>5 DEF ClaimsInv
<1>3. CASE LiquifyStep
  <2>1. PICK b \in Users, o \in Users, t \in CdpTypes, r \in Symbols : \E q \in BidQty[r] :
          FirstBid(b, o, t, r, q) \/ Outbid(b, o, t, r, q) \/ NewRound(b, o, t, r, q)
    BY <1>3 DEF LiquifyStep
  <2>2. PICK q \in BidQty[r] :
          FirstBid(b, o, t, r, q) \/ Outbid(b, o, t, r, q) \/ NewRound(b, o, t, r, q)
    BY <2>1
  <2>3. q \in 1 .. MaxAmount BY LiquidationAssumption
  <2>4. TypesApart' /\ PricedInMoney' /\ AskedIsNotSold' BY <1>0, <2>2, <2>3, LiquifyAsks
  <2>5. VaultCoversClaims'
    <3> SUFFICES ASSUME NEW c \in Tokens, NEW s \in Symbols \ {IQ}
                 PROVE  Claims(c, s)' <= vault'[c][s]
      BY DEF VaultCoversClaims
    <3>1. Claims(c, s) <= vault[c][s] BY <1>0 DEF VaultCoversClaims
    <3>2. Claims(c, s)' <= Claims(c, s) /\ vault' = vault
      BY <1>0, <2>2, <2>3, LiquifyClaims
    <3>3. CdpTypeOK' BY <1>1 DEF AuctionInv, LiqTypeOK
    <3>4. Claims(c, s) \in Int /\ vault[c][s] \in Int BY <1>0, ClaimsInt, ClaimsParts
    <3>5. Claims(c, s)' \in Int
      <4>1. Held(acnt', c, s) \in Int BY <3>3, HeldNat, TypePartsNext
      <4>2. Locked(cdp', stat', c, s) \in Int BY <3>3, LockedNat, TypePartsNext
      <4>3. Fees(stat', c, s) \in Int BY <3>3, FeesNat, TypePartsNext
      <4> QED BY <4>1, <4>2, <4>3, ClaimsParts
    <3>6. \A x, y, z \in Int : x <= y /\ y <= z => x <= z OBVIOUS
    <3> QED BY <3>1, <3>2, <3>4, <3>5, <3>6
  <2> QED BY <1>1, <2>4, <2>5 DEF ClaimsInv
<1>4. CASE UNCHANGED liqVars
  <2>1. stat' = stat /\ feed' = feed /\ acnt' = acnt /\ cdp' = cdp /\ vault' = vault
    BY <1>4 DEF liqVars
  <2>2. TypesApart' /\ PricedInMoney' /\ AskedIsNotSold'
    BY <1>0, <2>1 DEF TypesApart, PricedInMoney, AskedIsNotSold
  <2>3. VaultCoversClaims'
    BY <1>0, <2>1, ClaimsParts DEF VaultCoversClaims
  <2> QED BY <1>1, <2>2, <2>3 DEF ClaimsInv
<1> QED BY <1>2, <1>3, <1>4 DEF LiqNext, CdpNext, LiqTick

LEMMA InitClaims == LiqInit /\ MoneyIsNotCollateral => ClaimsInv
<1> SUFFICES ASSUME LiqInit, MoneyIsNotCollateral PROVE ClaimsInv
  OBVIOUS
<1>1. AuctionInv /\ CdpInit BY InitAuctions DEF LiqInit
<1>2. CdpInv BY <1>1, InitInv
<1>3. TypesApart
  <2>1. Self \in Scopes BY DEF Scopes
  <2> QED BY <1>1, <2>1 DEF CdpInit, StatInit, TypesApart, MoneyIsNotCollateral
<1>4. PricedInMoney BY <1>1 DEF CdpInit, FeedInit, PricedInMoney
<1>5. AskedIsNotSold BY <1>1 DEF CdpInit, AskedIsNotSold
<1>6. VaultCoversClaims
  <2> SUFFICES ASSUME NEW c \in Tokens, NEW s \in Symbols \ {IQ}
               PROVE  Claims(c, s) <= vault[c][s]
    BY DEF VaultCoversClaims
  <2>1. vault[c][s] = Claims(c, s) BY <1>2 DEF CdpInv, VaultMatchesClaims
  <2>2. vault[c][s] \in Int
    BY <1>2, TypeParts, TablesAssumption DEF CdpInv, Vaults
  <2> QED BY <2>1, <2>2
<1> QED BY <1>1, <1>3, <1>4, <1>5, <1>6 DEF ClaimsInv

\* Auctions create no claim on a token contract: what users may claim of any
\* token but IQ, of which liquify sells lots that nobody deposited, never
\* exceeds what the contract holds, if no type is secured by the money it
\* issues or by the money of the prices.
THEOREM AuctionsKeepVault ==
  MoneyIsNotCollateral /\ LiqSpec => []VaultCoversClaims
<1>1. ClaimsInv /\ [LiqNext]_liqVars => ClaimsInv' BY StepClaims
<1>2. ClaimsInv => VaultCoversClaims BY DEF ClaimsInv
<1> QED BY <1>1, <1>2, InitClaims, PTL DEF LiqSpec
-----------------------------------------------------------------------------
(***************************************************************************)
(* The stablecoin total of a type.  Auctions leave it as it is, so it may  *)
(* stay above what positions owe; it never falls below what live ones do.  *)
(***************************************************************************)
LiveOwed(it) == IF it # None /\ it.live THEN it.stablecoin ELSE 0
LiveSum(p, t) == SumFunctionOnSet([o \in Users |-> LiveOwed(p[t][o])], Users)
Covers(st, p, t) == st # None => st.total_stablecoin >= LiveSum(p, t)

LEMMA LiveParts ==
  /\ TotalCoversDebts <=>
       /\ \A t \in CdpTypes, o \in Users :
            stat[Self][t] # None => LiveOwed(cdp[t][o]) >= 0
       /\ \A t \in CdpTypes : Covers(stat[Self][t], cdp, t)
  /\ TotalCoversDebts' <=>
       /\ \A t \in CdpTypes, o \in Users :
            stat'[Self][t] # None => LiveOwed(cdp'[t][o]) >= 0
       /\ \A t \in CdpTypes : Covers(stat'[Self][t], cdp', t)
BY DEF TotalCoversDebts, LiveDebtOf, LiveOwed, LiveSum, Covers

LEMMA LiveInt ==
  ASSUME NEW p \in CdpTable, NEW t \in CdpTypes
  PROVE  /\ \A o \in Users : LiveOwed(p[t][o]) \in Int
         /\ LiveSum(p, t) \in Int
<1>1. \A o \in Users : LiveOwed(p[t][o]) \in Int
  BY TablesAssumption DEF LiveOwed, CdpTable, CdpRow, Amounts
<1> DEFINE f == [o \in Users |-> LiveOwed(p[t][o])]
<1>2. \A o \in Users : f[o] \in Int BY <1>1
<1> HIDE DEF f
<1>3. SumFunctionOnSet(f, Users) \in Int BY <1>2, SumInt, TablesAssumption
<1> QED BY <1>1, <1>3 DEF LiveSum, f

\* The sums once a step has written one position.
LEMMA LiveWritten ==
  ASSUME NEW p \in CdpTable, NEW q \in CdpTable, NEW t \in CdpTypes, NEW o \in Users,
         \A u \in CdpTypes, x \in Users : u # t \/ x # o => q[u][x] = p[u][x],
         NEW v \in CdpTypes
  PROVE  /\ v # t => LiveSum(q, v) = LiveSum(p, v)
         /\ LiveSum(q, t) = LiveSum(p, t) - LiveOwed(p[t][o]) + LiveOwed(q[t][o])
<1> DEFINE f(r, u) == [x \in Users |-> LiveOwed(r[u][x])]
<1>1. ASSUME v # t PROVE LiveSum(q, v) = LiveSum(p, v)
  <2>1. \A x \in Users : f(q, v)[x] = f(p, v)[x] BY <1>1
  <2> QED BY <2>1, SumEqual, TablesAssumption DEF LiveSum
<1>2. LiveSum(q, t) = LiveSum(p, t) - LiveOwed(p[t][o]) + LiveOwed(q[t][o])
  <2> DEFINE g == f(p, t)   h == f(q, t)
  <2>1. \A x \in Users : LiveOwed(p[t][x]) \in Int /\ LiveOwed(q[t][x]) \in Int BY LiveInt
  <2>2. \A x \in Users : g[x] \in Int /\ h[x] \in Int BY <2>1
  <2>3. \A x \in Users \ {o} : h[x] = g[x] OBVIOUS
  <2>4. g[o] = LiveOwed(p[t][o]) /\ h[o] = LiveOwed(q[t][o]) OBVIOUS
  <2>5. LiveSum(p, t) = SumFunctionOnSet(g, Users) /\ LiveSum(q, t) = SumFunctionOnSet(h, Users)
    BY DEF LiveSum
  <2> HIDE DEF g, h
  <2>6. SumFunctionOnSet(h, Users) = SumFunctionOnSet(g, Users) - g[o] + h[o]
    BY <2>2, <2>3, SumUpdate, TablesAssumption
  <2> QED BY <2>4, <2>5, <2>6
<1> QED BY <1>1, <1>2

\* A step that writes one position and the total of its type keeps every total
\* above its live debts when the total moves by no less than the live debt.
LEMMA OneOwed ==
  ASSUME CdpTypeOK, CdpTypeOK', NEW t \in CdpTypes, NEW o \in Users,
         stat[Self][t] # None,
         \A u \in CdpTypes : Covers(stat[Self][u], cdp, u),
         \A u \in CdpTypes : u # t => stat'[Self][u] = stat[Self][u],
         \A u \in CdpTypes, x \in Users : u # t \/ x # o => cdp'[u][x] = cdp[u][x],
         NEW d \in Int, stat'[Self][t] # None,
         stat'[Self][t].total_stablecoin = stat[Self][t].total_stablecoin + d,
         LiveOwed(cdp'[t][o]) <= LiveOwed(cdp[t][o]) + d
  PROVE  \A u \in CdpTypes : Covers(stat'[Self][u], cdp', u)
<1>1. cdp \in CdpTable /\ cdp' \in CdpTable BY TypeParts, TypePartsNext
<1>2. TAKE u \in CdpTypes
<1>3. CASE u # t
  <2>1. LiveSum(cdp', u) = LiveSum(cdp, u) BY <1>1, <1>3, LiveWritten
  <2> QED BY <1>3, <2>1 DEF Covers
<1>4. CASE u = t
  <2>1. LiveSum(cdp', t) = LiveSum(cdp, t) - LiveOwed(cdp[t][o]) + LiveOwed(cdp'[t][o])
    BY <1>1, LiveWritten
  <2>2. stat[Self][t].total_stablecoin >= LiveSum(cdp, t) BY DEF Covers
  <2>3. stat[Self][t].total_stablecoin \in Int BY StatIn DEF StatRow, Amounts
  <2>4. LiveSum(cdp, t) \in Int /\ LiveOwed(cdp[t][o]) \in Int /\ LiveOwed(cdp'[t][o]) \in Int
    BY <1>1, LiveInt
  <2>5. \A a, b, c, e, k \in Int : a >= b /\ c <= e + k => a + k >= b - e + c OBVIOUS
  <2>6. stat[Self][t].total_stablecoin + d
          >= LiveSum(cdp, t) - LiveOwed(cdp[t][o]) + LiveOwed(cdp'[t][o])
    BY <2>2, <2>3, <2>4, <2>5
  <2> QED BY <1>4, <2>1, <2>6 DEF Covers
<1> QED BY <1>3, <1>4

\* One that keeps every total and every live debt keeps it too.
LEMMA SameOwed ==
  ASSUME \A u \in CdpTypes : Covers(stat[Self][u], cdp, u),
         \A u \in CdpTypes : stat'[Self][u] # None =>
           /\ stat[Self][u] # None
           /\ stat'[Self][u].total_stablecoin = stat[Self][u].total_stablecoin,
         \A u \in CdpTypes, x \in Users : LiveOwed(cdp'[u][x]) = LiveOwed(cdp[u][x])
  PROVE  \A u \in CdpTypes : Covers(stat'[Self][u], cdp', u)
<1> SUFFICES ASSUME NEW u \in CdpTypes PROVE Covers(stat'[Self][u], cdp', u)
  OBVIOUS
<1> DEFINE f(p) == [x \in Users |-> LiveOwed(p[u][x])]
<1>1. \A x \in Users : f(cdp')[x] = f(cdp)[x] OBVIOUS
<1>2. LiveSum(cdp', u) = LiveSum(cdp, u)
  BY <1>1, SumEqual, TablesAssumption DEF LiveSum
<1> QED BY <1>2 DEF Covers

\* What the actions of an owner do to the total of their type.
LEMMA StatWrittenAt ==
  ASSUME CdpTypeOK, NEW t \in CdpTypes, NEW row, stat' = [stat EXCEPT ![Self][t] = row]
  PROVE  stat'[Self][t] = row
BY TypeParts, WrittenAt DEF StatTable, Scopes

LEMMA OwnerTotals ==
  ASSUME CdpTypeOK, NEW o \in Users, NEW t \in CdpTypes, NEW q \in 1 .. MaxAmount
  PROVE  /\ Lock(o, t, q) \/ Bail(o, t, q) =>
              stat'[Self][t].total_stablecoin = stat[Self][t].total_stablecoin
         /\ Draw(o, t, q) =>
              stat'[Self][t].total_stablecoin = stat[Self][t].total_stablecoin + q
         /\ Wipe(o, t, q) =>
              stat'[Self][t].total_stablecoin = stat[Self][t].total_stablecoin - q
<1> DEFINE st == stat[Self][t]
<1>1. ASSUME stat[Self][t] # None, NEW k, stat' = MoreCollateral(t, k)
      PROVE  stat'[Self][t].total_stablecoin = stat[Self][t].total_stablecoin
  <2> DEFINE row == [stat[Self][t] EXCEPT !.total_collateral = @ + k]
  <2>1. stat' = [stat EXCEPT ![Self][t] = row] BY <1>1 DEF MoreCollateral
  <2>2. row.total_stablecoin = stat[Self][t].total_stablecoin BY <1>1, StatIn DEF StatRow
  <2> HIDE DEF row
  <2> QED BY <2>1, <2>2, StatWrittenAt
<1>2. ASSUME Draw(o, t, q)
      PROVE  stat'[Self][t].total_stablecoin = stat[Self][t].total_stablecoin + q
  <2> DEFINE row == [stat[Self][t] EXCEPT !.total_stablecoin = @ + q]
  <2>1. stat' = [stat EXCEPT ![Self][t] = row] /\ stat[Self][t] # None
    BY <1>2 DEF Draw, LiveCdp
  <2>2. row.total_stablecoin = stat[Self][t].total_stablecoin + q BY <2>1, StatIn DEF StatRow
  <2> HIDE DEF row
  <2> QED BY <2>1, <2>2, StatWrittenAt
<1>3. ASSUME Wipe(o, t, q)
      PROVE  stat'[Self][t].total_stablecoin = stat[Self][t].total_stablecoin - q
  <2> DEFINE fee == Fee(st.par.stability_fee, cdp[t][o].age, q, feed[IQ].price)
             row == [st EXCEPT !.fee_balance = @ + fee, !.total_stablecoin = @ - q]
  <2>1. stat' = [stat EXCEPT ![Self][t] = row] /\ stat[Self][t] # None
    BY <1>3 DEF Wipe, LiveCdp
  <2> HIDE DEF fee
  <2>2. row.total_stablecoin = stat[Self][t].total_stablecoin - q BY <2>1, StatIn DEF StatRow
  <2> HIDE DEF row
  <2> QED BY <2>1, <2>2, StatWrittenAt
<1>4. Lock(o, t, q) => stat[Self][t] # None /\ stat' = MoreCollateral(t, q)
  BY DEF Lock, LiveCdp
<1>5. Bail(o, t, q) => stat[Self][t] # None /\ stat' = MoreCollateral(t, -q)
  BY DEF Bail, LiveCdp
<1> QED BY <1>1, <1>2, <1>3, <1>4, <1>5

LEMMA ShutTotals ==
  ASSUME CdpTypeOK, NEW o \in Users, NEW t \in CdpTypes, Shut(o, t)
  PROVE  stat'[Self][t].total_stablecoin
           = stat[Self][t].total_stablecoin - cdp[t][o].stablecoin
<1> DEFINE row == TotalsAfterShut(stat[Self][t], cdp[t][o])
<1>1. stat' = [stat EXCEPT ![Self][t] = row] /\ stat[Self][t] # None
  BY DEF Shut, LiveCdp
<1>2. row.total_stablecoin = stat[Self][t].total_stablecoin - cdp[t][o].stablecoin
  BY <1>1, StatIn DEF StatRow, TotalsAfterShut
<1> HIDE DEF row
<1> QED BY <1>1, <1>2, StatWrittenAt

LEMMA MovedOwed ==
  ASSUME CdpTypeOK, CdpTypeOK', NEW t \in CdpTypes, NEW o \in Users, LiveCdp(o, t),
         \A u \in CdpTypes : Covers(stat[Self][u], cdp, u),
         NEW dc, NEW ds \in Int, NEW df, NEW tc, Moved(t, o, dc, ds, df, tc),
         stat'[Self][t].total_stablecoin = stat[Self][t].total_stablecoin + ds
  PROVE  \A u \in CdpTypes : Covers(stat'[Self][u], cdp', u)
<1>1. /\ stat[Self][t] # None /\ cdp[t][o] # None /\ cdp[t][o].live
      /\ stat'[Self][t] # None
  BY DEF LiveCdp, Moved, OnlyWrites, SameTypes
<1>2. cdp[t][o].stablecoin \in Int BY <1>1, CdpIn DEF CdpRow, Amounts
<1>3. LiveOwed(cdp[t][o]) = cdp[t][o].stablecoin
      /\ LiveOwed(cdp'[t][o]) = cdp[t][o].stablecoin + ds
  BY <1>1 DEF LiveOwed, Moved
<1>4. LiveOwed(cdp'[t][o]) <= LiveOwed(cdp[t][o]) + ds BY <1>2, <1>3
<1> QED BY <1>1, <1>4, OneOwed DEF Moved, OnlyWrites

LEMMA OwnerOwed ==
  ASSUME CdpTypeOK, CdpTypeOK', \A u \in CdpTypes : Covers(stat[Self][u], cdp, u), OwnerStep
  PROVE  \A u \in CdpTypes : Covers(stat'[Self][u], cdp', u)
<1>1. PICK o \in Users, t \in CdpTypes :
        \/ Open(o, t)
        \/ Shut(o, t)
        \/ \E q \in ClatrlQty(t) : Lock(o, t, q) \/ Bail(o, t, q)
        \/ \E q \in StablQty(t) : Draw(o, t, q) \/ Wipe(o, t, q)
  BY DEF OwnerStep
<1>2. ClatrlQty(t) \subseteq 1 .. MaxAmount /\ StablQty(t) \subseteq 1 .. MaxAmount
  BY StatIn, CdpAssumption DEF ClatrlQty, StablQty, StatRow
<1>3. stat[Self][t] # None => stat[Self][t].total_stablecoin \in Int
  BY StatIn DEF StatRow, Amounts
<1>4. CASE Open(o, t)
  <2>1. stat' = stat /\ stat[Self][t] # None BY <1>4, OpenWrites
  <2>2. LiveOwed(cdp[t][o]) = 0 /\ LiveOwed(cdp'[t][o]) = 0 BY <1>4, OpenWrites DEF LiveOwed
  <2>3. \A u \in CdpTypes, x \in Users : u # t \/ x # o => cdp'[u][x] = cdp[u][x]
    BY <1>4, OpenWrites
  <2>4. \A u \in CdpTypes, x \in Users : LiveOwed(cdp'[u][x]) = LiveOwed(cdp[u][x])
    BY <2>2, <2>3
  <2> QED BY <2>1, <2>4, SameOwed
<1>5. CASE Shut(o, t)
  <2>1. OnlyWrites(t, o) /\ cdp'[t][o] = None BY <1>5, ShutWrites
  <2>2. LiveCdp(o, t) BY <1>5 DEF Shut
  <2>3. /\ stat[Self][t] # None /\ cdp[t][o] # None /\ cdp[t][o].live
        /\ stat'[Self][t] # None
    BY <2>1, <2>2 DEF LiveCdp, OnlyWrites, SameTypes
  <2>4. cdp[t][o].stablecoin \in Int BY <2>3, CdpIn DEF CdpRow, Amounts
  <2>5. LiveOwed(cdp[t][o]) = cdp[t][o].stablecoin /\ LiveOwed(cdp'[t][o]) = 0
    BY <2>1, <2>3 DEF LiveOwed
  <2> DEFINE d == -cdp[t][o].stablecoin
  <2>6. d \in Int /\ LiveOwed(cdp'[t][o]) <= LiveOwed(cdp[t][o]) + d BY <2>4, <2>5
  <2>7. stat'[Self][t].total_stablecoin
          = stat[Self][t].total_stablecoin - cdp[t][o].stablecoin
    BY <1>5, ShutTotals
  <2>8. stat'[Self][t].total_stablecoin = stat[Self][t].total_stablecoin + d
    BY <1>3, <2>3, <2>4, <2>7
  <2> HIDE DEF d
  <2> QED BY <2>1, <2>3, <2>6, <2>8, OneOwed DEF OnlyWrites
<1>6. ASSUME NEW q \in 1 .. MaxAmount, Lock(o, t, q) \/ Bail(o, t, q)
      PROVE  \A u \in CdpTypes : Covers(stat'[Self][u], cdp', u)
  <2>1. LiveCdp(o, t) /\ stat[Self][t] # None BY <1>6 DEF Lock, Bail, LiveCdp
  <2>2. stat'[Self][t].total_stablecoin = stat[Self][t].total_stablecoin + 0
    BY <1>3, <1>6, <2>1, OwnerTotals
  <2>3. Lock(o, t, q) => Moved(t, o, q, 0, 0, q) BY LockMoves
  <2>4. Bail(o, t, q) => Moved(t, o, -q, 0, 0, -q) BY BailMoves
  <2> QED BY <1>6, <2>1, <2>2, <2>3, <2>4, MovedOwed
<1>7. ASSUME NEW q \in 1 .. MaxAmount, Draw(o, t, q)
      PROVE  \A u \in CdpTypes : Covers(stat'[Self][u], cdp', u)
  <2>1. LiveCdp(o, t) BY <1>7 DEF Draw
  <2>2. stat'[Self][t].total_stablecoin = stat[Self][t].total_stablecoin + q
    BY <1>7, OwnerTotals
  <2>3. Moved(t, o, 0, q, 0, 0) /\ q \in Int BY <1>7, DrawMoves
  <2> QED BY <2>1, <2>2, <2>3, MovedOwed
<1>8. ASSUME NEW q \in 1 .. MaxAmount, Wipe(o, t, q)
      PROVE  \A u \in CdpTypes : Covers(stat'[Self][u], cdp', u)
  <2>1. LiveCdp(o, t) /\ stat[Self][t] # None BY <1>8 DEF Wipe, LiveCdp
  <2>2. stat'[Self][t].total_stablecoin = stat[Self][t].total_stablecoin - q
    BY <1>8, OwnerTotals
  <2>3. Moved(t, o, 0, -q, FeeOf(o, t, q), 0) /\ -q \in Int BY <1>8, WipeMoves
  <2>4. stat'[Self][t].total_stablecoin = stat[Self][t].total_stablecoin + (-q)
    BY <1>3, <2>1, <2>2
  <2> QED BY <2>1, <2>3, <2>4, MovedOwed
<1> QED BY <1>1, <1>2, <1>4, <1>5, <1>6, <1>7, <1>8

\* The steps that are nobody's in particular write no stablecoin total.
LEMMA IdleTotals ==
  ASSUME CdpTypeOK, IdleStep
  PROVE  \A u \in CdpTypes : stat'[Self][u] # None =>
           /\ stat[Self][u] # None
           /\ stat'[Self][u].total_stablecoin = stat[Self][u].total_stablecoin
<1>1. CASE SettleStep
  <2>1. PICK f \in Scopes, t \in CdpTypes : Settle(f, t) BY <1>1 DEF SettleStep
  <2> QED BY <2>1, TypeParts, StatIn DEF Settle, StatTable, Scopes, StatRow
<1>2. CASE FeedStep BY <1>2 DEF FeedStep, Upfeed
<1>3. CASE CdpTick BY <1>3 DEF CdpTick
<1>4. CASE UNCHANGED cdpVars BY <1>4 DEF cdpVars
<1> QED BY <1>1, <1>2, <1>3, <1>4 DEF IdleStep

LEMMA CdpOwed ==
  ASSUME CdpTypeOK, CdpTypeOK', \A u \in CdpTypes : Covers(stat[Self][u], cdp, u), CdpNext
  PROVE  \A u \in CdpTypes : Covers(stat'[Self][u], cdp', u)
<1>1. CASE BalanceStep BY <1>1, BalanceKeeps, SameOwed
<1>2. CASE IdleStep
  <2>1. \A u \in CdpTypes, x \in Users :
          IF cdp[u][x] = None THEN cdp'[u][x] = None
          ELSE /\ cdp'[u][x] # None /\ cdp'[u][x].live = cdp[u][x].live
               /\ cdp'[u][x].stablecoin = cdp[u][x].stablecoin
    BY <1>2, IdleKeeps
  <2>2. \A u \in CdpTypes, x \in Users : LiveOwed(cdp'[u][x]) = LiveOwed(cdp[u][x])
    BY <2>1 DEF LiveOwed
  <2> QED BY <1>2, <2>2, IdleTotals, SameOwed
<1> QED BY <1>1, <1>2, OwnerOwed DEF CdpNext, IdleStep

\* liquify takes a live debt away and brings none.
LEMMA LiquifyOwed ==
  ASSUME AuctionInv, \A u \in CdpTypes : Covers(stat[Self][u], cdp, u), LiquifyStep
  PROVE  \A u \in CdpTypes : Covers(stat'[Self][u], cdp', u)
<1>1. PICK b \in Users, o \in Users, t \in CdpTypes, s \in Symbols : \E q \in BidQty[s] :
        FirstBid(b, o, t, s, q) \/ Outbid(b, o, t, s, q) \/ NewRound(b, o, t, s, q)
  BY DEF LiquifyStep
<1>2. BidQty[s] \subseteq 1 .. MaxAmount BY LiquidationAssumption
<1>3. LiqTypeOK' /\ stat' = stat /\ \E row, bd : Auctions(t, o, row, bd)
  BY <1>1, <1>2, LiquifyAuctions
<1>4. PICK row, bd : Auctions(t, o, row, bd) BY <1>3
<1>5. CdpTypeOK /\ CdpTypeOK' BY <1>3 DEF AuctionInv, LiqTypeOK
<1>6. stat[Self][t] # None BY <1>1 DEF FirstBid, Outbid, NewRound, ForSale
<1>7. LiveOwed(cdp'[t][o]) = 0 BY <1>4 DEF Auctions, Leaves, LiveOwed
<1>8. LiveOwed(cdp[t][o]) >= 0 BY DEF AuctionInv, LivePositions, MatchesType, LiveOwed
<1>9. LiveOwed(cdp[t][o]) \in Int BY <1>5, TypeParts, LiveInt
<1>10. LiveOwed(cdp'[t][o]) <= LiveOwed(cdp[t][o]) + 0 BY <1>7, <1>8, <1>9
<1>11. /\ stat'[Self][t] # None /\ 0 \in Int
       /\ stat'[Self][t].total_stablecoin = stat[Self][t].total_stablecoin + 0
  BY <1>3, <1>5, <1>6, StatIn DEF StatRow, Amounts
<1>12. \A u \in CdpTypes, x \in Users : u # t \/ x # o => cdp'[u][x] = cdp[u][x]
  BY <1>4 DEF Auctions, Leaves
<1>13. \A u \in CdpTypes : u # t => stat'[Self][u] = stat[Self][u] BY <1>3
<1> QED BY <1>5, <1>6, <1>10, <1>11, <1>12, <1>13, OneOwed

TotalsInv == AuctionInv /\ \A t \in CdpTypes : Covers(stat[Self][t], cdp, t)

LEMMA StepTotals ==
  ASSUME TotalsInv, [LiqNext]_liqVars
  PROVE  TotalsInv'
<1>0. AuctionInv /\ AuctionInv' BY StepAuctions DEF TotalsInv
<1>1. CdpTypeOK /\ CdpTypeOK' BY <1>0 DEF AuctionInv, LiqTypeOK
<1>2. \A u \in CdpTypes : Covers(stat[Self][u], cdp, u) BY DEF TotalsInv
<1>3. CASE CdpNext BY <1>0, <1>1, <1>2, <1>3, CdpOwed DEF TotalsInv
<1>4. CASE LiquifyStep BY <1>0, <1>2, <1>4, LiquifyOwed DEF TotalsInv
<1>5. CASE UNCHANGED liqVars BY <1>0, <1>2, <1>5 DEF TotalsInv, liqVars
<1> QED BY <1>3, <1>4, <1>5 DEF LiqNext, CdpNext, LiqTick

LEMMA InitTotals == LiqInit => TotalsInv
<1> SUFFICES ASSUME LiqInit, NEW t \in CdpTypes, stat[Self][t] # None
             PROVE  stat[Self][t].total_stablecoin >= LiveSum(cdp, t)
  BY InitAuctions DEF TotalsInv, Covers
<1> DEFINE f == [o \in Users |-> LiveOwed(cdp[t][o])]
<1>1. CdpInit BY DEF LiqInit
<1>2. \A o \in Users : f[o] = 0 BY <1>1 DEF CdpInit, LiveOwed
<1>3. LiveSum(cdp, t) = 0 BY <1>2, SumZero, TablesAssumption DEF LiveSum
<1>4. stat[Self][t] = Enacted[t] BY <1>1 DEF CdpInit, StatInit, Scopes
<1> QED BY <1>3, <1>4, CdpAssumption

LEMMA InvCovers == TotalsInv => TotalCoversDebts
<1> SUFFICES ASSUME TotalsInv, NEW t \in CdpTypes, NEW o \in Users
             PROVE  LiveOwed(cdp[t][o]) >= 0
  BY LiveParts DEF TotalsInv
<1> QED BY DEF TotalsInv, AuctionInv, LivePositions, MatchesType, LiveOwed

\* The stablecoin total of a type never falls below what the owners of its live
\* positions owe, whatever auctions take over and leave of the others: a wipe or
\* a shut never takes more off the total than there is.
THEOREM TotalsCoverDebts == LiqSpec => []TotalCoversDebts
<1>1. TotalsInv /\ [LiqNext]_liqVars => TotalsInv' BY StepTotals
<1> QED BY <1>1, InitTotals, InvCovers, PTL DEF LiqSpec
=============================================================================
