------------------------------ MODULE Cdp_proof ------------------------------
(***************************************************************************)
(* Theorems about Cdp for every instance of its constants.                 *)
(***************************************************************************)
EXTENDS Cdp, DaiqTables_proof

\* The types of the tables with their rows.
CdpTable == [CdpTypes -> [Users -> CdpRow \cup {None}]]
Vaults == [Tokens -> [Symbols -> 0 .. MaxAmount]]

\* A fee is never negative: no wipe pays its owner.
LEMMA FeeNat ==
  ASSUME NEW fee \in Nat, NEW age \in Nat, NEW q \in Nat, NEW price \in Nat \ {0}
  PROVE  Fee(fee, age, q, price) \in Nat
<1>1. (1000000 * fee * age) \in Nat OBVIOUS
<1>2. (1000000 * fee * age) \div SecYr \in Nat BY <1>1, CdpAssumption
<1>3. (q * 100) \div price \in Nat OBVIOUS
<1>4. \A a, b \in Nat : a * b \in Nat OBVIOUS
<1>5. \A a \in Nat : a \div 100000 \in Nat OBVIOUS
<1> QED BY <1>2, <1>3, <1>4, <1>5 DEF Fee

-----------------------------------------------------------------------------
\* The type invariant, table by table.
LEMMA TypeParts ==
  CdpTypeOK <=> /\ stat \in StatTable /\ feed \in FeedTable /\ acnt \in Accounts
                /\ cdp \in CdpTable /\ vault \in Vaults
BY DEF CdpTypeOK, TablesTypeOK, StatTable, FeedTable, Accounts, CdpTable, Vaults

LEMMA TypePartsNext ==
  CdpTypeOK' <=> /\ stat' \in StatTable /\ feed' \in FeedTable /\ acnt' \in Accounts
                 /\ cdp' \in CdpTable /\ vault' \in Vaults
BY DEF CdpTypeOK, TablesTypeOK, StatTable, FeedTable, Accounts, CdpTable, Vaults

\* A row of a type in force and a position have their types.
LEMMA StatIn ==
  ASSUME CdpTypeOK, NEW t \in CdpTypes, stat[Self][t] # None
  PROVE  stat[Self][t] \in StatRow
BY TypeParts DEF StatTable, Scopes

LEMMA CdpIn ==
  ASSUME CdpTypeOK, NEW t \in CdpTypes, NEW o \in Users, cdp[t][o] # None
  PROVE  cdp[t][o] \in CdpRow
BY TypeParts DEF CdpTable

LEMMA InitType == CdpInit => CdpTypeOK
<1> SUFFICES ASSUME CdpInit PROVE CdpTypeOK
  OBVIOUS
<1> USE TablesAssumption, CdpAssumption
<1>1. stat \in StatTable BY DEF CdpInit, StatInit, StatTable
<1>2. feed \in FeedTable
  <2> SUFFICES ASSUME NEW s \in Symbols, Quoted[s] # 0
               PROVE  [total |-> 0, price |-> Quoted[s], psym |-> PriceSym, age |-> 0] \in FeedRow
    BY DEF CdpInit, FeedInit, FeedTable
  <2>1. 0 \in Amounts /\ 0 \in 0 .. FeedFresh + 1 /\ Quoted[s] \in Nat BY DEF Amounts
  <2> QED BY <2>1 DEF FeedRow
<1>3. acnt \in Accounts BY DEF CdpInit, Accounts
<1>4. cdp \in CdpTable BY DEF CdpInit, CdpTable
<1>5. vault \in Vaults
  <2>1. 0 \in 0 .. MaxAmount OBVIOUS
  <2> QED BY <2>1 DEF CdpInit, Vaults
<1> QED BY <1>1, <1>2, <1>3, <1>4, <1>5, TypeParts

LEMMA OpenType ==
  ASSUME CdpTypeOK, NEW o \in Users, NEW t \in CdpTypes, Open(o, t)
  PROVE  CdpTypeOK'
<1> USE TablesAssumption, CdpAssumption
<1> DEFINE row == [age |-> 0, collateral |-> 0, csym |-> stat[Self][t].csym,
                   stablecoin |-> 0, ssym |-> stat[Self][t].ssym, live |-> TRUE]
<1>1. stat[Self][t] \in StatRow BY StatIn DEF Open
<1>2. row \in CdpRow
  <2>1. 0 \in 0 .. MaxAge /\ 0 \in 0 .. MaxAmount /\ 0 \in Amounts BY DEF Amounts
  <2> QED BY <1>1, <2>1 DEF CdpRow, StatRow
<1>3. cdp' \in CdpTable
  <2>1. cdp' = [cdp EXCEPT ![t][o] = row] BY DEF Open
  <2> HIDE DEF row
  <2> QED BY <1>2, <2>1, TypeParts, Written DEF CdpTable
<1> QED BY <1>3, TypeParts, TypePartsNext DEF Open

\* A change of the collateral total keeps the types, within range.
LEMMA MoreCollateralType ==
  ASSUME CdpTypeOK, NEW t \in CdpTypes, NEW q \in Int, stat[Self][t] # None,
         InRange(stat[Self][t].total_collateral + q)
  PROVE  MoreCollateral(t, q) \in StatTable
<1> DEFINE row == [stat[Self][t] EXCEPT !.total_collateral = @ + q]
<1>1. row \in StatRow BY StatIn DEF StatRow, InRange
<1>2. MoreCollateral(t, q) = [stat EXCEPT ![Self][t] = row] BY DEF MoreCollateral
<1> HIDE DEF row
<1> QED BY <1>1, <1>2, TypeParts, Written DEF StatTable, Scopes

LEMMA BailType ==
  ASSUME CdpTypeOK, NEW o \in Users, NEW t \in CdpTypes, NEW q \in 1 .. MaxAmount,
         Bail(o, t, q)
  PROVE  CdpTypeOK'
<1> USE TablesAssumption
<1> DEFINE st == stat[Self][t]   row == [cdp[t][o] EXCEPT !.collateral = @ - q]
<1>1. st # None /\ cdp[t][o] # None BY DEF Bail, LiveCdp
<1>2. st \in StatRow /\ cdp[t][o] \in CdpRow BY <1>1, StatIn, CdpIn
<1>3. stat' \in StatTable
  <2>1. InRange(st.total_collateral + (-q)) BY <1>2 DEF Bail, StatRow, Amounts
  <2> QED BY <1>1, <2>1, MoreCollateralType DEF Bail
<1>4. feed' \in FeedTable BY <1>2, TypeParts, CirculateType DEF Bail, StatRow
<1>5. acnt' \in Accounts BY <1>2, TypeParts, CreditType DEF Bail, StatRow, Codes
<1>6. cdp' \in CdpTable
  <2>1. row \in CdpRow BY <1>2 DEF CdpRow, Bail
  <2>2. cdp' = [cdp EXCEPT ![t][o] = row] BY DEF Bail
  <2> HIDE DEF row
  <2> QED BY <2>1, <2>2, TypeParts, Written DEF CdpTable
<1> QED BY <1>3, <1>4, <1>5, <1>6, TypeParts, TypePartsNext DEF Bail

LEMMA DrawType ==
  ASSUME CdpTypeOK, NEW o \in Users, NEW t \in CdpTypes, NEW q \in 1 .. MaxAmount,
         Draw(o, t, q)
  PROVE  CdpTypeOK'
<1> USE TablesAssumption
<1> DEFINE st == stat[Self][t]
           row == [cdp[t][o] EXCEPT !.stablecoin = cdp[t][o].stablecoin + q]
           srow == [st EXCEPT !.total_stablecoin = @ + q]
<1>1. st \in StatRow /\ cdp[t][o] \in CdpRow BY StatIn, CdpIn DEF Draw, LiveCdp
<1>2. stat' \in StatTable
  <2>1. srow \in StatRow BY <1>1 DEF StatRow, Draw, InRange
  <2>2. stat' = [stat EXCEPT ![Self][t] = srow] BY DEF Draw
  <2> HIDE DEF srow
  <2> QED BY <2>1, <2>2, TypeParts, Written DEF StatTable, Scopes
<1>3. feed' \in FeedTable BY <1>1, TypeParts, CirculateType DEF Draw, StatRow
<1>4. acnt' \in Accounts BY <1>1, TypeParts, CreditType DEF Draw, StatRow, Codes
<1>5. cdp' \in CdpTable
  <2>1. row \in CdpRow BY <1>1 DEF CdpRow, Draw, InRange
  <2>2. cdp' = [cdp EXCEPT ![t][o] = row] BY DEF Draw
  <2> HIDE DEF row
  <2> QED BY <2>1, <2>2, TypeParts, Written DEF CdpTable
<1> QED BY <1>2, <1>3, <1>4, <1>5, TypeParts, TypePartsNext DEF Draw

LEMMA WipeType ==
  ASSUME CdpTypeOK, NEW o \in Users, NEW t \in CdpTypes, NEW q \in 1 .. MaxAmount,
         Wipe(o, t, q)
  PROVE  CdpTypeOK'
<1> USE TablesAssumption, CdpAssumption
<1> DEFINE st == stat[Self][t]
           it == cdp[t][o]
           fee == Fee(st.par.stability_fee, it.age, q, feed[IQ].price)
           paid == Debit(acnt, o, IQ, fee)
           row == [it EXCEPT !.stablecoin = @ - q]
           srow == [st EXCEPT !.fee_balance = @ + fee, !.total_stablecoin = @ - q]
<1>1. st \in StatRow /\ it \in CdpRow BY StatIn, CdpIn DEF Wipe, LiveCdp
<1>2. fee \in Nat
  <2>1. feed[IQ] \in FeedRow /\ feed[IQ].price # 0 BY TypeParts DEF Wipe, FeedTable
  <2>2. feed[IQ].price \in Nat \ {0} BY <2>1 DEF FeedRow
  <2>3. st.par \in ParamType /\ it.age \in Nat BY <1>1 DEF StatRow, CdpRow
  <2>4. st.par.stability_fee \in Nat BY <2>3 DEF ParamType
  <2>5. q \in Nat OBVIOUS
  <2> HIDE DEF st, it
  <2> QED BY <2>2, <2>3, <2>4, <2>5, FeeNat
<1> HIDE DEF fee
<1>3. paid \in Accounts
  <2>1. CanDebit(acnt, o, IQ, fee) BY DEF Wipe, fee
  <2> QED BY <1>2, <2>1, TypeParts, DebitType
<1>4. acnt' \in Accounts
  <2>1. st.ssym \in Symbols BY <1>1 DEF StatRow
  <2>2. CanDebit(paid, o, st.ssym, q) /\ acnt' = Debit(paid, o, st.ssym, q)
    BY DEF Wipe, fee
  <2> HIDE DEF paid
  <2> QED BY <1>3, <2>1, <2>2, DebitType
<1>5. stat' \in StatTable
  <2>1. InRange(st.fee_balance + fee) /\ InRange(st.total_stablecoin - q) BY DEF Wipe, fee
  <2>2. st.fee_balance + fee \in 0 .. MaxAmount /\ st.total_stablecoin - q \in Amounts
    BY <1>1, <1>2, <2>1 DEF StatRow, InRange, Amounts
  <2>3. srow \in StatRow
    <3> HIDE DEF st
    <3> QED BY <1>1, <2>2 DEF StatRow
  <2>4. stat' = [stat EXCEPT ![Self][t] = srow] BY DEF Wipe, fee
  <2> HIDE DEF srow
  <2> QED BY <2>3, <2>4, TypeParts, Written DEF StatTable, Scopes
<1>6. cdp' \in CdpTable
  <2>1. it.stablecoin - q \in Amounts BY <1>1 DEF CdpRow, Wipe, Amounts
  <2>2. row \in CdpRow BY <1>1, <2>1 DEF CdpRow
  <2>3. cdp' = [cdp EXCEPT ![t][o] = row] BY DEF Wipe
  <2> HIDE DEF row
  <2> QED BY <2>2, <2>3, TypeParts, Written DEF CdpTable
<1>7. feed' \in FeedTable BY <1>1, TypeParts, CirculateType DEF Wipe, StatRow
<1> QED BY <1>4, <1>5, <1>6, <1>7, TypeParts, TypePartsNext DEF Wipe

LEMMA LockType ==
  ASSUME CdpTypeOK, NEW o \in Users, NEW t \in CdpTypes, NEW q \in 1 .. MaxAmount,
         Lock(o, t, q)
  PROVE  CdpTypeOK'
<1> USE TablesAssumption
<1> DEFINE st == stat[Self][t]
           row == [cdp[t][o] EXCEPT !.collateral = @ + q]
<1>1. st # None /\ st \in StatRow /\ cdp[t][o] \in CdpRow
  BY StatIn, CdpIn DEF Lock, LiveCdp
<1>2. stat' \in StatTable BY <1>1, MoreCollateralType DEF Lock
<1>3. feed' \in FeedTable BY <1>1, TypeParts, CirculateType DEF Lock, StatRow
<1>4. acnt' \in Accounts BY <1>1, TypeParts, DebitType DEF Lock, StatRow
<1>5. cdp' \in CdpTable
  <2>1. cdp[t][o].collateral + q \in 0 .. MaxAmount
    BY <1>1 DEF CdpRow, Lock, InRange, Amounts
  <2>2. row \in CdpRow BY <1>1, <2>1 DEF CdpRow
  <2>3. cdp' = [cdp EXCEPT ![t][o] = row] BY DEF Lock
  <2> HIDE DEF row
  <2> QED BY <2>2, <2>3, TypeParts, Written DEF CdpTable
<1> QED BY <1>2, <1>3, <1>4, <1>5, TypeParts, TypePartsNext DEF Lock

LEMMA ShutType ==
  ASSUME CdpTypeOK, NEW o \in Users, NEW t \in CdpTypes, Shut(o, t)
  PROVE  CdpTypeOK'
<1> USE TablesAssumption, CdpAssumption
<1> DEFINE st == stat[Self][t]
           it == cdp[t][o]
           a == Repaid(o, it)
<1>1. st \in StatRow /\ it \in CdpRow BY StatIn, CdpIn DEF Shut, LiveCdp
<1>2. a \in Accounts
  <2>1. CASE it.stablecoin > 0
    <3>1. it.stablecoin \in Nat /\ it.ssym \in Symbols
      BY <1>1, <2>1 DEF CdpRow, Amounts
    <3>2. a = Debit(acnt, o, it.ssym, it.stablecoin) BY <2>1 DEF Repaid
    <3>3. CanDebit(acnt, o, it.ssym, it.stablecoin) BY <2>1 DEF Shut
    <3> QED BY <3>1, <3>2, <3>3, TypeParts, DebitType
  <2>2. CASE ~(it.stablecoin > 0) BY <2>2, TypeParts DEF Repaid
  <2> QED BY <2>1, <2>2
<1>3. acnt' \in Accounts
  <2> HIDE DEF a
  <2>1. CASE it.collateral > 0
    <3>1. it.collateral \in 0 .. MaxAmount /\ it.csym \in Symbols /\ st.contract \in Codes
      BY <1>1 DEF CdpRow, StatRow, Codes
    <3>2. /\ CanCredit(a, o, it.csym, it.collateral, st.contract)
          /\ acnt' = Credit(a, o, it.csym, it.collateral, st.contract)
      BY <2>1 DEF Shut, a
    <3> QED BY <1>2, <3>1, <3>2, CreditType
  <2>2. CASE ~(it.collateral > 0)
    <3>1. acnt' = a BY <2>2 DEF Shut, a
    <3> QED BY <1>2, <3>1
  <2> QED BY <2>1, <2>2
<1>4. stat' \in StatTable
  <2>1. TotalsAfterShut(st, it) \in StatRow
    BY <1>1 DEF StatRow, TotalsAfterShut, Shut, InRange
  <2>2. stat' = [stat EXCEPT ![Self][t] = TotalsAfterShut(st, it)] BY DEF Shut
  <2> QED BY <2>1, <2>2, TypeParts, Written DEF StatTable, Scopes
<1>5. cdp' \in CdpTable BY TypeParts, Written DEF CdpTable, Shut
<1> QED BY <1>3, <1>4, <1>5, TypeParts, TypePartsNext DEF Shut

LEMMA SettleType ==
  ASSUME CdpTypeOK, NEW f \in Scopes, NEW t \in CdpTypes, Settle(f, t)
  PROVE  CdpTypeOK'
<1> DEFINE row == [stat[Self][t] EXCEPT !.live = FALSE]
<1>1. row \in StatRow
  <2>1. ASSUME NEW r \in StatRow, NEW b \in BOOLEAN
        PROVE  [r EXCEPT !.live = b] \in StatRow
    BY DEF StatRow
  <2>2. stat[Self][t] \in StatRow /\ FALSE \in BOOLEAN BY StatIn DEF Settle
  <2> QED BY <2>1, <2>2
<1>2. stat' = [stat EXCEPT ![Self][t] = row] BY DEF Settle
<1> HIDE DEF row
<1>3. stat' \in StatTable BY <1>1, <1>2, TypeParts, Written DEF StatTable, Scopes
<1> QED BY <1>3, TypeParts, TypePartsNext DEF Settle

LEMMA DepositType ==
  ASSUME CdpTypeOK, NEW o \in Users, NEW c \in Tokens, NEW s \in Symbols,
         NEW q \in 1 .. MaxAmount, Deposit(o, c, s, q)
  PROVE  CdpTypeOK'
<1> USE TablesAssumption, CdpAssumption
<1>1. acnt' \in Accounts BY TypeParts, CreditType DEF Deposit, Codes
<1>2. feed' \in FeedTable BY TypeParts, CirculateType DEF Deposit
<1>3. vault' \in Vaults
  <2>1. vault[c][s] \in 0 .. MaxAmount /\ Supply[c][s] \in 0 .. MaxAmount
    BY TypeParts DEF Vaults
  <2>2. vault[c][s] + q \in 0 .. MaxAmount BY <2>1 DEF Deposit
  <2>3. vault' = [vault EXCEPT ![c][s] = vault[c][s] + q] BY DEF Deposit
  <2> QED BY <2>2, <2>3, TypeParts, Written DEF Vaults
<1> QED BY <1>1, <1>2, <1>3, TypeParts, TypePartsNext DEF Deposit

LEMMA WithdrawType ==
  ASSUME CdpTypeOK, NEW o \in Users, NEW s \in Symbols, NEW asked \in 0 .. MaxAmount,
         Withdraw(o, s, asked)
  PROVE  CdpTypeOK'
<1> USE TablesAssumption
<1> DEFINE q == IF asked = 0 THEN acnt[s][o].balance ELSE asked
           code == acnt[s][o].code
<1>1. acnt[s][o] \in AccountRow BY TypeParts DEF Withdraw, Accounts
<1>2. q \in Nat BY <1>1 DEF AccountRow
<1>3. acnt' \in Accounts
  <2>1. CanDebit(acnt, o, s, q) /\ acnt' = Debit(acnt, o, s, q) BY DEF Withdraw
  <2> HIDE DEF q
  <2> QED BY <1>2, <2>1, TypeParts, DebitType
<1>4. feed' \in FeedTable
  <2>1. CanCirculate(feed, s, -q) /\ feed' = Circulate(feed, s, -q) BY DEF Withdraw
  <2>2. -q \in Int BY <1>2
  <2> HIDE DEF q
  <2> QED BY <2>1, <2>2, TypeParts, CirculateType
<1>5. vault' \in Vaults
  <2>1. /\ code \in Tokens /\ vault[code][s] >= q
        /\ vault' = [vault EXCEPT ![code][s] = vault[code][s] - q]
    BY DEF Withdraw
  <2> HIDE DEF code, q
  <2>2. vault[code][s] - q \in 0 .. MaxAmount BY <1>2, <2>1, TypeParts DEF Vaults
  <2> QED BY <2>1, <2>2, TypeParts, Written DEF Vaults
<1> QED BY <1>3, <1>4, <1>5, TypeParts, TypePartsNext DEF Withdraw

LEMMA CloseType ==
  ASSUME CdpTypeOK, NEW o \in Users, NEW s \in Symbols, Close(o, s)
  PROVE  CdpTypeOK'
<1>1. acnt' \in Accounts BY TypeParts, Written DEF Close, Accounts
<1> QED BY <1>1, TypeParts, TypePartsNext DEF Close

LEMMA FeedType ==
  ASSUME CdpTypeOK, FeedStep
  PROVE  CdpTypeOK'
<1> USE TablesAssumption, CdpAssumption
<1>1. PICK f \in Scopes, p \in Prices, t \in CdpTypes, s \in Fed :
        Upfeed(f, p, PriceSym, t, s) /\ UNCHANGED <<cdp, vault>>
  BY DEF FeedStep
<1>2. s \in Symbols /\ p \in Nat OBVIOUS
<1>3. 0 \in 0 .. FeedFresh + 1 /\ 0 \in Amounts BY DEF Amounts
<1>4. Repriced(feed[s], p, PriceSym) \in FeedRow
  <2>1. CASE feed[s] = None BY <1>2, <1>3, <2>1 DEF Repriced, FeedRow
  <2>2. CASE feed[s] # None
    <3>1. feed[s] \in FeedRow BY <1>2, <2>2, TypeParts DEF FeedTable
    <3>2. Smoothed(feed[s].price, p) \in Nat
      <4>1. feed[s].price \in Nat BY <3>1 DEF FeedRow
      <4>2. 17 \div 20 = 0 /\ 3 \div 20 = 0 OBVIOUS
      <4> QED BY <1>2, <4>1, <4>2 DEF Smoothed
    <3> QED BY <1>3, <2>2, <3>1, <3>2 DEF Repriced, FeedRow
  <2> QED BY <2>1, <2>2
<1>5. feed' \in FeedTable BY <1>1, <1>4, TypeParts DEF Upfeed, FeedTable
<1> QED BY <1>1, <1>5, TypeParts, TypePartsNext DEF Upfeed

\* An older position differs in its age alone.
LEMMA OlderCdpIn ==
  ASSUME NEW c \in CdpRow
  PROVE  /\ OlderCdp(c) \in CdpRow
         /\ OlderCdp(c).collateral = c.collateral /\ OlderCdp(c).csym = c.csym
         /\ OlderCdp(c).stablecoin = c.stablecoin /\ OlderCdp(c).ssym = c.ssym
         /\ OlderCdp(c).live = c.live
<1> USE CdpAssumption
<1>1. CASE c.age = MaxAge BY <1>1 DEF OlderCdp
<1>2. CASE c.age # MaxAge
  <2>1. \A n \in 0 .. MaxAge : n # MaxAge => n + 1 \in 0 .. MaxAge OBVIOUS
  <2>2. c.age \in 0 .. MaxAge BY DEF CdpRow
  <2>3. c.age + 1 \in 0 .. MaxAge BY <1>2, <2>1, <2>2
  <2>4. OlderCdp(c) = [c EXCEPT !.age = @ + 1] BY <1>2 DEF OlderCdp
  <2> QED BY <2>3, <2>4 DEF CdpRow
<1> QED BY <1>1, <1>2

LEMMA TickType ==
  ASSUME CdpTypeOK, CdpTick
  PROVE  CdpTypeOK'
<1> USE TablesAssumption, CdpAssumption
<1>1. feed' \in FeedTable
  <2>1. ASSUME NEW f \in FeedRow \cup {None} PROVE OlderFeed(f) \in FeedRow \cup {None}
    BY DEF OlderFeed, FeedRow
  <2> QED BY <2>1, TypeParts DEF FeedTable, CdpTick, AgeFeeds
<1>2. cdp' \in CdpTable
  <2>1. ASSUME NEW c \in CdpRow \cup {None} PROVE OlderCdp(c) \in CdpRow \cup {None}
    BY OlderCdpIn DEF OlderCdp
  <2> QED BY <2>1, TypeParts DEF CdpTable, CdpTick, AgeCdps
<1> QED BY <1>1, <1>2, TypeParts, TypePartsNext DEF CdpTick

\* Every step keeps the types of the tables.
LEMMA StepType ==
  ASSUME CdpTypeOK, [CdpNext]_cdpVars
  PROVE  CdpTypeOK'
<1> USE TablesAssumption, CdpAssumption
<1>1. ASSUME OwnerStep PROVE CdpTypeOK'
  <2>1. PICK o \in Users, t \in CdpTypes :
          \/ Open(o, t)
          \/ Shut(o, t)
          \/ \E q \in ClatrlQty(t) : Lock(o, t, q) \/ Bail(o, t, q)
          \/ \E q \in StablQty(t) : Draw(o, t, q) \/ Wipe(o, t, q)
    BY <1>1 DEF OwnerStep
  <2>2. ClatrlQty(t) \subseteq 1 .. MaxAmount /\ StablQty(t) \subseteq 1 .. MaxAmount
    BY StatIn DEF ClatrlQty, StablQty, StatRow
  <2> QED BY <2>1, <2>2, OpenType, ShutType, LockType, BailType, DrawType, WipeType
<1>2. ASSUME BalanceStep PROVE CdpTypeOK'
  <2>1. PICK o \in Users, s \in Symbols :
          \/ \E c \in Tokens, q \in Qty[s] : Deposit(o, c, s, q)
          \/ \E q \in Qty[s] \cup {0} : Withdraw(o, s, q)
          \/ Close(o, s)
    BY <1>2 DEF BalanceStep
  <2>2. Qty[s] \subseteq 1 .. MaxAmount /\ Qty[s] \cup {0} \subseteq 0 .. MaxAmount
    OBVIOUS
  <2> QED BY <2>1, <2>2, DepositType, WithdrawType, CloseType
<1>3. ASSUME SettleStep PROVE CdpTypeOK' BY <1>3, SettleType DEF SettleStep
<1>4. ASSUME UNCHANGED cdpVars PROVE CdpTypeOK'
  BY <1>4, TypeParts, TypePartsNext DEF cdpVars
<1> QED BY <1>1, <1>2, <1>3, <1>4, FeedType, TickType DEF CdpNext

\* In every reachable state the tables are well typed: no balance, no locked
\* collateral and no holding of the contract is ever negative or out of range.
THEOREM TypeCorrect == CdpSpec => []CdpTypeOK
<1>1. CdpTypeOK /\ [CdpNext]_cdpVars => CdpTypeOK' BY StepType
<1> QED BY <1>1, InitType, PTL DEF CdpSpec
-----------------------------------------------------------------------------
\* The debt of a position is an integer.
LEMMA DebtInt ==
  ASSUME CdpTypeOK, NEW t \in CdpTypes, NEW o \in Users
  PROVE  DebtOf(t)[o] \in Int /\ DebtOf(t)[o] = Owed(cdp[t][o])
BY CdpIn DEF DebtOf, CdpRow, Amounts, Owed

LEMMA DebtIntNext ==
  ASSUME CdpTypeOK', NEW t \in CdpTypes, NEW o \in Users
  PROVE  DebtOf(t)'[o] \in Int /\ DebtOf(t)'[o] = Owed(cdp'[t][o])
<1>1. cdp'[t][o] # None => cdp'[t][o] \in CdpRow BY TypePartsNext DEF CdpTable
<1> QED BY <1>1 DEF DebtOf, CdpRow, Amounts, Owed

\* A step that writes no debt and no total keeps TotalIsDebt.
LEMMA SameDebts ==
  ASSUME CdpTypeOK, CdpTypeOK', TotalIsDebt,
         \A t \in CdpTypes : stat'[Self][t] # None =>
           /\ stat[Self][t] # None
           /\ stat'[Self][t].total_stablecoin = stat[Self][t].total_stablecoin,
         \A t \in CdpTypes, o \in Users : Owed(cdp'[t][o]) = Owed(cdp[t][o])
  PROVE  TotalIsDebt'
<1> SUFFICES ASSUME NEW t \in CdpTypes, stat'[Self][t] # None
             PROVE  stat'[Self][t].total_stablecoin = SumFunctionOnSet(DebtOf(t)', Users)
  BY DEF TotalIsDebt
<1>1. \A o \in Users : DebtOf(t)'[o] = DebtOf(t)[o] BY DebtInt, DebtIntNext
<1>2. SumFunctionOnSet(DebtOf(t)', Users) = SumFunctionOnSet(DebtOf(t), Users)
  BY <1>1, SumEqual, TablesAssumption
<1> QED BY <1>2 DEF TotalIsDebt

\* A step that writes one position and its type keeps TotalIsDebt when the total
\* of the type moves by as much as the debt of the position.
LEMMA OneDebt ==
  ASSUME CdpTypeOK, CdpTypeOK', TotalIsDebt, NEW t \in CdpTypes, NEW o \in Users,
         NEW row, NEW srow, stat[Self][t] # None,
         stat' = [stat EXCEPT ![Self][t] = srow],
         cdp' = [cdp EXCEPT ![t][o] = row],
         srow.total_stablecoin - stat[Self][t].total_stablecoin = Owed(row) - Owed(cdp[t][o])
  PROVE  TotalIsDebt'
<1> USE TablesAssumption
<1>1. /\ stat'[Self][t] = srow
      /\ \A u \in CdpTypes : u # t => stat'[Self][u] = stat[Self][u]
  BY TypeParts, WrittenAt DEF StatTable, Scopes
<1>2. /\ cdp'[t][o] = row
      /\ \A u \in CdpTypes, p \in Users : u # t \/ p # o => cdp'[u][p] = cdp[u][p]
  BY TypeParts, WrittenAt DEF CdpTable
<1> SUFFICES ASSUME NEW u \in CdpTypes, stat'[Self][u] # None
             PROVE  stat'[Self][u].total_stablecoin = SumFunctionOnSet(DebtOf(u)', Users)
  BY DEF TotalIsDebt
<1>3. CASE u # t
  <2>1. \A p \in Users : DebtOf(u)'[p] = DebtOf(u)[p] BY <1>2, <1>3, DebtInt, DebtIntNext
  <2>2. SumFunctionOnSet(DebtOf(u)', Users) = SumFunctionOnSet(DebtOf(u), Users)
    BY <2>1, SumEqual
  <2> QED BY <1>1, <1>3, <2>2 DEF TotalIsDebt
<1>4. CASE u = t
  <2>1. \A p \in Users : DebtOf(t)[p] \in Int /\ DebtOf(t)'[p] \in Int
    BY DebtInt, DebtIntNext
  <2>2. \A p \in Users \ {o} : DebtOf(t)'[p] = DebtOf(t)[p] BY <1>2, DebtInt, DebtIntNext
  <2>3. SumFunctionOnSet(DebtOf(t)', Users)
          = SumFunctionOnSet(DebtOf(t), Users) - DebtOf(t)[o] + DebtOf(t)'[o]
    BY <2>1, <2>2, SumUpdate
  <2>4. stat[Self][t].total_stablecoin = SumFunctionOnSet(DebtOf(t), Users)
    BY DEF TotalIsDebt
  <2>5. SumFunctionOnSet(DebtOf(t), Users) \in Int BY <2>1, SumInt
  <2>6. stat'[Self][t].total_stablecoin \in Int
    BY <1>4, TypePartsNext DEF StatTable, StatRow, Scopes, Amounts
  <2>7. DebtOf(t)'[o] = Owed(row) /\ DebtOf(t)[o] = Owed(cdp[t][o])
    BY <1>2, DebtInt, DebtIntNext
  <2> QED BY <1>1, <1>4, <2>1, <2>3, <2>4, <2>5, <2>6, <2>7
<1> QED BY <1>3, <1>4

\* What each action does to the totals and to the debts of the positions.
LEMMA OpenDebt ==
  ASSUME CdpTypeOK, TotalIsDebt, NEW o \in Users, NEW t \in CdpTypes, Open(o, t)
  PROVE  TotalIsDebt'
<1>1. CdpTypeOK' BY OpenType
<1>2. \A u \in CdpTypes, p \in Users : Owed(cdp'[u][p]) = Owed(cdp[u][p])
  BY TypeParts, CdpAssumption DEF Open, Owed, CdpTable
<1> QED BY <1>1, <1>2, SameDebts DEF Open

LEMMA DrawDebt ==
  ASSUME CdpTypeOK, TotalIsDebt, NEW o \in Users, NEW t \in CdpTypes,
         NEW q \in 1 .. MaxAmount, Draw(o, t, q)
  PROVE  TotalIsDebt'
<1> DEFINE st == stat[Self][t]   it == cdp[t][o]
           row == [it EXCEPT !.stablecoin = it.stablecoin + q]
           srow == [st EXCEPT !.total_stablecoin = @ + q]
<1>1. st # None /\ st \in StatRow /\ it # None /\ it \in CdpRow
  BY StatIn, CdpIn DEF Draw, LiveCdp
<1>2. srow.total_stablecoin = st.total_stablecoin + q BY <1>1 DEF StatRow
<1>3. row # None /\ row.stablecoin = it.stablecoin + q
  BY <1>1, CdpAssumption DEF CdpRow, Draw, InRange
<1>4. srow.total_stablecoin - st.total_stablecoin = Owed(row) - Owed(it)
  BY <1>1, <1>2, <1>3 DEF Owed, StatRow, CdpRow, Amounts
<1>5. stat' = [stat EXCEPT ![Self][t] = srow] /\ cdp' = [cdp EXCEPT ![t][o] = row] BY DEF Draw
<1> HIDE DEF srow, row
<1> QED BY <1>1, <1>4, <1>5, DrawType, OneDebt

LEMMA WipeDebt ==
  ASSUME CdpTypeOK, TotalIsDebt, NEW o \in Users, NEW t \in CdpTypes,
         NEW q \in 1 .. MaxAmount, Wipe(o, t, q)
  PROVE  TotalIsDebt'
<1> DEFINE st == stat[Self][t]   it == cdp[t][o]
           fee == Fee(st.par.stability_fee, it.age, q, feed[IQ].price)
           row == [it EXCEPT !.stablecoin = @ - q]
           srow == [st EXCEPT !.fee_balance = @ + fee, !.total_stablecoin = @ - q]
<1>1. st # None /\ st \in StatRow /\ it # None /\ it \in CdpRow
  BY StatIn, CdpIn DEF Wipe, LiveCdp
<1>2. CdpTypeOK' BY WipeType
<1>3. stat' = [stat EXCEPT ![Self][t] = srow] /\ cdp' = [cdp EXCEPT ![t][o] = row]
  BY DEF Wipe
<1> HIDE DEF fee
<1>4. srow.total_stablecoin = st.total_stablecoin - q BY <1>1 DEF StatRow
<1>5. row.stablecoin = it.stablecoin - q BY <1>1 DEF CdpRow
<1>6. it.stablecoin - q \in Amounts BY <1>1, TablesAssumption DEF Wipe, CdpRow, Amounts
<1>7. row # None BY <1>1, <1>6, CdpAssumption DEF CdpRow
<1>8. srow.total_stablecoin - st.total_stablecoin = Owed(row) - Owed(it)
  BY <1>1, <1>4, <1>5, <1>7 DEF Owed, StatRow, CdpRow, Amounts
<1> HIDE DEF srow, row
<1> QED BY <1>1, <1>2, <1>3, <1>8, OneDebt

\* Locking and freeing collateral leave the debt and its total alone.
LEMMA CollateralDebt ==
  ASSUME CdpTypeOK, CdpTypeOK', TotalIsDebt, NEW o \in Users, NEW t \in CdpTypes,
         NEW q \in Int, LiveCdp(o, t), stat' = MoreCollateral(t, q),
         cdp[t][o].collateral + q \in 0 .. MaxAmount,
         cdp' = [cdp EXCEPT ![t][o] = [cdp[t][o] EXCEPT !.collateral = @ + q]]
  PROVE  TotalIsDebt'
<1> DEFINE st == stat[Self][t]   it == cdp[t][o]
           row == [it EXCEPT !.collateral = @ + q]
           srow == [st EXCEPT !.total_collateral = @ + q]
<1>1. st # None /\ st \in StatRow /\ it # None /\ it \in CdpRow
  BY StatIn, CdpIn DEF LiveCdp
<1>2. srow.total_stablecoin = st.total_stablecoin BY <1>1 DEF StatRow
<1>3. row # None /\ row.stablecoin = it.stablecoin BY <1>1, CdpAssumption DEF CdpRow
<1>4. srow.total_stablecoin - st.total_stablecoin = Owed(row) - Owed(it)
  BY <1>1, <1>2, <1>3 DEF Owed, StatRow, CdpRow, Amounts
<1>5. stat' = [stat EXCEPT ![Self][t] = srow] BY DEF MoreCollateral
<1> HIDE DEF srow
<1> QED BY <1>1, <1>4, <1>5, OneDebt

LEMMA LockDebt ==
  ASSUME CdpTypeOK, TotalIsDebt, NEW o \in Users, NEW t \in CdpTypes,
         NEW q \in 1 .. MaxAmount, Lock(o, t, q)
  PROVE  TotalIsDebt'
<1>1. cdp[t][o] \in CdpRow BY CdpIn DEF Lock, LiveCdp
<1>2. cdp[t][o].collateral + q \in 0 .. MaxAmount
  BY <1>1, TablesAssumption DEF CdpRow, Lock, InRange, Amounts
<1>3. cdp' = [cdp EXCEPT ![t][o] = [cdp[t][o] EXCEPT !.collateral = @ + q]] BY DEF Lock
<1>4. LiveCdp(o, t) /\ stat' = MoreCollateral(t, q) /\ q \in Int BY DEF Lock
<1>5. CdpTypeOK' BY LockType
<1> QED BY <1>2, <1>3, <1>4, <1>5, CollateralDebt

LEMMA BailDebt ==
  ASSUME CdpTypeOK, TotalIsDebt, NEW o \in Users, NEW t \in CdpTypes,
         NEW q \in 1 .. MaxAmount, Bail(o, t, q)
  PROVE  TotalIsDebt'
<1>1. cdp[t][o] \in CdpRow BY CdpIn DEF Bail, LiveCdp
<1>2. cdp[t][o].collateral + (-q) \in 0 .. MaxAmount /\ -q \in Int
  <2>1. cdp[t][o].collateral \in 0 .. MaxAmount BY <1>1 DEF CdpRow
  <2>2. cdp[t][o].collateral > q BY DEF Bail
  <2>3. \A n \in 0 .. MaxAmount : n > q => n + (-q) \in 0 .. MaxAmount
    BY TablesAssumption
  <2> QED BY <2>1, <2>2, <2>3
<1>3. cdp[t][o].collateral - q = cdp[t][o].collateral + (-q) BY <1>1 DEF CdpRow
<1>4. cdp' = [cdp EXCEPT ![t][o] = [cdp[t][o] EXCEPT !.collateral = @ + (-q)]]
  BY <1>3 DEF Bail
<1>5. LiveCdp(o, t) /\ stat' = MoreCollateral(t, -q) BY DEF Bail
<1>6. CdpTypeOK' BY BailType
<1> QED BY <1>2, <1>4, <1>5, <1>6, CollateralDebt

LEMMA ShutDebt ==
  ASSUME CdpTypeOK, TotalIsDebt, NEW o \in Users, NEW t \in CdpTypes, Shut(o, t)
  PROVE  TotalIsDebt'
<1> DEFINE st == stat[Self][t]   it == cdp[t][o]   srow == TotalsAfterShut(st, it)
<1>1. st # None /\ st \in StatRow /\ it # None /\ it \in CdpRow
  BY StatIn, CdpIn DEF Shut, LiveCdp
<1>2. srow.total_stablecoin = st.total_stablecoin - it.stablecoin
  BY <1>1 DEF StatRow, TotalsAfterShut
<1>3. srow.total_stablecoin - st.total_stablecoin = Owed(None) - Owed(it)
  BY <1>1, <1>2 DEF Owed, StatRow, CdpRow, Amounts
<1>4. stat' = [stat EXCEPT ![Self][t] = srow] /\ cdp' = [cdp EXCEPT ![t][o] = None]
  BY DEF Shut
<1> HIDE DEF srow
<1> QED BY <1>1, <1>3, <1>4, ShutType, OneDebt

LEMMA SettleDebt ==
  ASSUME CdpTypeOK, TotalIsDebt, NEW f \in Scopes, NEW t \in CdpTypes, Settle(f, t)
  PROVE  TotalIsDebt'
<1>1. CdpTypeOK' BY SettleType
<1>2. \A u \in CdpTypes : stat'[Self][u] # None =>
        /\ stat[Self][u] # None
        /\ stat'[Self][u].total_stablecoin = stat[Self][u].total_stablecoin
  BY TypeParts, StatIn DEF Settle, StatTable, Scopes, StatRow
<1> QED BY <1>1, <1>2, SameDebts DEF Settle

LEMMA TickDebt ==
  ASSUME CdpTypeOK, TotalIsDebt, CdpTick
  PROVE  TotalIsDebt'
<1>1. CdpTypeOK' BY TickType
<1>2. \A u \in CdpTypes, p \in Users : Owed(cdp'[u][p]) = Owed(cdp[u][p])
  <2> SUFFICES ASSUME NEW u \in CdpTypes, NEW p \in Users
               PROVE  Owed(OlderCdp(cdp[u][p])) = Owed(cdp[u][p])
    BY DEF CdpTick, AgeCdps
  <2>1. CASE cdp[u][p] = None BY <2>1 DEF OlderCdp
  <2>2. CASE cdp[u][p] # None
    <3>1. cdp[u][p] \in CdpRow BY <2>2, CdpIn
    <3>2. OlderCdp(cdp[u][p]) # None BY <3>1, OlderCdpIn, CdpAssumption
    <3> QED BY <2>2, <3>1, <3>2, OlderCdpIn DEF Owed
  <2> QED BY <2>1, <2>2
<1> QED BY <1>1, <1>2, SameDebts DEF CdpTick

LEMMA InitDebt == CdpInit => TotalIsDebt
<1> SUFFICES ASSUME CdpInit, NEW t \in CdpTypes, stat[Self][t] # None
             PROVE  stat[Self][t].total_stablecoin = SumFunctionOnSet(DebtOf(t), Users)
  BY DEF TotalIsDebt
<1>1. \A o \in Users : DebtOf(t)[o] = 0 BY DEF CdpInit, DebtOf, Owed
<1>2. SumFunctionOnSet(DebtOf(t), Users) = 0 BY <1>1, SumZero, TablesAssumption
<1>3. stat[Self][t] = Enacted[t] BY DEF CdpInit, StatInit, Scopes
<1> QED BY <1>2, <1>3, CdpAssumption

LEMMA StepDebt ==
  ASSUME CdpTypeOK, TotalIsDebt, [CdpNext]_cdpVars
  PROVE  TotalIsDebt'
<1>1. CdpTypeOK' BY StepType
<1>2. ASSUME OwnerStep PROVE TotalIsDebt'
  <2>1. PICK o \in Users, t \in CdpTypes :
          \/ Open(o, t)
          \/ Shut(o, t)
          \/ \E q \in ClatrlQty(t) : Lock(o, t, q) \/ Bail(o, t, q)
          \/ \E q \in StablQty(t) : Draw(o, t, q) \/ Wipe(o, t, q)
    BY <1>2 DEF OwnerStep
  <2>2. ClatrlQty(t) \subseteq 1 .. MaxAmount /\ StablQty(t) \subseteq 1 .. MaxAmount
    BY StatIn, CdpAssumption DEF ClatrlQty, StablQty, StatRow
  <2> QED BY <2>1, <2>2, OpenDebt, ShutDebt, LockDebt, BailDebt, DrawDebt, WipeDebt
<1>3. ASSUME UNCHANGED <<stat, cdp>> PROVE TotalIsDebt'
  BY <1>1, <1>3, SameDebts
<1>4. ASSUME BalanceStep PROVE UNCHANGED <<stat, cdp>>
  <2>1. \A o \in Users, c \in Tokens, s \in Symbols : \A q \in Qty[s] :
          Deposit(o, c, s, q) => UNCHANGED <<stat, cdp>>
    BY DEF Deposit
  <2>2. \A o \in Users, s \in Symbols : \A q \in Qty[s] \cup {0} :
          Withdraw(o, s, q) => UNCHANGED <<stat, cdp>>
    BY DEF Withdraw
  <2>3. \A o \in Users, s \in Symbols : Close(o, s) => UNCHANGED <<stat, cdp>>
    BY DEF Close
  <2> QED BY <1>4, <2>1, <2>2, <2>3 DEF BalanceStep
<1>5. ASSUME SettleStep PROVE TotalIsDebt' BY <1>5, SettleDebt DEF SettleStep
<1>6. ASSUME FeedStep PROVE UNCHANGED <<stat, cdp>> BY <1>6 DEF FeedStep, Upfeed
<1>7. ASSUME UNCHANGED cdpVars PROVE UNCHANGED <<stat, cdp>> BY <1>7 DEF cdpVars
<1> QED BY <1>2, <1>3, <1>4, <1>5, <1>6, <1>7, TickDebt DEF CdpNext

\* The total that every type keeps of its stablecoin is exactly the debt of its
\* positions, after any sequence of steps of any number of owners.
THEOREM TotalMatchesDebts == CdpSpec => []TotalIsDebt
<1>1. CdpTypeOK /\ TotalIsDebt /\ [CdpNext]_cdpVars => CdpTypeOK' /\ TotalIsDebt'
  BY StepType, StepDebt
<1> QED BY <1>1, InitType, InitDebt, PTL DEF CdpSpec
-----------------------------------------------------------------------------
(***************************************************************************)
(* Collateral, fees and debts as functions of the tables: p the positions, *)
(* m the types.                                                            *)
(***************************************************************************)
LockedAt(it, st, c, s) ==
  IF it # None /\ it.csym = s /\ st.csym = s /\ st.contract = c THEN it.collateral ELSE 0
LockedIn(p, m, c, s) ==
  [k \in CdpTypes \X Users |-> LockedAt(p[k[1]][k[2]], m[Self][k[1]], c, s)]
Locked(p, m, c, s) == SumFunctionOnSet(LockedIn(p, m, c, s), CdpTypes \X Users)

FeeAt(st, c, s) == IF st # None /\ c = IQContract /\ s = IQ THEN st.fee_balance ELSE 0
FeesIn(m, c, s) == [t \in CdpTypes |-> FeeAt(m[Self][t], c, s)]
Fees(m, c, s) == SumFunctionOnSet(FeesIn(m, c, s), CdpTypes)

DebtAt(it, s) == IF it # None /\ it.ssym = s THEN it.stablecoin ELSE 0
Debts(p, s) ==
  SumFunctionOnSet([k \in CdpTypes \X Users |-> DebtAt(p[k[1]][k[2]], s)], CdpTypes \X Users)

\* The debts of one user in a stablecoin.
OwnDebtsIn(p, o, s) == [t \in CdpTypes |-> DebtAt(p[t][o], s)]
OwnDebts(p, o, s) == SumFunctionOnSet(OwnDebtsIn(p, o, s), CdpTypes)

\* The types of n are those of m, with the same symbols, contract and parameters.
SameTypes(m, n) ==
  \A t \in CdpTypes :
    IF m[Self][t] = None THEN n[Self][t] = None
    ELSE /\ n[Self][t] # None
         /\ n[Self][t].csym = m[Self][t].csym /\ n[Self][t].ssym = m[Self][t].ssym
         /\ n[Self][t].contract = m[Self][t].contract /\ n[Self][t].par = m[Self][t].par

LEMMA PairsFinite == IsFiniteSet(CdpTypes \X Users)
BY FS_Product, TablesAssumption

LEMMA ClaimsParts ==
  ASSUME NEW c, NEW s
  PROVE  /\ Claims(c, s) = Held(acnt, c, s) + Locked(cdp, stat, c, s) + Fees(stat, c, s)
         /\ Claims(c, s)' = Held(acnt', c, s) + Locked(cdp', stat', c, s) + Fees(stat', c, s)
BY DEF Claims, RowsFrom, LockedFrom, FeesFrom, Held, HeldBy, InRow, Locked, LockedIn, LockedAt,
       Fees, FeesIn, FeeAt

LEMMA LockedNat ==
  ASSUME NEW p \in CdpTable, NEW m, NEW c, NEW s
  PROVE  /\ Locked(p, m, c, s) \in Nat
         /\ \A t \in CdpTypes, o \in Users : LockedAt(p[t][o], m[Self][t], c, s) \in Nat
<1> USE TablesAssumption, CdpAssumption
<1>1. \A t \in CdpTypes, o \in Users : LockedAt(p[t][o], m[Self][t], c, s) \in Nat
  BY DEF LockedAt, CdpTable, CdpRow
<1>2. \A k \in CdpTypes \X Users : LockedIn(p, m, c, s)[k] \in Nat BY <1>1 DEF LockedIn
<1> QED BY <1>1, <1>2, SumNat, PairsFinite DEF Locked

LEMMA FeesNat ==
  ASSUME NEW m \in StatTable, NEW c, NEW s
  PROVE  Fees(m, c, s) \in Nat /\ \A t \in CdpTypes : FeeAt(m[Self][t], c, s) \in Nat
<1> USE TablesAssumption
<1>1. \A t \in CdpTypes : FeeAt(m[Self][t], c, s) \in Nat
  BY DEF FeeAt, StatTable, StatRow, Scopes
<1>2. \A t \in CdpTypes : FeesIn(m, c, s)[t] \in Nat BY <1>1 DEF FeesIn
<1> QED BY <1>1, <1>2, SumNat DEF Fees

LEMMA DebtsInt ==
  ASSUME NEW p \in CdpTable, NEW s
  PROVE  /\ \A t \in CdpTypes, o \in Users : DebtAt(p[t][o], s) \in Int
         /\ Debts(p, s) \in Int
         /\ \A o \in Users : OwnDebts(p, o, s) \in Int
<1> USE TablesAssumption
<1>1. \A t \in CdpTypes, o \in Users : DebtAt(p[t][o], s) \in Int
  BY DEF DebtAt, CdpTable, CdpRow, Amounts
<1>2. Debts(p, s) \in Int BY <1>1, SumInt, PairsFinite DEF Debts
<1>3. ASSUME NEW o \in Users PROVE OwnDebts(p, o, s) \in Int
  BY <1>1, SumInt DEF OwnDebts, OwnDebtsIn
<1> QED BY <1>1, <1>2, <1>3

\* What a write to one position, with the types kept, does to the sums.
LEMMA LockedWritten ==
  ASSUME NEW p \in CdpTable, NEW q \in CdpTable, NEW m, NEW n, SameTypes(m, n),
         NEW t \in CdpTypes, NEW o \in Users,
         \A u \in CdpTypes, x \in Users : u # t \/ x # o => q[u][x] = p[u][x],
         NEW c, NEW s
  PROVE  Locked(q, n, c, s) = Locked(p, m, c, s) - LockedAt(p[t][o], m[Self][t], c, s)
                              + LockedAt(q[t][o], m[Self][t], c, s)
<1>1. \A u \in CdpTypes : \A it : LockedAt(it, n[Self][u], c, s) = LockedAt(it, m[Self][u], c, s)
  BY DEF SameTypes, LockedAt
<1> DEFINE f == LockedIn(p, m, c, s)
           g == LockedIn(q, n, c, s)
           a == <<t, o>>
<1>2. \A k \in CdpTypes \X Users : f[k] \in Int /\ g[k] \in Int
  BY LockedNat DEF LockedIn
<1>3. \A k \in (CdpTypes \X Users) \ {a} : g[k] = f[k]
  <2> SUFFICES ASSUME NEW u \in CdpTypes, NEW x \in Users, u # t \/ x # o
               PROVE  g[<<u, x>>] = f[<<u, x>>]
    OBVIOUS
  <2> QED BY <1>1 DEF LockedIn
<1>4. f[a] = LockedAt(p[t][o], m[Self][t], c, s) /\ g[a] = LockedAt(q[t][o], m[Self][t], c, s)
  BY <1>1 DEF LockedIn
<1>5. a \in CdpTypes \X Users OBVIOUS
<1> HIDE DEF f, g, a
<1>6. SumFunctionOnSet(g, CdpTypes \X Users)
        = SumFunctionOnSet(f, CdpTypes \X Users) - f[a] + g[a]
  BY <1>2, <1>3, <1>5, SumUpdate, PairsFinite
<1> QED BY <1>4, <1>6 DEF Locked, f, g

LEMMA DebtsWritten ==
  ASSUME NEW p \in CdpTable, NEW q \in CdpTable, NEW t \in CdpTypes, NEW o \in Users,
         \A u \in CdpTypes, x \in Users : u # t \/ x # o => q[u][x] = p[u][x],
         NEW s
  PROVE  /\ Debts(q, s) = Debts(p, s) - DebtAt(p[t][o], s) + DebtAt(q[t][o], s)
         /\ OwnDebts(q, o, s) = OwnDebts(p, o, s) - DebtAt(p[t][o], s) + DebtAt(q[t][o], s)
         /\ \A x \in Users : x # o => OwnDebts(q, x, s) = OwnDebts(p, x, s)
<1> USE TablesAssumption
<1>1. Debts(q, s) = Debts(p, s) - DebtAt(p[t][o], s) + DebtAt(q[t][o], s)
  <2> DEFINE f == [k \in CdpTypes \X Users |-> DebtAt(p[k[1]][k[2]], s)]
             g == [k \in CdpTypes \X Users |-> DebtAt(q[k[1]][k[2]], s)]
             a == <<t, o>>
  <2>1. \A k \in CdpTypes \X Users : f[k] \in Int /\ g[k] \in Int BY DebtsInt
  <2>2. \A k \in (CdpTypes \X Users) \ {a} : g[k] = f[k]
    <3> SUFFICES ASSUME NEW u \in CdpTypes, NEW x \in Users, u # t \/ x # o
                 PROVE  g[<<u, x>>] = f[<<u, x>>]
      OBVIOUS
    <3> QED OBVIOUS
  <2>3. f[a] = DebtAt(p[t][o], s) /\ g[a] = DebtAt(q[t][o], s) /\ a \in CdpTypes \X Users
    OBVIOUS
  <2> HIDE DEF f, g, a
  <2>4. SumFunctionOnSet(g, CdpTypes \X Users)
          = SumFunctionOnSet(f, CdpTypes \X Users) - f[a] + g[a]
    BY <2>1, <2>2, <2>3, SumUpdate, PairsFinite
  <2> QED BY <2>3, <2>4 DEF Debts, f, g
<1>2. OwnDebts(q, o, s) = OwnDebts(p, o, s) - DebtAt(p[t][o], s) + DebtAt(q[t][o], s)
  <2> DEFINE f == OwnDebtsIn(p, o, s)   g == OwnDebtsIn(q, o, s)
  <2>1. \A u \in CdpTypes : f[u] \in Int /\ g[u] \in Int BY DebtsInt DEF OwnDebtsIn
  <2>2. \A u \in CdpTypes \ {t} : g[u] = f[u] BY DEF OwnDebtsIn
  <2>3. f[t] = DebtAt(p[t][o], s) /\ g[t] = DebtAt(q[t][o], s) BY DEF OwnDebtsIn
  <2> HIDE DEF f, g
  <2>4. SumFunctionOnSet(g, CdpTypes) = SumFunctionOnSet(f, CdpTypes) - f[t] + g[t]
    BY <2>1, <2>2, SumUpdate
  <2> QED BY <2>3, <2>4 DEF OwnDebts, f, g
<1>3. ASSUME NEW x \in Users, x # o PROVE OwnDebts(q, x, s) = OwnDebts(p, x, s)
  <2>1. \A u \in CdpTypes : OwnDebtsIn(q, x, s)[u] = OwnDebtsIn(p, x, s)[u]
    BY <1>3 DEF OwnDebtsIn
  <2> QED BY <2>1, SumEqual DEF OwnDebts
<1> QED BY <1>1, <1>2, <1>3

\* What a write to one type does to the fees collected.
LEMMA FeesWritten ==
  ASSUME NEW m \in StatTable, NEW n \in StatTable, NEW t \in CdpTypes,
         \A u \in CdpTypes : u # t => n[Self][u] = m[Self][u],
         NEW c, NEW s
  PROVE  Fees(n, c, s) = Fees(m, c, s) - FeeAt(m[Self][t], c, s) + FeeAt(n[Self][t], c, s)
<1> USE TablesAssumption
<1> DEFINE f == FeesIn(m, c, s)   g == FeesIn(n, c, s)
<1>1. \A u \in CdpTypes : f[u] \in Int /\ g[u] \in Int BY FeesNat DEF FeesIn
<1>2. \A u \in CdpTypes \ {t} : g[u] = f[u] BY DEF FeesIn
<1>3. f[t] = FeeAt(m[Self][t], c, s) /\ g[t] = FeeAt(n[Self][t], c, s) BY DEF FeesIn
<1> HIDE DEF f, g
<1>4. SumFunctionOnSet(g, CdpTypes) = SumFunctionOnSet(f, CdpTypes) - f[t] + g[t]
  BY <1>1, <1>2, SumUpdate
<1> QED BY <1>3, <1>4 DEF Fees, f, g
-----------------------------------------------------------------------------
(***************************************************************************)
(* What the actions of an owner write: one position and its type.          *)
(***************************************************************************)
\* A live position has the symbols of its type and owes no negative amount.
MatchesType(it, st) ==
  st # None /\ it.csym = st.csym /\ it.ssym = st.ssym /\ it.stablecoin >= 0
LivePositions ==
  \A t \in CdpTypes, o \in Users :
    cdp[t][o] # None /\ cdp[t][o].live => MatchesType(cdp[t][o], stat[Self][t])

\* Nothing but position <<t, o>> and type t is written.
OnlyWrites(t, o) ==
  /\ SameTypes(stat, stat')
  /\ \A u \in CdpTypes : u # t => stat'[Self][u] = stat[Self][u]
  /\ \A u \in CdpTypes, x \in Users : u # t \/ x # o => cdp'[u][x] = cdp[u][x]

\* The collateral and debt of the position move by dc and ds, the fees and the
\* collateral total of the type by df and tc.
Moved(t, o, dc, ds, df, tc) ==
  /\ OnlyWrites(t, o)
  /\ cdp'[t][o] # None
  /\ cdp'[t][o].csym = cdp[t][o].csym /\ cdp'[t][o].ssym = cdp[t][o].ssym
  /\ cdp'[t][o].live = cdp[t][o].live
  /\ cdp'[t][o].collateral = cdp[t][o].collateral + dc
  /\ cdp'[t][o].stablecoin = cdp[t][o].stablecoin + ds
  /\ stat'[Self][t].fee_balance = stat[Self][t].fee_balance + df
  /\ stat'[Self][t].total_collateral = stat[Self][t].total_collateral + tc
  /\ stat'[Self][t].live = stat[Self][t].live

LEMMA Moves ==
  ASSUME CdpTypeOK, CdpTypeOK', NEW o \in Users, NEW t \in CdpTypes, NEW row \in CdpRow,
         NEW srow \in StatRow, stat[Self][t] # None, cdp[t][o] # None,
         stat' = [stat EXCEPT ![Self][t] = srow],
         cdp' = [cdp EXCEPT ![t][o] = row],
         srow.csym = stat[Self][t].csym, srow.ssym = stat[Self][t].ssym,
         srow.contract = stat[Self][t].contract, srow.par = stat[Self][t].par
  PROVE  OnlyWrites(t, o) /\ stat'[Self][t] = srow /\ cdp'[t][o] = row
<1>1. /\ stat'[Self][t] = srow
      /\ \A u \in CdpTypes : u # t => stat'[Self][u] = stat[Self][u]
  BY TypeParts, WrittenAt DEF StatTable, Scopes
<1>2. /\ cdp'[t][o] = row
      /\ \A u \in CdpTypes, p \in Users : u # t \/ p # o => cdp'[u][p] = cdp[u][p]
  BY TypeParts, WrittenAt DEF CdpTable
<1>3. SameTypes(stat, stat')
  <2> SUFFICES ASSUME NEW u \in CdpTypes
               PROVE  IF stat[Self][u] = None THEN stat'[Self][u] = None
                      ELSE /\ stat'[Self][u] # None
                           /\ stat'[Self][u].csym = stat[Self][u].csym
                           /\ stat'[Self][u].ssym = stat[Self][u].ssym
                           /\ stat'[Self][u].contract = stat[Self][u].contract
                           /\ stat'[Self][u].par = stat[Self][u].par
    BY DEF SameTypes
  <2>1. CASE u = t BY <1>1, <2>1, TablesAssumption
  <2>2. CASE u # t BY <1>1, <2>2
  <2> QED BY <2>1, <2>2
<1> QED BY <1>1, <1>2, <1>3 DEF OnlyWrites

LEMMA DrawMoves ==
  ASSUME CdpTypeOK, NEW o \in Users, NEW t \in CdpTypes, NEW q \in 1 .. MaxAmount,
         Draw(o, t, q)
  PROVE  Moved(t, o, 0, q, 0, 0)
<1> DEFINE st == stat[Self][t]   it == cdp[t][o]
           row == [it EXCEPT !.stablecoin = it.stablecoin + q]
           srow == [st EXCEPT !.total_stablecoin = @ + q]
<1>1. st # None /\ st \in StatRow /\ it # None /\ it \in CdpRow
  BY StatIn, CdpIn DEF Draw, LiveCdp
<1>0. srow \in StatRow BY <1>1 DEF StatRow, Draw, InRange
<1>2. /\ srow.csym = st.csym /\ srow.ssym = st.ssym
      /\ srow.contract = st.contract /\ srow.par = st.par /\ srow.live = st.live
      /\ srow.fee_balance = st.fee_balance + 0
      /\ srow.total_collateral = st.total_collateral + 0
  BY <1>1, TablesAssumption DEF StatRow, Amounts
<1>3. /\ row \in CdpRow /\ row.csym = it.csym /\ row.ssym = it.ssym /\ row.live = it.live
      /\ row.collateral = it.collateral + 0 /\ row.stablecoin = it.stablecoin + q
  BY <1>1, TablesAssumption DEF CdpRow, Draw, InRange
<1>4. stat' = [stat EXCEPT ![Self][t] = srow] /\ cdp' = [cdp EXCEPT ![t][o] = row] BY DEF Draw
<1>5. row # None BY <1>3, CdpAssumption
<1>6. CdpTypeOK' BY DrawType
<1> HIDE DEF srow, row
<1>7. OnlyWrites(t, o) /\ stat'[Self][t] = srow /\ cdp'[t][o] = row
  BY <1>0, <1>1, <1>2, <1>3, <1>4, <1>6, Moves
<1> HIDE DEF st, it
<1> QED BY <1>2, <1>3, <1>5, <1>7 DEF Moved, st, it

\* The fee that wipe takes.
FeeOf(o, t, q) == Fee(stat[Self][t].par.stability_fee, cdp[t][o].age, q, feed[IQ].price)

LEMMA FeeOfNat ==
  ASSUME CdpTypeOK, NEW o \in Users, NEW t \in CdpTypes, NEW q \in 1 .. MaxAmount,
         Wipe(o, t, q)
  PROVE  FeeOf(o, t, q) \in Nat
<1> USE TablesAssumption, CdpAssumption
<1> DEFINE st == stat[Self][t]   it == cdp[t][o]
<1>1. st \in StatRow /\ it \in CdpRow BY StatIn, CdpIn DEF Wipe, LiveCdp
<1>2. feed[IQ] \in FeedRow /\ feed[IQ].price # 0 BY TypeParts DEF Wipe, FeedTable
<1>3. feed[IQ].price \in Nat \ {0} BY <1>2 DEF FeedRow
<1>4. st.par \in ParamType /\ it.age \in Nat BY <1>1 DEF StatRow, CdpRow
<1>5. st.par.stability_fee \in Nat /\ q \in Nat BY <1>4 DEF ParamType
<1> QED BY <1>3, <1>4, <1>5, FeeNat DEF FeeOf

LEMMA WipeMoves ==
  ASSUME CdpTypeOK, NEW o \in Users, NEW t \in CdpTypes, NEW q \in 1 .. MaxAmount,
         Wipe(o, t, q)
  PROVE  Moved(t, o, 0, -q, FeeOf(o, t, q), 0)
<1> DEFINE st == stat[Self][t]   it == cdp[t][o]
           fee == FeeOf(o, t, q)
           row == [it EXCEPT !.stablecoin = @ - q]
           srow == [st EXCEPT !.fee_balance = @ + fee, !.total_stablecoin = @ - q]
<1>1. st # None /\ st \in StatRow /\ it # None /\ it \in CdpRow
  BY StatIn, CdpIn DEF Wipe, LiveCdp
<1>4. /\ stat' = [stat EXCEPT ![Self][t] = srow] /\ cdp' = [cdp EXCEPT ![t][o] = row]
      /\ InRange(st.fee_balance + fee) /\ InRange(st.total_stablecoin - q)
      /\ it.stablecoin > q
  BY DEF Wipe, FeeOf
<1>a. fee \in Nat BY FeeOfNat
<1> HIDE DEF fee
<1>b. st.fee_balance + fee \in 0 .. MaxAmount
  BY <1>1, <1>4, <1>a DEF StatRow, InRange, Amounts
<1>0. srow \in StatRow BY <1>1, <1>4, <1>b DEF StatRow, InRange
<1>2. /\ srow.csym = st.csym /\ srow.ssym = st.ssym
      /\ srow.contract = st.contract /\ srow.par = st.par /\ srow.live = st.live
      /\ srow.fee_balance = st.fee_balance + fee
      /\ srow.total_collateral = st.total_collateral + 0
  BY <1>1, TablesAssumption DEF StatRow, Amounts
<1>c. it.stablecoin - q \in Amounts BY <1>1, <1>4, TablesAssumption DEF CdpRow, Amounts
<1>3. /\ row \in CdpRow /\ row.csym = it.csym /\ row.ssym = it.ssym /\ row.live = it.live
      /\ row.collateral = it.collateral + 0 /\ row.stablecoin = it.stablecoin + (-q)
  BY <1>1, <1>c, TablesAssumption DEF CdpRow, Amounts
<1>5. row # None BY <1>3, CdpAssumption
<1>6. CdpTypeOK' BY WipeType
<1> HIDE DEF srow, row
<1>7. OnlyWrites(t, o) /\ stat'[Self][t] = srow /\ cdp'[t][o] = row
  BY <1>0, <1>1, <1>2, <1>3, <1>4, <1>6, Moves
<1> HIDE DEF st, it
<1> QED BY <1>2, <1>3, <1>5, <1>7 DEF Moved, st, it, fee

\* More collateral in a position and in the total of a type.
MoreIn(it, q) == [it EXCEPT !.collateral = @ + q]
MoreTotal(st, q) == [st EXCEPT !.total_collateral = @ + q]

LEMMA CollateralMoves ==
  ASSUME CdpTypeOK, CdpTypeOK', NEW o \in Users, NEW t \in CdpTypes,
         NEW q \in Int, LiveCdp(o, t),
         InRange(stat[Self][t].total_collateral + q),
         cdp[t][o].collateral + q \in 0 .. MaxAmount,
         stat' = [stat EXCEPT ![Self][t] = MoreTotal(stat[Self][t], q)],
         cdp' = [cdp EXCEPT ![t][o] = MoreIn(cdp[t][o], q)]
  PROVE  Moved(t, o, q, 0, 0, q)
<1> DEFINE st == stat[Self][t]   it == cdp[t][o]
           row == MoreIn(it, q)
           srow == MoreTotal(st, q)
<1>1. st # None /\ st \in StatRow /\ it # None /\ it \in CdpRow
  BY StatIn, CdpIn DEF LiveCdp
<1>2. /\ srow \in StatRow /\ srow.csym = st.csym /\ srow.ssym = st.ssym
      /\ srow.contract = st.contract /\ srow.par = st.par /\ srow.live = st.live
      /\ srow.fee_balance = st.fee_balance + 0
      /\ srow.total_collateral = st.total_collateral + q
  BY <1>1 DEF StatRow, InRange, Amounts, MoreTotal
<1>3. /\ row \in CdpRow /\ row.csym = it.csym /\ row.ssym = it.ssym /\ row.live = it.live
      /\ row.collateral = it.collateral + q /\ row.stablecoin = it.stablecoin + 0
  BY <1>1, TablesAssumption DEF CdpRow, Amounts, MoreIn
<1>5. row # None BY <1>3, CdpAssumption
<1>7. OnlyWrites(t, o) /\ stat'[Self][t] = srow /\ cdp'[t][o] = row
  BY <1>1, <1>2, <1>3, Moves
<1> HIDE DEF st, it, row, srow
<1> QED BY <1>2, <1>3, <1>5, <1>7 DEF Moved, st, it

LEMMA LockMoves ==
  ASSUME CdpTypeOK, NEW o \in Users, NEW t \in CdpTypes, NEW q \in 1 .. MaxAmount,
         Lock(o, t, q)
  PROVE  Moved(t, o, q, 0, 0, q)
<1>1. cdp[t][o] \in CdpRow BY CdpIn DEF Lock, LiveCdp
<1>2. cdp[t][o].collateral + q \in 0 .. MaxAmount
  BY <1>1, TablesAssumption DEF CdpRow, Lock, InRange, Amounts
<1>3. cdp' = [cdp EXCEPT ![t][o] = MoreIn(cdp[t][o], q)] BY DEF Lock, MoreIn
<1>4. /\ LiveCdp(o, t) /\ q \in Int /\ InRange(stat[Self][t].total_collateral + q)
      /\ stat' = [stat EXCEPT ![Self][t] = MoreTotal(stat[Self][t], q)]
  BY DEF Lock, MoreCollateral, MoreTotal
<1>5. CdpTypeOK' BY LockType
<1> QED BY <1>2, <1>3, <1>4, <1>5, CollateralMoves

LEMMA BailMoves ==
  ASSUME CdpTypeOK, NEW o \in Users, NEW t \in CdpTypes, NEW q \in 1 .. MaxAmount,
         Bail(o, t, q)
  PROVE  Moved(t, o, -q, 0, 0, -q)
<1>1. cdp[t][o] \in CdpRow /\ stat[Self][t] \in StatRow
  BY CdpIn, StatIn DEF Bail, LiveCdp
<1>2. cdp[t][o].collateral + (-q) \in 0 .. MaxAmount /\ -q \in Int
  <2>1. cdp[t][o].collateral \in 0 .. MaxAmount BY <1>1 DEF CdpRow
  <2>2. cdp[t][o].collateral > q BY DEF Bail
  <2>3. \A n \in 0 .. MaxAmount : n > q => n + (-q) \in 0 .. MaxAmount
    BY TablesAssumption
  <2> QED BY <2>1, <2>2, <2>3
<1>3. cdp[t][o].collateral - q = cdp[t][o].collateral + (-q) BY <1>1 DEF CdpRow
<1>4. cdp' = [cdp EXCEPT ![t][o] = MoreIn(cdp[t][o], -q)] BY <1>3 DEF Bail, MoreIn
<1>5. /\ LiveCdp(o, t)
      /\ stat' = [stat EXCEPT ![Self][t] = MoreTotal(stat[Self][t], -q)]
  BY DEF Bail, MoreCollateral, MoreTotal
<1>6. CdpTypeOK' BY BailType
<1>7. InRange(stat[Self][t].total_collateral + (-q)) BY <1>1 DEF Bail, StatRow, Amounts
<1> QED BY <1>2, <1>4, <1>5, <1>6, <1>7, CollateralMoves

\* What moving a live position does to the sums.
LEMMA MovedSums ==
  ASSUME CdpTypeOK, CdpTypeOK', NEW t \in CdpTypes, NEW o \in Users,
         NEW dc \in Int, NEW ds \in Int, NEW df \in Int, NEW tc \in Int,
         Moved(t, o, dc, ds, df, tc), cdp[t][o] # None,
         MatchesType(cdp[t][o], stat[Self][t]), NEW c, NEW s
  PROVE  /\ Locked(cdp', stat', c, s) = Locked(cdp, stat, c, s)
              + (IF s = stat[Self][t].csym /\ c = stat[Self][t].contract THEN dc ELSE 0)
         /\ Fees(stat', c, s) = Fees(stat, c, s)
              + (IF c = IQContract /\ s = IQ THEN df ELSE 0)
<1> DEFINE st == stat[Self][t]   it == cdp[t][o]   jt == cdp'[t][o]
<1>1. /\ cdp \in CdpTable /\ cdp' \in CdpTable /\ stat \in StatTable /\ stat' \in StatTable
  BY TypeParts, TypePartsNext
<1>2. /\ SameTypes(stat, stat')
      /\ \A u \in CdpTypes : u # t => stat'[Self][u] = stat[Self][u]
      /\ \A u \in CdpTypes, x \in Users : u # t \/ x # o => cdp'[u][x] = cdp[u][x]
  BY DEF Moved, OnlyWrites
<1>3. it \in CdpRow /\ jt \in CdpRow /\ jt # None /\ st \in StatRow /\ st # None
  BY <1>1, CdpIn, StatIn DEF CdpTable, Moved, MatchesType
<1>4. stat'[Self][t] # None BY <1>2, <1>3 DEF SameTypes
<1>5. /\ it.csym = st.csym /\ jt.csym = st.csym
      /\ jt.collateral = it.collateral + dc
      /\ stat'[Self][t].fee_balance = st.fee_balance + df
  BY DEF Moved, MatchesType
<1>6. it.collateral \in Int /\ st.fee_balance \in Int
  BY <1>3, TablesAssumption DEF CdpRow, StatRow
<1>7. Locked(cdp', stat', c, s) = Locked(cdp, stat, c, s) - LockedAt(it, st, c, s)
                                  + LockedAt(jt, st, c, s)
  BY <1>1, <1>2, LockedWritten
<1>8. LockedAt(jt, st, c, s) = LockedAt(it, st, c, s)
        + (IF s = st.csym /\ c = st.contract THEN dc ELSE 0)
  BY <1>3, <1>5, <1>6 DEF LockedAt
<1>9. Locked(cdp, stat, c, s) \in Int /\ LockedAt(it, st, c, s) \in Int
  <2>1. Locked(cdp, stat, c, s) \in Nat BY <1>1, LockedNat
  <2>2. \A u \in CdpTypes, x \in Users : LockedAt(cdp[u][x], stat[Self][u], c, s) \in Nat
    BY <1>1, LockedNat
  <2> QED BY <2>1, <2>2
<1>10. Fees(stat', c, s) = Fees(stat, c, s) - FeeAt(st, c, s) + FeeAt(stat'[Self][t], c, s)
  BY <1>1, <1>2, FeesWritten
<1>11. FeeAt(stat'[Self][t], c, s) = FeeAt(st, c, s)
         + (IF c = IQContract /\ s = IQ THEN df ELSE 0)
  BY <1>3, <1>4, <1>5, <1>6 DEF FeeAt
<1>12. Fees(stat, c, s) \in Int /\ FeeAt(st, c, s) \in Int BY <1>1, FeesNat
<1> HIDE DEF st, it, jt
<1>13. Locked(cdp', stat', c, s) = Locked(cdp, stat, c, s)
         + (IF s = st.csym /\ c = st.contract THEN dc ELSE 0)
  BY <1>7, <1>8, <1>9
<1>14. Fees(stat', c, s) = Fees(stat, c, s) + (IF c = IQContract /\ s = IQ THEN df ELSE 0)
  BY <1>10, <1>11, <1>12
<1> QED BY <1>13, <1>14 DEF st

LEMMA MovedDebts ==
  ASSUME CdpTypeOK, CdpTypeOK', NEW t \in CdpTypes, NEW o \in Users,
         NEW dc \in Int, NEW ds \in Int, NEW df \in Int, NEW tc \in Int,
         Moved(t, o, dc, ds, df, tc), cdp[t][o] # None,
         MatchesType(cdp[t][o], stat[Self][t]), NEW s, NEW x \in Users
  PROVE  /\ Debts(cdp', s) = Debts(cdp, s) + (IF s = stat[Self][t].ssym THEN ds ELSE 0)
         /\ OwnDebts(cdp', x, s) = OwnDebts(cdp, x, s)
              + (IF x = o /\ s = stat[Self][t].ssym THEN ds ELSE 0)
<1> DEFINE st == stat[Self][t]   it == cdp[t][o]   jt == cdp'[t][o]
<1>1. cdp \in CdpTable /\ cdp' \in CdpTable BY TypeParts, TypePartsNext
<1>2. it \in CdpRow /\ jt # None BY <1>1, CdpIn DEF CdpTable, Moved
<1>3. /\ it.ssym = st.ssym /\ jt.ssym = st.ssym /\ jt.stablecoin = it.stablecoin + ds
      /\ it.stablecoin \in Int
  BY <1>2, TablesAssumption DEF Moved, MatchesType, CdpRow, Amounts
<1>4. DebtAt(jt, s) = DebtAt(it, s) + (IF s = st.ssym THEN ds ELSE 0)
  BY <1>2, <1>3 DEF DebtAt
<1>5. /\ Debts(cdp', s) = Debts(cdp, s) - DebtAt(it, s) + DebtAt(jt, s)
      /\ OwnDebts(cdp', o, s) = OwnDebts(cdp, o, s) - DebtAt(it, s) + DebtAt(jt, s)
      /\ \A y \in Users : y # o => OwnDebts(cdp', y, s) = OwnDebts(cdp, y, s)
  BY <1>1, DebtsWritten DEF Moved, OnlyWrites
<1>6. /\ DebtAt(it, s) \in Int /\ Debts(cdp, s) \in Int
      /\ \A y \in Users : OwnDebts(cdp, y, s) \in Int
  BY <1>1, DebtsInt
<1> HIDE DEF st, it, jt
<1>7. Debts(cdp', s) = Debts(cdp, s) + (IF s = st.ssym THEN ds ELSE 0)
  BY <1>4, <1>5, <1>6
<1>8. OwnDebts(cdp', x, s) = OwnDebts(cdp, x, s) + (IF x = o /\ s = st.ssym THEN ds ELSE 0)
  BY <1>4, <1>5, <1>6
<1> QED BY <1>7, <1>8 DEF st

-----------------------------------------------------------------------------
(***************************************************************************)
(* What each action does to the claims on a token and to what is held.     *)
(***************************************************************************)
\* IQ rows are in IQ of the right contract, and so is locked IQ.
IQRows == \A o \in Users : acnt[IQ][o] # None => acnt[IQ][o].code = IQContract
IQLocked ==
  \A t \in CdpTypes, o \in Users :
    cdp[t][o] # None /\ cdp[t][o].collateral > 0 /\ cdp[t][o].csym = IQ
    /\ stat[Self][t] # None /\ stat[Self][t].csym = IQ => stat[Self][t].contract = IQContract

\* The claims on s of c fall by x more than what the contract holds of it.
ClaimsFall(c, s, x) == Claims(c, s)' - vault'[c][s] = Claims(c, s) - vault[c][s] - x

\* What is taken off rows of contract c when o pays q in s.
OffRow(o, r, q, c, s) == IF s = r /\ acnt[r][o].code = c THEN q ELSE 0

LEMMA ClaimsInt ==
  ASSUME CdpTypeOK, NEW c \in Tokens, NEW s \in Symbols
  PROVE  /\ Held(acnt, c, s) \in Int /\ Locked(cdp, stat, c, s) \in Int
         /\ Fees(stat, c, s) \in Int /\ vault[c][s] \in Int
<1>1. /\ stat \in StatTable /\ acnt \in Accounts /\ cdp \in CdpTable /\ vault \in Vaults
  BY TypeParts
<1>2. vault[c][s] \in Int BY <1>1, TablesAssumption DEF Vaults
<1> QED BY <1>1, <1>2, HeldNat, LockedNat, FeesNat

LEMMA LockClaims ==
  ASSUME CdpTypeOK, LivePositions, NEW o \in Users, NEW t \in CdpTypes,
         NEW q \in 1 .. MaxAmount, Lock(o, t, q), NEW c \in Tokens, NEW s \in Symbols
  PROVE  ClaimsFall(c, s, 0)
<1> DEFINE st == stat[Self][t]
<1>1. cdp[t][o] # None /\ cdp[t][o].live /\ MatchesType(cdp[t][o], st)
  BY DEF Lock, LiveCdp, LivePositions
<1>2. st \in StatRow /\ st.csym \in Symbols BY <1>1, StatIn DEF MatchesType, StatRow
<1>3. CdpTypeOK' /\ Moved(t, o, q, 0, 0, q) /\ q \in Int BY LockType, LockMoves
<1>4. Locked(cdp', stat', c, s) = Locked(cdp, stat, c, s)
        + (IF s = st.csym /\ c = st.contract THEN q ELSE 0)
      /\ Fees(stat', c, s) = Fees(stat, c, s) + (IF c = IQContract /\ s = IQ THEN 0 ELSE 0)
  BY <1>1, <1>3, MovedSums
<1>5. /\ CanDebit(acnt, o, st.csym, q) /\ acnt' = Debit(acnt, o, st.csym, q)
      /\ acnt[st.csym][o].code = st.contract /\ vault' = vault
  BY DEF Lock, PaidByContract
<1>6. acnt \in Accounts /\ q \in Nat BY TypeParts
<1> HIDE DEF st
<1>7. Held(acnt', c, s)
        = Held(acnt, c, s) - (IF s = st.csym /\ st.contract = c THEN q ELSE 0)
  BY <1>2, <1>5, <1>6, DebitHeld
<1> QED BY <1>4, <1>5, <1>7, ClaimsParts, ClaimsInt DEF ClaimsFall

LEMMA BailClaims ==
  ASSUME CdpTypeOK, LivePositions, NEW o \in Users, NEW t \in CdpTypes,
         NEW q \in 1 .. MaxAmount, Bail(o, t, q), NEW c \in Tokens, NEW s \in Symbols
  PROVE  ClaimsFall(c, s, 0)
<1> DEFINE st == stat[Self][t]
<1>1. cdp[t][o] # None /\ cdp[t][o].live /\ MatchesType(cdp[t][o], st)
  BY DEF Bail, LiveCdp, LivePositions
<1>2. st \in StatRow /\ st.csym \in Symbols /\ st.contract \in Codes
  BY <1>1, StatIn DEF MatchesType, StatRow, Codes
<1>3. CdpTypeOK' /\ Moved(t, o, -q, 0, 0, -q) /\ -q \in Int BY BailType, BailMoves
<1>4. Locked(cdp', stat', c, s) = Locked(cdp, stat, c, s)
        + (IF s = st.csym /\ c = st.contract THEN -q ELSE 0)
      /\ Fees(stat', c, s) = Fees(stat, c, s) + (IF c = IQContract /\ s = IQ THEN 0 ELSE 0)
  BY <1>1, <1>3, MovedSums
<1>5. /\ CanCredit(acnt, o, st.csym, q, st.contract)
      /\ acnt' = Credit(acnt, o, st.csym, q, st.contract) /\ vault' = vault
  BY DEF Bail
<1>6. acnt \in Accounts /\ q \in 0 .. MaxAmount BY TypeParts, TablesAssumption
<1> HIDE DEF st
<1>7. Held(acnt', c, s)
        = Held(acnt, c, s) + (IF s = st.csym /\ st.contract = c THEN q ELSE 0)
  BY <1>2, <1>5, <1>6, CreditHeld
<1> QED BY <1>4, <1>5, <1>7, ClaimsParts, ClaimsInt DEF ClaimsFall

LEMMA DrawClaims ==
  ASSUME CdpTypeOK, LivePositions, NEW o \in Users, NEW t \in CdpTypes,
         NEW q \in 1 .. MaxAmount, Draw(o, t, q), NEW c \in Tokens, NEW s \in Symbols
  PROVE  ClaimsFall(c, s, 0)
<1> DEFINE st == stat[Self][t]
<1>1. cdp[t][o] # None /\ cdp[t][o].live /\ MatchesType(cdp[t][o], st)
  BY DEF Draw, LiveCdp, LivePositions
<1>2. st \in StatRow /\ st.ssym \in Symbols /\ Self \in Codes
  BY <1>1, StatIn DEF MatchesType, StatRow, Codes
<1>3. CdpTypeOK' /\ Moved(t, o, 0, q, 0, 0) BY DrawType, DrawMoves
<1>4. Locked(cdp', stat', c, s) = Locked(cdp, stat, c, s)
        + (IF s = st.csym /\ c = st.contract THEN 0 ELSE 0)
      /\ Fees(stat', c, s) = Fees(stat, c, s) + (IF c = IQContract /\ s = IQ THEN 0 ELSE 0)
  BY <1>1, <1>3, MovedSums
<1>5. /\ CanCredit(acnt, o, st.ssym, q, Self)
      /\ acnt' = Credit(acnt, o, st.ssym, q, Self) /\ vault' = vault
  BY DEF Draw
<1>6. acnt \in Accounts /\ q \in 0 .. MaxAmount /\ Self # c BY TypeParts, TablesAssumption
<1> HIDE DEF st
<1>7. Held(acnt', c, s)
        = Held(acnt, c, s) + (IF s = st.ssym /\ Self = c THEN q ELSE 0)
  BY <1>2, <1>5, <1>6, CreditHeld
<1> QED BY <1>4, <1>5, <1>6, <1>7, ClaimsParts, ClaimsInt DEF ClaimsFall

\* What wipe takes off the rows of any contract: the fee and the repayment.
LEMMA WipeHeld ==
  ASSUME CdpTypeOK, NEW o \in Users, NEW t \in CdpTypes,
         NEW q \in 1 .. MaxAmount, Wipe(o, t, q), NEW c, NEW s \in Symbols
  PROVE  /\ Held(acnt', c, s) = Held(acnt, c, s) - OffRow(o, IQ, FeeOf(o, t, q), c, s)
                                - OffRow(o, stat[Self][t].ssym, q, c, s)
         /\ InRow(acnt'[s][o], c) = InRow(acnt[s][o], c) - OffRow(o, IQ, FeeOf(o, t, q), c, s)
                                     - OffRow(o, stat[Self][t].ssym, q, c, s)
         /\ \A p \in Users : p # o => InRow(acnt'[s][p], c) = InRow(acnt[s][p], c)
<1> DEFINE r == stat[Self][t].ssym   fee == FeeOf(o, t, q)   paid == Debit(acnt, o, IQ, fee)
<1>1. /\ CanDebit(acnt, o, IQ, fee) /\ CanDebit(paid, o, r, q)
      /\ acnt' = Debit(paid, o, r, q)
  BY DEF Wipe, FeeOf
<1>2. fee \in Nat /\ q \in Nat BY FeeOfNat
<1>3. acnt \in Accounts /\ r \in Symbols /\ IQ \in Symbols
  BY TypeParts, StatIn, TablesAssumption DEF StatRow, Wipe, LiveCdp
<1> HIDE DEF r, fee
<1>4. paid \in Accounts BY <1>1, <1>2, <1>3, DebitType
<1>5. /\ Held(paid, c, s) = Held(acnt, c, s) - OffRow(o, IQ, fee, c, s)
      /\ \A p \in Users : p = o =>
           InRow(paid[s][p], c) = InRow(acnt[s][p], c) - OffRow(o, IQ, fee, c, s)
      /\ \A p \in Users : p # o => InRow(paid[s][p], c) = InRow(acnt[s][p], c)
  <2>1. Held(paid, c, s)
          = Held(acnt, c, s) - (IF s = IQ /\ acnt[IQ][o].code = c THEN fee ELSE 0)
    BY <1>1, <1>2, <1>3, DebitHeld
  <2>2. ASSUME NEW p \in Users
        PROVE  /\ s = IQ /\ p = o /\ acnt[IQ][o].code = c =>
                    InRow(paid[s][p], c) = InRow(acnt[s][p], c) - fee
               /\ ~(s = IQ /\ p = o /\ acnt[IQ][o].code = c) =>
                    InRow(paid[s][p], c) = InRow(acnt[s][p], c)
    BY <1>1, <1>2, <1>3, DebitInRow
  <2>3. Held(acnt, c, s) \in Nat BY <1>3, HeldNat
  <2>4. \A p \in Users : InRow(acnt[s][p], c) \in Nat BY <1>3, HeldNat
  <2> QED BY <2>1, <2>2, <2>3, <2>4 DEF OffRow
<1>6. paid[r][o] # None /\ paid[r][o].code = acnt[r][o].code
  BY <1>1, <1>2, <1>3, DebitRows DEF CanDebit
<1> HIDE DEF paid
<1>7. /\ Held(acnt', c, s) = Held(paid, c, s) - OffRow(o, r, q, c, s)
      /\ \A p \in Users : p = o =>
           InRow(acnt'[s][p], c) = InRow(paid[s][p], c) - OffRow(o, r, q, c, s)
      /\ \A p \in Users : p # o => InRow(acnt'[s][p], c) = InRow(paid[s][p], c)
  <2>1. Held(acnt', c, s)
          = Held(paid, c, s) - (IF s = r /\ paid[r][o].code = c THEN q ELSE 0)
    BY <1>1, <1>2, <1>3, <1>4, DebitHeld
  <2>2. ASSUME NEW p \in Users
        PROVE  /\ s = r /\ p = o /\ paid[r][o].code = c =>
                    InRow(acnt'[s][p], c) = InRow(paid[s][p], c) - q
               /\ ~(s = r /\ p = o /\ paid[r][o].code = c) =>
                    InRow(acnt'[s][p], c) = InRow(paid[s][p], c)
    BY <1>1, <1>2, <1>3, <1>4, DebitInRow
  <2>3. Held(paid, c, s) \in Nat BY <1>4, HeldNat
  <2>4. \A p \in Users : InRow(paid[s][p], c) \in Nat BY <1>4, HeldNat
  <2> QED BY <1>6, <2>1, <2>2, <2>3, <2>4 DEF OffRow
<1>9. InRow(acnt'[s][o], c)
        = InRow(acnt[s][o], c) - OffRow(o, IQ, fee, c, s) - OffRow(o, r, q, c, s)
  BY <1>5, <1>7
<1> QED BY <1>5, <1>7, <1>9 DEF r, fee

LEMMA WipeClaims ==
  ASSUME CdpTypeOK, LivePositions, NEW o \in Users, NEW t \in CdpTypes,
         NEW q \in 1 .. MaxAmount, Wipe(o, t, q), NEW c \in Tokens, NEW s \in Symbols,
         s # IQ \/ IQRows
  PROVE  ClaimsFall(c, s, OffRow(o, stat[Self][t].ssym, q, c, s))
<1> DEFINE st == stat[Self][t]   fee == FeeOf(o, t, q)
<1>1. cdp[t][o] # None /\ cdp[t][o].live /\ MatchesType(cdp[t][o], st)
  BY DEF Wipe, LiveCdp, LivePositions
<1>2. fee \in Nat BY FeeOfNat
<1>3. CdpTypeOK' /\ Moved(t, o, 0, -q, fee, 0) /\ -q \in Int BY WipeType, WipeMoves
<1>4. Locked(cdp', stat', c, s) = Locked(cdp, stat, c, s)
        + (IF s = st.csym /\ c = st.contract THEN 0 ELSE 0)
      /\ Fees(stat', c, s) = Fees(stat, c, s) + (IF c = IQContract /\ s = IQ THEN fee ELSE 0)
  BY <1>1, <1>2, <1>3, MovedSums
<1>5. acnt[IQ][o] # None /\ vault' = vault BY DEF Wipe, CanDebit
<1>6. Held(acnt', c, s) = Held(acnt, c, s) - OffRow(o, IQ, fee, c, s) - OffRow(o, st.ssym, q, c, s)
  BY WipeHeld
<1>7. OffRow(o, IQ, fee, c, s) = IF c = IQContract /\ s = IQ THEN fee ELSE 0
  BY <1>5 DEF OffRow, IQRows
<1>8. OffRow(o, st.ssym, q, c, s) \in Int BY DEF OffRow
<1> HIDE DEF st, fee
<1> QED BY <1>2, <1>4, <1>5, <1>6, <1>7, <1>8, ClaimsParts, ClaimsInt DEF ClaimsFall, st

LEMMA OpenWrites ==
  ASSUME CdpTypeOK, NEW o \in Users, NEW t \in CdpTypes, Open(o, t)
  PROVE  /\ stat[Self][t] # None /\ cdp[t][o] = None
         /\ SameTypes(stat, stat') /\ stat' = stat
         /\ \A u \in CdpTypes, x \in Users : u # t \/ x # o => cdp'[u][x] = cdp[u][x]
         /\ cdp'[t][o] # None /\ cdp'[t][o].live
         /\ cdp'[t][o].collateral = 0 /\ cdp'[t][o].stablecoin = 0
         /\ cdp'[t][o].csym = stat[Self][t].csym /\ cdp'[t][o].ssym = stat[Self][t].ssym
<1> DEFINE row == [age |-> 0, collateral |-> 0, csym |-> stat[Self][t].csym,
                   stablecoin |-> 0, ssym |-> stat[Self][t].ssym, live |-> TRUE]
<1>1. cdp' = [cdp EXCEPT ![t][o] = row] /\ cdp \in CdpTable BY TypeParts DEF Open
<1>2. /\ row.live /\ row.collateral = 0 /\ row.stablecoin = 0
      /\ row.csym = stat[Self][t].csym /\ row.ssym = stat[Self][t].ssym
  OBVIOUS
<1> HIDE DEF row
<1>3. /\ cdp'[t][o] = row
      /\ \A u \in CdpTypes, x \in Users : u # t \/ x # o => cdp'[u][x] = cdp[u][x]
  BY <1>1, WrittenAt DEF CdpTable
<1>4. row # None
  <2>1. row \in CdpRow
    <3>1. stat[Self][t] \in StatRow BY StatIn DEF Open
    <3>2. 0 \in 0 .. MaxAge /\ 0 \in 0 .. MaxAmount /\ 0 \in Amounts
      BY TablesAssumption, CdpAssumption DEF Amounts
    <3> QED BY <3>1, <3>2 DEF row, CdpRow, StatRow
  <2> QED BY <2>1, CdpAssumption
<1>5. SameTypes(stat, stat') BY DEF SameTypes, Open
<1> QED BY <1>2, <1>3, <1>4, <1>5 DEF Open

LEMMA OpenClaims ==
  ASSUME CdpTypeOK, NEW o \in Users, NEW t \in CdpTypes, Open(o, t),
         NEW c \in Tokens, NEW s \in Symbols
  PROVE  ClaimsFall(c, s, 0)
<1>1. CdpTypeOK' BY OpenType
<1>2. cdp \in CdpTable /\ cdp' \in CdpTable BY <1>1, TypeParts, TypePartsNext
<1>3. Locked(cdp', stat', c, s) = Locked(cdp, stat, c, s)
        - LockedAt(cdp[t][o], stat[Self][t], c, s) + LockedAt(cdp'[t][o], stat[Self][t], c, s)
  BY <1>2, OpenWrites, LockedWritten
<1>4. LockedAt(cdp[t][o], stat[Self][t], c, s) = 0 /\ LockedAt(cdp'[t][o], stat[Self][t], c, s) = 0
  BY OpenWrites DEF LockedAt
<1>5. acnt' = acnt /\ stat' = stat /\ vault' = vault BY DEF Open
<1> QED BY <1>3, <1>4, <1>5, ClaimsParts, ClaimsInt DEF ClaimsFall

LEMMA ShutWrites ==
  ASSUME CdpTypeOK, NEW o \in Users, NEW t \in CdpTypes, Shut(o, t)
  PROVE  /\ OnlyWrites(t, o) /\ cdp'[t][o] = None
         /\ stat'[Self][t].fee_balance = stat[Self][t].fee_balance
         /\ stat'[Self][t].total_collateral = stat[Self][t].total_collateral + cdp[t][o].collateral
         /\ stat'[Self][t].live = stat[Self][t].live
<1> USE TablesAssumption
<1> DEFINE st == stat[Self][t]   it == cdp[t][o]   srow == TotalsAfterShut(st, it)
<1>1. st # None /\ st \in StatRow /\ it # None /\ it \in CdpRow
  BY StatIn, CdpIn DEF Shut, LiveCdp
<1>2. /\ srow \in StatRow /\ srow.csym = st.csym /\ srow.ssym = st.ssym
      /\ srow.contract = st.contract /\ srow.par = st.par /\ srow.live = st.live
      /\ srow.fee_balance = st.fee_balance
      /\ srow.total_collateral = st.total_collateral + it.collateral
  BY <1>1 DEF StatRow, TotalsAfterShut, Shut, InRange
<1>3. stat' = [stat EXCEPT ![Self][t] = srow] /\ cdp' = [cdp EXCEPT ![t][o] = None]
  BY DEF Shut
<1> HIDE DEF srow
<1>4. /\ stat'[Self][t] = srow
      /\ \A u \in CdpTypes : u # t => stat'[Self][u] = stat[Self][u]
  BY <1>3, TypeParts, WrittenAt DEF StatTable, Scopes
<1>5. /\ cdp'[t][o] = None
      /\ \A u \in CdpTypes, p \in Users : u # t \/ p # o => cdp'[u][p] = cdp[u][p]
  BY <1>3, TypeParts, WrittenAt DEF CdpTable
<1>6. SameTypes(stat, stat')
  <2> SUFFICES ASSUME NEW u \in CdpTypes
               PROVE  IF stat[Self][u] = None THEN stat'[Self][u] = None
                      ELSE /\ stat'[Self][u] # None
                           /\ stat'[Self][u].csym = stat[Self][u].csym
                           /\ stat'[Self][u].ssym = stat[Self][u].ssym
                           /\ stat'[Self][u].contract = stat[Self][u].contract
                           /\ stat'[Self][u].par = stat[Self][u].par
    BY DEF SameTypes
  <2>1. CASE u = t BY <1>1, <1>2, <1>4, <2>1
  <2>2. CASE u # t BY <1>4, <2>2
  <2> QED BY <2>1, <2>2
<1> QED BY <1>2, <1>4, <1>5, <1>6 DEF OnlyWrites

\* What shut takes off the rows of any contract, and what it pays.
FreedBy(o, t, c, s) ==
  IF cdp[t][o].csym = s /\ stat[Self][t].contract = c THEN cdp[t][o].collateral ELSE 0

LEMMA RepaidHeld ==
  ASSUME CdpTypeOK, NEW o \in Users, NEW t \in CdpTypes, Shut(o, t),
         cdp[t][o].stablecoin >= 0, NEW c, NEW s \in Symbols, NEW p \in Users
  PROVE  LET it == cdp[t][o]
             a == Repaid(o, it)
         IN  /\ a \in Accounts
             /\ Held(a, c, s) = Held(acnt, c, s) - OffRow(o, it.ssym, it.stablecoin, c, s)
             /\ p = o => InRow(a[s][p], c)
                           = InRow(acnt[s][p], c) - OffRow(o, it.ssym, it.stablecoin, c, s)
             /\ p # o => InRow(a[s][p], c) = InRow(acnt[s][p], c)
<1> DEFINE it == cdp[t][o]   a == Repaid(o, it)   r == it.ssym   q == it.stablecoin
<1>1. it \in CdpRow BY CdpIn DEF Shut, LiveCdp
<1>2. r \in Symbols /\ q \in Nat /\ acnt \in Accounts
  BY <1>1, TypeParts, TablesAssumption DEF CdpRow, Amounts
<1>3. /\ q > 0 => CanDebit(acnt, o, r, q)
      /\ a = IF q > 0 THEN Debit(acnt, o, r, q) ELSE acnt
  BY DEF Shut, Repaid
<1>4. Held(acnt, c, s) \in Nat BY <1>2, HeldNat
<1>5. InRow(acnt[s][p], c) \in Nat BY <1>2, HeldNat
<1> SUFFICES /\ a \in Accounts
             /\ Held(a, c, s) = Held(acnt, c, s) - OffRow(o, r, q, c, s)
             /\ p = o => InRow(a[s][p], c) = InRow(acnt[s][p], c) - OffRow(o, r, q, c, s)
             /\ p # o => InRow(a[s][p], c) = InRow(acnt[s][p], c)
  OBVIOUS
<1> HIDE DEF it, a, r, q
<1>6. CASE q > 0
  <2>1. a = Debit(acnt, o, r, q) /\ CanDebit(acnt, o, r, q) BY <1>3, <1>6
  <2>2. a \in Accounts BY <1>2, <2>1, DebitType
  <2>3. Held(a, c, s) = Held(acnt, c, s) - OffRow(o, r, q, c, s)
    <3>1. Held(a, c, s)
            = Held(acnt, c, s) - (IF s = r /\ acnt[r][o].code = c THEN q ELSE 0)
      BY <1>2, <2>1, DebitHeld
    <3> QED BY <1>4, <3>1 DEF OffRow
  <2>4. /\ s = r /\ p = o /\ acnt[r][o].code = c =>
             InRow(Debit(acnt, o, r, q)[s][p], c) = InRow(acnt[s][p], c) - q
        /\ ~(s = r /\ p = o /\ acnt[r][o].code = c) =>
             InRow(Debit(acnt, o, r, q)[s][p], c) = InRow(acnt[s][p], c)
    BY <1>2, <2>1, DebitInRow
  <2> QED BY <1>5, <2>1, <2>2, <2>3, <2>4 DEF OffRow
<1>7. CASE q = 0
  <2>1. a = acnt BY <1>3, <1>7
  <2>2. OffRow(o, r, q, c, s) = 0 BY <1>7 DEF OffRow
  <2> QED BY <1>2, <1>4, <1>5, <2>1, <2>2
<1> QED BY <1>2, <1>6, <1>7

LEMMA ShutHeld ==
  ASSUME CdpTypeOK, NEW o \in Users, NEW t \in CdpTypes, Shut(o, t),
         cdp[t][o].stablecoin >= 0, NEW c, NEW s \in Symbols, NEW p \in Users
  PROVE  LET it == cdp[t][o]
         IN  /\ Held(acnt', c, s) = Held(acnt, c, s)
                  - OffRow(o, it.ssym, it.stablecoin, c, s) + FreedBy(o, t, c, s)
             /\ p = o => InRow(acnt'[s][p], c) = InRow(acnt[s][p], c)
                           - OffRow(o, it.ssym, it.stablecoin, c, s) + FreedBy(o, t, c, s)
             /\ p # o => InRow(acnt'[s][p], c) = InRow(acnt[s][p], c)
<1> DEFINE it == cdp[t][o]   a == Repaid(o, it)   d == stat[Self][t].contract
           x == OffRow(o, it.ssym, it.stablecoin, c, s)
           r == it.csym   q == it.collateral   y == FreedBy(o, t, c, s)
<1>1. /\ a \in Accounts
      /\ Held(a, c, s) = Held(acnt, c, s) - x
      /\ p = o => InRow(a[s][p], c) = InRow(acnt[s][p], c) - x
      /\ p # o => InRow(a[s][p], c) = InRow(acnt[s][p], c)
  BY RepaidHeld
<1>2. it \in CdpRow /\ stat[Self][t] \in StatRow BY CdpIn, StatIn DEF Shut, LiveCdp
<1>3. r \in Symbols /\ q \in 0 .. MaxAmount /\ d \in Codes
  BY <1>2 DEF CdpRow, StatRow, Codes
<1>4. /\ q > 0 => CanCredit(a, o, r, q, d)
      /\ acnt' = IF q > 0 THEN Credit(a, o, r, q, d) ELSE a
      /\ y = IF r = s /\ d = c THEN q ELSE 0
  BY DEF Shut, FreedBy
<1>5. Held(a, c, s) \in Nat BY <1>1, HeldNat
<1>6. InRow(a[s][p], c) \in Nat BY <1>1, HeldNat
<1> SUFFICES /\ Held(acnt', c, s) = Held(acnt, c, s) - x + y
             /\ p = o => InRow(acnt'[s][p], c) = InRow(acnt[s][p], c) - x + y
             /\ p # o => InRow(acnt'[s][p], c) = InRow(acnt[s][p], c)
  OBVIOUS
<1> HIDE DEF it, a, r, q, d, x, y
<1>7. CASE q > 0
  <2>1. acnt' = Credit(a, o, r, q, d) /\ CanCredit(a, o, r, q, d) BY <1>4, <1>7
  <2>2. Held(acnt', c, s) = Held(a, c, s) + y
    <3>1. Held(acnt', c, s) = Held(a, c, s) + (IF s = r /\ d = c THEN q ELSE 0)
      BY <1>1, <1>3, <2>1, CreditHeld
    <3> QED BY <1>3, <1>4, <1>5, <3>1, TablesAssumption
  <2>3. /\ s = r /\ p = o /\ d = c =>
             InRow(Credit(a, o, r, q, d)[s][p], c) = InRow(a[s][p], c) + q
        /\ ~(s = r /\ p = o /\ d = c) =>
             InRow(Credit(a, o, r, q, d)[s][p], c) = InRow(a[s][p], c)
    BY <1>1, <1>3, <2>1, CreditInRow
  <2>4. /\ p = o => InRow(acnt'[s][p], c) = InRow(a[s][p], c) + y
        /\ p # o => InRow(acnt'[s][p], c) = InRow(a[s][p], c)
    BY <1>3, <1>4, <1>6, <2>1, <2>3, TablesAssumption
  <2> QED BY <1>1, <2>2, <2>4
<1>8. CASE q = 0
  <2>1. acnt' = a /\ y = 0 BY <1>4, <1>8
  <2> QED BY <1>1, <1>5, <1>6, <2>1
<1> QED BY <1>3, <1>7, <1>8, TablesAssumption

LEMMA ShutClaims ==
  ASSUME CdpTypeOK, LivePositions, NEW o \in Users, NEW t \in CdpTypes, Shut(o, t),
         NEW c \in Tokens, NEW s \in Symbols
  PROVE  ClaimsFall(c, s, OffRow(o, cdp[t][o].ssym, cdp[t][o].stablecoin, c, s))
<1> USE TablesAssumption
<1> DEFINE it == cdp[t][o]   st == stat[Self][t]
           x == OffRow(o, it.ssym, it.stablecoin, c, s)
<1>1. it # None /\ MatchesType(it, st)
  BY DEF Shut, LiveCdp, LivePositions
<1>2. CdpTypeOK' BY ShutType
<1>3. /\ cdp \in CdpTable /\ cdp' \in CdpTable /\ stat \in StatTable /\ stat' \in StatTable
  BY <1>2, TypeParts, TypePartsNext
<1>4. it \in CdpRow /\ st \in StatRow BY <1>1, CdpIn, StatIn DEF MatchesType
<1>5. Locked(cdp', stat', c, s) = Locked(cdp, stat, c, s) - LockedAt(it, st, c, s)
        + LockedAt(cdp'[t][o], st, c, s)
  BY <1>3, ShutWrites, LockedWritten DEF OnlyWrites
<1>6. LockedAt(cdp'[t][o], st, c, s) = 0 BY ShutWrites DEF LockedAt
<1>7. LockedAt(it, st, c, s) = FreedBy(o, t, c, s)
  BY <1>1 DEF LockedAt, FreedBy, MatchesType
<1>8. FreedBy(o, t, c, s) \in Int BY <1>4 DEF FreedBy, CdpRow
<1>9. Fees(stat', c, s) = Fees(stat, c, s) - FeeAt(st, c, s) + FeeAt(stat'[Self][t], c, s)
  BY <1>3, ShutWrites, FeesWritten DEF OnlyWrites
<1>10. FeeAt(stat'[Self][t], c, s) = FeeAt(st, c, s) /\ FeeAt(st, c, s) \in Int
  <2>1. stat'[Self][t] # None /\ st # None BY <1>1, ShutWrites DEF OnlyWrites, SameTypes, MatchesType
  <2>2. stat'[Self][t].fee_balance = st.fee_balance /\ st.fee_balance \in Int
    BY <1>4, ShutWrites DEF StatRow
  <2> QED BY <2>1, <2>2 DEF FeeAt
<1>11. Held(acnt', c, s) = Held(acnt, c, s) - x + FreedBy(o, t, c, s)
  BY <1>1, ShutHeld DEF MatchesType
<1>12. x \in Int
  <2>1. it.stablecoin \in Int BY <1>4 DEF CdpRow, Amounts
  <2> QED BY <2>1 DEF OffRow
<1>13. vault' = vault BY DEF Shut
<1> HIDE DEF it, st, x
<1> QED BY <1>5, <1>6, <1>7, <1>8, <1>9, <1>10, <1>11, <1>12, <1>13, ClaimsParts, ClaimsInt
    DEF ClaimsFall, it, x

\* A step that leaves positions and types alone, up to the age of a position,
\* leaves what is locked, collected and owed alone.
LEMMA SamePositions ==
  ASSUME CdpTypeOK, CdpTypeOK', SameTypes(stat, stat'),
         \A t \in CdpTypes : stat'[Self][t].fee_balance = stat[Self][t].fee_balance,
         \A t \in CdpTypes, o \in Users :
           IF cdp[t][o] = None THEN cdp'[t][o] = None
           ELSE /\ cdp'[t][o] # None
                /\ cdp'[t][o].csym = cdp[t][o].csym /\ cdp'[t][o].ssym = cdp[t][o].ssym
                /\ cdp'[t][o].collateral = cdp[t][o].collateral
                /\ cdp'[t][o].stablecoin = cdp[t][o].stablecoin,
         NEW c, NEW s
  PROVE  /\ Locked(cdp', stat', c, s) = Locked(cdp, stat, c, s)
         /\ Fees(stat', c, s) = Fees(stat, c, s)
         /\ Debts(cdp', s) = Debts(cdp, s)
         /\ \A o \in Users : OwnDebts(cdp', o, s) = OwnDebts(cdp, o, s)
<1> USE TablesAssumption
<1>1. \A t \in CdpTypes, o \in Users :
        LockedAt(cdp'[t][o], stat'[Self][t], c, s) = LockedAt(cdp[t][o], stat[Self][t], c, s)
  BY DEF SameTypes, LockedAt
<1>2. \A t \in CdpTypes : FeeAt(stat'[Self][t], c, s) = FeeAt(stat[Self][t], c, s)
  BY DEF SameTypes, FeeAt
<1>3. \A t \in CdpTypes, o \in Users : DebtAt(cdp'[t][o], s) = DebtAt(cdp[t][o], s)
  BY DEF DebtAt
<1>4. Locked(cdp', stat', c, s) = Locked(cdp, stat, c, s)
  <2>1. \A k \in CdpTypes \X Users : LockedIn(cdp', stat', c, s)[k] = LockedIn(cdp, stat, c, s)[k]
    BY <1>1 DEF LockedIn
  <2> QED BY <2>1, SumEqual, PairsFinite DEF Locked
<1>5. Fees(stat', c, s) = Fees(stat, c, s)
  <2>1. \A t \in CdpTypes : FeesIn(stat', c, s)[t] = FeesIn(stat, c, s)[t] BY <1>2 DEF FeesIn
  <2> QED BY <2>1, SumEqual DEF Fees
<1>6. Debts(cdp', s) = Debts(cdp, s)
  <2> DEFINE f == [k \in CdpTypes \X Users |-> DebtAt(cdp[k[1]][k[2]], s)]
             g == [k \in CdpTypes \X Users |-> DebtAt(cdp'[k[1]][k[2]], s)]
  <2>1. \A k \in CdpTypes \X Users : g[k] = f[k] BY <1>3
  <2> HIDE DEF f, g
  <2>2. SumFunctionOnSet(g, CdpTypes \X Users) = SumFunctionOnSet(f, CdpTypes \X Users)
    BY <2>1, SumEqual, PairsFinite
  <2> QED BY <2>2 DEF Debts, f, g
<1>7. ASSUME NEW o \in Users PROVE OwnDebts(cdp', o, s) = OwnDebts(cdp, o, s)
  <2>1. \A t \in CdpTypes : OwnDebtsIn(cdp', o, s)[t] = OwnDebtsIn(cdp, o, s)[t]
    BY <1>3 DEF OwnDebtsIn
  <2> QED BY <2>1, SumEqual DEF OwnDebts
<1> QED BY <1>4, <1>5, <1>6, <1>7

LEMMA DepositClaims ==
  ASSUME CdpTypeOK, NEW o \in Users, NEW d \in Tokens, NEW r \in Symbols,
         NEW q \in 1 .. MaxAmount, Deposit(o, d, r, q), NEW c \in Tokens, NEW s \in Symbols
  PROVE  ClaimsFall(c, s, 0)
<1>1. /\ CanCredit(acnt, o, r, q, d) /\ acnt' = Credit(acnt, o, r, q, d)
      /\ vault' = [vault EXCEPT ![d][r] = @ + q] /\ stat' = stat /\ cdp' = cdp
  BY DEF Deposit
<1>2. acnt \in Accounts /\ q \in 0 .. MaxAmount /\ d \in Codes /\ vault \in Vaults
  BY TypeParts, TablesAssumption DEF Codes
<1>3. Held(acnt', c, s) = Held(acnt, c, s) + (IF s = r /\ d = c THEN q ELSE 0)
  BY <1>1, <1>2, CreditHeld
<1>4. vault'[c][s] = vault[c][s] + (IF s = r /\ d = c THEN q ELSE 0)
  BY <1>1, <1>2, ClaimsInt DEF Vaults
<1>5. Held(acnt, c, s) \in Int /\ Locked(cdp, stat, c, s) \in Int
      /\ Fees(stat, c, s) \in Int /\ vault[c][s] \in Int
  BY ClaimsInt
<1>6. Claims(c, s) = Held(acnt, c, s) + Locked(cdp, stat, c, s) + Fees(stat, c, s)
      /\ Claims(c, s)' = Held(acnt', c, s) + Locked(cdp, stat, c, s) + Fees(stat, c, s)
  BY <1>1, ClaimsParts
<1> QED BY <1>3, <1>4, <1>5, <1>6 DEF ClaimsFall

LEMMA WithdrawClaims ==
  ASSUME CdpTypeOK, NEW o \in Users, NEW r \in Symbols, NEW asked \in 0 .. MaxAmount,
         Withdraw(o, r, asked), NEW c \in Tokens, NEW s \in Symbols
  PROVE  ClaimsFall(c, s, 0)
<1> DEFINE q == IF asked = 0 THEN acnt[r][o].balance ELSE asked
           d == acnt[r][o].code
<1>1. /\ CanDebit(acnt, o, r, q) /\ acnt' = Debit(acnt, o, r, q) /\ d \in Tokens
      /\ vault' = [vault EXCEPT ![d][r] = @ - q] /\ stat' = stat /\ cdp' = cdp
  BY DEF Withdraw
<1>2. acnt \in Accounts /\ vault \in Vaults BY TypeParts
<1>3. q \in Nat BY <1>2, TablesAssumption DEF Withdraw, Accounts, AccountRow
<1> HIDE DEF q
<1>4. Held(acnt', c, s) = Held(acnt, c, s) - (IF s = r /\ acnt[r][o].code = c THEN q ELSE 0)
  BY <1>1, <1>2, <1>3, DebitHeld
<1>5. Held(acnt, c, s) \in Int /\ Locked(cdp, stat, c, s) \in Int
      /\ Fees(stat, c, s) \in Int /\ vault[c][s] \in Int
  BY ClaimsInt
<1>6. vault'[c][s] = vault[c][s] - (IF s = r /\ acnt[r][o].code = c THEN q ELSE 0)
  BY <1>1, <1>2, <1>3, <1>5 DEF Vaults
<1>7. Claims(c, s) = Held(acnt, c, s) + Locked(cdp, stat, c, s) + Fees(stat, c, s)
      /\ Claims(c, s)' = Held(acnt', c, s) + Locked(cdp, stat, c, s) + Fees(stat, c, s)
  BY <1>1, ClaimsParts
<1> QED BY <1>3, <1>4, <1>5, <1>6, <1>7 DEF ClaimsFall

\* An empty row that is closed held nothing.
LEMMA CloseHeld ==
  ASSUME CdpTypeOK, NEW o \in Users, NEW r \in Symbols, Close(o, r),
         NEW c, NEW s \in Symbols, NEW p \in Users
  PROVE  Held(acnt', c, s) = Held(acnt, c, s) /\ InRow(acnt'[s][p], c) = InRow(acnt[s][p], c)
<1>1. acnt \in Accounts /\ acnt' \in Accounts
  BY CloseType, TypeParts, TypePartsNext
<1>2. /\ acnt'[r][o] = None
      /\ \A y \in Symbols, x \in Users : y # r \/ x # o => acnt'[y][x] = acnt[y][x]
  BY <1>1, WrittenAt DEF Close, Accounts
<1>3. InRow(acnt[r][o], c) = 0 /\ InRow(acnt'[r][o], c) = 0 BY <1>2 DEF Close, InRow
<1>4. Held(acnt', c, s)
        = IF s = r THEN Held(acnt, c, r) - InRow(acnt[r][o], c) + InRow(acnt'[r][o], c)
                   ELSE Held(acnt, c, s)
  BY <1>1, <1>2, HeldWritten
<1>5. Held(acnt, c, s) \in Nat BY <1>1, HeldNat
<1> QED BY <1>2, <1>3, <1>4, <1>5

LEMMA CloseClaims ==
  ASSUME CdpTypeOK, NEW o \in Users, NEW r \in Symbols, Close(o, r),
         NEW c \in Tokens, NEW s \in Symbols
  PROVE  ClaimsFall(c, s, 0)
<1>1. Held(acnt', c, s) = Held(acnt, c, s) BY CloseHeld
<1>2. stat' = stat /\ cdp' = cdp /\ vault' = vault BY DEF Close
<1>3. Held(acnt, c, s) \in Int /\ Locked(cdp, stat, c, s) \in Int
      /\ Fees(stat, c, s) \in Int /\ vault[c][s] \in Int
  BY ClaimsInt
<1>4. Claims(c, s) = Held(acnt, c, s) + Locked(cdp, stat, c, s) + Fees(stat, c, s)
      /\ Claims(c, s)' = Held(acnt', c, s) + Locked(cdp, stat, c, s) + Fees(stat, c, s)
  BY <1>2, ClaimsParts
<1> QED BY <1>1, <1>2, <1>3, <1>4 DEF ClaimsFall

\* A step that is none of an owner's or a balance's keeps every position but its
\* age, every type but whether it is live, every balance and what is held.
IdleStep == SettleStep \/ FeedStep \/ CdpTick \/ UNCHANGED cdpVars

LEMMA IdleKeeps ==
  ASSUME CdpTypeOK, IdleStep
  PROVE  /\ acnt' = acnt /\ vault' = vault /\ SameTypes(stat, stat')
         /\ \A t \in CdpTypes :
              /\ stat'[Self][t].fee_balance = stat[Self][t].fee_balance
              /\ stat'[Self][t].total_collateral = stat[Self][t].total_collateral
         /\ \A t \in CdpTypes, o \in Users :
              IF cdp[t][o] = None THEN cdp'[t][o] = None
              ELSE /\ cdp'[t][o] # None /\ cdp'[t][o].live = cdp[t][o].live
                   /\ cdp'[t][o].csym = cdp[t][o].csym /\ cdp'[t][o].ssym = cdp[t][o].ssym
                   /\ cdp'[t][o].collateral = cdp[t][o].collateral
                   /\ cdp'[t][o].stablecoin = cdp[t][o].stablecoin
<1>1. ASSUME cdp' = cdp
      PROVE  \A t \in CdpTypes, o \in Users :
              IF cdp[t][o] = None THEN cdp'[t][o] = None
              ELSE /\ cdp'[t][o] # None /\ cdp'[t][o].live = cdp[t][o].live
                   /\ cdp'[t][o].csym = cdp[t][o].csym /\ cdp'[t][o].ssym = cdp[t][o].ssym
                   /\ cdp'[t][o].collateral = cdp[t][o].collateral
                   /\ cdp'[t][o].stablecoin = cdp[t][o].stablecoin
  BY <1>1
<1>2. ASSUME stat' = stat
      PROVE  /\ SameTypes(stat, stat')
             /\ \A t \in CdpTypes :
                  /\ stat'[Self][t].fee_balance = stat[Self][t].fee_balance
                  /\ stat'[Self][t].total_collateral = stat[Self][t].total_collateral
  BY <1>2 DEF SameTypes
<1>3. CASE SettleStep
  <2>1. PICK f \in Scopes, t \in CdpTypes : Settle(f, t) BY <1>3 DEF SettleStep
  <2> DEFINE row == [stat[Self][t] EXCEPT !.live = FALSE]
  <2>2. stat[Self][t] # None /\ stat[Self][t] \in StatRow BY <2>1, StatIn DEF Settle
  <2>3. /\ row.csym = stat[Self][t].csym /\ row.ssym = stat[Self][t].ssym
        /\ row.contract = stat[Self][t].contract /\ row.par = stat[Self][t].par
        /\ row.fee_balance = stat[Self][t].fee_balance
        /\ row.total_collateral = stat[Self][t].total_collateral
    BY <2>2 DEF StatRow
  <2>4. row \in StatRow
    <3>1. ASSUME NEW r \in StatRow, NEW b \in BOOLEAN
          PROVE  [r EXCEPT !.live = b] \in StatRow
      BY DEF StatRow
    <3> QED BY <2>2, <3>1
  <2>5. stat' = [stat EXCEPT ![Self][t] = row] BY <2>1 DEF Settle
  <2> HIDE DEF row
  <2>6. /\ stat'[Self][t] = row
        /\ \A u \in CdpTypes : u # t => stat'[Self][u] = stat[Self][u]
    BY <2>5, TypeParts, WrittenAt DEF StatTable, Scopes
  <2>7. row # None BY <2>4, TablesAssumption
  <2>8. SameTypes(stat, stat')
    <3> SUFFICES ASSUME NEW u \in CdpTypes
                 PROVE  IF stat[Self][u] = None THEN stat'[Self][u] = None
                        ELSE /\ stat'[Self][u] # None
                             /\ stat'[Self][u].csym = stat[Self][u].csym
                             /\ stat'[Self][u].ssym = stat[Self][u].ssym
                             /\ stat'[Self][u].contract = stat[Self][u].contract
                             /\ stat'[Self][u].par = stat[Self][u].par
      BY DEF SameTypes
    <3>1. CASE u = t BY <2>2, <2>3, <2>6, <2>7, <3>1
    <3>2. CASE u # t BY <2>6, <3>2
    <3> QED BY <3>1, <3>2
  <2>9. acnt' = acnt /\ vault' = vault /\ cdp' = cdp BY <2>1 DEF Settle
  <2>10. \A u \in CdpTypes :
           /\ stat'[Self][u].fee_balance = stat[Self][u].fee_balance
           /\ stat'[Self][u].total_collateral = stat[Self][u].total_collateral
    BY <2>3, <2>6
  <2> QED BY <1>1, <2>8, <2>9, <2>10
<1>4. CASE FeedStep
  <2>1. stat' = stat /\ acnt' = acnt /\ vault' = vault /\ cdp' = cdp
    BY <1>4 DEF FeedStep, Upfeed
  <2> QED BY <1>1, <1>2, <2>1
<1>5. CASE CdpTick
  <2>1. stat' = stat /\ acnt' = acnt /\ vault' = vault BY <1>5 DEF CdpTick
  <2>2. ASSUME NEW t \in CdpTypes, NEW o \in Users
        PROVE IF cdp[t][o] = None THEN cdp'[t][o] = None
              ELSE /\ cdp'[t][o] # None /\ cdp'[t][o].live = cdp[t][o].live
                   /\ cdp'[t][o].csym = cdp[t][o].csym /\ cdp'[t][o].ssym = cdp[t][o].ssym
                   /\ cdp'[t][o].collateral = cdp[t][o].collateral
                   /\ cdp'[t][o].stablecoin = cdp[t][o].stablecoin
    <3>1. cdp'[t][o] = OlderCdp(cdp[t][o]) BY <1>5 DEF CdpTick, AgeCdps
    <3>2. CASE cdp[t][o] = None BY <3>1, <3>2 DEF OlderCdp
    <3>3. CASE cdp[t][o] # None
      <4>1. cdp[t][o] \in CdpRow BY <3>3, CdpIn
      <4>2. OlderCdp(cdp[t][o]) # None BY <4>1, OlderCdpIn, CdpAssumption
      <4> QED BY <3>1, <3>3, <4>1, <4>2, OlderCdpIn
    <3> QED BY <3>2, <3>3
  <2> QED BY <1>2, <2>1, <2>2
<1>6. CASE UNCHANGED cdpVars
  <2>1. stat' = stat /\ acnt' = acnt /\ vault' = vault /\ cdp' = cdp
    BY <1>6 DEF cdpVars
  <2> QED BY <1>1, <1>2, <2>1
<1> QED BY <1>3, <1>4, <1>5, <1>6 DEF IdleStep

LEMMA IdleClaims ==
  ASSUME CdpTypeOK, IdleStep, NEW c \in Tokens, NEW s \in Symbols
  PROVE  ClaimsFall(c, s, 0)
<1>1. CdpTypeOK' BY StepType DEF IdleStep, CdpNext
<1>2. acnt' = acnt /\ vault' = vault BY IdleKeeps
<1>3. Locked(cdp', stat', c, s) = Locked(cdp, stat, c, s) /\ Fees(stat', c, s) = Fees(stat, c, s)
  <2>1. SameTypes(stat, stat') BY IdleKeeps
  <2>2. \A t \in CdpTypes : stat'[Self][t].fee_balance = stat[Self][t].fee_balance
    BY IdleKeeps
  <2>3. \A t \in CdpTypes, o \in Users :
           IF cdp[t][o] = None THEN cdp'[t][o] = None
           ELSE /\ cdp'[t][o] # None
                /\ cdp'[t][o].csym = cdp[t][o].csym /\ cdp'[t][o].ssym = cdp[t][o].ssym
                /\ cdp'[t][o].collateral = cdp[t][o].collateral
                /\ cdp'[t][o].stablecoin = cdp[t][o].stablecoin
    BY IdleKeeps
  <2> QED BY <1>1, <2>1, <2>2, <2>3, SamePositions
<1> QED BY <1>2, <1>3, ClaimsParts, ClaimsInt DEF ClaimsFall
-----------------------------------------------------------------------------
(***************************************************************************)
(* The inductive invariant of the conservation theorems.  Money issued is  *)
(* matched user by user: a user's balance in rows of Self is what the user *)
(* owes.  So whoever repays a debt does it with stablecoin of Self and not *)
(* with tokens of that symbol paid in from elsewhere, which would take     *)
(* from the claims on another contract what no one received.               *)
(***************************************************************************)
MoneyIsNotIQ == \A t \in CdpTypes : stat[Self][t] # None => stat[Self][t].ssym # IQ
AllLive == \A t \in CdpTypes, o \in Users : cdp[t][o] # None => cdp[t][o].live
OwnDebtsMatch ==
  \A o \in Users, s \in Symbols : InRow(acnt[s][o], Self) = OwnDebts(cdp, o, s)

CdpInv ==
  /\ CdpTypeOK
  /\ LivePositions /\ AllLive /\ IQRows /\ IQLocked /\ MoneyIsNotIQ
  /\ OwnDebtsMatch /\ StablecoinIsDebt /\ VaultMatchesClaims

\* A user who owes stablecoin has a row of it, in stablecoin of Self.
LEMMA DebtorRow ==
  ASSUME CdpInv, NEW t \in CdpTypes, NEW o \in Users, cdp[t][o] # None,
         cdp[t][o].stablecoin > 0
  PROVE  acnt[cdp[t][o].ssym][o] # None /\ acnt[cdp[t][o].ssym][o].code = Self
<1> DEFINE r == cdp[t][o].ssym
<1>1. \A u \in CdpTypes : OwnDebtsIn(cdp, o, r)[u] \in Nat
  <2> SUFFICES ASSUME NEW u \in CdpTypes, cdp[u][o] # None
               PROVE  cdp[u][o].stablecoin \in Nat
    BY DEF OwnDebtsIn, DebtAt
  <2>1. cdp[u][o] \in CdpRow BY CdpIn DEF CdpInv
  <2>2. cdp[u][o].stablecoin >= 0 BY DEF CdpInv, LivePositions, AllLive, MatchesType
  <2> QED BY <2>1, <2>2, TablesAssumption DEF CdpRow, Amounts
<1>2. OwnDebtsIn(cdp, o, r)[t] = cdp[t][o].stablecoin BY DEF OwnDebtsIn, DebtAt
<1>3. cdp[t][o].stablecoin <= OwnDebts(cdp, o, r) /\ OwnDebts(cdp, o, r) \in Nat
  BY <1>1, <1>2, SumNat, TablesAssumption DEF OwnDebts
<1>4. cdp[t][o] \in CdpRow BY CdpIn DEF CdpInv
<1>5. r \in Symbols /\ cdp[t][o].stablecoin \in Int
  BY <1>4, TablesAssumption DEF CdpRow, Amounts
<1>6. InRow(acnt[r][o], Self) = OwnDebts(cdp, o, r) BY <1>5 DEF CdpInv, OwnDebtsMatch
<1>7. InRow(acnt[r][o], Self) # 0 BY <1>3, <1>5, <1>6
<1> QED BY <1>7 DEF InRow

\* What is in rows of Self moves with what is owed, for each user and in all.
MoneyKept(s, p) ==
  /\ InRow(acnt'[s][p], Self) - OwnDebts(cdp', p, s) = InRow(acnt[s][p], Self) - OwnDebts(cdp, p, s)
  /\ Held(acnt', Self, s) - Debts(cdp', s) = Held(acnt, Self, s) - Debts(cdp, s)

LEMMA MoneyInt ==
  ASSUME CdpTypeOK, NEW s \in Symbols, NEW p \in Users
  PROVE  /\ Held(acnt, Self, s) \in Int /\ InRow(acnt[s][p], Self) \in Int
         /\ OwnDebts(cdp, p, s) \in Int /\ Debts(cdp, s) \in Int
<1>1. acnt \in Accounts /\ cdp \in CdpTable BY TypeParts
<1>2. Held(acnt, Self, s) \in Nat BY <1>1, HeldNat
<1>3. InRow(acnt[s][p], Self) \in Nat BY <1>1, HeldNat
<1>4. OwnDebts(cdp, p, s) \in Int BY <1>1, DebtsInt
<1>5. Debts(cdp, s) \in Int BY <1>1, DebtsInt
<1> QED BY <1>2, <1>3, <1>4, <1>5

LEMMA LockMoney ==
  ASSUME CdpInv, NEW o \in Users, NEW t \in CdpTypes,
         NEW q \in 1 .. MaxAmount, Lock(o, t, q), NEW s \in Symbols, NEW p \in Users
  PROVE  MoneyKept(s, p)
<1> DEFINE st == stat[Self][t]
<1>0. CdpTypeOK BY DEF CdpInv
<1>1. cdp[t][o] # None /\ MatchesType(cdp[t][o], st)
  BY DEF Lock, LiveCdp, LivePositions, CdpInv
<1>2. st \in StatRow /\ st.csym \in Symbols /\ st.contract \in Tokens
  BY <1>0, <1>1, StatIn DEF MatchesType, StatRow
<1>3. CdpTypeOK' /\ Moved(t, o, q, 0, 0, q) BY <1>0, LockType, LockMoves
<1>4. /\ Debts(cdp', s) = Debts(cdp, s) + (IF s = st.ssym THEN 0 ELSE 0)
      /\ OwnDebts(cdp', p, s) = OwnDebts(cdp, p, s)
           + (IF p = o /\ s = st.ssym THEN 0 ELSE 0)
  BY <1>0, <1>1, <1>3, MovedDebts
<1>5. /\ CanDebit(acnt, o, st.csym, q) /\ acnt' = Debit(acnt, o, st.csym, q)
      /\ acnt[st.csym][o].code # Self
  BY <1>2, TablesAssumption DEF Lock, PaidByContract
<1>6. acnt \in Accounts /\ q \in Nat BY <1>0, TypeParts
<1>8. /\ Held(acnt, Self, s) \in Int /\ InRow(acnt[s][p], Self) \in Int
      /\ OwnDebts(cdp, p, s) \in Int /\ Debts(cdp, s) \in Int
  BY <1>0, MoneyInt
<1> HIDE DEF st
<1>9. Held(acnt', Self, s)
        = Held(acnt, Self, s) - (IF s = st.csym /\ acnt[st.csym][o].code = Self THEN q ELSE 0)
  BY <1>2, <1>5, <1>6, DebitHeld
<1>10. InRow(acnt'[s][p], Self) = InRow(acnt[s][p], Self)
  BY <1>2, <1>5, <1>6, DebitInRow
<1> QED BY <1>4, <1>5, <1>8, <1>9, <1>10 DEF MoneyKept

LEMMA BailMoney ==
  ASSUME CdpInv, NEW o \in Users, NEW t \in CdpTypes,
         NEW q \in 1 .. MaxAmount, Bail(o, t, q), NEW s \in Symbols, NEW p \in Users
  PROVE  MoneyKept(s, p)
<1> DEFINE st == stat[Self][t]   d == st.contract
<1>0. CdpTypeOK BY DEF CdpInv
<1>1. cdp[t][o] # None /\ MatchesType(cdp[t][o], st)
  BY DEF Bail, LiveCdp, LivePositions, CdpInv
<1>2. st \in StatRow /\ st.csym \in Symbols /\ d \in Codes /\ d # Self
  BY <1>0, <1>1, StatIn, TablesAssumption DEF MatchesType, StatRow, Codes
<1>3. CdpTypeOK' /\ Moved(t, o, -q, 0, 0, -q) /\ -q \in Int BY <1>0, BailType, BailMoves
<1>4. /\ Debts(cdp', s) = Debts(cdp, s) + (IF s = st.ssym THEN 0 ELSE 0)
      /\ OwnDebts(cdp', p, s) = OwnDebts(cdp, p, s)
           + (IF p = o /\ s = st.ssym THEN 0 ELSE 0)
  BY <1>0, <1>1, <1>3, MovedDebts
<1>5. /\ CanCredit(acnt, o, st.csym, q, d) /\ acnt' = Credit(acnt, o, st.csym, q, d)
  BY DEF Bail
<1>6. acnt \in Accounts /\ q \in 0 .. MaxAmount BY <1>0, TypeParts, TablesAssumption
<1>8. /\ Held(acnt, Self, s) \in Int /\ InRow(acnt[s][p], Self) \in Int
      /\ OwnDebts(cdp, p, s) \in Int /\ Debts(cdp, s) \in Int
  BY <1>0, MoneyInt
<1> HIDE DEF st, d
<1>9. Held(acnt', Self, s)
        = Held(acnt, Self, s) + (IF s = st.csym /\ d = Self THEN q ELSE 0)
  BY <1>2, <1>5, <1>6, CreditHeld
<1>10. InRow(acnt'[s][p], Self) = InRow(acnt[s][p], Self)
  <2> DEFINE r == st.csym
  <2>1. r \in Symbols /\ CanCredit(acnt, o, r, q, d) /\ acnt' = Credit(acnt, o, r, q, d)
    BY <1>2, <1>5
  <2> HIDE DEF r
  <2>2. ~(s = r /\ p = o /\ d = Self) =>
          InRow(Credit(acnt, o, r, q, d)[s][p], Self) = InRow(acnt[s][p], Self)
    BY <1>2, <1>6, <2>1, CreditInRow
  <2> QED BY <1>2, <2>1, <2>2
<1> QED BY <1>2, <1>4, <1>8, <1>9, <1>10 DEF MoneyKept

LEMMA DrawMoney ==
  ASSUME CdpInv, NEW o \in Users, NEW t \in CdpTypes,
         NEW q \in 1 .. MaxAmount, Draw(o, t, q), NEW s \in Symbols, NEW p \in Users
  PROVE  MoneyKept(s, p)
<1> DEFINE st == stat[Self][t]   r == st.ssym
<1>0. CdpTypeOK BY DEF CdpInv
<1>1. cdp[t][o] # None /\ MatchesType(cdp[t][o], st)
  BY DEF Draw, LiveCdp, LivePositions, CdpInv
<1>2. r \in Symbols /\ Self \in Codes
  BY <1>0, <1>1, StatIn DEF MatchesType, StatRow, Codes
<1>3. CdpTypeOK' /\ Moved(t, o, 0, q, 0, 0) BY <1>0, DrawType, DrawMoves
<1>4. /\ Debts(cdp', s) = Debts(cdp, s) + (IF s = r THEN q ELSE 0)
      /\ OwnDebts(cdp', p, s) = OwnDebts(cdp, p, s)
           + (IF p = o /\ s = r THEN q ELSE 0)
  BY <1>0, <1>1, <1>3, MovedDebts
<1>5. /\ CanCredit(acnt, o, r, q, Self) /\ acnt' = Credit(acnt, o, r, q, Self)
  BY DEF Draw
<1>6. acnt \in Accounts /\ q \in 0 .. MaxAmount /\ q \in Int
  BY <1>0, TypeParts, TablesAssumption
<1>8. /\ Held(acnt, Self, s) \in Int /\ InRow(acnt[s][p], Self) \in Int
      /\ OwnDebts(cdp, p, s) \in Int /\ Debts(cdp, s) \in Int
  BY <1>0, MoneyInt
<1> HIDE DEF st, r
<1>9. Held(acnt', Self, s)
        = Held(acnt, Self, s) + (IF s = r /\ Self = Self THEN q ELSE 0)
  BY <1>2, <1>5, <1>6, CreditHeld
<1>10. /\ s = r /\ p = o => InRow(acnt'[s][p], Self) = InRow(acnt[s][p], Self) + q
       /\ ~(s = r /\ p = o) => InRow(acnt'[s][p], Self) = InRow(acnt[s][p], Self)
  BY <1>2, <1>5, <1>6, CreditInRow
<1> QED BY <1>4, <1>6, <1>8, <1>9, <1>10 DEF MoneyKept

LEMMA WipeMoney ==
  ASSUME CdpInv, NEW o \in Users, NEW t \in CdpTypes,
         NEW q \in 1 .. MaxAmount, Wipe(o, t, q), NEW s \in Symbols, NEW p \in Users
  PROVE  MoneyKept(s, p)
<1> DEFINE st == stat[Self][t]   r == st.ssym   fee == FeeOf(o, t, q)
<1>0. CdpTypeOK BY DEF CdpInv
<1>1. cdp[t][o] # None /\ MatchesType(cdp[t][o], st)
  BY DEF Wipe, LiveCdp, LivePositions, CdpInv
<1>2. cdp[t][o].stablecoin > q /\ q \in Int /\ cdp[t][o].stablecoin \in Int
  BY <1>0, <1>1, CdpIn, TablesAssumption DEF Wipe, CdpRow, Amounts
<1>3. CdpTypeOK' /\ Moved(t, o, 0, -q, fee, 0) /\ -q \in Int /\ fee \in Int
  BY <1>0, WipeType, WipeMoves, FeeOfNat
<1>4. /\ Debts(cdp', s) = Debts(cdp, s) + (IF s = r THEN -q ELSE 0)
      /\ OwnDebts(cdp', p, s) = OwnDebts(cdp, p, s)
           + (IF p = o /\ s = r THEN -q ELSE 0)
  BY <1>0, <1>1, <1>3, MovedDebts
<1>5. acnt[r][o].code = Self BY <1>1, <1>2, DebtorRow DEF MatchesType
<1>6. acnt[IQ][o].code # Self
  BY TablesAssumption DEF CdpInv, IQRows, Wipe, CanDebit
<1>7. OffRow(o, IQ, fee, Self, s) = 0 /\ OffRow(o, r, q, Self, s) = IF s = r THEN q ELSE 0
  BY <1>5, <1>6 DEF OffRow
<1>8. /\ Held(acnt, Self, s) \in Int /\ InRow(acnt[s][p], Self) \in Int
      /\ OwnDebts(cdp, p, s) \in Int /\ Debts(cdp, s) \in Int
  BY <1>0, MoneyInt
<1>9. /\ Held(acnt', Self, s) = Held(acnt, Self, s) - OffRow(o, IQ, fee, Self, s)
                                - OffRow(o, r, q, Self, s)
      /\ InRow(acnt'[s][o], Self) = InRow(acnt[s][o], Self) - OffRow(o, IQ, fee, Self, s)
                                    - OffRow(o, r, q, Self, s)
      /\ \A x \in Users : x # o => InRow(acnt'[s][x], Self) = InRow(acnt[s][x], Self)
  BY <1>0, WipeHeld
<1> HIDE DEF st, r, fee
<1> QED BY <1>2, <1>4, <1>7, <1>8, <1>9 DEF MoneyKept

LEMMA ShutMoney ==
  ASSUME CdpInv, NEW o \in Users, NEW t \in CdpTypes, Shut(o, t),
         NEW s \in Symbols, NEW p \in Users
  PROVE  MoneyKept(s, p)
<1> DEFINE it == cdp[t][o]   r == it.ssym   q == it.stablecoin
<1>0. CdpTypeOK BY DEF CdpInv
<1>1. it # None /\ MatchesType(it, stat[Self][t])
  BY DEF Shut, LiveCdp, LivePositions, CdpInv
<1>2. q >= 0 /\ q \in Int /\ stat[Self][t].contract # Self
  BY <1>0, <1>1, CdpIn, StatIn, TablesAssumption DEF MatchesType, CdpRow, Amounts, StatRow
<1>3. CdpTypeOK' BY <1>0, ShutType
<1>4. cdp \in CdpTable /\ cdp' \in CdpTable BY <1>0, <1>3, TypeParts, TypePartsNext
<1>5. /\ Debts(cdp', s) = Debts(cdp, s) - DebtAt(it, s) + DebtAt(cdp'[t][o], s)
      /\ OwnDebts(cdp', o, s) = OwnDebts(cdp, o, s) - DebtAt(it, s) + DebtAt(cdp'[t][o], s)
      /\ \A x \in Users : x # o => OwnDebts(cdp', x, s) = OwnDebts(cdp, x, s)
  BY <1>0, <1>4, ShutWrites, DebtsWritten DEF OnlyWrites
<1>6. DebtAt(cdp'[t][o], s) = 0 /\ DebtAt(it, s) = IF s = r THEN q ELSE 0
  BY <1>0, <1>1, ShutWrites DEF DebtAt
<1>7. OffRow(o, r, q, Self, s) = (IF s = r THEN q ELSE 0) /\ FreedBy(o, t, Self, s) = 0
  <2>1. q > 0 => acnt[r][o].code = Self BY <1>1, DebtorRow
  <2> QED BY <1>2, <2>1 DEF OffRow, FreedBy
<1>8. /\ Held(acnt, Self, s) \in Int /\ InRow(acnt[s][p], Self) \in Int
      /\ OwnDebts(cdp, p, s) \in Int /\ Debts(cdp, s) \in Int
  BY <1>0, MoneyInt
<1>9. /\ Held(acnt', Self, s) = Held(acnt, Self, s) - OffRow(o, r, q, Self, s)
                                + FreedBy(o, t, Self, s)
      /\ p = o => InRow(acnt'[s][p], Self) = InRow(acnt[s][p], Self)
                    - OffRow(o, r, q, Self, s) + FreedBy(o, t, Self, s)
      /\ p # o => InRow(acnt'[s][p], Self) = InRow(acnt[s][p], Self)
  BY <1>0, <1>2, ShutHeld
<1> HIDE DEF it, r, q
<1> QED BY <1>2, <1>5, <1>6, <1>7, <1>8, <1>9 DEF MoneyKept

LEMMA OpenMoney ==
  ASSUME CdpInv, NEW o \in Users, NEW t \in CdpTypes, Open(o, t),
         NEW s \in Symbols, NEW p \in Users
  PROVE  MoneyKept(s, p)
<1>0. CdpTypeOK BY DEF CdpInv
<1>1. CdpTypeOK' BY <1>0, OpenType
<1>2. cdp \in CdpTable /\ cdp' \in CdpTable BY <1>0, <1>1, TypeParts, TypePartsNext
<1>3. /\ Debts(cdp', s) = Debts(cdp, s) - DebtAt(cdp[t][o], s) + DebtAt(cdp'[t][o], s)
      /\ OwnDebts(cdp', o, s) = OwnDebts(cdp, o, s) - DebtAt(cdp[t][o], s) + DebtAt(cdp'[t][o], s)
      /\ \A x \in Users : x # o => OwnDebts(cdp', x, s) = OwnDebts(cdp, x, s)
  BY <1>0, <1>2, OpenWrites, DebtsWritten
<1>4. DebtAt(cdp[t][o], s) = 0 /\ DebtAt(cdp'[t][o], s) = 0
  BY <1>0, OpenWrites DEF DebtAt
<1>5. /\ OwnDebts(cdp, p, s) \in Int /\ Debts(cdp, s) \in Int /\ OwnDebts(cdp, o, s) \in Int
  BY <1>0, MoneyInt
<1>6. acnt' = acnt BY DEF Open
<1>7. OwnDebts(cdp', p, s) = OwnDebts(cdp, p, s) /\ Debts(cdp', s) = Debts(cdp, s)
  BY <1>3, <1>4, <1>5
<1> QED BY <1>6, <1>7 DEF MoneyKept

LEMMA DepositMoney ==
  ASSUME CdpInv, NEW o \in Users, NEW d \in Tokens, NEW r \in Symbols,
         NEW q \in 1 .. MaxAmount, Deposit(o, d, r, q), NEW s \in Symbols, NEW p \in Users
  PROVE  MoneyKept(s, p)
<1>0. CdpTypeOK BY DEF CdpInv
<1>1. /\ CanCredit(acnt, o, r, q, d) /\ acnt' = Credit(acnt, o, r, q, d) /\ cdp' = cdp
  BY DEF Deposit
<1>2. acnt \in Accounts /\ q \in 0 .. MaxAmount /\ d \in Codes /\ d # Self
  BY <1>0, TypeParts, TablesAssumption DEF Codes
<1>3. Held(acnt', Self, s) = Held(acnt, Self, s) + (IF s = r /\ d = Self THEN q ELSE 0)
  BY <1>1, <1>2, CreditHeld
<1>4. InRow(acnt'[s][p], Self) = InRow(acnt[s][p], Self)
  BY <1>1, <1>2, CreditInRow
<1>5. Held(acnt, Self, s) \in Int BY <1>0, MoneyInt
<1> QED BY <1>1, <1>2, <1>3, <1>4, <1>5 DEF MoneyKept

LEMMA WithdrawMoney ==
  ASSUME CdpInv, NEW o \in Users, NEW r \in Symbols, NEW asked \in 0 .. MaxAmount,
         Withdraw(o, r, asked), NEW s \in Symbols, NEW p \in Users
  PROVE  MoneyKept(s, p)
<1> DEFINE q == IF asked = 0 THEN acnt[r][o].balance ELSE asked
           d == acnt[r][o].code
<1>0. CdpTypeOK BY DEF CdpInv
<1>1. CanDebit(acnt, o, r, q) /\ acnt' = Debit(acnt, o, r, q) /\ cdp' = cdp /\ d # Self
  BY TablesAssumption DEF Withdraw
<1>2. acnt \in Accounts BY <1>0, TypeParts
<1>3. q \in Nat BY <1>2, TablesAssumption DEF Withdraw, Accounts, AccountRow
<1> HIDE DEF q
<1>4. Held(acnt', Self, s)
        = Held(acnt, Self, s) - (IF s = r /\ acnt[r][o].code = Self THEN q ELSE 0)
  BY <1>1, <1>2, <1>3, DebitHeld
<1>5. InRow(acnt'[s][p], Self) = InRow(acnt[s][p], Self)
  BY <1>1, <1>2, <1>3, DebitInRow
<1>6. Held(acnt, Self, s) \in Int BY <1>0, MoneyInt
<1> QED BY <1>1, <1>4, <1>5, <1>6 DEF MoneyKept

LEMMA CloseMoney ==
  ASSUME CdpInv, NEW o \in Users, NEW r \in Symbols, Close(o, r),
         NEW s \in Symbols, NEW p \in Users
  PROVE  MoneyKept(s, p)
<1>1. CdpTypeOK BY DEF CdpInv
<1>2. cdp' = cdp BY DEF Close
<1>3. Held(acnt', Self, s) = Held(acnt, Self, s)
      /\ InRow(acnt'[s][p], Self) = InRow(acnt[s][p], Self)
  BY <1>1, CloseHeld
<1> QED BY <1>2, <1>3 DEF MoneyKept

LEMMA IdleMoney ==
  ASSUME CdpInv, IdleStep, NEW s \in Symbols, NEW p \in Users
  PROVE  MoneyKept(s, p)
<1>0. CdpTypeOK BY DEF CdpInv
<1>1. CdpTypeOK' BY <1>0, StepType DEF IdleStep, CdpNext
<1>2. acnt' = acnt BY <1>0, IdleKeeps
<1>3. Debts(cdp', s) = Debts(cdp, s) /\ OwnDebts(cdp', p, s) = OwnDebts(cdp, p, s)
  <2>1. SameTypes(stat, stat') BY <1>0, IdleKeeps
  <2>2. \A t \in CdpTypes : stat'[Self][t].fee_balance = stat[Self][t].fee_balance
    BY <1>0, IdleKeeps
  <2>3. \A t \in CdpTypes, o \in Users :
           IF cdp[t][o] = None THEN cdp'[t][o] = None
           ELSE /\ cdp'[t][o] # None
                /\ cdp'[t][o].csym = cdp[t][o].csym /\ cdp'[t][o].ssym = cdp[t][o].ssym
                /\ cdp'[t][o].collateral = cdp[t][o].collateral
                /\ cdp'[t][o].stablecoin = cdp[t][o].stablecoin
    BY <1>0, IdleKeeps
  <2> QED BY <1>0, <1>1, <2>1, <2>2, <2>3, SamePositions
<1> QED BY <1>2, <1>3 DEF MoneyKept
-----------------------------------------------------------------------------
(***************************************************************************)
(* The other parts of the invariant.                                       *)
(***************************************************************************)
\* Types, positions and balances of CdpInv, apart from the sums.
Shape ==
  LivePositions /\ AllLive /\ IQRows /\ IQLocked /\ MoneyIsNotIQ

\* What the invariant asks of one position of type t.
Sound(it, st) ==
  it # None =>
    /\ it.live /\ MatchesType(it, st)
    /\ it.collateral > 0 /\ st.csym = IQ => st.contract = IQContract

LEMMA OtherPositions ==
  ASSUME LivePositions, AllLive, IQLocked, MoneyIsNotIQ, SameTypes(stat, stat'),
         NEW t \in CdpTypes, NEW o \in Users,
         \A u \in CdpTypes, x \in Users : u # t \/ x # o => cdp'[u][x] = cdp[u][x],
         Sound(cdp'[t][o], stat[Self][t])
  PROVE  LivePositions' /\ AllLive' /\ IQLocked' /\ MoneyIsNotIQ'
<1>1. \A u \in CdpTypes : \A it : MatchesType(it, stat[Self][u]) => MatchesType(it, stat'[Self][u])
  BY DEF SameTypes, MatchesType
<1>2. \A u \in CdpTypes : stat'[Self][u] # None =>
        /\ stat[Self][u] # None
        /\ stat'[Self][u].csym = stat[Self][u].csym /\ stat'[Self][u].ssym = stat[Self][u].ssym
        /\ stat'[Self][u].contract = stat[Self][u].contract
  BY DEF SameTypes
<1>3. LivePositions'
  <2> SUFFICES ASSUME NEW u \in CdpTypes, NEW x \in Users, cdp'[u][x] # None, cdp'[u][x].live
               PROVE  MatchesType(cdp'[u][x], stat'[Self][u])
    BY DEF LivePositions
  <2>1. CASE u = t /\ x = o BY <1>1, <2>1 DEF Sound
  <2>2. CASE ~(u = t /\ x = o)
    <3>1. MatchesType(cdp[u][x], stat[Self][u]) BY <2>2 DEF LivePositions
    <3> QED BY <1>1, <2>2, <3>1
  <2> QED BY <2>1, <2>2
<1>4. AllLive'
  <2> SUFFICES ASSUME NEW u \in CdpTypes, NEW x \in Users, cdp'[u][x] # None
               PROVE  cdp'[u][x].live
    BY DEF AllLive
  <2>1. CASE u = t /\ x = o BY <2>1 DEF Sound
  <2>2. CASE ~(u = t /\ x = o) BY <2>2 DEF AllLive
  <2> QED BY <2>1, <2>2
<1>5. IQLocked'
  <2> SUFFICES ASSUME NEW u \in CdpTypes, NEW x \in Users,
                      cdp'[u][x] # None, cdp'[u][x].collateral > 0, cdp'[u][x].csym = IQ,
                      stat'[Self][u] # None, stat'[Self][u].csym = IQ
               PROVE  stat'[Self][u].contract = IQContract
    BY DEF IQLocked
  <2>1. CASE u = t /\ x = o BY <1>2, <2>1 DEF Sound
  <2>2. CASE ~(u = t /\ x = o) BY <1>2, <2>2 DEF IQLocked
  <2> QED BY <2>1, <2>2
<1>6. MoneyIsNotIQ' BY <1>2 DEF MoneyIsNotIQ
<1> QED BY <1>3, <1>4, <1>5, <1>6

LEMMA SameShape ==
  ASSUME Shape, SameTypes(stat, stat'), acnt' = acnt,
         \A t \in CdpTypes, o \in Users :
              IF cdp[t][o] = None THEN cdp'[t][o] = None
              ELSE /\ cdp'[t][o] # None /\ cdp'[t][o].live = cdp[t][o].live
                   /\ cdp'[t][o].csym = cdp[t][o].csym /\ cdp'[t][o].ssym = cdp[t][o].ssym
                   /\ cdp'[t][o].collateral = cdp[t][o].collateral
                   /\ cdp'[t][o].stablecoin = cdp[t][o].stablecoin
  PROVE  Shape'
<1>2. \A u \in CdpTypes : IF stat[Self][u] = None THEN stat'[Self][u] = None
        ELSE /\ stat'[Self][u] # None
        /\ stat'[Self][u].csym = stat[Self][u].csym /\ stat'[Self][u].ssym = stat[Self][u].ssym
        /\ stat'[Self][u].contract = stat[Self][u].contract
  BY DEF SameTypes
<1>3. LivePositions' BY <1>2 DEF Shape, LivePositions, MatchesType
<1>4. AllLive' BY DEF Shape, AllLive
<1>5. IQLocked' BY <1>2 DEF Shape, IQLocked
<1>6. MoneyIsNotIQ' BY <1>2 DEF Shape, MoneyIsNotIQ
<1>7. IQRows' BY DEF Shape, IQRows
<1> QED BY <1>3, <1>4, <1>5, <1>6, <1>7 DEF Shape

\* Rows of IQ after a debit and after a credit.
LEMMA DebitIQ ==
  ASSUME NEW a \in Accounts, NEW o \in Users, NEW s \in Symbols, NEW q \in Nat,
         CanDebit(a, o, s, q),
         \A p \in Users : a[IQ][p] # None => a[IQ][p].code = IQContract
  PROVE  \A p \in Users : Debit(a, o, s, q)[IQ][p] # None =>
           Debit(a, o, s, q)[IQ][p].code = IQContract
<1> SUFFICES ASSUME NEW p \in Users, Debit(a, o, s, q)[IQ][p] # None
             PROVE  Debit(a, o, s, q)[IQ][p].code = IQContract
  OBVIOUS
<1>1. IQ \in Symbols BY TablesAssumption
<1> QED BY <1>1, DebitRows

LEMMA CreditIQ ==
  ASSUME NEW a \in Accounts, NEW o \in Users, NEW s \in Symbols,
         NEW q \in 0 .. MaxAmount, NEW d \in Codes, CanCredit(a, o, s, q, d),
         s = IQ => d = IQContract,
         \A p \in Users : a[IQ][p] # None => a[IQ][p].code = IQContract
  PROVE  \A p \in Users : Credit(a, o, s, q, d)[IQ][p] # None =>
           Credit(a, o, s, q, d)[IQ][p].code = IQContract
<1> SUFFICES ASSUME NEW p \in Users, Credit(a, o, s, q, d)[IQ][p] # None
             PROVE  Credit(a, o, s, q, d)[IQ][p].code = IQContract
  OBVIOUS
<1>1. IQ \in Symbols BY TablesAssumption
<1>2. CASE s = IQ /\ p = o BY <1>2, CreditPays
<1>3. CASE ~(s = IQ /\ p = o) BY <1>1, <1>3, CreditOthers
<1> QED BY <1>2, <1>3

LEMMA MovedShape ==
  ASSUME CdpTypeOK, Shape, NEW t \in CdpTypes, NEW o \in Users,
         NEW dc \in Int, NEW ds \in Int, NEW df \in Int, NEW tc \in Int,
         Moved(t, o, dc, ds, df, tc), cdp[t][o] # None,
         cdp[t][o].stablecoin + ds >= 0,
         cdp[t][o].collateral + dc > 0 /\ stat[Self][t].csym = IQ =>
           stat[Self][t].contract = IQContract,
         IQRows'
  PROVE  Shape'
<1>1. cdp[t][o].live /\ MatchesType(cdp[t][o], stat[Self][t])
  BY DEF Shape, AllLive, LivePositions
<1>2. Sound(cdp'[t][o], stat[Self][t]) BY <1>1 DEF Sound, MatchesType, Moved
<1>3. LivePositions' /\ AllLive' /\ IQLocked' /\ MoneyIsNotIQ'
  BY <1>2, OtherPositions DEF Shape, Moved, OnlyWrites
<1> QED BY <1>3 DEF Shape

LEMMA LockShape ==
  ASSUME CdpTypeOK, Shape, NEW o \in Users, NEW t \in CdpTypes,
         NEW q \in 1 .. MaxAmount, Lock(o, t, q)
  PROVE  Shape'
<1> DEFINE st == stat[Self][t]
<1>1. cdp[t][o] # None /\ MatchesType(cdp[t][o], st) /\ cdp[t][o] \in CdpRow
  BY CdpIn DEF Lock, LiveCdp, Shape, LivePositions
<1>2. st \in StatRow /\ st.csym \in Symbols BY <1>1, StatIn DEF MatchesType, StatRow
<1>3. Moved(t, o, q, 0, 0, q) /\ q \in Int BY LockMoves
<1>4. /\ CanDebit(acnt, o, st.csym, q) /\ acnt' = Debit(acnt, o, st.csym, q)
      /\ acnt[st.csym][o].code = st.contract
  BY DEF Lock, PaidByContract
<1>5. st.csym = IQ => st.contract = IQContract BY <1>4 DEF Shape, IQRows, CanDebit
<1>6. acnt \in Accounts /\ q \in Nat BY TypeParts
<1>7. IQRows'
  <2> HIDE DEF st
  <2> QED BY <1>2, <1>4, <1>6, DebitIQ DEF Shape, IQRows
<1>8. cdp[t][o].stablecoin + 0 >= 0
  BY <1>1, TablesAssumption DEF MatchesType, CdpRow, Amounts
<1> QED BY <1>1, <1>3, <1>5, <1>7, <1>8, MovedShape

LEMMA BailShape ==
  ASSUME CdpTypeOK, Shape, NEW o \in Users, NEW t \in CdpTypes,
         NEW q \in 1 .. MaxAmount, Bail(o, t, q)
  PROVE  Shape'
<1> DEFINE st == stat[Self][t]
<1>1. cdp[t][o] # None /\ MatchesType(cdp[t][o], st) /\ cdp[t][o] \in CdpRow
  BY CdpIn DEF Bail, LiveCdp, Shape, LivePositions
<1>2. st \in StatRow /\ st.csym \in Symbols /\ st.contract \in Codes
  BY <1>1, StatIn DEF MatchesType, StatRow, Codes
<1>3. Moved(t, o, -q, 0, 0, -q) /\ -q \in Int BY BailMoves
<1>4. /\ CanCredit(acnt, o, st.csym, q, st.contract)
      /\ acnt' = Credit(acnt, o, st.csym, q, st.contract)
  BY DEF Bail
<1>5. st.csym = IQ => st.contract = IQContract
  <2>1. cdp[t][o].collateral > 0 BY <1>1 DEF Bail, CdpRow
  <2> QED BY <1>1, <2>1 DEF Shape, IQLocked, MatchesType
<1>6. acnt \in Accounts /\ q \in 0 .. MaxAmount BY TypeParts, TablesAssumption
<1>7. IQRows'
  <2> HIDE DEF st
  <2> QED BY <1>2, <1>4, <1>5, <1>6, CreditIQ DEF Shape, IQRows
<1>8. cdp[t][o].stablecoin + 0 >= 0
  BY <1>1, TablesAssumption DEF MatchesType, CdpRow, Amounts
<1> QED BY <1>1, <1>3, <1>5, <1>7, <1>8, MovedShape

LEMMA DrawShape ==
  ASSUME CdpTypeOK, Shape, NEW o \in Users, NEW t \in CdpTypes,
         NEW q \in 1 .. MaxAmount, Draw(o, t, q)
  PROVE  Shape'
<1> DEFINE st == stat[Self][t]
<1>1. cdp[t][o] # None /\ MatchesType(cdp[t][o], st) /\ cdp[t][o] \in CdpRow
  BY CdpIn DEF Draw, LiveCdp, Shape, LivePositions
<1>2. st \in StatRow /\ st.ssym \in Symbols /\ Self \in Codes
  BY <1>1, StatIn DEF MatchesType, StatRow, Codes
<1>3. Moved(t, o, 0, q, 0, 0) /\ q \in Int BY DrawMoves
<1>4. CanCredit(acnt, o, st.ssym, q, Self) /\ acnt' = Credit(acnt, o, st.ssym, q, Self)
  BY DEF Draw
<1>5. st.ssym # IQ BY <1>1 DEF Shape, MoneyIsNotIQ, MatchesType
<1>6. acnt \in Accounts /\ q \in 0 .. MaxAmount BY TypeParts, TablesAssumption
<1>7. IQRows'
  <2> HIDE DEF st
  <2> QED BY <1>2, <1>4, <1>5, <1>6, CreditIQ DEF Shape, IQRows
<1>8. /\ cdp[t][o].stablecoin + q >= 0
      /\ cdp[t][o].collateral \in Int
  BY <1>1, TablesAssumption DEF MatchesType, CdpRow, Amounts
<1>9. cdp[t][o].collateral + 0 > 0 /\ st.csym = IQ => st.contract = IQContract
  BY <1>1, <1>8 DEF Shape, IQLocked, MatchesType
<1> QED BY <1>1, <1>3, <1>7, <1>8, <1>9, MovedShape

LEMMA WipeShape ==
  ASSUME CdpTypeOK, Shape, NEW o \in Users, NEW t \in CdpTypes,
         NEW q \in 1 .. MaxAmount, Wipe(o, t, q)
  PROVE  Shape'
<1> DEFINE st == stat[Self][t]   fee == FeeOf(o, t, q)   paid == Debit(acnt, o, IQ, fee)
<1>1. cdp[t][o] # None /\ MatchesType(cdp[t][o], st) /\ cdp[t][o] \in CdpRow
  BY CdpIn DEF Wipe, LiveCdp, Shape, LivePositions
<1>2. st \in StatRow /\ st.ssym \in Symbols /\ IQ \in Symbols
  BY <1>1, StatIn, TablesAssumption DEF MatchesType, StatRow
<1>3. Moved(t, o, 0, -q, fee, 0) /\ -q \in Int /\ fee \in Nat BY WipeMoves, FeeOfNat
<1>4. /\ CanDebit(acnt, o, IQ, fee) /\ CanDebit(paid, o, st.ssym, q)
      /\ acnt' = Debit(paid, o, st.ssym, q) /\ cdp[t][o].stablecoin > q
  BY DEF Wipe, FeeOf
<1>6. acnt \in Accounts /\ q \in Nat BY TypeParts
<1> HIDE DEF fee
<1>7. IQRows'
  <2>1. paid \in Accounts BY <1>2, <1>3, <1>4, <1>6, DebitType
  <2>2. \A p \in Users : paid[IQ][p] # None => paid[IQ][p].code = IQContract
    BY <1>2, <1>3, <1>4, <1>6, DebitIQ DEF Shape, IQRows
  <2> HIDE DEF st, paid
  <2> QED BY <1>2, <1>4, <1>6, <2>1, <2>2, DebitIQ DEF IQRows
<1>8. /\ cdp[t][o].stablecoin + (-q) >= 0
      /\ cdp[t][o].collateral \in Int
  BY <1>1, <1>4, TablesAssumption DEF CdpRow, Amounts
<1>9. cdp[t][o].collateral + 0 > 0 /\ st.csym = IQ => st.contract = IQContract
  BY <1>1, <1>8 DEF Shape, IQLocked, MatchesType
<1> QED BY <1>1, <1>3, <1>7, <1>8, <1>9, MovedShape

LEMMA OpenShape ==
  ASSUME CdpTypeOK, Shape, NEW o \in Users, NEW t \in CdpTypes, Open(o, t)
  PROVE  Shape'
<1>1. acnt' = acnt BY DEF Open
<1>2. Sound(cdp'[t][o], stat[Self][t]) BY OpenWrites DEF Sound, MatchesType
<1>3. LivePositions' /\ AllLive' /\ IQLocked' /\ MoneyIsNotIQ'
  BY <1>2, OpenWrites, OtherPositions DEF Shape
<1> QED BY <1>1, <1>3 DEF Shape, IQRows

LEMMA ShutShape ==
  ASSUME CdpTypeOK, Shape, NEW o \in Users, NEW t \in CdpTypes, Shut(o, t)
  PROVE  Shape'
<1> DEFINE it == cdp[t][o]   st == stat[Self][t]   a == Repaid(o, it)
           r == it.ssym   q == it.stablecoin   y == it.collateral   d == st.contract
<1>1. it # None /\ MatchesType(it, st) /\ it \in CdpRow
  BY CdpIn DEF Shut, LiveCdp, Shape, LivePositions
<1>2. st \in StatRow BY <1>1, StatIn DEF MatchesType
<1>3. /\ r \in Symbols /\ q \in Nat /\ it.csym \in Symbols /\ y \in 0 .. MaxAmount
      /\ d \in Codes /\ acnt \in Accounts
  BY <1>1, <1>2, TypeParts, TablesAssumption
  DEF CdpRow, Amounts, StatRow, Codes, MatchesType
<1>4. /\ q > 0 => CanDebit(acnt, o, r, q)
      /\ a = IF q > 0 THEN Debit(acnt, o, r, q) ELSE acnt
      /\ y > 0 => CanCredit(a, o, it.csym, y, d)
      /\ acnt' = IF y > 0 THEN Credit(a, o, it.csym, y, d) ELSE a
  BY DEF Shut, Repaid
<1>5. y > 0 /\ it.csym = IQ => d = IQContract
  BY <1>1 DEF Shape, IQLocked, MatchesType
<1>6. \A p \in Users : acnt[IQ][p] # None => acnt[IQ][p].code = IQContract
  BY DEF Shape, IQRows
<1>7. Sound(cdp'[t][o], st) BY ShutWrites DEF Sound
<1>8. LivePositions' /\ AllLive' /\ IQLocked' /\ MoneyIsNotIQ'
  BY <1>7, ShutWrites, OtherPositions DEF Shape, OnlyWrites
<1>9. a \in Accounts BY <1>1, <1>3, RepaidHeld, TablesAssumption
<1> HIDE DEF it, st, a, r, q, y, d
<1>10. \A p \in Users : a[IQ][p] # None => a[IQ][p].code = IQContract
  BY <1>3, <1>4, <1>6, DebitIQ
<1>11. IQRows' BY <1>3, <1>4, <1>5, <1>9, <1>10, CreditIQ DEF IQRows
<1> QED BY <1>8, <1>11 DEF Shape

LEMMA BalanceKeeps ==
  ASSUME BalanceStep
  PROVE  stat' = stat /\ cdp' = cdp
<1>1. \A o \in Users, c \in Tokens, s \in Symbols : \A q \in Qty[s] :
        Deposit(o, c, s, q) => stat' = stat /\ cdp' = cdp
  BY DEF Deposit
<1>2. \A o \in Users, s \in Symbols : \A q \in Qty[s] \cup {0} :
        Withdraw(o, s, q) => stat' = stat /\ cdp' = cdp
  BY DEF Withdraw
<1>3. \A o \in Users, s \in Symbols : Close(o, s) => stat' = stat /\ cdp' = cdp
  BY DEF Close
<1> QED BY <1>1, <1>2, <1>3 DEF BalanceStep

LEMMA BalanceShape ==
  ASSUME CdpTypeOK, Shape, BalanceStep
  PROVE  Shape'
<1> USE TablesAssumption
<1>1. stat' = stat /\ cdp' = cdp BY BalanceKeeps
<1>2. acnt \in Accounts BY TypeParts
<1>3. IQRows'
  <2>1. PICK o \in Users, s \in Symbols :
          \/ \E c \in Tokens, q \in Qty[s] : Deposit(o, c, s, q)
          \/ \E q \in Qty[s] \cup {0} : Withdraw(o, s, q)
          \/ Close(o, s)
    BY DEF BalanceStep
  <2>2. ASSUME NEW c \in Tokens, NEW q \in Qty[s], Deposit(o, c, s, q) PROVE IQRows'
    <3>1. /\ CanCredit(acnt, o, s, q, c) /\ acnt' = Credit(acnt, o, s, q, c)
          /\ s = IQ => c = IQContract
      BY <2>2 DEF Deposit
    <3>2. q \in 0 .. MaxAmount /\ c \in Codes BY CdpAssumption DEF Codes
    <3> QED BY <1>2, <3>1, <3>2, CreditIQ DEF Shape, IQRows
  <2>3. ASSUME NEW asked \in Qty[s] \cup {0}, Withdraw(o, s, asked) PROVE IQRows'
    <3> DEFINE q == IF asked = 0 THEN acnt[s][o].balance ELSE asked
    <3>1. CanDebit(acnt, o, s, q) /\ acnt' = Debit(acnt, o, s, q) /\ acnt[s][o] # None
      BY <2>3 DEF Withdraw
    <3>2. q \in Nat
      <4>1. acnt[s][o].balance \in Nat BY <1>2, <3>1 DEF Accounts, AccountRow
      <4>2. asked \in Nat BY CdpAssumption
      <4> QED BY <4>1, <4>2
    <3> HIDE DEF q
    <3> QED BY <1>2, <3>1, <3>2, DebitIQ DEF Shape, IQRows
  <2>4. ASSUME Close(o, s) PROVE IQRows'
    <3>1. acnt' = [acnt EXCEPT ![s][o] = None] BY <2>4 DEF Close
    <3>2. \A p \in Users : acnt'[IQ][p] # None => acnt'[IQ][p] = acnt[IQ][p]
      BY <1>2, <3>1, WrittenAt DEF Accounts
    <3> QED BY <3>2 DEF Shape, IQRows
  <2> QED BY <2>1, <2>2, <2>3, <2>4
<1> QED BY <1>1, <1>3
    DEF Shape, LivePositions, AllLive, IQLocked, MoneyIsNotIQ, MatchesType

LEMMA IdleShape ==
  ASSUME CdpTypeOK, Shape, IdleStep
  PROVE  Shape'
<1>1. acnt' = acnt /\ SameTypes(stat, stat') BY IdleKeeps
<1>2. \A t \in CdpTypes, o \in Users :
        IF cdp[t][o] = None THEN cdp'[t][o] = None
        ELSE /\ cdp'[t][o] # None /\ cdp'[t][o].live = cdp[t][o].live
             /\ cdp'[t][o].csym = cdp[t][o].csym /\ cdp'[t][o].ssym = cdp[t][o].ssym
             /\ cdp'[t][o].collateral = cdp[t][o].collateral
             /\ cdp'[t][o].stablecoin = cdp[t][o].stablecoin
  BY IdleKeeps
<1> QED BY <1>1, <1>2, SameShape
-----------------------------------------------------------------------------
(***************************************************************************)
(* The step of the inductive invariant, and what follows from it.          *)
(***************************************************************************)
LEMMA MoneyParts ==
  /\ StablecoinIsDebt <=> \A s \in Symbols : Held(acnt, Self, s) = Debts(cdp, s)
  /\ StablecoinIsDebt' <=> \A s \in Symbols : Held(acnt', Self, s) = Debts(cdp', s)
BY DEF StablecoinIsDebt, RowsFrom, DebtIn, Held, HeldBy, InRow, Debts, DebtAt

LEMMA NoUsers ==
  ASSUME Users = {}, NEW a, NEW p, NEW s
  PROVE  Held(a, Self, s) = 0 /\ Debts(p, s) = 0
<1>1. Held(a, Self, s) = 0 BY SumZero, TablesAssumption DEF Held
<1>2. Debts(p, s) = 0 BY SumZero, PairsFinite DEF Debts
<1> QED BY <1>1, <1>2

LEMMA SumsKept ==
  ASSUME CdpInv, CdpTypeOK', Shape',
         \A c \in Tokens, s \in Symbols : ClaimsFall(c, s, 0),
         \A s \in Symbols, p \in Users : MoneyKept(s, p)
  PROVE  CdpInv'
<1>0. CdpTypeOK BY DEF CdpInv
<1>1. VaultMatchesClaims'
  <2> SUFFICES ASSUME NEW c \in Tokens, NEW s \in Symbols
               PROVE  vault'[c][s] = Claims(c, s)'
    BY DEF VaultMatchesClaims
  <2>1. Claims(c, s)' - vault'[c][s] = Claims(c, s) - vault[c][s] - 0
    BY DEF ClaimsFall
  <2>2. vault[c][s] = Claims(c, s) BY DEF CdpInv, VaultMatchesClaims
  <2>3. vault[c][s] \in Int BY <1>0, ClaimsInt
  <2>4. vault'[c][s] \in Int /\ Claims(c, s)' \in Int
    <3>1. /\ stat' \in StatTable /\ acnt' \in Accounts /\ cdp' \in CdpTable /\ vault' \in Vaults
      BY TypePartsNext
    <3>2. vault'[c][s] \in Int BY <3>1, TablesAssumption DEF Vaults
    <3>3. Held(acnt', c, s) \in Nat BY <3>1, HeldNat
    <3>4. Locked(cdp', stat', c, s) \in Nat BY <3>1, LockedNat
    <3>5. Fees(stat', c, s) \in Nat BY <3>1, FeesNat
    <3> QED BY <3>2, <3>3, <3>4, <3>5, ClaimsParts
  <2>5. \A a, b, v, w \in Int : a - v = b - w - 0 /\ w = b => v = a OBVIOUS
  <2>6. Claims(c, s) \in Int BY <2>2, <2>3
  <2> QED BY <2>1, <2>2, <2>3, <2>4, <2>5, <2>6
<1>2. OwnDebtsMatch'
  <2> SUFFICES ASSUME NEW o \in Users, NEW s \in Symbols
               PROVE  InRow(acnt'[s][o], Self) = OwnDebts(cdp', o, s)
    BY DEF OwnDebtsMatch
  <2>1. InRow(acnt'[s][o], Self) - OwnDebts(cdp', o, s)
          = InRow(acnt[s][o], Self) - OwnDebts(cdp, o, s)
    BY DEF MoneyKept
  <2>2. InRow(acnt[s][o], Self) = OwnDebts(cdp, o, s) BY DEF CdpInv, OwnDebtsMatch
  <2>3. OwnDebts(cdp, o, s) \in Int BY <1>0, MoneyInt
  <2>4. InRow(acnt'[s][o], Self) \in Nat BY TypePartsNext, HeldNat
  <2>5. OwnDebts(cdp', o, s) \in Int BY TypePartsNext, DebtsInt
  <2> QED BY <2>1, <2>2, <2>3, <2>4, <2>5
<1>3. StablecoinIsDebt'
  <2> SUFFICES ASSUME NEW s \in Symbols PROVE Held(acnt', Self, s) = Debts(cdp', s)
    BY MoneyParts
  <2>1. CASE Users = {} BY <2>1, NoUsers
  <2>2. CASE Users # {}
    <3>1. PICK p \in Users : TRUE BY <2>2
    <3>2. Held(acnt', Self, s) - Debts(cdp', s) = Held(acnt, Self, s) - Debts(cdp, s)
      BY <3>1 DEF MoneyKept
    <3>3. Held(acnt, Self, s) = Debts(cdp, s) BY MoneyParts DEF CdpInv
    <3>4. Debts(cdp, s) \in Int BY <1>0, <3>1, MoneyInt
    <3>5. Held(acnt', Self, s) \in Nat BY TypePartsNext, HeldNat
    <3>6. Debts(cdp', s) \in Int BY TypePartsNext, DebtsInt
    <3> QED BY <3>2, <3>3, <3>4, <3>5, <3>6
  <2> QED BY <2>1, <2>2
<1> QED BY <1>1, <1>2, <1>3 DEF CdpInv, Shape

\* A repayment is in stablecoin of Self: no other contract's claims fall by it.
LEMMA RepaidInMoney ==
  ASSUME CdpInv, NEW t \in CdpTypes, NEW o \in Users, cdp[t][o] # None,
         NEW q \in 0 .. MaxAmount, q > 0 => cdp[t][o].stablecoin > 0,
         NEW c \in Tokens, NEW s
  PROVE  OffRow(o, cdp[t][o].ssym, q, c, s) = 0
<1>1. Self # c BY TablesAssumption
<1>2. CASE q > 0 BY <1>1, <1>2, DebtorRow DEF OffRow
<1>3. CASE q = 0 BY <1>3 DEF OffRow
<1> QED BY <1>2, <1>3, TablesAssumption

LEMMA OwnerInv ==
  ASSUME CdpInv, OwnerStep
  PROVE  CdpInv'
<1>0. CdpTypeOK /\ Shape /\ LivePositions /\ IQRows BY DEF CdpInv, Shape
<1>1. CdpTypeOK' BY <1>0, StepType DEF CdpNext
<1>2. PICK o \in Users, t \in CdpTypes :
        \/ Open(o, t)
        \/ Shut(o, t)
        \/ \E q \in ClatrlQty(t) : Lock(o, t, q) \/ Bail(o, t, q)
        \/ \E q \in StablQty(t) : Draw(o, t, q) \/ Wipe(o, t, q)
  BY DEF OwnerStep
<1>3. ClatrlQty(t) \subseteq 1 .. MaxAmount /\ StablQty(t) \subseteq 1 .. MaxAmount
  BY <1>0, StatIn, CdpAssumption DEF ClatrlQty, StablQty, StatRow
<1>4. CASE Open(o, t)
  BY <1>0, <1>1, <1>4, OpenClaims, OpenMoney, OpenShape, SumsKept
<1>5. CASE Shut(o, t)
  <2>1. /\ cdp[t][o] # None /\ cdp[t][o] \in CdpRow /\ cdp[t][o].stablecoin >= 0
    BY <1>0, <1>5, CdpIn DEF Shut, LiveCdp, LivePositions, MatchesType
  <2>2. cdp[t][o].stablecoin \in 0 .. MaxAmount
    BY <2>1, TablesAssumption DEF CdpRow, Amounts
  <2>3. ASSUME NEW c \in Tokens, NEW s \in Symbols PROVE ClaimsFall(c, s, 0)
    <3>1. ClaimsFall(c, s, OffRow(o, cdp[t][o].ssym, cdp[t][o].stablecoin, c, s))
      BY <1>0, <1>5, ShutClaims
    <3>2. OffRow(o, cdp[t][o].ssym, cdp[t][o].stablecoin, c, s) = 0
      BY <2>1, <2>2, RepaidInMoney
    <3> QED BY <3>1, <3>2
  <2> QED BY <1>0, <1>1, <1>5, <2>3, ShutMoney, ShutShape, SumsKept
<1>6. ASSUME NEW q \in 1 .. MaxAmount, Lock(o, t, q) PROVE CdpInv'
  BY <1>0, <1>1, <1>6, LockClaims, LockMoney, LockShape, SumsKept
<1>7. ASSUME NEW q \in 1 .. MaxAmount, Bail(o, t, q) PROVE CdpInv'
  BY <1>0, <1>1, <1>7, BailClaims, BailMoney, BailShape, SumsKept
<1>8. ASSUME NEW q \in 1 .. MaxAmount, Draw(o, t, q) PROVE CdpInv'
  BY <1>0, <1>1, <1>8, DrawClaims, DrawMoney, DrawShape, SumsKept
<1>9. ASSUME NEW q \in 1 .. MaxAmount, Wipe(o, t, q) PROVE CdpInv'
  <2>1. /\ cdp[t][o] # None /\ cdp[t][o] \in CdpRow
        /\ cdp[t][o].ssym = stat[Self][t].ssym /\ cdp[t][o].stablecoin > q
    BY <1>0, <1>9, CdpIn DEF Wipe, LiveCdp, LivePositions, MatchesType
  <2>2. q \in 0 .. MaxAmount /\ cdp[t][o].stablecoin > 0
    BY <2>1, TablesAssumption DEF CdpRow, Amounts
  <2>3. ASSUME NEW c \in Tokens, NEW s \in Symbols PROVE ClaimsFall(c, s, 0)
    <3>1. ClaimsFall(c, s, OffRow(o, stat[Self][t].ssym, q, c, s))
      BY <1>0, <1>9, WipeClaims
    <3>2. OffRow(o, stat[Self][t].ssym, q, c, s) = 0
      BY <2>1, <2>2, RepaidInMoney
    <3> QED BY <3>1, <3>2
  <2> QED BY <1>0, <1>1, <1>9, <2>3, WipeMoney, WipeShape, SumsKept
<1> QED BY <1>2, <1>3, <1>4, <1>5, <1>6, <1>7, <1>8, <1>9

LEMMA BalanceInv ==
  ASSUME CdpInv, BalanceStep
  PROVE  CdpInv'
<1>0. CdpTypeOK /\ Shape BY DEF CdpInv, Shape
<1>1. CdpTypeOK' BY <1>0, StepType DEF CdpNext
<1>2. Shape' BY <1>0, BalanceShape
<1>3. PICK o \in Users, s \in Symbols :
        \/ \E c \in Tokens, q \in Qty[s] : Deposit(o, c, s, q)
        \/ \E q \in Qty[s] \cup {0} : Withdraw(o, s, q)
        \/ Close(o, s)
  BY DEF BalanceStep
<1>4. Qty[s] \subseteq 1 .. MaxAmount /\ Qty[s] \cup {0} \subseteq 0 .. MaxAmount
  BY TablesAssumption, CdpAssumption
<1>5. ASSUME NEW c \in Tokens, NEW q \in 1 .. MaxAmount, Deposit(o, c, s, q) PROVE CdpInv'
  BY <1>0, <1>1, <1>2, <1>5, DepositClaims, DepositMoney, SumsKept
<1>6. ASSUME NEW q \in 0 .. MaxAmount, Withdraw(o, s, q) PROVE CdpInv'
  BY <1>0, <1>1, <1>2, <1>6, WithdrawClaims, WithdrawMoney, SumsKept
<1>7. CASE Close(o, s)
  BY <1>0, <1>1, <1>2, <1>7, CloseClaims, CloseMoney, SumsKept
<1> QED BY <1>3, <1>4, <1>5, <1>6, <1>7

LEMMA StepInv ==
  ASSUME CdpInv, [CdpNext]_cdpVars
  PROVE  CdpInv'
<1>1. ASSUME IdleStep PROVE CdpInv'
  <2>0. CdpTypeOK /\ Shape BY DEF CdpInv, Shape
  <2>1. CdpTypeOK' BY <1>1, <2>0, StepType DEF IdleStep, CdpNext
  <2>2. Shape' BY <1>1, <2>0, IdleShape
  <2> QED BY <1>1, <2>0, <2>1, <2>2, IdleClaims, IdleMoney, SumsKept
<1> QED BY <1>1, OwnerInv, BalanceInv DEF CdpNext, IdleStep

LEMMA InitInv == CdpInit => CdpInv
<1> SUFFICES ASSUME CdpInit PROVE CdpInv
  OBVIOUS
<1> USE TablesAssumption
<1>1. CdpTypeOK BY InitType
<1>2. /\ \A s \in Symbols, o \in Users : acnt[s][o] = None
      /\ \A t \in CdpTypes, o \in Users : cdp[t][o] = None
      /\ \A c \in Tokens, s \in Symbols : vault[c][s] = 0
      /\ \A t \in CdpTypes : stat[Self][t] = Enacted[t]
  BY DEF CdpInit, StatInit, Scopes
<1>3. Shape
  BY <1>2, CdpAssumption
  DEF Shape, LivePositions, AllLive, IQRows, IQLocked, MoneyIsNotIQ
<1>4. ASSUME NEW c, NEW s \in Symbols PROVE Held(acnt, c, s) = 0
  <2>1. \A o \in Users : HeldBy(acnt, c, s)[o] = 0 BY <1>2 DEF HeldBy, InRow
  <2> QED BY <2>1, SumZero DEF Held
<1>5. ASSUME NEW s PROVE Debts(cdp, s) = 0 /\ \A o \in Users : OwnDebts(cdp, o, s) = 0
  <2> DEFINE f == [k \in CdpTypes \X Users |-> DebtAt(cdp[k[1]][k[2]], s)]
  <2>1. \A k \in CdpTypes \X Users : f[k] = 0 BY <1>2 DEF DebtAt
  <2> HIDE DEF f
  <2>2. SumFunctionOnSet(f, CdpTypes \X Users) = 0 BY <2>1, SumZero, PairsFinite
  <2>3. Debts(cdp, s) = 0 BY <2>2 DEF Debts, f
  <2>4. \A o \in Users, t \in CdpTypes : OwnDebtsIn(cdp, o, s)[t] = 0
    BY <1>2 DEF OwnDebtsIn, DebtAt
  <2> QED BY <2>3, <2>4, SumZero DEF OwnDebts
<1>6. ASSUME NEW c, NEW s PROVE Locked(cdp, stat, c, s) = 0 /\ Fees(stat, c, s) = 0
  <2>1. \A k \in CdpTypes \X Users : LockedIn(cdp, stat, c, s)[k] = 0
    BY <1>2 DEF LockedIn, LockedAt
  <2>2. Locked(cdp, stat, c, s) = 0 BY <2>1, SumZero, PairsFinite DEF Locked
  <2>3. \A t \in CdpTypes : FeesIn(stat, c, s)[t] = 0
    BY <1>2, CdpAssumption DEF FeesIn, FeeAt
  <2> QED BY <2>2, <2>3, SumZero DEF Fees
<1>7. VaultMatchesClaims
  <2> SUFFICES ASSUME NEW c \in Tokens, NEW s \in Symbols PROVE vault[c][s] = Claims(c, s)
    BY DEF VaultMatchesClaims
  <2> QED BY <1>2, <1>4, <1>6, ClaimsParts
<1>8. OwnDebtsMatch BY <1>2, <1>5 DEF OwnDebtsMatch, InRow
<1>9. StablecoinIsDebt BY <1>4, <1>5, MoneyParts
<1> QED BY <1>1, <1>3, <1>7, <1>8, <1>9 DEF CdpInv, Shape

LEMMA CdpInvariant == CdpSpec => []CdpInv
<1>1. CdpInv /\ [CdpNext]_cdpVars => CdpInv' BY StepInv
<1> QED BY <1>1, InitInv, PTL DEF CdpSpec

\* What the contract holds at every token contract is what its users may claim
\* of it, after any sequence of deposits, locks, bails, draws, wipes, shuts and
\* withdrawals of any number of users in any number of tokens.
THEOREM VaultConserved == CdpSpec => []VaultMatchesClaims
<1>1. CdpInv => VaultMatchesClaims BY DEF CdpInv
<1> QED BY <1>1, CdpInvariant, PTL

\* Stablecoin held and stablecoin owed are the same amount, for each symbol.
THEOREM MoneyConserved == CdpSpec => []StablecoinIsDebt
<1>1. CdpInv => StablecoinIsDebt BY DEF CdpInv
<1> QED BY <1>1, CdpInvariant, PTL
-----------------------------------------------------------------------------
(***************************************************************************)
(* The collateral total of a type and the safety of positions.             *)
(***************************************************************************)
Coll(it) == IF it = None THEN 0 ELSE it.collateral
CollBy(p, t) == [o \in Users |-> Coll(p[t][o])]
CollSum(p, t) == SumFunctionOnSet(CollBy(p, t), Users)

LEMMA CollInt ==
  ASSUME NEW p \in CdpTable, NEW t \in CdpTypes
  PROVE  CollSum(p, t) \in Int /\ \A o \in Users : Coll(p[t][o]) \in Nat
<1>1. \A o \in Users : Coll(p[t][o]) \in Nat
  BY TablesAssumption DEF Coll, CdpTable, CdpRow
<1>2. \A o \in Users : CollBy(p, t)[o] \in Int BY <1>1 DEF CollBy
<1> QED BY <1>1, <1>2, SumInt, TablesAssumption DEF CollSum

LEMMA CollWritten ==
  ASSUME NEW p \in CdpTable, NEW q \in CdpTable, NEW t \in CdpTypes, NEW o \in Users,
         \A u \in CdpTypes, x \in Users : u # t \/ x # o => q[u][x] = p[u][x],
         NEW v \in CdpTypes
  PROVE  CollSum(q, v) = IF v = t THEN CollSum(p, t) - Coll(p[t][o]) + Coll(q[t][o])
                                  ELSE CollSum(p, v)
<1>1. CASE v # t
  <2>1. \A x \in Users : CollBy(q, v)[x] = CollBy(p, v)[x] BY <1>1 DEF CollBy
  <2> QED BY <1>1, <2>1, SumEqual, TablesAssumption DEF CollSum
<1>2. CASE v = t
  <2>1. \A x \in Users : Coll(p[t][x]) \in Nat BY CollInt
  <2>2. \A x \in Users : Coll(q[t][x]) \in Nat BY CollInt
  <2>3. \A x \in Users : CollBy(p, t)[x] \in Int /\ CollBy(q, t)[x] \in Int
    BY <2>1, <2>2 DEF CollBy
  <2>4. \A x \in Users \ {o} : CollBy(q, t)[x] = CollBy(p, t)[x] BY DEF CollBy
  <2>5. CollBy(p, t)[o] = Coll(p[t][o]) /\ CollBy(q, t)[o] = Coll(q[t][o]) BY DEF CollBy
  <2>6. CollSum(q, t) = CollSum(p, t) - CollBy(p, t)[o] + CollBy(q, t)[o]
    BY <2>3, <2>4, SumUpdate, TablesAssumption DEF CollSum
  <2> QED BY <1>2, <2>5, <2>6
<1> QED BY <1>1, <1>2

LEMMA CollParts ==
  /\ TotalCoversLocked <=> \A t \in CdpTypes : stat[Self][t] # None =>
       stat[Self][t].total_collateral >= CollSum(cdp, t)
  /\ TotalCoversLocked' <=> \A t \in CdpTypes : stat'[Self][t] # None =>
       stat'[Self][t].total_collateral >= CollSum(cdp', t)
BY DEF TotalCoversLocked, LockedOf, CollSum, CollBy, Coll

\* A step that writes one position and its type keeps the total above what is
\* locked when the total moves by no less than the collateral of the position.
LEMMA OneCovered ==
  ASSUME CdpTypeOK, CdpTypeOK', TotalCoversLocked, NEW t \in CdpTypes, NEW o \in Users,
         SameTypes(stat, stat'), stat[Self][t] # None,
         \A u \in CdpTypes : u # t => stat'[Self][u] = stat[Self][u],
         \A u \in CdpTypes, x \in Users : u # t \/ x # o => cdp'[u][x] = cdp[u][x],
         stat'[Self][t].total_collateral - stat[Self][t].total_collateral
           >= Coll(cdp'[t][o]) - Coll(cdp[t][o])
  PROVE  TotalCoversLocked'
<1> USE TablesAssumption
<1>1. cdp \in CdpTable /\ cdp' \in CdpTable /\ stat \in StatTable /\ stat' \in StatTable
  BY TypeParts, TypePartsNext
<1> SUFFICES ASSUME NEW u \in CdpTypes, stat'[Self][u] # None
             PROVE  stat'[Self][u].total_collateral >= CollSum(cdp', u)
  BY CollParts
<1>2. CollSum(cdp', u) = IF u = t THEN CollSum(cdp, t) - Coll(cdp[t][o]) + Coll(cdp'[t][o])
                                  ELSE CollSum(cdp, u)
  BY <1>1, CollWritten
<1>3. stat[Self][u] # None BY DEF SameTypes
<1>4. stat[Self][u].total_collateral >= CollSum(cdp, u) BY <1>3, CollParts
<1>5. CASE u # t BY <1>2, <1>4, <1>5
<1>6. CASE u = t
  <2>1. CollSum(cdp, t) \in Int BY <1>1, CollInt
  <2>2. Coll(cdp[t][o]) \in Nat BY <1>1, CollInt
  <2>3. Coll(cdp'[t][o]) \in Nat BY <1>1, CollInt
  <2>4. stat[Self][t] \in StatRow /\ stat'[Self][t] \in StatRow
    BY <1>1, <1>3, <1>6 DEF StatTable, Scopes
  <2>5. stat[Self][t].total_collateral \in Int /\ stat'[Self][t].total_collateral \in Int
    BY <2>4 DEF StatRow, Amounts
  <2> QED BY <1>2, <1>4, <1>6, <2>1, <2>2, <2>3, <2>5
<1> QED BY <1>5, <1>6

\* A step that keeps every collateral and every total keeps it too.
LEMMA SameCovered ==
  ASSUME TotalCoversLocked, SameTypes(stat, stat'),
         \A t \in CdpTypes :
           stat'[Self][t].total_collateral = stat[Self][t].total_collateral,
         \A t \in CdpTypes, o \in Users : Coll(cdp'[t][o]) = Coll(cdp[t][o])
  PROVE  TotalCoversLocked'
<1> SUFFICES ASSUME NEW u \in CdpTypes, stat'[Self][u] # None
             PROVE  stat'[Self][u].total_collateral >= CollSum(cdp', u)
  BY CollParts
<1>1. \A x \in Users : CollBy(cdp', u)[x] = CollBy(cdp, u)[x] BY DEF CollBy
<1>2. CollSum(cdp', u) = CollSum(cdp, u)
  BY <1>1, SumEqual, TablesAssumption DEF CollSum
<1>3. stat[Self][u] # None BY DEF SameTypes
<1> QED BY <1>2, <1>3, CollParts

LEMMA MovedCovered ==
  ASSUME CdpTypeOK, CdpTypeOK', TotalCoversLocked, NEW t \in CdpTypes, NEW o \in Users,
         NEW dc \in Int, NEW ds \in Int, NEW df \in Int,
         Moved(t, o, dc, ds, df, dc), cdp[t][o] # None, stat[Self][t] # None
  PROVE  TotalCoversLocked'
<1>1. cdp \in CdpTable /\ stat \in StatTable BY TypeParts
<1>2. cdp[t][o].collateral \in Int /\ stat[Self][t].total_collateral \in Int
  BY <1>1, CdpIn, StatIn, TablesAssumption DEF CdpRow, StatRow, Amounts
<1>3. Coll(cdp[t][o]) = cdp[t][o].collateral /\ Coll(cdp'[t][o]) = cdp[t][o].collateral + dc
  BY DEF Coll, Moved
<1>4. stat'[Self][t].total_collateral = stat[Self][t].total_collateral + dc
  BY DEF Moved
<1> QED BY <1>2, <1>3, <1>4, OneCovered DEF Moved, OnlyWrites

LEMMA StepCovered ==
  ASSUME CdpTypeOK, TotalCoversLocked, [CdpNext]_cdpVars
  PROVE  TotalCoversLocked'
<1>0. CdpTypeOK' BY StepType
<1>1. ASSUME OwnerStep PROVE TotalCoversLocked'
  <2>1. PICK o \in Users, t \in CdpTypes :
          \/ Open(o, t)
          \/ Shut(o, t)
          \/ \E q \in ClatrlQty(t) : Lock(o, t, q) \/ Bail(o, t, q)
          \/ \E q \in StablQty(t) : Draw(o, t, q) \/ Wipe(o, t, q)
    BY <1>1 DEF OwnerStep
  <2>2. ClatrlQty(t) \subseteq 1 .. MaxAmount /\ StablQty(t) \subseteq 1 .. MaxAmount
    BY StatIn, CdpAssumption DEF ClatrlQty, StablQty, StatRow
  <2>3. CASE Open(o, t)
    <3>1. Coll(cdp[t][o]) = 0 /\ Coll(cdp'[t][o]) = 0 BY <2>3, OpenWrites DEF Coll
    <3>2. stat[Self][t].total_collateral \in Int
      BY <2>3, OpenWrites, StatIn DEF StatRow, Amounts
    <3>3. stat'[Self][t].total_collateral - stat[Self][t].total_collateral
            >= Coll(cdp'[t][o]) - Coll(cdp[t][o])
      BY <2>3, <3>1, <3>2, OpenWrites
    <3> QED BY <1>0, <2>3, <3>3, OpenWrites, OneCovered
  <2>4. CASE Shut(o, t)
    <3>1. stat[Self][t] # None /\ cdp[t][o] # None BY <2>4 DEF Shut, LiveCdp
    <3>2. cdp[t][o].collateral \in Nat /\ stat[Self][t].total_collateral \in Int
      BY <3>1, CdpIn, StatIn, TablesAssumption DEF CdpRow, StatRow, Amounts
    <3>3. Coll(cdp[t][o]) = cdp[t][o].collateral /\ Coll(cdp'[t][o]) = 0
      BY <2>4, <3>1, ShutWrites DEF Coll
    <3>4. stat'[Self][t].total_collateral
            = stat[Self][t].total_collateral + cdp[t][o].collateral
      BY <2>4, ShutWrites
    <3>5. stat'[Self][t].total_collateral - stat[Self][t].total_collateral
            >= Coll(cdp'[t][o]) - Coll(cdp[t][o])
      BY <3>2, <3>3, <3>4
    <3> QED BY <1>0, <2>4, <3>1, <3>5, ShutWrites, OneCovered DEF OnlyWrites
  <2>5. ASSUME NEW q \in 1 .. MaxAmount, Lock(o, t, q) PROVE TotalCoversLocked'
    <3>1. Moved(t, o, q, 0, 0, q) /\ q \in Int BY <2>5, LockMoves
    <3> QED BY <1>0, <2>5, <3>1, MovedCovered DEF Lock, LiveCdp
  <2>6. ASSUME NEW q \in 1 .. MaxAmount, Bail(o, t, q) PROVE TotalCoversLocked'
    <3>1. Moved(t, o, -q, 0, 0, -q) /\ -q \in Int BY <2>6, BailMoves
    <3> QED BY <1>0, <2>6, <3>1, MovedCovered DEF Bail, LiveCdp
  <2>7. ASSUME NEW q \in 1 .. MaxAmount, Draw(o, t, q) PROVE TotalCoversLocked'
    <3>1. Moved(t, o, 0, q, 0, 0) /\ q \in Int BY <2>7, DrawMoves
    <3> QED BY <1>0, <2>7, <3>1, MovedCovered DEF Draw, LiveCdp
  <2>8. ASSUME NEW q \in 1 .. MaxAmount, Wipe(o, t, q) PROVE TotalCoversLocked'
    <3>1. Moved(t, o, 0, -q, FeeOf(o, t, q), 0) /\ -q \in Int /\ FeeOf(o, t, q) \in Int
      BY <2>8, WipeMoves, FeeOfNat
    <3> QED BY <1>0, <2>8, <3>1, MovedCovered DEF Wipe, LiveCdp
  <2> QED BY <2>1, <2>2, <2>3, <2>4, <2>5, <2>6, <2>7, <2>8
<1>2. ASSUME BalanceStep PROVE TotalCoversLocked'
  <2>1. stat' = stat /\ cdp' = cdp BY <1>2, BalanceKeeps
  <2> QED BY <2>1, SameCovered DEF SameTypes
<1>3. ASSUME IdleStep PROVE TotalCoversLocked'
  <2>1. \A t \in CdpTypes, o \in Users : Coll(cdp'[t][o]) = Coll(cdp[t][o])
    BY <1>3, IdleKeeps DEF Coll
  <2> QED BY <1>3, <2>1, IdleKeeps, SameCovered
<1> QED BY <1>1, <1>2, <1>3 DEF CdpNext, IdleStep

LEMMA InitCovered == CdpInit => TotalCoversLocked
<1> SUFFICES ASSUME CdpInit PROVE TotalCoversLocked
  OBVIOUS
<1> SUFFICES ASSUME NEW t \in CdpTypes, stat[Self][t] # None
             PROVE  stat[Self][t].total_collateral >= CollSum(cdp, t)
  BY CollParts
<1>1. \A o \in Users : CollBy(cdp, t)[o] = 0 BY DEF CdpInit, CollBy, Coll
<1>2. CollSum(cdp, t) = 0 BY <1>1, SumZero, TablesAssumption DEF CollSum
<1>3. stat[Self][t] = Enacted[t] BY DEF CdpInit, StatInit, Scopes
<1> QED BY <1>2, <1>3, CdpAssumption

\* settle never takes a type for less covered than its positions are: the total
\* it reads never falls below what is locked in them.
THEOREM TotalNeverShort == CdpSpec => []TotalCoversLocked
<1>1. CdpTypeOK /\ TotalCoversLocked /\ [CdpNext]_cdpVars
        => CdpTypeOK' /\ TotalCoversLocked'
  BY StepType, StepCovered
<1> QED BY <1>1, InitType, InitCovered, PTL DEF CdpSpec
-----------------------------------------------------------------------------
(***************************************************************************)
(* The ratio falls neither when collateral is added nor when debt is       *)
(* repaid, for all the truncations of the code.                            *)
(***************************************************************************)
LEMMA DivGrows ==
  ASSUME NEW a \in Int, NEW b \in Int, NEW d \in Nat \ {0}, a <= b
  PROVE  a \div d <= b \div d
<1> DEFINE q == a \div d   r == b \div d
<1>1. q \in Int /\ r \in Int OBVIOUS
<1>2. d * q <= a /\ b < d * r + d OBVIOUS
<1> HIDE DEF q, r
<1>3. d * q < d * (r + 1) BY <1>1, <1>2
<1>4. q < r + 1 BY <1>1, <1>3
<1> QED BY <1>1, <1>4 DEF q, r

LEMMA DivFalls ==
  ASSUME NEW a \in Nat, NEW d \in Nat \ {0}, NEW e \in Nat \ {0}, d <= e
  PROVE  a \div e <= a \div d
<1> DEFINE q == a \div e   r == a \div d
<1>1. q \in Nat /\ r \in Nat OBVIOUS
<1>2. e * q <= a /\ a < d * r + d OBVIOUS
<1> HIDE DEF q, r
<1>3. d * q <= e * q BY <1>1
<1>4. d * q < d * (r + 1) BY <1>1, <1>2, <1>3
<1>5. q < r + 1 BY <1>1, <1>4
<1> QED BY <1>1, <1>5 DEF q, r

LEMMA RatioGrows ==
  ASSUME NEW price \in Nat, NEW d \in Nat \ {0}, NEW e \in Nat \ {0}, e <= d,
         NEW a \in Nat, NEW b \in Nat, a <= b
  PROVE  Ratio(price, d, a) <= Ratio(price, e, b)
<1> DEFINE x == (price * 100) \div d   y == (price * 100) \div e
<1>1. price * 100 \in Nat OBVIOUS
<1>2. x \in Nat /\ y \in Nat BY <1>1
<1>3. x <= y
  <2> DEFINE n == price * 100
  <2> HIDE DEF n
  <2>1. n \div d <= n \div e BY <1>1, DivFalls DEF n
  <2> QED BY <2>1 DEF n
<1> HIDE DEF x, y
<1>4. x * a <= y * b
  <2>1. x * a <= y * a BY <1>2, <1>3
  <2>2. y * a <= y * b BY <1>2
  <2> QED BY <1>2, <2>1, <2>2
<1>5. x * a \in Int /\ y * b \in Int BY <1>2
<1> QED BY <1>4, <1>5, DivGrows DEF Ratio, x, y
-----------------------------------------------------------------------------
\* A position as its safety is judged: its ratio at a price against a bound.
SafeAt(it, price, bound) ==
  it.stablecoin > 0 => Ratio(price, it.stablecoin, it.collateral) >= bound

\* What keeps OnlyPricesEndanger: every position that stays, with its feed, is
\* judged no worse than it was.
LEMMA StaysSafe ==
  ASSUME \A t \in CdpTypes, o \in Users :
           cdp[t][o] # None /\ cdp'[t][o] # None /\ feed[cdp[t][o].csym] # None
           /\ SafeAt(cdp[t][o], feed[cdp[t][o].csym].price, stat[Self][t].par.liquid8_ratio) =>
             /\ cdp'[t][o].csym = cdp[t][o].csym
             /\ SafeAt(cdp'[t][o], feed[cdp[t][o].csym].price,
                       stat'[Self][t].par.liquid8_ratio)
  PROVE  OnlyPricesEndanger
<1> SUFFICES ASSUME NEW t \in CdpTypes, NEW o \in Users,
                    cdp[t][o] # None, feed[cdp[t][o].csym] # None, Safe(t, o),
                    cdp'[t][o] # None,
                    feed'[cdp[t][o].csym].price = feed[cdp[t][o].csym].price
             PROVE  Safe(t, o)'
  BY DEF OnlyPricesEndanger
<1>1. SafeAt(cdp[t][o], feed[cdp[t][o].csym].price, stat[Self][t].par.liquid8_ratio)
  BY DEF Safe, SafeAt
<1>2. /\ cdp'[t][o].csym = cdp[t][o].csym
      /\ SafeAt(cdp'[t][o], feed[cdp[t][o].csym].price, stat'[Self][t].par.liquid8_ratio)
  BY <1>1
<1> QED BY <1>2 DEF Safe, SafeAt

\* A step that writes position <<t, o>>, keeping what its type asks, leaves all
\* safe if it leaves that one so.
LEMMA OneStaysSafe ==
  ASSUME SameTypes(stat, stat'), NEW t \in CdpTypes, NEW o \in Users,
         stat[Self][t] # None,
         \A u \in CdpTypes : u # t => stat'[Self][u] = stat[Self][u],
         \A u \in CdpTypes, x \in Users : u # t \/ x # o => cdp'[u][x] = cdp[u][x],
         cdp[t][o] # None /\ cdp'[t][o] # None /\ feed[cdp[t][o].csym] # None
         /\ SafeAt(cdp[t][o], feed[cdp[t][o].csym].price, stat[Self][t].par.liquid8_ratio) =>
             /\ cdp'[t][o].csym = cdp[t][o].csym
             /\ SafeAt(cdp'[t][o], feed[cdp[t][o].csym].price, stat[Self][t].par.liquid8_ratio)
  PROVE  OnlyPricesEndanger
<1> SUFFICES ASSUME NEW u \in CdpTypes, NEW x \in Users,
                    cdp[u][x] # None, cdp'[u][x] # None, feed[cdp[u][x].csym] # None,
                    SafeAt(cdp[u][x], feed[cdp[u][x].csym].price,
                           stat[Self][u].par.liquid8_ratio)
             PROVE  /\ cdp'[u][x].csym = cdp[u][x].csym
                    /\ SafeAt(cdp'[u][x], feed[cdp[u][x].csym].price,
                              stat'[Self][u].par.liquid8_ratio)
  BY StaysSafe
<1>1. stat'[Self][t].par = stat[Self][t].par BY DEF SameTypes
<1>2. CASE u = t /\ x = o BY <1>1, <1>2
<1>3. CASE ~(u = t /\ x = o)
  <2>1. cdp'[u][x] = cdp[u][x] BY <1>3
  <2>2. stat'[Self][u].par = stat[Self][u].par BY <1>1
  <2> QED BY <2>1, <2>2
<1> QED BY <1>2, <1>3

\* Owner by owner: the amounts of one position, judged at its own feed.
LEMMA MoreIsSafer ==
  ASSUME CdpTypeOK, NEW t \in CdpTypes, NEW o \in Users, NEW dc \in Nat, NEW ds \in Int,
         ds <= 0, NEW df, NEW tc, Moved(t, o, dc, ds, df, tc),
         stat[Self][t] # None, cdp[t][o] # None
  PROVE  OnlyPricesEndanger
<1> DEFINE it == cdp[t][o]   jt == cdp'[t][o]
           price == feed[it.csym].price   bound == stat[Self][t].par.liquid8_ratio
<1>1. /\ OnlyWrites(t, o) /\ jt.csym = it.csym
      /\ jt.collateral = it.collateral + dc /\ jt.stablecoin = it.stablecoin + ds
  BY DEF Moved
<1>2. it.collateral \in Nat /\ it.stablecoin \in Int /\ it.csym \in Symbols
  BY CdpIn, TablesAssumption DEF CdpRow, Amounts
<1>3. ASSUME feed[it.csym] # None, SafeAt(it, price, bound)
      PROVE  SafeAt(jt, price, bound)
  <2>1. price \in Nat BY <1>2, <1>3, TypeParts DEF FeedTable, FeedRow
  <2>2. bound \in Int
    <3>1. stat[Self][t] \in StatRow BY StatIn
    <3>2. stat[Self][t].par \in ParamType BY <3>1, TablesAssumption DEF StatRow
    <3> QED BY <3>2 DEF ParamType
  <2> HIDE DEF price, bound, it, jt
  <2> SUFFICES ASSUME jt.stablecoin > 0
               PROVE  Ratio(price, jt.stablecoin, jt.collateral) >= bound
    BY DEF SafeAt
  <2> DEFINE d == it.stablecoin   e == jt.stablecoin   a == it.collateral   b == jt.collateral
  <2>3. d \in Nat \ {0} /\ e \in Nat \ {0} /\ e <= d /\ a \in Nat /\ b \in Nat /\ a <= b
    BY <1>1, <1>2
  <2>4. Ratio(price, d, a) >= bound BY <1>3, <2>3 DEF SafeAt
  <2> HIDE DEF d, e, a, b
  <2>5. Ratio(price, d, a) <= Ratio(price, e, b) BY <2>1, <2>3, RatioGrows
  <2>6. Ratio(price, d, a) \in Int /\ Ratio(price, e, b) \in Int
    <3>1. ASSUME NEW m \in Nat \ {0}, NEW n \in Nat PROVE Ratio(price, m, n) \in Int
      <4>1. (price * 100) \div m \in Int BY <2>1
      <4>2. ((price * 100) \div m) * n \in Int BY <4>1
      <4> QED BY <4>2 DEF Ratio
    <3> QED BY <2>3, <3>1
  <2>7. Ratio(price, e, b) >= bound BY <2>2, <2>4, <2>5, <2>6
  <2> QED BY <2>7 DEF e, b
<1> QED BY <1>1, <1>3, OneStaysSafe DEF OnlyWrites

LEMMA OwnerSafe ==
  ASSUME CdpTypeOK, Shape, OwnerStep
  PROVE  OnlyPricesEndanger
<1>1. PICK o \in Users, t \in CdpTypes :
        \/ Open(o, t)
        \/ Shut(o, t)
        \/ \E q \in ClatrlQty(t) : Lock(o, t, q) \/ Bail(o, t, q)
        \/ \E q \in StablQty(t) : Draw(o, t, q) \/ Wipe(o, t, q)
  BY DEF OwnerStep
<1>2. ClatrlQty(t) \subseteq 1 .. MaxAmount /\ StablQty(t) \subseteq 1 .. MaxAmount
  BY StatIn, CdpAssumption DEF ClatrlQty, StablQty, StatRow
<1>3. CASE Open(o, t)
  <2>1. /\ SameTypes(stat, stat') /\ stat[Self][t] # None /\ cdp[t][o] = None
        /\ stat' = stat
        /\ \A u \in CdpTypes, x \in Users : u # t \/ x # o => cdp'[u][x] = cdp[u][x]
    BY <1>3, OpenWrites
  <2> QED BY <2>1, OneStaysSafe
<1>4. CASE Shut(o, t)
  <2>1. stat[Self][t] # None /\ cdp'[t][o] = None /\ OnlyWrites(t, o)
    BY <1>4, ShutWrites DEF Shut, LiveCdp
  <2> QED BY <2>1, OneStaysSafe DEF OnlyWrites
<1>5. ASSUME NEW q \in 1 .. MaxAmount, Lock(o, t, q) PROVE OnlyPricesEndanger
  <2>1. Moved(t, o, q, 0, 0, q) /\ stat[Self][t] # None /\ cdp[t][o] # None
    BY <1>5, LockMoves DEF Lock, LiveCdp
  <2>2. q \in Nat /\ 0 \in Int /\ 0 <= 0 OBVIOUS
  <2> QED BY <2>1, <2>2, MoreIsSafer
<1>6. ASSUME NEW q \in 1 .. MaxAmount, Wipe(o, t, q) PROVE OnlyPricesEndanger
  <2>1. Moved(t, o, 0, -q, FeeOf(o, t, q), 0) /\ stat[Self][t] # None /\ cdp[t][o] # None
    BY <1>6, WipeMoves DEF Wipe, LiveCdp
  <2>2. -q \in Int /\ -q <= 0 /\ 0 \in Nat OBVIOUS
  <2> QED BY <2>1, <2>2, MoreIsSafer
<1>7. ASSUME NEW q \in 1 .. MaxAmount, Bail(o, t, q) PROVE OnlyPricesEndanger
  <2> DEFINE it == cdp[t][o]   jt == cdp'[t][o]
  <2>1. Moved(t, o, -q, 0, 0, -q) BY <1>7, BailMoves
  <2>2. /\ OnlyWrites(t, o) /\ jt.csym = it.csym
        /\ jt.collateral = it.collateral + (-q) /\ jt.stablecoin = it.stablecoin + 0
    BY <2>1 DEF Moved
  <2>3. /\ stat[Self][t] # None /\ it # None /\ MatchesType(it, stat[Self][t])
        /\ RatioAfterBail(o, t, q) >= stat[Self][t].par.liquid8_ratio
    BY <1>7 DEF Bail, LiveCdp, Shape, LivePositions
  <2>4. it.collateral \in Int /\ it.stablecoin \in Int
    BY <2>3, CdpIn, TablesAssumption DEF CdpRow, Amounts
  <2>5. jt.stablecoin = it.stablecoin /\ jt.collateral = it.collateral - q
    BY <2>2, <2>4
  <2>6. SafeAt(jt, feed[it.csym].price, stat[Self][t].par.liquid8_ratio)
    BY <2>3, <2>4, <2>5 DEF SafeAt, RatioAfterBail, MatchesType
  <2> QED BY <2>2, <2>3, <2>6, OneStaysSafe DEF OnlyWrites
<1>8. ASSUME NEW q \in 1 .. MaxAmount, Draw(o, t, q) PROVE OnlyPricesEndanger
  <2> DEFINE it == cdp[t][o]   jt == cdp'[t][o]
  <2>1. Moved(t, o, 0, q, 0, 0) BY <1>8, DrawMoves
  <2>2. /\ OnlyWrites(t, o) /\ jt.csym = it.csym
        /\ jt.collateral = it.collateral + 0 /\ jt.stablecoin = it.stablecoin + q
    BY <2>1 DEF Moved
  <2>3. /\ stat[Self][t] # None /\ it # None
        /\ Ratio(feed[it.csym].price, it.stablecoin + q, it.collateral)
             >= stat[Self][t].par.liquid8_ratio
    BY <1>8 DEF Draw, LiveCdp
  <2>4. it.collateral \in Int
    BY <2>3, CdpIn, TablesAssumption DEF CdpRow
  <2>5. jt.collateral = it.collateral BY <2>2, <2>4
  <2>6. SafeAt(jt, feed[it.csym].price, stat[Self][t].par.liquid8_ratio)
    BY <2>2, <2>3, <2>5 DEF SafeAt
  <2> QED BY <2>2, <2>3, <2>6, OneStaysSafe DEF OnlyWrites
<1> QED BY <1>1, <1>2, <1>3, <1>4, <1>5, <1>6, <1>7, <1>8

\* No step but a change of the price takes a safe position below its ratio.
THEOREM PositionsStaySafe == CdpSpec => OwnersStaySafe
<1>1. CdpInv /\ [CdpNext]_cdpVars => [OnlyPricesEndanger]_cdpVars
  <2> SUFFICES ASSUME CdpInv, [CdpNext]_cdpVars PROVE OnlyPricesEndanger
    OBVIOUS
  <2>0. CdpTypeOK /\ Shape BY DEF CdpInv, Shape
  <2>1. ASSUME OwnerStep PROVE OnlyPricesEndanger BY <2>0, <2>1, OwnerSafe
  <2>2. ASSUME BalanceStep PROVE OnlyPricesEndanger
    <3>1. stat' = stat /\ cdp' = cdp BY <2>2, BalanceKeeps
    <3> QED BY <3>1, StaysSafe
  <2>3. ASSUME IdleStep PROVE OnlyPricesEndanger
    <3>1. SameTypes(stat, stat') BY <2>0, <2>3, IdleKeeps
    <3>2. \A t \in CdpTypes, o \in Users : cdp[t][o] # None =>
            /\ cdp'[t][o].csym = cdp[t][o].csym
            /\ cdp'[t][o].collateral = cdp[t][o].collateral
            /\ cdp'[t][o].stablecoin = cdp[t][o].stablecoin
      BY <2>0, <2>3, IdleKeeps
    <3>3. \A t \in CdpTypes, o \in Users : cdp[t][o] # None =>
            stat'[Self][t].par = stat[Self][t].par
      BY <2>0, <3>1 DEF SameTypes, Shape, LivePositions, AllLive, MatchesType
    <3> QED BY <3>2, <3>3, StaysSafe DEF SafeAt
  <2> QED BY <2>1, <2>2, <2>3 DEF CdpNext, IdleStep
<1> QED BY <1>1, CdpInvariant, PTL DEF CdpSpec, OwnersStaySafe
=============================================================================
