---------------------------- MODULE DaiqTables_proof --------------------------
(***************************************************************************)
(* Facts about the tables of the CDP engine and the operators that change  *)
(* balances and feeds, for the theorems about Cdp, Liquidation and         *)
(* Referendum.                                                             *)
(***************************************************************************)
EXTENDS DaiqTables, Sums, TLAPS

\* The types of the tables with their rows.
StatTable == [Scopes -> [CdpTypes -> StatRow \cup {None}]]
FeedTable == [Symbols -> FeedRow \cup {None}]
Accounts == [Symbols -> [Users -> AccountRow \cup {None}]]

\* Writing one entry of a table of tables keeps its type.
LEMMA Written ==
  ASSUME NEW A, NEW B, NEW C, NEW f \in [A -> [B -> C]],
         NEW a \in A, NEW b \in B, NEW c \in C
  PROVE  [f EXCEPT ![a][b] = c] \in [A -> [B -> C]]
OBVIOUS

\* What a write to one entry of a table of tables leaves there and elsewhere.
LEMMA WrittenAt ==
  ASSUME NEW A, NEW B, NEW C, NEW f \in [A -> [B -> C]],
         NEW a \in A, NEW b \in B, NEW c
  PROVE  /\ [f EXCEPT ![a][b] = c][a][b] = c
         /\ \A x \in A, y \in B : x # a \/ y # b => [f EXCEPT ![a][b] = c][x][y] = f[x][y]
OBVIOUS

\* A balance that sub_balance lets through stays a balance: never below zero.
LEMMA DebitType ==
  ASSUME NEW a \in Accounts, NEW o \in Users, NEW s \in Symbols, NEW q \in Nat,
         CanDebit(a, o, s, q)
  PROVE  Debit(a, o, s, q) \in Accounts
<1>1. a[s][o] \in AccountRow BY DEF CanDebit, Accounts
<1> DEFINE row == [a[s][o] EXCEPT !.balance = @ - q]
<1>2. a[s][o].balance - q \in 0 .. MaxAmount
  BY <1>1, TablesAssumption DEF CanDebit, AccountRow
<1>3. row \in AccountRow BY <1>1, <1>2 DEF AccountRow
<1>4. Debit(a, o, s, q) = [a EXCEPT ![s][o] = row] BY DEF Debit
<1> QED BY <1>3, <1>4, Written DEF Accounts

\* A balance that add_balance lets through stays one: never out of range.
LEMMA CreditType ==
  ASSUME NEW a \in Accounts, NEW o \in Users, NEW s \in Symbols,
         NEW q \in 0 .. MaxAmount, NEW c \in Codes, CanCredit(a, o, s, q, c)
  PROVE  Credit(a, o, s, q, c) \in Accounts
<1> DEFINE row == Paid(a[s][o], q, c)
<1>1. CASE a[s][o] = None
  <2>1. row \in AccountRow BY <1>1 DEF Paid, AccountRow
  <2> QED BY <2>1, Written DEF Accounts, Credit
<1>2. CASE a[s][o] # None
  <2>1. a[s][o] \in AccountRow BY <1>2 DEF Accounts
  <2>2. a[s][o].balance + q \in 0 .. MaxAmount
    BY <1>2, <2>1, TablesAssumption DEF CanCredit, InRange, Amounts, AccountRow
  <2>3. row \in AccountRow BY <1>2, <2>1, <2>2 DEF Paid, AccountRow
  <2> QED BY <2>3, Written DEF Accounts, Credit
<1> QED BY <1>1, <1>2

\* The amount in circulation of a feed stays in range.
LEMMA CirculateType ==
  ASSUME NEW f \in FeedTable, NEW s \in Symbols, NEW q \in Int, CanCirculate(f, s, q)
  PROVE  Circulate(f, s, q) \in FeedTable
<1>1. f[s] \in FeedRow BY DEF CanCirculate, FeedTable
<1> DEFINE row == [f[s] EXCEPT !.total = @ + q]
<1>2. row \in FeedRow BY <1>1 DEF CanCirculate, InRange, FeedRow
<1>3. Circulate(f, s, q) = [f EXCEPT ![s] = row] BY DEF Circulate
<1> QED BY <1>2, <1>3 DEF FeedTable
-----------------------------------------------------------------------------
(***************************************************************************)
(* What is held in rows of one token contract, as a function of a table of *)
(* balances a: by one row, by each user, and in all.                       *)
(***************************************************************************)
InRow(row, c) == IF row # None /\ row.code = c THEN row.balance ELSE 0
HeldBy(a, c, s) == [o \in Users |-> InRow(a[s][o], c)]
Held(a, c, s) == SumFunctionOnSet(HeldBy(a, c, s), Users)

LEMMA HeldNat ==
  ASSUME NEW a \in Accounts, NEW c, NEW s \in Symbols
  PROVE  Held(a, c, s) \in Nat /\ \A o \in Users : InRow(a[s][o], c) \in Nat
<1>1. \A o \in Users : InRow(a[s][o], c) \in Nat
  BY TablesAssumption DEF InRow, Accounts, AccountRow
<1> QED BY <1>1, SumNat, TablesAssumption DEF Held, HeldBy

\* A write to one row changes what is held by what it changes of the row.
LEMMA HeldWritten ==
  ASSUME NEW a \in Accounts, NEW b \in Accounts, NEW o \in Users, NEW s \in Symbols,
         \A y \in Symbols, p \in Users : y # s \/ p # o => b[y][p] = a[y][p],
         NEW c, NEW x \in Symbols
  PROVE  Held(b, c, x)
           = IF x = s THEN Held(a, c, s) - InRow(a[s][o], c) + InRow(b[s][o], c)
                      ELSE Held(a, c, x)
<1> USE TablesAssumption
<1>3. CASE x = s
  <2>a. \A p \in Users : InRow(a[s][p], c) \in Nat BY HeldNat
  <2>b. \A p \in Users : InRow(b[s][p], c) \in Nat BY HeldNat
  <2>1. \A p \in Users : HeldBy(a, c, s)[p] \in Int /\ HeldBy(b, c, s)[p] \in Int
    BY <2>a, <2>b DEF HeldBy
  <2>2. \A p \in Users \ {o} : HeldBy(b, c, s)[p] = HeldBy(a, c, s)[p]
    BY DEF HeldBy
  <2>3. HeldBy(a, c, s)[o] = InRow(a[s][o], c) /\ HeldBy(b, c, s)[o] = InRow(b[s][o], c)
    BY DEF HeldBy
  <2>4. Held(b, c, s) = Held(a, c, s) - HeldBy(a, c, s)[o] + HeldBy(b, c, s)[o]
    BY <2>1, <2>2, SumUpdate DEF Held
  <2> QED BY <1>3, <2>3, <2>4
<1>4. CASE x # s
  <2>1. \A p \in Users : HeldBy(b, c, x)[p] = HeldBy(a, c, x)[p]
    BY <1>4 DEF HeldBy
  <2> QED BY <1>4, <2>1, SumEqual DEF Held
<1> QED BY <1>3, <1>4

\* sub_balance takes q off one row, and leaves it to its contract.
LEMMA DebitOne ==
  ASSUME NEW a \in Accounts, NEW o \in Users, NEW s \in Symbols, NEW q \in Nat,
         CanDebit(a, o, s, q)
  PROVE  \E row \in AccountRow :
           /\ a[s][o] # None /\ a[s][o] \in AccountRow /\ a[s][o].balance >= q
           /\ row.balance = a[s][o].balance - q /\ row.code = a[s][o].code
           /\ Debit(a, o, s, q) = [a EXCEPT ![s][o] = row]
<1> DEFINE row == [a[s][o] EXCEPT !.balance = @ - q]
<1>1. a[s][o] # None /\ a[s][o] \in AccountRow /\ a[s][o].balance >= q
  BY DEF CanDebit, Accounts
<1>2. row \in AccountRow /\ row.balance = a[s][o].balance - q /\ row.code = a[s][o].code
  BY <1>1, TablesAssumption DEF AccountRow
<1>3. Debit(a, o, s, q) = [a EXCEPT ![s][o] = row] BY DEF Debit
<1> HIDE DEF row
<1> QED BY <1>1, <1>2, <1>3

LEMMA DebitRow ==
  ASSUME NEW a \in Accounts, NEW o \in Users, NEW s \in Symbols, NEW q \in Nat,
         CanDebit(a, o, s, q), NEW c
  PROVE  /\ a[s][o].code = c => InRow(Debit(a, o, s, q)[s][o], c) = InRow(a[s][o], c) - q
         /\ a[s][o].code # c => InRow(Debit(a, o, s, q)[s][o], c) = InRow(a[s][o], c)
<1> USE TablesAssumption
<1>1. PICK row \in AccountRow :
        /\ a[s][o] # None /\ a[s][o] \in AccountRow /\ a[s][o].balance >= q
        /\ row.balance = a[s][o].balance - q /\ row.code = a[s][o].code
        /\ Debit(a, o, s, q) = [a EXCEPT ![s][o] = row]
  BY DebitOne
<1>2. /\ a[s][o].code = c => InRow(row, c) = InRow(a[s][o], c) - q
      /\ a[s][o].code # c => InRow(row, c) = InRow(a[s][o], c)
  BY <1>1 DEF InRow, AccountRow
<1> QED BY <1>1, <1>2, WrittenAt DEF Accounts

LEMMA DebitOthers ==
  ASSUME NEW a \in Accounts, NEW o \in Users, NEW s \in Symbols, NEW q \in Nat,
         CanDebit(a, o, s, q), NEW y \in Symbols, NEW p \in Users, y # s \/ p # o
  PROVE  Debit(a, o, s, q)[y][p] = a[y][p]
BY DebitOne, WrittenAt DEF Accounts

\* It takes q off what is held in rows of the contract of that row, by all and
\* by its owner.
LEMMA DebitHeld ==
  ASSUME NEW a \in Accounts, NEW o \in Users, NEW s \in Symbols, NEW q \in Nat,
         CanDebit(a, o, s, q), NEW c, NEW x \in Symbols
  PROVE  Held(Debit(a, o, s, q), c, x)
           = Held(a, c, x) - (IF x = s /\ a[s][o].code = c THEN q ELSE 0)
<1>1. Held(Debit(a, o, s, q), c, x)
        = IF x = s THEN Held(a, c, s) - InRow(a[s][o], c) + InRow(Debit(a, o, s, q)[s][o], c)
                   ELSE Held(a, c, x)
  BY DebitOthers, HeldWritten, DebitType
<1>2. /\ a[s][o].code = c => InRow(Debit(a, o, s, q)[s][o], c) = InRow(a[s][o], c) - q
      /\ a[s][o].code # c => InRow(Debit(a, o, s, q)[s][o], c) = InRow(a[s][o], c)
  BY DebitRow
<1>3. Held(a, c, x) \in Nat /\ InRow(a[s][o], c) \in Nat BY HeldNat
<1> QED BY <1>1, <1>2, <1>3

LEMMA DebitInRow ==
  ASSUME NEW a \in Accounts, NEW o \in Users, NEW s \in Symbols, NEW q \in Nat,
         CanDebit(a, o, s, q), NEW c, NEW x \in Symbols, NEW p \in Users
  PROVE  /\ x = s /\ p = o /\ a[s][o].code = c =>
              InRow(Debit(a, o, s, q)[x][p], c) = InRow(a[x][p], c) - q
         /\ ~(x = s /\ p = o /\ a[s][o].code = c) =>
              InRow(Debit(a, o, s, q)[x][p], c) = InRow(a[x][p], c)
<1>1. InRow(a[x][p], c) \in Nat BY HeldNat
<1>2. CASE x = s /\ p = o BY <1>2, DebitRow
<1>3. CASE ~(x = s /\ p = o) BY <1>1, <1>3, DebitOthers
<1> QED BY <1>2, <1>3

\* sub_balance removes no row and leaves all to their contracts.
LEMMA DebitRows ==
  ASSUME NEW a \in Accounts, NEW o \in Users, NEW s \in Symbols, NEW q \in Nat,
         CanDebit(a, o, s, q), NEW x \in Symbols, NEW p \in Users
  PROVE  /\ Debit(a, o, s, q)[x][p] = None <=> a[x][p] = None
         /\ Debit(a, o, s, q)[x][p] # None => Debit(a, o, s, q)[x][p].code = a[x][p].code
<1>1. PICK row \in AccountRow :
        /\ a[s][o] # None /\ a[s][o] \in AccountRow /\ row.code = a[s][o].code
        /\ Debit(a, o, s, q) = [a EXCEPT ![s][o] = row]
  BY DebitOne
<1>2. CASE x = s /\ p = o BY <1>1, <1>2, TablesAssumption DEF Accounts
<1>3. CASE ~(x = s /\ p = o) BY <1>3, DebitOthers
<1> QED BY <1>2, <1>3

\* add_balance adds q to one row, which is then of contract d.
LEMMA CreditOne ==
  ASSUME NEW a \in Accounts, NEW o \in Users, NEW s \in Symbols,
         NEW q \in 0 .. MaxAmount, NEW d \in Codes, CanCredit(a, o, s, q, d)
  PROVE  \E row \in AccountRow :
           /\ row # None /\ row.code = d
           /\ a[s][o] # None => a[s][o] \in AccountRow /\ a[s][o].code = d
           /\ row.balance = q + (IF a[s][o] = None THEN 0 ELSE a[s][o].balance)
           /\ Credit(a, o, s, q, d) = [a EXCEPT ![s][o] = row]
<1> USE TablesAssumption
<1> DEFINE row == Paid(a[s][o], q, d)
<1>1. a[s][o] # None => /\ a[s][o] \in AccountRow /\ a[s][o].code = d
                        /\ a[s][o].balance + q \in 0 .. MaxAmount
  BY DEF CanCredit, Accounts, AccountRow, InRange, Amounts
<1>2. /\ row \in AccountRow /\ row # None /\ row.code = d
      /\ row.balance = q + (IF a[s][o] = None THEN 0 ELSE a[s][o].balance)
  BY <1>1 DEF AccountRow, Paid
<1>3. Credit(a, o, s, q, d) = [a EXCEPT ![s][o] = row] BY DEF Credit
<1> HIDE DEF row
<1> QED BY <1>1, <1>2, <1>3

LEMMA CreditRow ==
  ASSUME NEW a \in Accounts, NEW o \in Users, NEW s \in Symbols,
         NEW q \in 0 .. MaxAmount, NEW d \in Codes, CanCredit(a, o, s, q, d), NEW c
  PROVE  /\ d = c => InRow(Credit(a, o, s, q, d)[s][o], c) = InRow(a[s][o], c) + q
         /\ d # c => InRow(Credit(a, o, s, q, d)[s][o], c) = InRow(a[s][o], c)
<1> USE TablesAssumption
<1>1. PICK row \in AccountRow :
        /\ row # None /\ row.code = d
        /\ a[s][o] # None => a[s][o] \in AccountRow /\ a[s][o].code = d
        /\ row.balance = q + (IF a[s][o] = None THEN 0 ELSE a[s][o].balance)
        /\ Credit(a, o, s, q, d) = [a EXCEPT ![s][o] = row]
  BY CreditOne
<1>2. /\ d = c => InRow(row, c) = InRow(a[s][o], c) + q
      /\ d # c => InRow(row, c) = InRow(a[s][o], c)
  BY <1>1 DEF InRow, AccountRow
<1> QED BY <1>1, <1>2, WrittenAt DEF Accounts

LEMMA CreditOthers ==
  ASSUME NEW a \in Accounts, NEW o \in Users, NEW s \in Symbols,
         NEW q \in 0 .. MaxAmount, NEW d \in Codes, CanCredit(a, o, s, q, d),
         NEW y \in Symbols, NEW p \in Users, y # s \/ p # o
  PROVE  Credit(a, o, s, q, d)[y][p] = a[y][p]
BY CreditOne, WrittenAt DEF Accounts

\* The row it pays is one of contract d.
LEMMA CreditPays ==
  ASSUME NEW a \in Accounts, NEW o \in Users, NEW s \in Symbols,
         NEW q \in 0 .. MaxAmount, NEW d \in Codes, CanCredit(a, o, s, q, d)
  PROVE  Credit(a, o, s, q, d)[s][o] # None /\ Credit(a, o, s, q, d)[s][o].code = d
BY CreditOne, WrittenAt DEF Accounts

\* It adds q to what is held of d, by all and by the owner of the row.
LEMMA CreditHeld ==
  ASSUME NEW a \in Accounts, NEW o \in Users, NEW s \in Symbols,
         NEW q \in 0 .. MaxAmount, NEW d \in Codes, CanCredit(a, o, s, q, d),
         NEW c, NEW x \in Symbols
  PROVE  Held(Credit(a, o, s, q, d), c, x)
           = Held(a, c, x) + (IF x = s /\ d = c THEN q ELSE 0)
<1>1. Held(Credit(a, o, s, q, d), c, x)
        = IF x = s THEN Held(a, c, s) - InRow(a[s][o], c) + InRow(Credit(a, o, s, q, d)[s][o], c)
                   ELSE Held(a, c, x)
  BY CreditOthers, HeldWritten, CreditType
<1>2. /\ d = c => InRow(Credit(a, o, s, q, d)[s][o], c) = InRow(a[s][o], c) + q
      /\ d # c => InRow(Credit(a, o, s, q, d)[s][o], c) = InRow(a[s][o], c)
  BY CreditRow
<1>3. Held(a, c, x) \in Nat /\ InRow(a[s][o], c) \in Nat BY HeldNat
<1> QED BY <1>1, <1>2, <1>3, TablesAssumption

LEMMA CreditInRow ==
  ASSUME NEW a \in Accounts, NEW o \in Users, NEW s \in Symbols,
         NEW q \in 0 .. MaxAmount, NEW d \in Codes, CanCredit(a, o, s, q, d),
         NEW c, NEW x \in Symbols, NEW p \in Users
  PROVE  /\ x = s /\ p = o /\ d = c =>
              InRow(Credit(a, o, s, q, d)[x][p], c) = InRow(a[x][p], c) + q
         /\ ~(x = s /\ p = o /\ d = c) =>
              InRow(Credit(a, o, s, q, d)[x][p], c) = InRow(a[x][p], c)
<1>1. InRow(a[x][p], c) \in Nat BY HeldNat
<1>2. CASE x = s /\ p = o BY <1>2, CreditRow
<1>3. CASE ~(x = s /\ p = o) BY <1>1, <1>3, CreditOthers
<1> QED BY <1>2, <1>3
=============================================================================
