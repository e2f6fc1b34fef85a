---------------------------- MODULE Tokens_proof ----------------------------
(***************************************************************************)
(* For any holders, codes, precisions and amounts: the tables of the token *)
(* contracts are well typed, each supply is the sum of its balances, and   *)
(* every contract implements Ledger.                                       *)
(***************************************************************************)
EXTENDS Tokens, Sums, TLAPS

\* The balances of one code: well typed, and all in one symbol.
Rows == [Holders -> AccountRow \cup {None}]
InSymbol(T, p) == \A h \in Holders : T[h] # None => T[h].precision = p
NoneEmpty(T) == \A h \in Holders : T[h] # None => T[h].balance > 0
TotalOf(T) == SumFunctionOnSet(Balances(T), Holders)

\* What holds of a code with stat row st and balances T, in a contract that
\* erases empty rows or not: the inductive invariant, code by code.
CodeOK(st, T, erases) ==
  /\ T \in Rows
  /\ st = None => T = [h \in Holders |-> None]
  /\ st # None => /\ st \in StatRow /\ st.supply <= st.max_supply
                  /\ InSymbol(T, st.precision)
                  /\ TotalOf(T) = st.supply
  /\ erases => NoneEmpty(T)

Erases == contract # "eosio.token"

CodesOK ==
  /\ stat \in [Codes -> StatRow \cup {None}]
  /\ accounts \in [Codes -> Rows]
  /\ \A c \in Codes : CodeOK(stat[c], accounts[c], Erases)
  /\ contract \in Contracts
  /\ staked \in 0 .. MaxStake

USE TokenTablesAssumption, TokensAssumption, IqAssumption

\* Balances are natural numbers.
LEMMA BalanceNat ==
  ASSUME NEW T \in Rows
  PROVE  /\ Balances(T) \in [Holders -> Nat]
         /\ \A h \in Holders : Balances(T)[h] = Balance(T, h)
BY DEF Balances, Balance, Rows, AccountRow

\* A sum of balances bounds each of them.
LEMMA TotalBounds ==
  ASSUME NEW T \in Rows
  PROVE  TotalOf(T) \in Nat /\ \A h \in Holders : Balance(T, h) <= TotalOf(T)
BY BalanceNat, SumNat DEF TotalOf

\* A changed balance of one holder changes the sum by as much.
LEMMA TotalUpdate ==
  ASSUME NEW T \in Rows, NEW U \in Rows, NEW h \in Holders,
         \A g \in Holders \ {h} : U[g] = T[g]
  PROVE  TotalOf(U) = TotalOf(T) - Balance(T, h) + Balance(U, h)
<1>1. \A g \in Holders \ {h} : Balances(U)[g] = Balances(T)[g]
  BY BalanceNat DEF Balance
<1>2. \A g \in Holders : Balances(T)[g] \in Int /\ Balances(U)[g] \in Int
  BY BalanceNat
<1> QED  BY <1>1, <1>2, SumUpdate, BalanceNat DEF TotalOf

\* add_balance adds to one balance and to the sum.
LEMMA Adding ==
  ASSUME NEW T \in Rows, NEW h \in Holders, NEW p \in Precisions, NEW n \in 1 .. MaxAmount,
         InSymbol(T, p), TotalOf(T) + n <= MaxAmount
  PROVE  /\ AddBalance(T, h, p, n) \in Rows
         /\ InSymbol(AddBalance(T, h, p, n), p)
         /\ AddBalance(T, h, p, n)[h] # None
         /\ Balance(AddBalance(T, h, p, n), h) = Balance(T, h) + n
         /\ \A g \in Holders \ {h} : AddBalance(T, h, p, n)[g] = T[g]
         /\ NoneEmpty(T) => NoneEmpty(AddBalance(T, h, p, n))
         /\ TotalOf(AddBalance(T, h, p, n)) = TotalOf(T) + n
<1> DEFINE U == AddBalance(T, h, p, n)
           row == Added(T[h], p, n)
<1>1. Balance(T, h) \in Nat /\ Balance(T, h) + n \in 0 .. MaxAmount
  BY TotalBounds, BalanceNat
<1>2. row \in AccountRow /\ row.precision = p /\ row.balance = Balance(T, h) + n
  <2>1. CASE T[h] = None BY <2>1, <1>1 DEF Added, AccountRow, Balance
  <2>2. CASE T[h] # None
    <3>1. T[h] \in AccountRow /\ T[h].precision = p /\ Balance(T, h) = T[h].balance
      BY <2>2 DEF Rows, InSymbol, Balance
    <3> QED  BY <3>1, <2>2, <1>1 DEF Added, AccountRow
  <2> QED  BY <2>1, <2>2
<1>3. U = [T EXCEPT ![h] = row]  BY DEF AddBalance
<1> HIDE DEF U, row
<1>4. U \in Rows /\ U[h] = row /\ \A g \in Holders \ {h} : U[g] = T[g]
  BY <1>2, <1>3 DEF Rows
<1>5. U[h] # None /\ Balance(U, h) = Balance(T, h) + n
  BY <1>2, <1>4 DEF Balance
<1>6. InSymbol(U, p) /\ (NoneEmpty(T) => NoneEmpty(U))
  BY <1>1, <1>2, <1>4 DEF InSymbol, NoneEmpty
<1>7. TotalOf(U) = TotalOf(T) + n
  BY <1>1, <1>4, <1>5, TotalUpdate, TotalBounds
<1> QED  BY <1>4, <1>5, <1>6, <1>7 DEF U

\* sub_balance, with or without erasing an empty row, takes from one balance
\* and from the sum.
LEMMA Subtracting ==
  ASSUME NEW T \in Rows, NEW h \in Holders, NEW p \in Precisions, NEW n \in 1 .. MaxAmount,
         InSymbol(T, p), CanGive(T, h, p, n),
         NEW U \in {SubBalance(T, h, n), SubOrErase(T, h, n)}
  PROVE  /\ U \in Rows
         /\ InSymbol(U, p)
         /\ Balance(U, h) = Balance(T, h) - n /\ n <= Balance(T, h)
         /\ \A g \in Holders \ {h} : U[g] = T[g]
         /\ NoneEmpty(T) /\ U = SubOrErase(T, h, n) => NoneEmpty(U)
         /\ TotalOf(U) = TotalOf(T) - n
<1> DEFINE row == Reduced(T[h], n)
<1>1. /\ T[h] # None /\ T[h] \in AccountRow /\ n <= T[h].balance
      /\ Balance(T, h) = T[h].balance /\ T[h].balance \in 0 .. MaxAmount
  BY DEF CanGive, Rows, Balance, AccountRow
<1>2. row \in AccountRow /\ row.precision = p /\ row.balance = T[h].balance - n
  BY <1>1 DEF Reduced, AccountRow, CanGive
<1>3. U = [T EXCEPT ![h] = row] \/ (T[h].balance = n /\ U = [T EXCEPT ![h] = None])
  BY DEF SubBalance, SubOrErase
<1>4. U = SubOrErase(T, h, n) /\ T[h].balance = n => U = [T EXCEPT ![h] = None]
  BY DEF SubOrErase
<1>5. T[h].balance # n => U = [T EXCEPT ![h] = row]
  BY <1>3
<1> HIDE DEF row
<1>6. /\ U \in Rows /\ \A g \in Holders \ {h} : U[g] = T[g]
      /\ U[h] = row \/ (T[h].balance = n /\ U[h] = None)
  BY <1>1, <1>2, <1>3 DEF Rows
<1>7. Balance(U, h) = Balance(T, h) - n
  BY <1>1, <1>2, <1>6 DEF Balance
<1>8. InSymbol(U, p)  BY <1>2, <1>6 DEF InSymbol
<1>9. NoneEmpty(T) /\ U = SubOrErase(T, h, n) => NoneEmpty(U)
  <2> SUFFICES ASSUME NoneEmpty(T), U = SubOrErase(T, h, n), NEW g \in Holders, U[g] # None
               PROVE  U[g].balance > 0
    BY DEF NoneEmpty
  <2>1. CASE g # h BY <2>1, <1>6 DEF NoneEmpty
  <2>2. CASE g = h
    <3>1. T[h].balance # n  BY <2>2, <1>4 DEF Rows
    <3>2. U[h] = row  BY <3>1, <1>6
    <3> QED  BY <2>2, <3>1, <3>2, <1>1, <1>2
  <2> QED  BY <2>1, <2>2
<1>10. TotalOf(U) = TotalOf(T) - n
  BY <1>1, <1>6, <1>7, TotalUpdate, TotalBounds
<1> QED  BY <1>1, <1>6, <1>7, <1>8, <1>9, <1>10

\* What a ledger sees of the change of a code from st and T to su and U: with
\* the amount n, somebody is given it, loses it, or pays it to another.
Supplied(st) == IF st = None THEN 0 ELSE st.supply
Unseen(st, T, su, U) == Supplied(su) = Supplied(st) /\ Balances(U) = Balances(T)
Effect(st, T, su, U, n) ==
  \/ \E h \in Holders : /\ Supplied(su) = Supplied(st) + n
                        /\ Balances(U) = [Balances(T) EXCEPT ![h] = @ + n]
  \/ \E h \in Holders : /\ n <= Balances(T)[h]
                        /\ Supplied(su) = Supplied(st) - n
                        /\ Balances(U) = [Balances(T) EXCEPT ![h] = @ - n]
  \/ \E a, b \in Holders : /\ a # b /\ n <= Balances(T)[a]
                           /\ Supplied(su) = Supplied(st)
                           /\ Balances(U) = L!Moved(Balances(T), a, b, n)

\* Balances change where rows do.
LEMMA BalancesUpdate ==
  ASSUME NEW T \in Rows, NEW U \in Rows, NEW h \in Holders,
         \A g \in Holders \ {h} : U[g] = T[g]
  PROVE  Balances(U) = [Balances(T) EXCEPT ![h] = Balance(U, h)]
<1>1. \A g \in Holders : Balances(U)[g] = [Balances(T) EXCEPT ![h] = Balance(U, h)][g]
  BY BalanceNat DEF Balance
<1>2. Balances(U) \in [Holders -> Nat]  BY BalanceNat
<1>3. [Balances(T) EXCEPT ![h] = Balance(U, h)] \in [Holders -> Nat]
  BY BalanceNat
<1> QED  BY <1>1, <1>2, <1>3

\* A payment, as sub_balance and add_balance make it.
LEMMA Paying ==
  ASSUME NEW T \in Rows, NEW a \in Holders, NEW b \in Holders, a # b,
         NEW p \in Precisions, NEW n \in 1 .. MaxAmount,
         InSymbol(T, p), TotalOf(T) <= MaxAmount, CanGive(T, a, p, n),
         NEW S \in {SubBalance(T, a, n), SubOrErase(T, a, n)}
  PROVE  /\ AddBalance(S, b, p, n) \in Rows
         /\ InSymbol(AddBalance(S, b, p, n), p)
         /\ TotalOf(AddBalance(S, b, p, n)) = TotalOf(T)
         /\ NoneEmpty(T) /\ S = SubOrErase(T, a, n) => NoneEmpty(AddBalance(S, b, p, n))
         /\ n <= Balances(T)[a]
         /\ Balances(AddBalance(S, b, p, n)) = L!Moved(Balances(T), a, b, n)
<1> DEFINE U == AddBalance(S, b, p, n)
<1>1. /\ S \in Rows /\ InSymbol(S, p) /\ TotalOf(S) = TotalOf(T) - n
      /\ Balance(S, a) = Balance(T, a) - n /\ n <= Balance(T, a)
      /\ \A g \in Holders \ {a} : S[g] = T[g]
      /\ NoneEmpty(T) /\ S = SubOrErase(T, a, n) => NoneEmpty(S)
  BY Subtracting
<1>2. TotalOf(T) \in Nat /\ TotalOf(S) + n <= MaxAmount
  BY <1>1, TotalBounds
<1>3. /\ U \in Rows /\ InSymbol(U, p) /\ TotalOf(U) = TotalOf(S) + n
      /\ Balance(U, b) = Balance(S, b) + n
      /\ \A g \in Holders \ {b} : U[g] = S[g]
      /\ NoneEmpty(S) => NoneEmpty(U)
  BY <1>1, <1>2, Adding
<1> HIDE DEF U
<1>4. Balances(S) = [Balances(T) EXCEPT ![a] = Balance(S, a)]
  BY <1>1, BalancesUpdate
<1>5. Balances(U) = [Balances(S) EXCEPT ![b] = Balance(U, b)]
  BY <1>1, <1>3, BalancesUpdate
<1>6. Balances(T)[a] = Balance(T, a) /\ Balances(T)[b] = Balance(S, b)
  BY <1>1, BalanceNat DEF Balance
<1>7. Balances(T) \in [Holders -> Nat]  BY BalanceNat
<1>8. Balances(U) = [[Balances(T) EXCEPT ![a] = Balances(T)[a] - n]
                       EXCEPT ![b] = Balances(T)[b] + n]
  BY <1>1, <1>3, <1>4, <1>5, <1>6
<1>9. Balances(U) = L!Moved(Balances(T), a, b, n)
  BY <1>7, <1>8 DEF L!Moved
<1> QED  BY <1>1, <1>2, <1>3, <1>6, <1>9 DEF U

\* transfer keeps a code in order and moves the amount.
LEMMA PaymentOK ==
  ASSUME NEW st, NEW T, NEW e \in BOOLEAN, CodeOK(st, T, e), st # None,
         NEW a \in Holders, NEW b \in Holders, a # b,
         NEW p \in Precisions, NEW n \in 1 .. MaxAmount,
         st.precision = p, CanGive(T, a, p, n),
         NEW S \in {SubBalance(T, a, n), SubOrErase(T, a, n)},
         e => S = SubOrErase(T, a, n)
  PROVE  CodeOK(st, AddBalance(S, b, p, n), e) /\ Effect(st, T, st, AddBalance(S, b, p, n), n)
<1>1. TotalOf(T) <= MaxAmount  BY DEF CodeOK, StatRow
<1>2. T \in Rows /\ InSymbol(T, p)  BY DEF CodeOK
<1> DEFINE U == AddBalance(S, b, p, n)
<1>3. /\ U \in Rows /\ InSymbol(U, p) /\ TotalOf(U) = TotalOf(T)
      /\ NoneEmpty(T) /\ S = SubOrErase(T, a, n) => NoneEmpty(U)
      /\ n <= Balances(T)[a] /\ Balances(U) = L!Moved(Balances(T), a, b, n)
  BY <1>1, <1>2, Paying
<1> HIDE DEF U
<1>4. CodeOK(st, U, e)  BY <1>3 DEF CodeOK
<1>5. Effect(st, T, st, U, n)  BY <1>3 DEF Effect
<1> QED  BY <1>4, <1>5 DEF U

\* create gives a code its row; a code without one has no balances.
LEMMA CreationOK ==
  ASSUME NEW T, NEW e \in BOOLEAN, CodeOK(None, T, e),
         NEW st \in StatRow, st.supply = 0
  PROVE  CodeOK(st, T, e) /\ Unseen(None, T, st, T)
<1>1. T \in Rows /\ \A h \in Holders : T[h] = None  BY DEF CodeOK
<1>2. \A h \in Holders : Balances(T)[h] = 0  BY <1>1, BalanceNat DEF Balance
<1>3. TotalOf(T) = 0  BY <1>2, SumZero DEF TotalOf
<1>4. st # None OBVIOUS
<1>5. st.supply <= st.max_supply BY DEF StatRow
<1>6. InSymbol(T, st.precision) BY <1>1 DEF InSymbol
<1> QED  BY <1>1, <1>3, <1>4, <1>5, <1>6 DEF CodeOK, Unseen, Supplied

\* issue without the inline transfer, and with it: the receiver gains.
LEMMA IssueOK ==
  ASSUME NEW st, NEW T, NEW e \in BOOLEAN, CodeOK(st, T, e), st # None,
         NEW p \in Precisions, NEW n \in 1 .. MaxAmount,
         st.precision = p, n <= st.max_supply - st.supply,
         NEW to \in Holders, NEW U,
         \/ to = st.issuer /\ U = AddBalance(T, to, p, n)
         \/ LET M == AddBalance(T, st.issuer, p, n)
            IN  /\ to # st.issuer
                /\ \/ U = AddBalance(SubOrErase(M, st.issuer, n), to, p, n)
                   \/ ~e /\ U = AddBalance(SubBalance(M, st.issuer, n), to, p, n)
  PROVE  /\ CodeOK([st EXCEPT !.supply = @ + n], U, e)
         /\ Effect(st, T, [st EXCEPT !.supply = @ + n], U, n)
<1> DEFINE M == AddBalance(T, st.issuer, p, n)
           su == [st EXCEPT !.supply = @ + n]
<1>1. /\ st \in StatRow /\ T \in Rows /\ InSymbol(T, p) /\ TotalOf(T) = st.supply
      /\ e => NoneEmpty(T)
  BY DEF CodeOK
<1>2. /\ st.issuer \in Holders /\ TotalOf(T) + n <= MaxAmount
      /\ st.supply + n \in 0 .. MaxAmount /\ st.supply + n <= st.max_supply
  BY <1>1 DEF StatRow
<1>3. /\ su \in StatRow /\ su # None /\ su.supply = st.supply + n
      /\ su.supply <= su.max_supply /\ su.precision = p
  BY <1>1, <1>2 DEF StatRow
<1>4. /\ M \in Rows /\ InSymbol(M, p) /\ TotalOf(M) = TotalOf(T) + n
      /\ M[st.issuer] # None /\ Balance(M, st.issuer) = Balance(T, st.issuer) + n
      /\ \A g \in Holders \ {st.issuer} : M[g] = T[g]
      /\ NoneEmpty(T) => NoneEmpty(M)
  BY <1>1, <1>2, Adding
<1>5. Balances(T) \in [Holders -> Nat] /\ \A h \in Holders : Balances(T)[h] = Balance(T, h)
  BY <1>1, BalanceNat
<1> HIDE DEF M, su
<1>6. Balances(M) = [Balances(T) EXCEPT ![st.issuer] = @ + n]
  <2>1. Balances(M) = [Balances(T) EXCEPT ![st.issuer] = Balance(M, st.issuer)]
    BY <1>1, <1>2, <1>4, BalancesUpdate
  <2> QED  BY <2>1, <1>2, <1>4, <1>5
<1>7. CASE to = st.issuer
  <2>1. U = M  BY <1>7 DEF M
  <2>2. CodeOK(su, M, e)  BY <1>1, <1>3, <1>4 DEF CodeOK
  <2>3. Effect(st, T, su, M, n)
    BY <1>2, <1>3, <1>6 DEF Effect, Supplied
  <2> QED  BY <2>1, <2>2, <2>3 DEF su
<1>8. CASE to # st.issuer
  <2>1. PICK S \in {SubBalance(M, st.issuer, n), SubOrErase(M, st.issuer, n)} :
          U = AddBalance(S, to, p, n) /\ (e => S = SubOrErase(M, st.issuer, n))
    BY <1>8 DEF M
  <2>2. CanGive(M, st.issuer, p, n)
    <3>1. M[st.issuer].precision = p BY <1>2, <1>4 DEF InSymbol
    <3>2. Balance(T, st.issuer) \in Nat BY <1>2, <1>5
    <3>3. n <= M[st.issuer].balance  BY <3>2, <1>4 DEF Balance
    <3> QED  BY <3>1, <3>3, <1>4 DEF CanGive
  <2>3. /\ U \in Rows /\ InSymbol(U, p) /\ TotalOf(U) = TotalOf(M)
        /\ e /\ NoneEmpty(M) => NoneEmpty(U)
        /\ Balances(U) = L!Moved(Balances(M), st.issuer, to, n)
    BY <1>2, <1>4, <1>8, <2>1, <2>2, Paying
  <2>4. CodeOK(su, U, e)  BY <1>1, <1>3, <1>4, <2>3 DEF CodeOK
  <2>5. Balances(U) = [Balances(T) EXCEPT ![to] = @ + n]
    BY <1>2, <1>5, <1>6, <1>8, <2>3 DEF L!Moved
  <2>6. Effect(st, T, su, U, n)
    BY <1>1, <1>3, <2>5 DEF Effect, Supplied
  <2> QED  BY <2>4, <2>6 DEF su
<1> QED  BY <1>7, <1>8

\* burn and retire: a holder loses what the supply does.
LEMMA DestructionOK ==
  ASSUME NEW st, NEW T, NEW e \in BOOLEAN, CodeOK(st, T, e), st # None,
         NEW p \in Precisions, NEW n \in 1 .. MaxAmount, NEW h \in Holders,
         st.precision = p, CanGive(T, h, p, n),
         NEW U \in {SubBalance(T, h, n), SubOrErase(T, h, n)},
         e => U = SubOrErase(T, h, n)
  PROVE  /\ CodeOK([st EXCEPT !.supply = @ - n], U, e)
         /\ Effect(st, T, [st EXCEPT !.supply = @ - n], U, n)
<1> DEFINE su == [st EXCEPT !.supply = @ - n]
<1>1. /\ st \in StatRow /\ T \in Rows /\ InSymbol(T, p) /\ TotalOf(T) = st.supply
      /\ e => NoneEmpty(T)
      /\ st.supply <= st.max_supply
  BY DEF CodeOK
<1>2. /\ U \in Rows /\ InSymbol(U, p) /\ TotalOf(U) = TotalOf(T) - n
      /\ Balance(U, h) = Balance(T, h) - n /\ n <= Balance(T, h)
      /\ \A g \in Holders \ {h} : U[g] = T[g]
      /\ NoneEmpty(T) /\ U = SubOrErase(T, h, n) => NoneEmpty(U)
  BY <1>1, Subtracting
<1>3. Balance(T, h) <= TotalOf(T) /\ Balance(T, h) \in Nat
  BY <1>1, TotalBounds, BalanceNat
<1>4. st.supply - n \in 0 .. MaxAmount /\ st.supply - n <= st.max_supply
  BY <1>1, <1>2, <1>3 DEF StatRow
<1>5. /\ su \in StatRow /\ su # None /\ su.supply = st.supply - n
      /\ su.supply <= su.max_supply /\ su.precision = p
  BY <1>1, <1>4 DEF StatRow
<1> HIDE DEF su
<1>6. CodeOK(su, U, e)  BY <1>1, <1>2, <1>5 DEF CodeOK
<1>7. Balances(U) = [Balances(T) EXCEPT ![h] = Balance(U, h)]
  BY <1>1, <1>2, BalancesUpdate
<1>8. Balances(T) \in [Holders -> Nat] /\ Balances(T)[h] = Balance(T, h)
  BY <1>1, BalanceNat
<1>9. Balances(U) = [Balances(T) EXCEPT ![h] = @ - n] /\ n <= Balances(T)[h]
  BY <1>2, <1>7, <1>8
<1>10. Effect(st, T, su, U, n)
  BY <1>5, <1>9 DEF Effect, Supplied
<1> QED  BY <1>6, <1>10 DEF su

\* open and close: a row at zero counts as none.
LEMMA EmptyRowOK ==
  ASSUME NEW st, NEW T, CodeOK(st, T, FALSE), st # None, NEW U \in Rows, NEW h \in Holders,
         InSymbol(U, st.precision),
         Balance(U, h) = Balance(T, h), \A g \in Holders \ {h} : U[g] = T[g]
  PROVE  CodeOK(st, U, FALSE) /\ Unseen(st, T, st, U)
<1>1. T \in Rows  BY DEF CodeOK
<1>2. Balances(U) = Balances(T)
  <2>1. Balances(U) = [Balances(T) EXCEPT ![h] = Balance(U, h)]
    BY <1>1, BalancesUpdate
  <2> QED  BY <2>1, <1>1, BalanceNat
<1>3. TotalOf(U) = TotalOf(T)  BY <1>2 DEF TotalOf
<1> QED  BY <1>2, <1>3 DEF CodeOK, Unseen

Quantities == Amounts \cup {iq * IqMultiplier : iq \in Votes \cup {EditProposeIq}}

\* What every step does: it leaves one code in order, with an effect that is
\* a ledger's or that a ledger does not see.
Changes(c) ==
  \E st, T :
     /\ stat' = [stat EXCEPT ![c] = st]
     /\ accounts' = [accounts EXCEPT ![c] = T]
     /\ CodeOK(st, T, Erases)
     /\ \/ Unseen(stat[c], accounts[c], st, T)
        \/ \E n \in Quantities : Effect(stat[c], accounts[c], st, T, n)

LEMMA CreateChanges ==
  ASSUME CodesOK, NEW c \in Codes, NEW p \in Precisions, NEW issuer \in Holders,
         NEW max \in Caps, CreateRow(issuer, c, p, max)
  PROVE  Changes(c)
<1> DEFINE row == [precision |-> p, supply |-> 0, max_supply |-> max, issuer |-> issuer]
<1>1. row \in StatRow /\ row.supply = 0  BY DEF StatRow
<1>2. stat' = [stat EXCEPT ![c] = row] /\ accounts' = accounts /\ stat[c] = None
  BY DEF CreateRow
<1> HIDE DEF row
<1>3. CodeOK(None, accounts[c], Erases)  BY <1>2 DEF CodesOK
<1>4. CodeOK(row, accounts[c], Erases) /\ Unseen(None, accounts[c], row, accounts[c])
  <2>1. Erases \in BOOLEAN  BY DEF Erases
  <2> QED  BY <1>1, <1>3, <2>1, CreationOK
<1>5. accounts' = [accounts EXCEPT ![c] = accounts[c]]
  BY <1>2 DEF CodesOK
<1> QED  BY <1>2, <1>4, <1>5 DEF Changes

LEMMA IqIssueChanges ==
  ASSUME CodesOK, contract = "everipediaiq", NEW c \in Codes, NEW p \in Precisions, NEW to \in Holders,
         NEW n \in Amounts, IqIssue(to, c, p, n)
  PROVE  Changes(c)
<1> DEFINE st == stat[c]
           M == AddBalance(accounts[c], st.issuer, p, n)
           U == IF to = st.issuer THEN M ELSE IqPaid(M, st.issuer, to, p, n)
           su == [st EXCEPT !.supply = @ + n]
<1>1. st # None /\ st.precision = p /\ n <= st.max_supply - st.supply
  BY DEF IqIssue, CanIssue, IsSymbol
<1>2. stat' = [stat EXCEPT ![c] = su] /\ accounts' = [accounts EXCEPT ![c] = U]
  BY DEF IqIssue
<1>3. CodeOK(st, accounts[c], Erases) /\ Erases \in BOOLEAN  BY DEF CodesOK, Erases
<1>4. \/ to = st.issuer /\ U = AddBalance(accounts[c], to, p, n)
      \/ /\ to # st.issuer
         /\ U = AddBalance(SubOrErase(M, st.issuer, n), to, p, n)
  BY DEF IqPaid
<1>5. CodeOK(su, U, Erases) /\ Effect(st, accounts[c], su, U, n)
  <2> HIDE DEF st, U
  <2> QED  BY <1>1, <1>3, <1>4, IssueOK
<1>6. n \in Quantities  BY DEF Quantities
<1> HIDE DEF M, U, su
<1> QED  BY <1>2, <1>5, <1>6 DEF Changes

LEMMA BondIssueChanges ==
  ASSUME CodesOK, contract = "bond", NEW c \in Codes, NEW p \in Precisions, NEW to \in Holders,
         NEW n \in Amounts, BondIssue(to, c, p, n)
  PROVE  Changes(c)
<1> DEFINE st == stat[c]
           M == AddBalance(accounts[c], st.issuer, p, n)
           U == IF to = st.issuer THEN M ELSE BondPaid(M, st.issuer, to, p, n)
           su == [st EXCEPT !.supply = @ + n]
<1>1. st # None /\ st.precision = p /\ n <= st.max_supply - st.supply
  BY DEF BondIssue, CanIssue, IsSymbol
<1>2. stat' = [stat EXCEPT ![c] = su] /\ accounts' = [accounts EXCEPT ![c] = U]
  BY DEF BondIssue
<1>3. CodeOK(st, accounts[c], Erases) /\ Erases \in BOOLEAN  BY DEF CodesOK, Erases
<1>4. \/ to = st.issuer /\ U = AddBalance(accounts[c], to, p, n)
      \/ /\ to # st.issuer
         /\ U = AddBalance(SubOrErase(M, st.issuer, n), to, p, n)
  BY DEF BondPaid
<1>5. CodeOK(su, U, Erases) /\ Effect(st, accounts[c], su, U, n)
  <2> HIDE DEF st, U
  <2> QED  BY <1>1, <1>3, <1>4, IssueOK
<1>6. n \in Quantities  BY DEF Quantities
<1> HIDE DEF M, U, su
<1> QED  BY <1>2, <1>5, <1>6 DEF Changes

LEMMA SharesIssueChanges ==
  ASSUME CodesOK, contract = "eosio.token", NEW c \in Codes, NEW p \in Precisions, NEW to \in Holders,
         NEW n \in Amounts, SharesIssue(to, c, p, n)
  PROVE  Changes(c)
<1> DEFINE st == stat[c]
           M == AddBalance(accounts[c], st.issuer, p, n)
           U == IF to = st.issuer THEN M ELSE SharesPaid(M, st.issuer, to, p, n)
           su == [st EXCEPT !.supply = @ + n]
<1>1. st # None /\ st.precision = p /\ n <= st.max_supply - st.supply
  BY DEF SharesIssue, CanIssue, IsSymbol
<1>2. stat' = [stat EXCEPT ![c] = su] /\ accounts' = [accounts EXCEPT ![c] = U]
  BY DEF SharesIssue
<1>3. CodeOK(st, accounts[c], Erases) /\ Erases = FALSE  BY DEF CodesOK, Erases
<1>4. \/ to = st.issuer /\ U = AddBalance(accounts[c], to, p, n)
      \/ /\ to # st.issuer
         /\ U = AddBalance(SubBalance(M, st.issuer, n), to, p, n)
  BY DEF SharesPaid
<1>5. CodeOK(su, U, Erases) /\ Effect(st, accounts[c], su, U, n)
  <2> HIDE DEF st, U
  <2> QED  BY <1>1, <1>3, <1>4, IssueOK
<1>6. n \in Quantities  BY DEF Quantities
<1> HIDE DEF M, U, su
<1> QED  BY <1>2, <1>5, <1>6 DEF Changes

\* A payment by the IQ or bond contract, which erase, of any quantity.
LEMMA ErasingPayChanges ==
  ASSUME CodesOK, NEW c \in Codes, NEW p \in Precisions, NEW a \in Holders, NEW b \in Holders,
         NEW n \in Quantities, n \in 1 .. MaxAmount, a # b,
         IsSymbol(c, p), CanGive(accounts[c], a, p, n), UNCHANGED stat,
         accounts' = [accounts EXCEPT
           ![c] = AddBalance(SubOrErase(accounts[c], a, n), b, p, n)]
  PROVE  Changes(c)
<1>1. CodeOK(stat[c], accounts[c], Erases) /\ Erases \in BOOLEAN  BY DEF CodesOK, Erases
<1> DEFINE T == accounts[c]
           S == SubOrErase(T, a, n)
<1>2. /\ CodeOK(stat[c], AddBalance(S, b, p, n), Erases)
      /\ Effect(stat[c], T, stat[c], AddBalance(S, b, p, n), n)
  BY <1>1, PaymentOK DEF IsSymbol
<1>3. stat' = [stat EXCEPT ![c] = stat[c]]  BY DEF CodesOK
<1> QED  BY <1>2, <1>3 DEF Changes

LEMMA SharesPayChanges ==
  ASSUME CodesOK, contract = "eosio.token", NEW c \in Codes, NEW p \in Precisions,
         NEW a \in Holders, NEW b \in Holders, NEW n \in Amounts, SharesTransfer(a, b, c, p, n)
  PROVE  Changes(c)
<1> DEFINE T == accounts[c]
           S == SubBalance(T, a, n)
<1>1. CodeOK(stat[c], T, Erases) /\ Erases = FALSE  BY DEF CodesOK, Erases
<1>2. a # b /\ IsSymbol(c, p) /\ CanGive(T, a, p, n)
  BY DEF SharesTransfer, CanSharesPay
<1>3. /\ CodeOK(stat[c], AddBalance(S, b, p, n), Erases)
      /\ Effect(stat[c], T, stat[c], AddBalance(S, b, p, n), n)
  BY <1>1, <1>2, PaymentOK DEF IsSymbol
<1>4. accounts' = [accounts EXCEPT ![c] = AddBalance(S, b, p, n)]
  BY DEF SharesTransfer, SharesPaid
<1>5. stat' = [stat EXCEPT ![c] = stat[c]]  BY DEF CodesOK, SharesTransfer
<1>6. n \in Quantities  BY DEF Quantities
<1> QED  BY <1>3, <1>4, <1>5, <1>6 DEF Changes

LEMMA IqBurnChanges ==
  ASSUME CodesOK, NEW c \in Codes, NEW p \in Precisions,
         NEW h \in Holders, NEW n \in Amounts, IqBurn(h, c, p, n)
  PROVE  Changes(c)
<1> DEFINE st == stat[c]
           T == accounts[c]
           su == [st EXCEPT !.supply = @ - n]
           U == SubOrErase(T, h, n)
<1>1. CodeOK(st, T, Erases) /\ Erases \in BOOLEAN  BY DEF CodesOK, Erases
<1>2. st # None /\ st.precision = p /\ CanGive(T, h, p, n)
  BY DEF IqBurn, IsSymbol
<1>3. stat' = [stat EXCEPT ![c] = su] /\ accounts' = [accounts EXCEPT ![c] = U]
  BY DEF IqBurn
<1>4. CodeOK(su, U, Erases) /\ Effect(st, T, su, U, n)
  <2> HIDE DEF st, T
  <2> QED  BY <1>1, <1>2, DestructionOK
<1>5. n \in Quantities  BY DEF Quantities
<1> HIDE DEF su, U
<1> QED  BY <1>3, <1>4, <1>5 DEF Changes

LEMMA RetireChanges ==
  ASSUME CodesOK, contract = "eosio.token", NEW c \in Codes, NEW p \in Precisions,
         NEW n \in Amounts, SharesRetire(c, p, n)
  PROVE  Changes(c)
<1> DEFINE st == stat[c]
           T == accounts[c]
           su == [st EXCEPT !.supply = @ - n]
           U == SubBalance(T, st.issuer, n)
<1>1. CodeOK(st, T, Erases) /\ Erases = FALSE  BY DEF CodesOK, Erases
<1>2. st # None /\ st.precision = p /\ CanGive(T, st.issuer, p, n)
  BY DEF SharesRetire, IsSymbol
<1>3. stat' = [stat EXCEPT ![c] = su] /\ accounts' = [accounts EXCEPT ![c] = U]
  BY DEF SharesRetire
<1>4. st.issuer \in Holders  BY <1>1, <1>2 DEF CodeOK, StatRow
<1>5. CodeOK(su, U, Erases) /\ Effect(st, T, su, U, n)
  <2> HIDE DEF st, T
  <2> QED  BY <1>1, <1>2, <1>4, DestructionOK
<1>6. n \in Quantities  BY DEF Quantities
<1> HIDE DEF su, U
<1> QED  BY <1>3, <1>5, <1>6 DEF Changes

LEMMA OpenCloseChanges ==
  ASSUME CodesOK, contract = "eosio.token", NEW c \in Codes, NEW p \in Precisions,
         NEW h \in Holders, SharesOpen(h, c, p) \/ SharesClose(h, c)
  PROVE  Changes(c)
<1> DEFINE st == stat[c]
           T == accounts[c]
           zero == [precision |-> p, balance |-> 0]
<1>1. CodeOK(st, T, Erases) /\ Erases = FALSE /\ T \in Rows  BY DEF CodesOK, Erases
<1>2. stat' = [stat EXCEPT ![c] = st]  BY DEF CodesOK, SharesOpen, SharesClose
<1>3. CASE SharesOpen(h, c, p)
  <2> DEFINE U == [T EXCEPT ![h] = zero]
  <2>1. st # None /\ st.precision = p /\ T[h] = None  BY <1>3 DEF SharesOpen, IsSymbol
  <2>2. accounts' = [accounts EXCEPT ![c] = U]  BY <1>3 DEF SharesOpen
  <2>3. zero \in AccountRow /\ zero.precision = p /\ zero.balance = 0  BY DEF AccountRow
  <2> HIDE DEF zero
  <2>4. U \in Rows /\ U[h] = zero /\ \A g \in Holders \ {h} : U[g] = T[g]
    BY <1>1, <2>3 DEF Rows
  <2>5. Balance(U, h) = Balance(T, h)  BY <2>1, <2>3, <2>4 DEF Balance
  <2>6. InSymbol(U, st.precision)  BY <1>1, <2>1, <2>3, <2>4 DEF InSymbol, CodeOK
  <2> HIDE DEF st, T, U
  <2>7. CodeOK(st, U, FALSE) /\ Unseen(st, T, st, U)
    BY <1>1, <2>1, <2>4, <2>5, <2>6, EmptyRowOK
  <2> QED  BY <1>1, <1>2, <2>2, <2>7 DEF Changes, st, T
<1>4. CASE SharesClose(h, c)
  <2> DEFINE U == [T EXCEPT ![h] = None]
  <2>1. T[h] # None /\ T[h].balance = 0  BY <1>4 DEF SharesClose
  <2>2. accounts' = [accounts EXCEPT ![c] = U]  BY <1>4 DEF SharesClose
  <2>3. st # None  BY <1>1, <2>1 DEF CodeOK
  <2>4. U \in Rows /\ U[h] = None /\ \A g \in Holders \ {h} : U[g] = T[g]
    BY <1>1 DEF Rows
  <2>5. Balance(U, h) = Balance(T, h)  BY <2>1, <2>4 DEF Balance
  <2>6. InSymbol(U, st.precision)  BY <1>1, <2>3, <2>4 DEF InSymbol, CodeOK
  <2> HIDE DEF st, T, U
  <2>7. CodeOK(st, U, FALSE) /\ Unseen(st, T, st, U)
    BY <1>1, <2>3, <2>4, <2>5, <2>6, EmptyRowOK
  <2> QED  BY <1>1, <1>2, <2>2, <2>7 DEF Changes, st, T
<1> QED  BY <1>3, <1>4

LEMMA StakeChanges ==
  ASSUME CodesOK, contract = "everipediaiq", NEW h \in Holders,
         NEW iq \in Votes \cup {EditProposeIq}, iq > 0, Stake(h, iq)
  PROVE  Changes(IqCode) /\ staked' \in 0 .. MaxStake
<1> DEFINE n == iq * IqMultiplier
<1>1. iq \in Nat /\ iq <= MaxStake /\ staked' \in 0 .. MaxStake
  BY DEF Stake, CodesOK
<1>2. n \in 1 .. MaxAmount
  <2>1. /\ \A x, y \in Nat \ {0} : x * y \in Nat \ {0}
        /\ \A x, y, z \in Nat : x <= y => x * z <= y * z
    OBVIOUS
  <2>2. n \in Nat \ {0} /\ n <= MaxStake * IqMultiplier  BY <1>1, <2>1
  <2>3. MaxStake * IqMultiplier \in Nat  BY Z3
  <2> HIDE DEF n
  <2> QED  BY <2>2, <2>3
<1>3. n \in Quantities  BY DEF Quantities
<1>4. /\ h # ArticleContract
      /\ IsSymbol(IqCode, IqPrecision) /\ CanGive(accounts[IqCode], h, IqPrecision, n)
      /\ UNCHANGED stat
      /\ accounts' = [accounts EXCEPT
           ![IqCode] = AddBalance(SubOrErase(accounts[IqCode], h, n),
                                  ArticleContract, IqPrecision, n)]
  BY DEF Stake, Pay, CanIqPay, IqPaid
<1> HIDE DEF n
<1>5. Changes(IqCode)  BY <1>2, <1>3, <1>4, ErasingPayChanges
<1> QED  BY <1>1, <1>5

\* Every step of every contract changes one code as a ledger may.
LEMMA NextChanges ==
  ASSUME CodesOK, TokensNext
  PROVE  /\ \E c \in Codes : Changes(c)
         /\ contract' = contract /\ staked' \in 0 .. MaxStake
<1>1. contract' = contract  BY DEF TokensNext
<1>2. CASE IqStep
  <2>0. contract = "everipediaiq"  BY <1>2 DEF IqStep
  <2>1. ASSUME NEW c \in Codes, NEW p \in Precisions, NEW h \in Holders, NEW max \in Caps,
               IqCreate(h, c, p, max)
        PROVE  Changes(c) /\ staked' \in 0 .. MaxStake
    BY <2>1, CreateChanges DEF IqCreate, CodesOK
  <2>2. ASSUME NEW c \in Codes, NEW p \in Precisions, NEW h \in Holders, NEW n \in Amounts,
               IqIssue(h, c, p, n)
        PROVE  Changes(c) /\ staked' \in 0 .. MaxStake
    <3>1. Changes(c)  BY <2>0, <2>2, IqIssueChanges
    <3> QED  BY <2>2, <3>1 DEF IqIssue, CodesOK
  <2>3. ASSUME NEW c \in Codes, NEW p \in Precisions, NEW h \in Payers, NEW n \in Amounts,
               IqBurn(h, c, p, n)
        PROVE  Changes(c) /\ staked' \in 0 .. MaxStake
    <3>1. Changes(c)  BY <2>3, IqBurnChanges DEF Payers
    <3> QED  BY <2>3, <3>1 DEF IqBurn, CodesOK
  <2>4. ASSUME NEW c \in Codes, NEW p \in Precisions, NEW h \in Payers, NEW n \in Amounts,
               NEW b \in Holders, IqTransfer(h, b, c, p, n)
        PROVE  Changes(c) /\ staked' \in 0 .. MaxStake
    <3>1. /\ h # b /\ IsSymbol(c, p) /\ CanGive(accounts[c], h, p, n) /\ UNCHANGED stat
          /\ accounts' = [accounts EXCEPT
               ![c] = AddBalance(SubOrErase(accounts[c], h, n), b, p, n)]
          /\ staked' = staked
      BY <2>4 DEF IqTransfer, Pay, CanIqPay, IqPaid
    <3>2. n \in Quantities /\ n \in 1 .. MaxAmount /\ h \in Holders
      BY DEF Quantities, Payers
    <3>3. Changes(c)  BY <3>1, <3>2, ErasingPayChanges
    <3> QED  BY <3>1, <3>3 DEF CodesOK
  <2>5. ASSUME NEW h \in Payers, Epartpropose(h)
        PROVE  Changes(IqCode) /\ staked' \in 0 .. MaxStake
    BY <2>0, <2>5, StakeChanges DEF Epartpropose, Payers
  <2>6. ASSUME NEW h \in Payers, NEW amount \in Votes, Epartvote(h, amount)
        PROVE  Changes(IqCode) /\ staked' \in 0 .. MaxStake
    BY <2>0, <2>6, StakeChanges DEF Epartvote, Payers
  <2> HIDE DEF Changes
  <2> QED  BY <1>1, <1>2, <2>1, <2>2, <2>3, <2>4, <2>5, <2>6 DEF IqStep
<1>3. CASE SharesStep
  <2>0. contract = "eosio.token" /\ staked' = staked  BY <1>3 DEF SharesStep
  <2>1. ASSUME NEW c \in Codes, NEW p \in Precisions, NEW h \in Holders, NEW max \in Caps,
               SharesCreate(h, c, p, max)
        PROVE  Changes(c)
    BY <2>1, CreateChanges DEF SharesCreate
  <2> QED  BY <1>1, <1>3, <2>0, <2>1, SharesIssueChanges, SharesPayChanges, RetireChanges,
              OpenCloseChanges DEF SharesStep, CodesOK
<1>4. CASE BondStep
  <2>0. contract = "bond" /\ staked' = staked  BY <1>4 DEF BondStep
  <2>1. ASSUME NEW c \in Codes, NEW p \in Precisions, NEW h \in Holders, NEW max \in Caps,
               BondCreate(h, c, p, max)
        PROVE  Changes(c)
    BY <2>1, CreateChanges DEF BondCreate
  <2>2. ASSUME NEW c \in Codes, NEW p \in Precisions, NEW h \in Holders, NEW n \in Amounts,
               NEW b \in Holders, BondTransfer(h, b, c, p, n)
        PROVE  Changes(c)
    <3>1. /\ h # b /\ IsSymbol(c, p) /\ CanGive(accounts[c], h, p, n) /\ UNCHANGED stat
          /\ accounts' = [accounts EXCEPT
               ![c] = AddBalance(SubOrErase(accounts[c], h, n), b, p, n)]
      BY <2>2 DEF BondTransfer, CanBondPay, BondPaid
    <3>2. n \in Quantities /\ n \in 1 .. MaxAmount  BY DEF Quantities
    <3> QED  BY <3>1, <3>2, ErasingPayChanges
  <2> QED  BY <1>1, <1>4, <2>0, <2>1, <2>2, BondIssueChanges DEF BondStep, CodesOK
<1> QED  BY <1>2, <1>3, <1>4 DEF TokensNext

LEMMA ChangeKeepsCodes ==
  ASSUME CodesOK, NEW c \in Codes, Changes(c), contract' = contract, staked' \in 0 .. MaxStake
  PROVE  CodesOK'
<1>1. PICK st, T : /\ stat' = [stat EXCEPT ![c] = st]
                   /\ accounts' = [accounts EXCEPT ![c] = T]
                   /\ CodeOK(st, T, Erases)
  BY DEF Changes
<1>2. T \in Rows /\ st \in StatRow \cup {None}  BY <1>1 DEF CodeOK
<1>3. Erases' = Erases  BY DEF Erases
<1>4. stat' \in [Codes -> StatRow \cup {None}] /\ accounts' \in [Codes -> Rows]
  BY <1>1, <1>2 DEF CodesOK
<1>5. \A d \in Codes : CodeOK(stat'[d], accounts'[d], Erases)
  BY <1>1 DEF CodesOK
<1> QED  BY <1>3, <1>4, <1>5 DEF CodesOK

LEMMA CodesOKInit == TokensInit => CodesOK
<1> SUFFICES ASSUME TokensInit PROVE CodesOK
  OBVIOUS
<1> DEFINE T == [h \in Holders |-> None]
<1>1. T \in Rows /\ \A h \in Holders : T[h] = None  BY DEF Rows
<1>2. CodeOK(None, T, Erases)  BY <1>1 DEF CodeOK, NoneEmpty
<1> QED  BY <1>1, <1>2 DEF TokensInit, TablesInit, CodesOK

LEMMA CodesOKAlways == TokensSpec => []CodesOK
<1>1. CodesOK /\ [TokensNext]_tokenVars => CodesOK'
  <2>1. CodesOK /\ TokensNext => CodesOK'  BY NextChanges, ChangeKeepsCodes
  <2>2. CodesOK /\ UNCHANGED tokenVars => CodesOK'
    BY DEF CodesOK, tokenVars, Erases
  <2> QED  BY <2>1, <2>2
<1> QED  BY <1>1, CodesOKInit, PTL DEF TokensSpec

\* Type correctness: every row is in range, no supply is above its maximum.
THEOREM TokensTypeCorrect == TokensSpec => []TokensTypeOK
<1>1. CodesOK => TokensTypeOK
  BY DEF CodesOK, CodeOK, TokensTypeOK, Rows
<1> QED  BY <1>1, CodesOKAlways, PTL

\* The supply of every token is always the sum of its balances.
THEOREM SupplyIsAlwaysBalances == TokensSpec => []SupplyIsBalances
<1>1. CodesOK => SupplyIsBalances
  <2> SUFFICES ASSUME CodesOK, NEW c \in Codes
               PROVE  SumFunctionOnSet(Balances(accounts[c]), Holders) = SupplyOf(c)
    BY DEF SupplyIsBalances
  <2>1. CodeOK(stat[c], accounts[c], Erases)  BY DEF CodesOK
  <2>2. CASE stat[c] # None  BY <2>1, <2>2 DEF CodeOK, SupplyOf, TotalOf
  <2>3. CASE stat[c] = None
    <3>1. accounts[c] \in Rows /\ \A h \in Holders : accounts[c][h] = None
      BY <2>1, <2>3 DEF CodeOK
    <3>2. \A h \in Holders : Balances(accounts[c])[h] = 0
      BY <3>1, BalanceNat DEF Balance
    <3> QED  BY <2>3, <3>2, SumZero DEF SupplyOf
  <2> QED  BY <2>2, <2>3
<1> QED  BY <1>1, CodesOKAlways, PTL

\* All rows of a code are in its one symbol, and the contracts that cannot close a
\* row leave none empty.
THEOREM RowsAlwaysInOrder == TokensSpec => []RowsInOrder
<1>1. CodesOK => RowsInOrder
  BY DEF CodesOK, CodeOK, InSymbol, NoneEmpty, RowsInOrder, Erases
<1> QED  BY <1>1, CodesOKAlways, PTL

\* The ledger's variables under the refinement.
LEMMA LedgerStep ==
  ASSUME CodesOK, CodesOK', NEW c \in Codes, Changes(c)
  PROVE  [L!LedgerNext]_(L!ledgerVars)
<1> DEFINE sup == [d \in Codes |-> SupplyOf(d)]
           hld == [d \in Codes |-> Balances(accounts[d])]
<1>1. PICK st, T : /\ stat' = [stat EXCEPT ![c] = st]
                   /\ accounts' = [accounts EXCEPT ![c] = T]
                   /\ \/ Unseen(stat[c], accounts[c], st, T)
                      \/ \E n \in Quantities : Effect(stat[c], accounts[c], st, T, n)
  BY DEF Changes
<1>2. /\ sup[c] = Supplied(stat[c]) /\ hld[c] = Balances(accounts[c])
      /\ \A d \in Codes : sup'[d] = Supplied(stat'[d]) /\ hld'[d] = Balances(accounts'[d])
      /\ \A d \in Codes : sup[d] = Supplied(stat[d])
  BY DEF SupplyOf, Supplied, Balances, Balance
<1>3. /\ stat'[c] = st /\ accounts'[c] = T
      /\ \A d \in Codes \ {c} : stat'[d] = stat[d] /\ accounts'[d] = accounts[d]
  BY <1>1 DEF CodesOK
<1>4. /\ sup' = [sup EXCEPT ![c] = Supplied(st)]
      /\ hld' = [hld EXCEPT ![c] = Balances(T)]
  <2>1. \A d \in Codes : sup'[d] = [sup EXCEPT ![c] = Supplied(st)][d]
    BY <1>2, <1>3
  <2>2. \A d \in Codes : hld'[d] = [hld EXCEPT ![c] = Balances(T)][d]
    BY <1>2, <1>3
  <2> QED  BY <2>1, <2>2
<1> HIDE DEF sup, hld
<1>5. DOMAIN sup = Codes /\ DOMAIN hld = Codes /\ sup = [sup EXCEPT ![c] = sup[c]]
      /\ hld = [hld EXCEPT ![c] = hld[c]]
  BY DEF sup, hld
<1>6. CASE Unseen(stat[c], accounts[c], st, T)
  <2>1. sup' = sup /\ hld' = hld
    BY <1>2, <1>4, <1>5, <1>6 DEF Unseen
  <2> QED  BY <2>1 DEF L!ledgerVars, sup, hld
<1>7. ASSUME NEW n \in Quantities, Effect(stat[c], accounts[c], st, T, n)
      PROVE  L!LedgerNext
  <2>1. CASE \E h \in Holders : /\ Supplied(st) = sup[c] + n
                                /\ Balances(T) = [hld[c] EXCEPT ![h] = @ + n]
    <3>1. PICK h \in Holders : /\ sup' = [sup EXCEPT ![c] = @ + n]
                               /\ hld' = [hld EXCEPT ![c][h] = @ + n]
      BY <2>1, <1>4
    <3>2. L!Mint(c, h, n)  BY <3>1 DEF L!Mint, sup, hld
    <3> QED  BY <3>2 DEF L!LedgerNext, Quantities
  <2>2. CASE \E h \in Holders : /\ n <= hld[c][h]
                                /\ Supplied(st) = sup[c] - n
                                /\ Balances(T) = [hld[c] EXCEPT ![h] = @ - n]
    <3>1. PICK h \in Holders : /\ n <= hld[c][h]
                               /\ sup' = [sup EXCEPT ![c] = @ - n]
                               /\ hld' = [hld EXCEPT ![c][h] = @ - n]
      BY <2>2, <1>4
    <3>2. L!Destroy(c, h, n)  BY <3>1 DEF L!Destroy, sup, hld
    <3> QED  BY <3>2 DEF L!LedgerNext, Quantities
  <2>3. CASE \E a, b \in Holders : /\ a # b /\ n <= hld[c][a]
                                   /\ Supplied(st) = sup[c]
                                   /\ Balances(T) = L!Moved(hld[c], a, b, n)
    <3>1. PICK a \in Holders, b \in Holders :
             /\ a # b /\ n <= hld[c][a] /\ sup' = sup
             /\ hld' = [hld EXCEPT ![c] = L!Moved(@, a, b, n)]
      BY <2>3, <1>4, <1>5
    <3>2. L!Move(c, a, b, n)  BY <3>1 DEF L!Move, sup, hld
    <3> QED  BY <3>2 DEF L!LedgerNext, Quantities
  <2> QED  BY <1>2, <1>7, <2>1, <2>2, <2>3 DEF Effect
<1> QED  BY <1>1, <1>6, <1>7

\* Whichever contract an account runs, it implements the abstract ledger.
THEOREM TokensImplementLedger == TokensSpec => ImplementsLedger
<1>1. TokensInit => L!LedgerInit
  BY DEF TokensInit, TablesInit, L!LedgerInit, SupplyOf, Balances, Balance
<1>2. CodesOK /\ CodesOK' /\ [TokensNext]_tokenVars => [L!LedgerNext]_(L!ledgerVars)
  <2>1. CodesOK /\ CodesOK' /\ TokensNext => [L!LedgerNext]_(L!ledgerVars)
    BY NextChanges, LedgerStep
  <2>2. UNCHANGED tokenVars => UNCHANGED L!ledgerVars
    BY DEF tokenVars, L!ledgerVars, SupplyOf, Balances, Balance
  <2> QED  BY <2>1, <2>2
<1> QED  BY <1>1, <1>2, CodesOKAlways, PTL DEF TokensSpec, ImplementsLedger, L!LedgerSpec

-----------------------------------------------------------------------------
(***************************************************************************)
(* The stakes that the article contract is told of.                        *)
(***************************************************************************)
AtArticle(T) == Balance(T, ArticleContract)
StakesIn == CodesOK /\ (contract # "everipediaiq" => staked = 0) /\ StakesArrive

Got(b, n) == IF b = ArticleContract THEN n ELSE 0

Gives(T, U, b, n) == AtArticle(U) \in Nat /\ AtArticle(U) = AtArticle(T) + Got(b, n)

\* A payment of another holder gives the article contract its amount, or
\* nothing.
LEMMA PaidArticle ==
  ASSUME NEW st, NEW T, CodeOK(st, T, TRUE), st # None,
         NEW a \in Holders, NEW b \in Holders, a # b, a # ArticleContract,
         NEW p \in Precisions, NEW n \in 1 .. MaxAmount, st.precision = p, CanGive(T, a, p, n),
         NEW U, U = AddBalance(SubOrErase(T, a, n), b, p, n)
  PROVE  Gives(T, U, b, n)
<1> DEFINE S == SubOrErase(T, a, n)
<1>1. T \in Rows /\ InSymbol(T, p) /\ TotalOf(T) <= MaxAmount BY DEF CodeOK, StatRow
<1>2. U \in Rows /\ Balances(U) = L!Moved(Balances(T), a, b, n) BY <1>1, Paying
<1> HIDE DEF S
<1>3. /\ Balances(T) \in [Holders -> Nat]
      /\ \A h \in Holders : Balances(T)[h] = Balance(T, h)
      /\ Balances(U) \in [Holders -> Nat]
      /\ \A h \in Holders : Balances(U)[h] = Balance(U, h)
  BY <1>1, <1>2, BalanceNat
<1>4. Balances(U)[ArticleContract]
        = Balances(T)[ArticleContract] + (IF b = ArticleContract THEN n ELSE 0)
  BY <1>2, <1>3 DEF L!Moved
<1> QED BY <1>3, <1>4 DEF AtArticle, Got, Gives

\* An issue by any issuer, the article contract included, takes nothing of it.
LEMMA IssueArticle ==
  ASSUME NEW st, NEW T, CodeOK(st, T, TRUE), st # None,
         NEW to \in Holders, NEW p \in Precisions, NEW n \in 1 .. MaxAmount,
         st.precision = p, n <= st.max_supply - st.supply
  PROVE  /\ AtArticle(AddBalance(T, st.issuer, p, n)) >= AtArticle(T)
         /\ to # st.issuer =>
              AtArticle(IqPaid(AddBalance(T, st.issuer, p, n), st.issuer, to, p, n))
                >= AtArticle(T)
<1> DEFINE M == AddBalance(T, st.issuer, p, n)
           S == SubOrErase(M, st.issuer, n)
           U == AddBalance(S, to, p, n)
<1>1. /\ T \in Rows /\ InSymbol(T, p) /\ TotalOf(T) + n <= MaxAmount /\ st.issuer \in Holders
      /\ \A h \in Holders : Balance(T, h) \in Nat
  BY BalanceNat DEF CodeOK, StatRow
<1>2. /\ M \in Rows /\ InSymbol(M, p) /\ TotalOf(M) = TotalOf(T) + n
      /\ M[st.issuer] # None /\ Balance(M, st.issuer) = Balance(T, st.issuer) + n
      /\ \A g \in Holders \ {st.issuer} : M[g] = T[g]
  BY <1>1, Adding
<1> HIDE DEF M
<1>3. CanGive(M, st.issuer, p, n)
  <2>1. M[st.issuer].precision = p BY <1>1, <1>2 DEF InSymbol
  <2>2. n <= M[st.issuer].balance BY <1>1, <1>2 DEF Balance
  <2> QED BY <1>2, <2>1, <2>2 DEF CanGive
<1>4. /\ \A h \in Holders : Balances(M)[h] = Balance(M, h)
      /\ Balances(M) \in [Holders -> Nat]
  BY <1>2, BalanceNat
<1>5. \A h \in Holders : Balance(M, h) = Balance(T, h) + (IF h = st.issuer THEN n ELSE 0)
  BY <1>1, <1>2 DEF Balance
<1>6. ASSUME to # st.issuer PROVE Balance(U, ArticleContract) >= Balance(T, ArticleContract)
  <2>1. U \in Rows /\ Balances(U) = L!Moved(Balances(M), st.issuer, to, n)
    BY <1>1, <1>2, <1>3, <1>6, Paying
  <2> HIDE DEF U, S
  <2>2. \A h \in Holders : Balances(U)[h] = Balance(U, h) BY <2>1, BalanceNat
  <2>3. \A h \in Holders : Balances(U)[h] = Balances(M)[h]
          + (IF h = to THEN n ELSE 0) - (IF h = st.issuer THEN n ELSE 0)
    BY <1>1, <1>4, <1>6, <2>1 DEF L!Moved
  <2>4. ArticleContract \in Holders OBVIOUS
  <2> QED BY <1>1, <1>4, <1>5, <2>2, <2>3, <2>4
<1>7. Balance(M, ArticleContract) >= Balance(T, ArticleContract) BY <1>1, <1>5
<1> QED BY <1>6, <1>7 DEF AtArticle, IqPaid, U, S, M

\* Every step of the IQ contract leaves the article contract what it has, and
\* brings it what it is told of.
Arrives(k) == /\ staked' = staked + k
              /\ AtArticle(accounts'[IqCode]) >= AtArticle(accounts[IqCode]) + k * IqMultiplier

LEMMA ArticleGrows ==
  ASSUME CodesOK, IqStep
  PROVE  \E k \in Nat : Arrives(k)
<1>0. /\ staked \in Nat /\ accounts \in [Codes -> Rows] /\ IqMultiplier \in Nat
      /\ IqCode \in Codes
  BY DEF CodesOK
<1>1. AtArticle(accounts[IqCode]) \in Nat BY <1>0, BalanceNat DEF AtArticle
<1>2. \A c \in Codes : CodeOK(stat[c], accounts[c], TRUE)
  BY DEF CodesOK, CodeOK, IqStep, Erases
<1>3. ASSUME staked' = staked, AtArticle(accounts'[IqCode]) >= AtArticle(accounts[IqCode])
      PROVE  Arrives(0)
  BY <1>0, <1>1, <1>3 DEF Arrives
<1>4. ASSUME NEW c \in Codes, NEW p \in Precisions, NEW h \in Holders, NEW max \in Caps,
             IqCreate(h, c, p, max)
      PROVE  Arrives(0)
  BY <1>1, <1>3, <1>4 DEF IqCreate, CreateRow
<1>5. ASSUME NEW c \in Codes, NEW p \in Precisions, NEW h \in Holders, NEW n \in Amounts,
             IqIssue(h, c, p, n)
      PROVE  Arrives(0)
  <2> DEFINE M == AddBalance(accounts[c], stat[c].issuer, p, n)
  <2>1. /\ stat[c] # None /\ stat[c].precision = p /\ n <= stat[c].max_supply - stat[c].supply
        /\ n \in 1 .. MaxAmount /\ staked' = staked
    BY <1>5 DEF IqIssue, CanIssue, IsSymbol
  <2>2. \/ accounts' = [accounts EXCEPT ![c] = M]
        \/ /\ h # stat[c].issuer
           /\ accounts' = [accounts EXCEPT ![c] = IqPaid(M, stat[c].issuer, h, p, n)]
    BY <1>5 DEF IqIssue
  <2>3. /\ AtArticle(M) >= AtArticle(accounts[c])
        /\ h # stat[c].issuer =>
             AtArticle(IqPaid(M, stat[c].issuer, h, p, n)) >= AtArticle(accounts[c])
    BY <1>2, <2>1, IssueArticle
  <2> HIDE DEF M
  <2>4. AtArticle(accounts'[IqCode]) >= AtArticle(accounts[IqCode])
    <3>1. CASE c = IqCode BY <1>0, <2>2, <2>3, <3>1
    <3>2. CASE c # IqCode BY <1>0, <1>1, <2>2, <3>2
    <3> QED BY <3>1, <3>2
  <2> QED BY <1>3, <2>1, <2>4
<1>6. ASSUME NEW c \in Codes, NEW p \in Precisions, NEW h \in Payers, NEW n \in Amounts,
             NEW b \in Holders, IqTransfer(h, b, c, p, n)
      PROVE  Arrives(0)
  <2> DEFINE U == AddBalance(SubOrErase(accounts[c], h, n), b, p, n)
  <2>1. /\ stat[c] # None /\ stat[c].precision = p /\ CanGive(accounts[c], h, p, n)
        /\ n \in 1 .. MaxAmount /\ staked' = staked /\ h # b /\ h \in Holders
        /\ h # ArticleContract /\ accounts' = [accounts EXCEPT ![c] = U]
    BY <1>6 DEF IqTransfer, Pay, IsSymbol, CanIqPay, IqPaid, Payers
  <2>2. Gives(accounts[c], U, b, n)
    <3>1. /\ CodeOK(stat[c], accounts[c], TRUE) /\ h \in Holders /\ b \in Holders
          /\ p \in Precisions /\ n \in 1 .. MaxAmount
      BY <1>2, <2>1
    <3> QED BY <2>1, <3>1, PaidArticle, Zenon
  <2> HIDE DEF U
  <2>3. AtArticle(accounts'[IqCode]) >= AtArticle(accounts[IqCode])
    <3>1. CASE c = IqCode BY <1>0, <1>1, <2>1, <2>2, <3>1 DEF Got, Gives
    <3>2. CASE c # IqCode BY <1>0, <1>1, <2>1, <3>2
    <3> QED BY <3>1, <3>2
  <2> QED BY <1>3, <2>1, <2>3
<1>7. ASSUME NEW c \in Codes, NEW p \in Precisions, NEW h \in Payers, NEW n \in Amounts,
             IqBurn(h, c, p, n)
      PROVE  Arrives(0)
  <2>1. /\ h # ArticleContract /\ ArticleContract \in Holders /\ staked' = staked
        /\ accounts' = [accounts EXCEPT ![c] = SubOrErase(accounts[c], h, n)]
    BY <1>7 DEF IqBurn, Payers
  <2>2. SubOrErase(accounts[c], h, n)[ArticleContract] = accounts[c][ArticleContract]
    BY <1>0, <2>1 DEF SubOrErase, Rows
  <2>3. accounts'[IqCode][ArticleContract] = accounts[IqCode][ArticleContract]
    BY <1>0, <2>1, <2>2
  <2> QED BY <1>1, <1>3, <2>1, <2>3 DEF AtArticle, Balance
<1>8. ASSUME NEW h \in Payers, NEW iq \in Nat, iq > 0, Stake(h, iq)
      PROVE  Arrives(iq)
  <2> DEFINE n == iq * IqMultiplier
             U == AddBalance(SubOrErase(accounts[IqCode], h, n), ArticleContract, IqPrecision, n)
  <2>1. /\ stat[IqCode] # None /\ stat[IqCode].precision = IqPrecision
        /\ CanGive(accounts[IqCode], h, IqPrecision, n)
        /\ staked' = staked + iq /\ h \in Holders /\ h # ArticleContract
        /\ accounts' = [accounts EXCEPT ![IqCode] = U]
    BY <1>8 DEF Stake, Pay, IsSymbol, CanIqPay, IqPaid, Payers
  <2>2. n \in 1 .. MaxAmount
    <3>1. \A x, y \in Nat \ {0} : x * y \in Nat \ {0} OBVIOUS
    <3>2. n \in Nat \ {0} BY <1>8, <3>1
    <3> HIDE DEF n
    <3>3. accounts[IqCode] \in Rows BY <1>0
    <3> QED BY <2>1, <3>2, <3>3 DEF CanGive, Rows, AccountRow
  <2> HIDE DEF n
  <2>3. Gives(accounts[IqCode], U, ArticleContract, n)
    <3>1. /\ CodeOK(stat[IqCode], accounts[IqCode], TRUE)
          /\ ArticleContract \in Holders /\ IqPrecision \in Precisions
      BY <1>0, <1>2
    <3> QED BY <2>1, <2>2, <3>1, PaidArticle, Zenon
  <2> HIDE DEF U
  <2>4. accounts'[IqCode] = U BY <1>0, <2>1
  <2> QED BY <2>1, <2>3, <2>4 DEF Arrives, n, Got, Gives
<1>9. CASE \E h \in Payers : Epartpropose(h) \/ \E amount \in Votes : Epartvote(h, amount)
  <2>1. EditProposeIq \in Nat /\ EditProposeIq > 0 /\ Votes \subseteq Nat OBVIOUS
  <2> QED BY <1>8, <1>9, <2>1 DEF Epartpropose, Epartvote
<1> QED BY <1>4, <1>5, <1>6, <1>7, <1>9 DEF IqStep

LEMMA StakesInAlways == TokensSpec => []StakesIn
<1>1. TokensInit => StakesIn
  <2> SUFFICES ASSUME TokensInit PROVE StakesIn
    OBVIOUS
  <2>1. CodesOK /\ staked = 0 BY CodesOKInit DEF TokensInit
  <2>2. AtArticle(accounts[IqCode]) \in Nat BY <2>1, BalanceNat DEF CodesOK, AtArticle
  <2> QED BY <2>1, <2>2 DEF StakesIn, StakesArrive, AtArticle
<1>2. StakesIn /\ CodesOK' /\ [TokensNext]_tokenVars => StakesIn'
  <2> SUFFICES ASSUME StakesIn, CodesOK', [TokensNext]_tokenVars PROVE StakesIn'
    OBVIOUS
  <2>1. /\ staked \in Nat /\ AtArticle(accounts[IqCode]) \in Nat
        /\ AtArticle(accounts'[IqCode]) \in Nat
        /\ staked * IqMultiplier <= AtArticle(accounts[IqCode])
    BY BalanceNat DEF StakesIn, CodesOK, AtArticle, StakesArrive
  <2>2. CASE IqStep /\ UNCHANGED contract
    <3>1. PICK k \in Nat : Arrives(k) BY <2>2, ArticleGrows DEF StakesIn
    <3>2. \A s, m, x, y \in Nat : s * m <= x /\ y >= x + k * m => (s + k) * m <= y
      <4> TAKE s, m, x, y \in Nat
      <4>1. (s + k) * m = s * m + k * m /\ s * m \in Nat /\ k * m \in Nat OBVIOUS
      <4> QED BY <4>1
    <3>3. (staked + k) * IqMultiplier <= AtArticle(accounts'[IqCode])
      BY <2>1, <3>1, <3>2 DEF Arrives
    <3>4. contract' = "everipediaiq" BY <2>2 DEF IqStep
    <3> QED BY <3>1, <3>3, <3>4 DEF StakesIn, StakesArrive, Arrives, AtArticle
  <2>3. CASE SharesStep \/ BondStep \/ UNCHANGED tokenVars
    <3>1. CASE UNCHANGED tokenVars
      BY <3>1 DEF tokenVars, StakesIn, StakesArrive
    <3>2. CASE SharesStep \/ BondStep
      <4>1. staked' = 0 /\ contract' # "everipediaiq"
        BY <3>2 DEF StakesIn, SharesStep, BondStep, TokensNext, tokenVars
      <4> QED BY <2>1, <4>1 DEF StakesIn, StakesArrive, AtArticle
    <3> QED BY <2>3, <3>1, <3>2
  <2> QED BY <2>2, <2>3 DEF TokensNext
<1> QED BY <1>1, <1>2, CodesOKAlways, PTL DEF TokensSpec

\* What the article contract is told is staked with it, it holds: no issue,
\* burn or payment takes from it, and each stake brings what it is told.
THEOREM StakesAlwaysArrive == TokensSpec => []StakesArrive
<1> QED BY StakesInAlways, PTL DEF StakesIn
=============================================================================
