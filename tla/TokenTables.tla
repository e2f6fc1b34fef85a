---------------------------- MODULE TokenTables -----------------------------
(***************************************************************************)
(* The two tables that the repository's token contracts share: stat, a row *)
(* for each symbol code, and accounts, a row for each code in the scope of *)
(* each holder.  An asset is a code c, a precision p and an amount n.      *)
(* Source: src/SeigniorageShares/eosio.token.{hpp,cpp}, the original of    *)
(* the other token contracts.                                              *)
(***************************************************************************)
EXTENDS Integers, FiniteSets, Functions

CONSTANTS
  Holders,    \* the accounts of the chain
  Codes,      \* symbol codes
  Precisions, \* the precisions a symbol may have
  MaxAmount,  \* asset::max_amount
  None        \* no row

VARIABLES stat, accounts

tableVars == <<stat, accounts>>

StatRow == [precision: Precisions, supply: 0 .. MaxAmount,
            max_supply: 1 .. MaxAmount, issuer: Holders]
AccountRow == [precision: Precisions, balance: 0 .. MaxAmount]

ASSUME TokenTablesAssumption ==
  /\ IsFiniteSet(Holders)
  /\ MaxAmount \in Nat
  /\ None \notin StatRow /\ None \notin AccountRow

TablesInit ==
  /\ stat = [c \in Codes |-> None]
  /\ accounts = [c \in Codes |-> [h \in Holders |-> None]]

\* The symbol of an asset is the one its code was created with.
IsSymbol(c, p) == stat[c] # None /\ stat[c].precision = p

CreateRow(issuer, c, p, max) ==
  /\ stat[c] = None
  /\ stat' = [stat EXCEPT ![c] =
       [precision |-> p, supply |-> 0, max_supply |-> max, issuer |-> issuer]]
  /\ UNCHANGED accounts

\* The supply left to issue of a symbol suffices.
CanIssue(c, p, n) == IsSymbol(c, p) /\ n <= stat[c].max_supply - stat[c].supply

\* Faulty variant of CanGive: the amount is not compared.
CanOverdraw(T, h, p, n) == T[h] # None /\ T[h].precision = p

\* The row of h in the balances T of one code can give n of precision p, or
\* take it: asset's operators refuse another symbol.
CanGive(T, h, p, n) == T[h] # None /\ T[h].precision = p /\ n <= T[h].balance
CanTake(T, h, p) == T[h] # None => T[h].precision = p

\* Faulty variant of AddBalance: a row that exists is replaced.
SetBalance(T, h, p, n) == [T EXCEPT ![h] = [precision |-> p, balance |-> n]]

Added(row, p, n) == IF row = None THEN [precision |-> p, balance |-> n]
                                  ELSE [row EXCEPT !.balance = @ + n]
AddBalance(T, h, p, n) == [T EXCEPT ![h] = Added(@, p, n)]

\* Taking n from h keeps an empty row, or erases it.
Reduced(row, n) == [row EXCEPT !.balance = @ - n]
SubBalance(T, h, n) == [T EXCEPT ![h] = Reduced(@, n)]
\* Faulty variant of SubOrErase: the row is erased whatever is left in it.
Erase(T, h, n) == [T EXCEPT ![h] = None]
SubOrErase(T, h, n) ==
  [T EXCEPT ![h] = IF @.balance = n THEN None ELSE Reduced(@, n)]
=============================================================================
