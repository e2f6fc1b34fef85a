---------------------------- MODULE SharesToken -----------------------------
(***************************************************************************)
(* The seigniorage shares, and the system's own token, whose contract is   *)
(* the same file.  Source: src/SeigniorageShares/eosio.token.cpp.          *)
(***************************************************************************)
EXTENDS TokenTables

SharesCreate(issuer, c, p, max) == CreateRow(issuer, c, p, max)

\* The balances T of a code after a payment from a to b.
SharesPaid(T, a, b, p, n) == AddBalance(SubBalance(T, a, n), b, p, n)
CanSharesPay(T, a, b, p, n) == CanGive(T, a, p, n) /\ CanTake(T, b, p)

\* The issuer is given the tokens and pays them on in an inline transfer.
SharesIssue(to, c, p, n) ==
  /\ CanIssue(c, p, n)
  /\ stat' = [stat EXCEPT ![c].supply = @ + n]
  /\ CanTake(accounts[c], stat[c].issuer, p)
  /\ LET T == AddBalance(accounts[c], stat[c].issuer, p, n)
     IN \/ /\ to = stat[c].issuer
           /\ accounts' = [accounts EXCEPT ![c] = T]
        \/ /\ to # stat[c].issuer
           /\ CanSharesPay(T, stat[c].issuer, to, p, n)
           /\ accounts' = [accounts EXCEPT
                             ![c] = SharesPaid(T, stat[c].issuer, to, p, n)]

\* Only the issuer destroys shares, its own.
SharesRetire(c, p, n) ==
  /\ IsSymbol(c, p)
  /\ CanGive(accounts[c], stat[c].issuer, p, n)
  /\ stat' = [stat EXCEPT ![c].supply = @ - n]
  /\ accounts' = [accounts EXCEPT ![c] = SubBalance(@, stat[c].issuer, n)]

SharesTransfer(a, b, c, p, n) ==
  /\ a # b
  /\ IsSymbol(c, p) /\ CanSharesPay(accounts[c], a, b, p, n)
  /\ accounts' = [accounts EXCEPT ![c] = SharesPaid(@, a, b, p, n)]
  /\ UNCHANGED stat

\* Anybody may open an empty row for a holder who has none.
SharesOpen(h, c, p) ==
  /\ IsSymbol(c, p)
  /\ accounts[c][h] = None
  /\ accounts' = [accounts EXCEPT ![c][h] = [precision |-> p, balance |-> 0]]
  /\ UNCHANGED stat

SharesClose(h, c) ==
  /\ accounts[c][h] # None /\ accounts[c][h].balance = 0
  /\ accounts' = [accounts EXCEPT ![c][h] = None]
  /\ UNCHANGED stat
=============================================================================
