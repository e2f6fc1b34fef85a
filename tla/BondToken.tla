----------------------------- MODULE BondToken ------------------------------
(***************************************************************************)
(* The token of the bonds.  create_bond, which would register a bond, is   *)
(* private and nothing calls it.  Source: src/Bonds/bond.cpp.              *)
(***************************************************************************)
EXTENDS TokenTables

BondCreate(issuer, c, p, max) == CreateRow(issuer, c, p, max)

BondPaid(T, a, b, p, n) == AddBalance(SubOrErase(T, a, n), b, p, n)
CanBondPay(T, a, b, p, n) == CanGive(T, a, p, n) /\ CanTake(T, b, p)

BondIssue(to, c, p, n) ==
  /\ CanIssue(c, p, n)
  /\ stat' = [stat EXCEPT ![c].supply = @ + n]
  /\ CanTake(accounts[c], stat[c].issuer, p)
  /\ LET T == AddBalance(accounts[c], stat[c].issuer, p, n)
     IN \/ /\ to = stat[c].issuer
           /\ accounts' = [accounts EXCEPT ![c] = T]
        \/ /\ to # stat[c].issuer
           /\ CanBondPay(T, stat[c].issuer, to, p, n)
           /\ accounts' = [accounts EXCEPT
                             ![c] = BondPaid(T, stat[c].issuer, to, p, n)]

BondTransfer(a, b, c, p, n) ==
  /\ a # b
  /\ IsSymbol(c, p) /\ CanBondPay(accounts[c], a, b, p, n)
  /\ accounts' = [accounts EXCEPT ![c] = BondPaid(@, a, b, p, n)]
  /\ UNCHANGED stat
=============================================================================
