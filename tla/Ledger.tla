------------------------------- MODULE Ledger -------------------------------
(***************************************************************************)
(* What a token contract promises: its tokens come into being, change      *)
(* hands and go, one holder or one pair of holders at a time, and nobody   *)
(* gives what it has not.  The token contracts implement it (Tokens).      *)
(***************************************************************************)
EXTENDS Integers

CONSTANTS Holders, Codes, Quantities

VARIABLES
  supply, \* how much there is of each token
  held    \* how much of it each holder has

ledgerVars == <<supply, held>>

LedgerInit ==
  /\ supply = [c \in Codes |-> 0]
  /\ held = [c \in Codes |-> [h \in Holders |-> 0]]

Mint(c, h, n) ==
  /\ supply' = [supply EXCEPT ![c] = @ + n]
  /\ held' = [held EXCEPT ![c][h] = @ + n]

Destroy(c, h, n) ==
  /\ n <= held[c][h]
  /\ supply' = [supply EXCEPT ![c] = @ - n]
  /\ held' = [held EXCEPT ![c][h] = @ - n]

Moved(purse, a, b, n) == [purse EXCEPT ![a] = @ - n, ![b] = @ + n]
Move(c, a, b, n) ==
  /\ a # b /\ n <= held[c][a]
  /\ held' = [held EXCEPT ![c] = Moved(@, a, b, n)]
  /\ UNCHANGED supply

LedgerNext ==
  \E c \in Codes, a \in Holders, n \in Quantities :
     \/ Mint(c, a, n)
     \/ Destroy(c, a, n)
     \/ \E b \in Holders : Move(c, a, b, n)

LedgerSpec == LedgerInit /\ [][LedgerNext]_ledgerVars
=============================================================================
