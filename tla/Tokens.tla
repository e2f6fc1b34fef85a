------------------------------- MODULE Tokens -------------------------------
(***************************************************************************)
(* An account of the chain that runs one of the repository's three token   *)
(* contracts.                                                              *)
(***************************************************************************)
EXTENDS SharesToken, BondToken, IqToken

CONSTANTS
  Caps,     \* the maximum supplies a token may be created with
  Amounts,  \* the amounts an action may name
  Votes     \* the amounts of IQ a vote may stake

ASSUME TokensAssumption ==
  /\ Caps \subseteq 1 .. MaxAmount /\ Amounts \subseteq 1 .. MaxAmount
  /\ Votes \subseteq Nat

VARIABLE contract  \* which of the contracts the account runs

tokenVars == <<stat, accounts, staked, contract>>

Contracts == {"everipediaiq", "eosio.token", "bond"}

TokensInit ==
  /\ TablesInit
  /\ staked = 0
  /\ contract \in Contracts

\* What the article contract does with its IQ is not in the repository: it
\* receives, and does not pay.
Payers == Holders \ {ArticleContract}

IqStep ==
  /\ contract = "everipediaiq"
  /\ \/ \E c \in Codes, p \in Precisions, h \in Holders :
          \/ \E max \in Caps : IqCreate(h, c, p, max)
          \/ \E n \in Amounts : IqIssue(h, c, p, n)
     \/ \E c \in Codes, p \in Precisions, h \in Payers, n \in Amounts :
          \/ \E b \in Holders : IqTransfer(h, b, c, p, n)
          \/ IqBurn(h, c, p, n)
     \/ \E h \in Payers :
          Epartpropose(h) \/ \E amount \in Votes : Epartvote(h, amount)

SharesStep ==
  /\ contract = "eosio.token"
  /\ \E c \in Codes, p \in Precisions, h \in Holders :
       \/ \E max \in Caps : SharesCreate(h, c, p, max)
       \/ \E n \in Amounts : SharesIssue(h, c, p, n) \/ SharesRetire(c, p, n)
       \/ \E n \in Amounts, b \in Holders : SharesTransfer(h, b, c, p, n)
       \/ SharesOpen(h, c, p)
       \/ SharesClose(h, c)
  /\ UNCHANGED staked

BondStep ==
  /\ contract = "bond"
  /\ \E c \in Codes, p \in Precisions, h \in Holders :
       \/ \E max \in Caps : BondCreate(h, c, p, max)
       \/ \E n \in Amounts : BondIssue(h, c, p, n)
       \/ \E n \in Amounts, b \in Holders : BondTransfer(h, b, c, p, n)
  /\ UNCHANGED staked

TokensNext == (IqStep \/ SharesStep \/ BondStep) /\ UNCHANGED contract

TokensSpec == TokensInit /\ [][TokensNext]_tokenVars
-----------------------------------------------------------------------------
\* Every row is in range and no supply is above its maximum (issue).
TokensTypeOK ==
  /\ stat \in [Codes -> StatRow \cup {None}]
  /\ accounts \in [Codes -> [Holders -> AccountRow \cup {None}]]
  /\ \A c \in Codes : stat[c] # None => stat[c].supply <= stat[c].max_supply
  /\ staked \in 0 .. MaxStake
  /\ contract \in Contracts

Balance(T, h) == IF T[h] = None THEN 0 ELSE T[h].balance
Balances(T) == [h \in Holders |-> Balance(T, h)]
SupplyOf(c) == IF stat[c] = None THEN 0 ELSE stat[c].supply

\* The supply that issue, burn and retire keep is the sum of the balances
\* that they and the inline transfers move.
SupplyIsBalances ==
  \A c \in Codes : SumFunctionOnSet(Balances(accounts[c]), Holders) = SupplyOf(c)

\* Rows are found by code alone: still each is in the one symbol of its code, so
\* no sum or comparison mixes precisions.  And the IQ and bond contracts leave no
\* empty row behind, on either side of a payment, an issue or a burn: nothing
\* there could remove it.
RowsInOrder ==
  \A c \in Codes, h \in Holders : accounts[c][h] # None =>
    /\ stat[c] # None /\ stat[c].precision = accounts[c][h].precision
    /\ contract # "eosio.token" => accounts[c][h].balance > 0

\* What the article contract is told is staked with it, it holds: the two
\* inline actions of epartpropose and epartvote agree.
StakesArrive ==
  staked * IqMultiplier <= Balance(accounts[IqCode], ArticleContract)

\* Whichever contract runs, its actions are the steps of a ledger: issuing
\* through the issuer is a mint to the receiver, rows that are opened,
\* closed or erased are not noticed.
L == INSTANCE Ledger WITH
       Quantities <- Amounts \cup
         {iq * IqMultiplier : iq \in Votes \cup {EditProposeIq}},
       supply <- [c \in Codes |-> SupplyOf(c)],
       held <- [c \in Codes |-> Balances(accounts[c])]
ImplementsLedger == L!LedgerSpec
=============================================================================
