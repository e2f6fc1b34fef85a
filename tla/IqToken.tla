------------------------------ MODULE IqToken -------------------------------
(***************************************************************************)
(* The IQ token, which any holder may burn and which stakes IQ with the    *)
(* article contract for edit proposals and votes.                          *)
(* Source: src/Maker/everipediaiq.cpp.                                     *)
(***************************************************************************)
EXTENDS TokenTables

CONSTANTS
  ArticleContract, \* eparticlectr, a contract outside the repository
  IqCode,          \* the code of IQSYMBOL
  IqPrecision,     \* its precision
  IqMultiplier,    \* IQ_PRECISION_MULTIPLIER
  EditProposeIq,   \* EDIT_PROPOSE_IQ
  MaxStake         \* bound: what the article contract is told of

VARIABLE staked    \* the IQ that the article contract was told are staked

ASSUME IqAssumption ==
  /\ ArticleContract \in Holders /\ IqCode \in Codes /\ IqPrecision \in Precisions
  /\ IqMultiplier \in Nat \ {0} /\ EditProposeIq \in Nat \ {0}
  /\ MaxStake \in Nat
  \* amount * IQ_PRECISION_MULTIPLIER does not leave asset's range
  /\ MaxStake * IqMultiplier <= MaxAmount

IqCreate(issuer, c, p, max) == CreateRow(issuer, c, p, max) /\ UNCHANGED staked

\* Faulty variant of IqPaid: a payer with nothing left keeps a row.
IqPaidFromRow(T, a, b, p, n) == AddBalance(SubBalance(T, a, n), b, p, n)
IqPaid(T, a, b, p, n) == AddBalance(SubOrErase(T, a, n), b, p, n)
CanIqPay(T, a, b, p, n) == CanGive(T, a, p, n) /\ CanTake(T, b, p)

IqIssue(to, c, p, n) ==
  /\ CanIssue(c, p, n)
  /\ stat' = [stat EXCEPT ![c].supply = @ + n]
  /\ CanTake(accounts[c], stat[c].issuer, p)
  /\ LET T == AddBalance(accounts[c], stat[c].issuer, p, n)
     IN \/ /\ to = stat[c].issuer
           /\ accounts' = [accounts EXCEPT ![c] = T]
        \/ /\ to # stat[c].issuer
           /\ CanIqPay(T, stat[c].issuer, to, p, n)
           /\ accounts' = [accounts EXCEPT
                             ![c] = IqPaid(T, stat[c].issuer, to, p, n)]
  /\ UNCHANGED staked

Pay(a, b, c, p, n) ==
  /\ a # b
  /\ IsSymbol(c, p) /\ CanIqPay(accounts[c], a, b, p, n)
  /\ accounts' = [accounts EXCEPT ![c] = IqPaid(@, a, b, p, n)]
  /\ UNCHANGED stat

IqTransfer(a, b, c, p, n) == Pay(a, b, c, p, n) /\ UNCHANGED staked

IqBurn(h, c, p, n) ==
  /\ IsSymbol(c, p)
  /\ CanGive(accounts[c], h, p, n)
  /\ stat' = [stat EXCEPT ![c].supply = @ - n]
  /\ accounts' = [accounts EXCEPT ![c] = SubOrErase(@, h, n)]
  /\ UNCHANGED staked

\* Faulty variant of Stake: whole IQ are sent as thousandths.
StakeUnits(h, iq) ==
  /\ staked + iq <= MaxStake
  /\ Pay(h, ArticleContract, IqCode, IqPrecision, iq)
  /\ staked' = staked + iq

\* The inline transfer of a stake and the inline call that tells the article
\* contract of it; either one failing undoes both.
Stake(h, iq) ==
  /\ staked + iq <= MaxStake
  /\ Pay(h, ArticleContract, IqCode, IqPrecision, iq * IqMultiplier)
  /\ staked' = staked + iq

Epartpropose(proposer) == Stake(proposer, EditProposeIq)
Epartvote(voter, amount) == amount > 0 /\ Stake(voter, amount)
=============================================================================
