-------------------------- MODULE Referendum_proof ---------------------------
(***************************************************************************)
(* Theorems about the referenda: what is staked is what is counted, no IQ  *)
(* is created or lost, and, as long as the account of the contract itself  *)
(* does not call referended, each session has its own deferred call and    *)
(* implements Ballot.                                                      *)
(***************************************************************************)
EXTENDS Referendum, DaiqTables_proof

PropTable == [CdpTypes -> PropRow \cup {None}]

LEMMA RefParts ==
  RefTypeOK <=> /\ stat \in StatTable /\ feed \in FeedTable /\ acnt \in Accounts
                /\ prop \in PropTable /\ deferred \in SUBSET Call
BY DEF RefTypeOK, TablesTypeOK, StatTable, FeedTable, Accounts, PropTable

LEMMA RefPartsNext ==
  RefTypeOK' <=> /\ stat' \in StatTable /\ feed' \in FeedTable /\ acnt' \in Accounts
                 /\ prop' \in PropTable /\ deferred' \in SUBSET Call
BY DEF RefTypeOK, TablesTypeOK, StatTable, FeedTable, Accounts, PropTable

LEMMA PropIn ==
  ASSUME RefTypeOK, NEW t \in CdpTypes, prop[t] # None
  PROVE  prop[t] \in PropRow
BY RefParts DEF PropTable

\* The IQ in a row of balances.
Bal(row) == IF row = None THEN 0 ELSE row.balance

LEMMA BalIn ==
  ASSUME NEW a \in Accounts, NEW s \in Symbols, NEW v \in Users
  PROVE  Bal(a[s][v]) \in 0 .. MaxAmount /\ Bal(a[s][v]) \in Nat
<1>1. 0 \in 0 .. MaxAmount BY TablesAssumption
<1>2. Bal(a[s][v]) \in 0 .. MaxAmount BY <1>1 DEF Bal, Accounts, AccountRow
<1> QED BY <1>2

LEMMA TypeSymbols ==
  ASSUME NEW t \in CdpTypes
  PROVE  t \in Symbols /\ IQ \in Symbols /\ t # IQ
BY TablesAssumption
-----------------------------------------------------------------------------
(***************************************************************************)
(* What each action writes.                                                *)
(***************************************************************************)
\* A vote moves q of IQ from the free balance of one voter to its stake, and
\* leaves the rows of IQ to their contract.
Staked(v, t, q) ==
  /\ Bal(acnt'[IQ][v]) = Bal(acnt[IQ][v]) - q
  /\ Bal(acnt'[t][v]) = Bal(acnt[t][v]) + q
  /\ \A s \in Symbols, u \in Users : u # v \/ s \notin {IQ, t} => acnt'[s][u] = acnt[s][u]
  /\ acnt[IQ][v] # None /\ acnt'[IQ][v].code = acnt[IQ][v].code

LEMMA VoteStakes ==
  ASSUME RefTypeOK, NEW v \in Users, NEW t \in CdpTypes, NEW against, NEW q \in 1 .. MaxAmount,
         Vote(v, t, against, q)
  PROVE  acnt' \in Accounts /\ Staked(v, t, q) /\ q <= Bal(acnt[IQ][v])
<1>0. acnt \in Accounts /\ t \in Symbols /\ IQ \in Symbols /\ t # IQ /\ q \in Nat
  BY RefParts, TypeSymbols
<1> DEFINE at == acnt[t][v]
           staked == IF at = None THEN q ELSE at.balance + q
           row == [balance |-> staked, code |-> IF at = None THEN NoName ELSE at.code]
           d == Debit(acnt, v, IQ, q)
<1>1. CanDebit(acnt, v, IQ, q) /\ InRange(staked) /\ acnt' = [d EXCEPT ![t][v] = row]
  BY DEF Vote
<1>2. d \in Accounts BY <1>0, <1>1, DebitType
<1>3. at # None => at \in AccountRow BY <1>0 DEF Accounts
<1>4. staked = Bal(at) + q BY <1>0, BalIn DEF Bal
<1>5. staked \in 0 .. MaxAmount
  <2>1. Bal(at) \in Nat BY <1>0, BalIn
  <2> HIDE DEF staked, at
  <2> QED BY <1>1, <1>4, <2>1, TablesAssumption DEF InRange, Amounts
<1>6. (IF at = None THEN NoName ELSE at.code) \in Codes BY <1>3 DEF AccountRow, Codes
<1>7. row \in AccountRow /\ row.balance = staked
  <2> HIDE DEF staked
  <2> QED BY <1>5, <1>6 DEF AccountRow
<1>8. row # None BY <1>7, TablesAssumption
<1>9. PICK r \in AccountRow :
        /\ acnt[IQ][v] # None /\ acnt[IQ][v] \in AccountRow /\ acnt[IQ][v].balance >= q
        /\ r.balance = acnt[IQ][v].balance - q /\ r.code = acnt[IQ][v].code
        /\ d = [acnt EXCEPT ![IQ][v] = r]
  BY <1>0, <1>1, DebitOne
<1> HIDE DEF row, staked, d
<1>10. acnt' \in Accounts BY <1>0, <1>1, <1>2, <1>7, Written DEF Accounts
<1>11. /\ acnt'[t][v] = row
       /\ \A s \in Symbols, u \in Users : s # t \/ u # v => acnt'[s][u] = d[s][u]
  BY <1>0, <1>1, <1>2, WrittenAt DEF Accounts
<1>12. /\ d[IQ][v] = r
       /\ \A s \in Symbols, u \in Users : s # IQ \/ u # v => d[s][u] = acnt[s][u]
  BY <1>0, <1>9, WrittenAt DEF Accounts
<1>13. acnt'[IQ][v] = r /\ r # None BY <1>0, <1>11, <1>12, TablesAssumption
<1>14. Bal(acnt'[IQ][v]) = Bal(acnt[IQ][v]) - q BY <1>9, <1>13 DEF Bal
<1>15. Bal(acnt'[t][v]) = Bal(acnt[t][v]) + q BY <1>4, <1>7, <1>8, <1>11 DEF Bal
<1>16. q <= Bal(acnt[IQ][v]) BY <1>0, <1>9 DEF Bal, AccountRow
<1>17. acnt[IQ][v] # None /\ acnt'[IQ][v].code = acnt[IQ][v].code BY <1>9, <1>13
<1> QED BY <1>10, <1>11, <1>12, <1>14, <1>15, <1>16, <1>17 DEF Staked

\* The row of a proposal after a vote of q.
Counted(row, against, q) ==
  IF against THEN [row EXCEPT !.nay = @ + q] ELSE [row EXCEPT !.yay = @ + q]

LEMMA VoteCounts ==
  ASSUME RefTypeOK, NEW v \in Users, NEW t \in CdpTypes, NEW against \in BOOLEAN,
         NEW q \in 1 .. MaxAmount, Vote(v, t, against, q)
  PROVE  /\ prop' \in PropTable /\ prop[t] # None
         /\ prop'[t] = Counted(prop[t], against, q) /\ prop'[t] # None
         /\ \A u \in CdpTypes : u # t => prop'[u] = prop[u]
         /\ prop'[t].proposer = prop[t].proposer
         /\ against => prop'[t].nay = prop[t].nay + q /\ prop'[t].yay = prop[t].yay
         /\ ~against => prop'[t].yay = prop[t].yay + q /\ prop'[t].nay = prop[t].nay
<1>1. prop[t] # None /\ prop \in PropTable BY RefParts DEF Vote
<1>2. prop[t] \in PropRow BY <1>1, PropIn
<1>3. prop' = [prop EXCEPT ![t] = Counted(prop[t], against, q)]
      /\ (against => InRange(prop[t].nay + q)) /\ (~against => InRange(prop[t].yay + q))
  BY <1>1 DEF Vote, Counted, PropTable
<1>4. /\ prop[t].yay \in 0 .. MaxAmount /\ prop[t].nay \in 0 .. MaxAmount
  BY <1>2 DEF PropRow
<1>5. /\ against => prop[t].nay + q \in 0 .. MaxAmount
      /\ ~against => prop[t].yay + q \in 0 .. MaxAmount
  BY <1>3, <1>4, TablesAssumption DEF InRange, Amounts
<1>6. Counted(prop[t], against, q) \in PropRow BY <1>2, <1>5 DEF Counted, PropRow
<1>7. /\ prop'[t] = Counted(prop[t], against, q)
      /\ \A u \in CdpTypes : u # t => prop'[u] = prop[u]
      /\ prop' \in PropTable
  BY <1>1, <1>3, <1>6 DEF PropTable
<1>8. prop'[t] # None BY <1>6, <1>7, ReferendumAssumption
<1> QED BY <1>1, <1>2, <1>7, <1>8 DEF Counted, PropRow

\* A refund moves the stakes on one type to the free balances of their voters.
Unstaked(t) ==
  /\ \A v \in Users : /\ Bal(acnt'[IQ][v]) = Bal(acnt[IQ][v]) + Bal(acnt[t][v])
                      /\ acnt'[t][v] = None
  /\ \A s \in Symbols, v \in Users : s \notin {IQ, t} => acnt'[s][v] = acnt[s][v]
  /\ \A v \in Users : acnt'[IQ][v] = acnt[IQ][v] \/ acnt'[IQ][v].code = IQContract

LEMMA RefundUnstakes ==
  ASSUME RefTypeOK, NEW t \in CdpTypes, CanRefund(t), acnt' = Refund(t)
  PROVE  acnt' \in Accounts /\ Unstaked(t)
<1>0. acnt \in Accounts /\ t \in Symbols /\ IQ \in Symbols /\ t # IQ
  BY RefParts, TypeSymbols
<1>1. \A s \in Symbols : acnt'[s] = IF s = t THEN [v \in Users |-> None]
                                   ELSE IF s = IQ THEN [v \in Users |-> Refunded(t, v)]
                                   ELSE acnt[s]
  BY <1>0 DEF Refund, Accounts
<1>2. DOMAIN acnt' = Symbols /\ acnt' = [s \in DOMAIN acnt' |-> acnt'[s]]
  BY <1>0 DEF Refund, Accounts
<1>3. ASSUME NEW v \in Users
      PROVE  /\ Refunded(t, v) \in AccountRow \cup {None}
             /\ Bal(Refunded(t, v)) = Bal(acnt[IQ][v]) + Bal(acnt[t][v])
             /\ Refunded(t, v) = acnt[IQ][v] \/ Refunded(t, v).code = IQContract
  <2>1. acnt[IQ][v] \in AccountRow \cup {None} BY <1>0 DEF Accounts
  <2>2. Bal(acnt[IQ][v]) \in Nat BY <1>0, BalIn
  <2>3. CASE acnt[t][v] = None BY <2>1, <2>2, <2>3 DEF Refunded, Bal
  <2>4. CASE acnt[t][v] # None
    <3> DEFINE n == acnt[t][v].balance
    <3>1. n = Bal(acnt[t][v]) BY <2>4 DEF Bal
    <3>2. n \in 0 .. MaxAmount BY <1>0, <3>1, BalIn
    <3>3. Refunded(t, v) = Paid(acnt[IQ][v], n, IQContract) BY <2>4 DEF Refunded
    <3>4. CanCredit(acnt, v, IQ, n, IQContract) BY <2>4 DEF CanRefund
    <3> HIDE DEF n
    <3>5. CASE acnt[IQ][v] = None
      <4>1. Refunded(t, v) = [balance |-> n, code |-> IQContract] BY <3>3, <3>5 DEF Paid
      <4>2. Refunded(t, v) \in AccountRow BY <3>2, <4>1, TablesAssumption DEF AccountRow, Codes
      <4>3. Refunded(t, v) # None BY <4>2, TablesAssumption
      <4>4. Bal(Refunded(t, v)) = n BY <4>1, <4>3 DEF Bal
      <4>5. Bal(acnt[IQ][v]) = 0 /\ n \in Int BY <3>2, <3>5 DEF Bal
      <4>6. Refunded(t, v).code = IQContract BY <4>1
      <4> QED BY <3>1, <4>2, <4>4, <4>5, <4>6
    <3>6. CASE acnt[IQ][v] # None
      <4>1. acnt[IQ][v] \in AccountRow BY <2>1, <3>6
      <4>2. Refunded(t, v) = [acnt[IQ][v] EXCEPT !.balance = @ + n] BY <3>3, <3>6 DEF Paid
      <4>3. InRange(acnt[IQ][v].balance + n) BY <3>4, <3>6 DEF CanCredit
      <4>4. acnt[IQ][v].balance = Bal(acnt[IQ][v]) BY <3>6 DEF Bal
      <4>5. acnt[IQ][v].balance + n \in 0 .. MaxAmount
        BY <2>2, <3>2, <4>3, <4>4, TablesAssumption DEF InRange, Amounts
      <4>6. Refunded(t, v) \in AccountRow /\ Refunded(t, v).balance = acnt[IQ][v].balance + n
        BY <4>1, <4>2, <4>5 DEF AccountRow
      <4>7. Refunded(t, v) # None BY <4>6, TablesAssumption
      <4>8. Refunded(t, v).code = IQContract BY <3>4, <3>6, <4>1, <4>2 DEF CanCredit, AccountRow
      <4> QED BY <3>1, <4>4, <4>6, <4>7, <4>8 DEF Bal
    <3> QED BY <3>5, <3>6
  <2> QED BY <2>3, <2>4
<1>4. acnt' \in Accounts
  <2>1. \A s \in Symbols : acnt'[s] \in [Users -> AccountRow \cup {None}]
    BY <1>0, <1>1, <1>3 DEF Accounts
  <2> QED BY <1>2, <2>1 DEF Accounts
<1>5. \A v \in Users : acnt'[IQ][v] = Refunded(t, v) /\ acnt'[t][v] = None
  BY <1>0, <1>1
<1> QED BY <1>1, <1>3, <1>4, <1>5 DEF Unstaked

\* A proposal puts one row in prop, and in the proposer's scope of stat its
\* parameters, unless it is a flip of an existing type.
Moots(p, t, offer) ==
  /\ prop[t] = None /\ stat[p][t] = None
  /\ prop'[t] # None /\ prop'[t].proposer = p /\ prop'[t].yay = 0 /\ prop'[t].nay = 0
  /\ \A u \in CdpTypes : u # t => prop'[u] = prop[u]
  /\ \A x \in Scopes, u \in CdpTypes : x # p \/ u # t => stat'[x][u] = stat[x][u]
  /\ \/ stat'[p][t] = None /\ stat[Self][t] # None
     \/ /\ stat'[p][t] # None /\ stat'[p][t].par = offer.par /\ ~stat'[p][t].live
  /\ CanSend(deferred, p) /\ deferred' = Send(deferred, p, t)
  /\ feed' = feed /\ acnt' = acnt

LEMMA SendType ==
  ASSUME NEW queue \in SUBSET Call, NEW p \in Scopes, NEW t \in CdpTypes
  PROVE  Send(queue, p, t) \in SUBSET Call
<1>1. VotePeriod \in 0 .. VotePeriod BY ReferendumAssumption
<1>2. [proposer |-> p, type |-> t, wait |-> VotePeriod] \in Call BY <1>1 DEF Call
<1> QED BY <1>2 DEF Send

LEMMA ProposeMoots ==
  ASSUME RefTypeOK, NEW p \in Proposers, NEW t \in CdpTypes, NEW offer \in Offers,
         Propose(p, t, offer)
  PROVE  RefTypeOK' /\ Moots(p, t, offer)
<1>0. /\ stat \in StatTable /\ prop \in PropTable /\ deferred \in SUBSET Call
      /\ feed \in FeedTable /\ acnt \in Accounts /\ p \in Scopes /\ offer \in Offer
  BY RefParts, ReferendumAssumption
<1> DEFINE row == [proposer |-> p, left |-> VotePeriod, yay |-> 0, nay |-> 0]
           srow == [live |-> FALSE, par |-> offer.par, fee_balance |-> 0,
              total_stablecoin |-> 0, ssym |-> offer.ssym,
              total_collateral |-> 0, csym |-> offer.csym,
              contract |-> offer.contract]
<1>1. /\ prop[t] = None /\ stat[p][t] = None
      /\ \/ MayFlip(p, t) /\ stat' = stat
         \/ stat' = [stat EXCEPT ![p][t] = srow]
      /\ prop' = [prop EXCEPT ![t] = row]
      /\ CanSend(deferred, p) /\ deferred' = Send(deferred, p, t)
      /\ feed' = feed /\ acnt' = acnt
  BY DEF Propose, Unclaimed
<1>2. row \in PropRow /\ row.proposer = p /\ row.yay = 0 /\ row.nay = 0
  BY <1>0, ReferendumAssumption, TablesAssumption DEF PropRow
<1>3. srow \in StatRow /\ srow.par = offer.par /\ ~srow.live
  <2>1. 0 \in 0 .. MaxAmount /\ 0 \in Amounts BY TablesAssumption DEF Amounts
  <2> QED BY <1>0, <2>1 DEF StatRow, Offer
<1> HIDE DEF row, srow
<1>4. /\ prop' \in PropTable /\ prop'[t] = row
      /\ \A u \in CdpTypes : u # t => prop'[u] = prop[u]
  BY <1>0, <1>1, <1>2 DEF PropTable
<1>5. CASE MayFlip(p, t) /\ stat' = stat
  <2>1. RefTypeOK' BY <1>0, <1>1, <1>4, <1>5, RefPartsNext, SendType
  <2>2. stat'[p][t] = None /\ stat[Self][t] # None BY <1>1, <1>5 DEF MayFlip
  <2> QED BY <1>1, <1>2, <1>4, <1>5, <2>1, <2>2, ReferendumAssumption DEF Moots
<1>6. CASE stat' = [stat EXCEPT ![p][t] = srow]
  <2>1. stat' \in StatTable BY <1>0, <1>3, <1>6, Written DEF StatTable
  <2>2. /\ stat'[p][t] = srow
        /\ \A x \in Scopes, u \in CdpTypes : x # p \/ u # t => stat'[x][u] = stat[x][u]
    BY <1>0, <1>6, WrittenAt DEF StatTable
  <2>3. RefTypeOK' BY <1>0, <1>1, <1>4, <2>1, RefPartsNext, SendType
  <2>4. srow # None BY <1>3, TablesAssumption
  <2> QED BY <1>1, <1>2, <1>3, <1>4, <2>2, <2>3, <2>4, ReferendumAssumption DEF Moots
<1> QED BY <1>1, <1>5, <1>6

\* The end of a session: the votes are refunded, the law changes if it won, and
\* what the proposer's scope holds of it is erased.
Ends(p, t) ==
  /\ prop[t] # None /\ ~Tie(t)
  /\ Unstaked(t)
  /\ prop'[t] = None /\ \A u \in CdpTypes : u # t => prop'[u] = prop[u]
  /\ stat'[p][t] = None
  /\ \A x \in Scopes, u \in CdpTypes : u # t \/ x \notin {p, Self} => stat'[x][u] = stat[x][u]
  /\ p # Self => IF prop[t].yay > prop[t].nay
                 THEN stat'[Self][t] = Won(p, t) /\ stat'[Self][t] # None
                 ELSE stat'[Self][t] = stat[Self][t]

LEMMA WonRow ==
  ASSUME RefTypeOK, NEW p \in Scopes, NEW t \in CdpTypes,
         stat[p][t] = None => stat[Self][t] # None
  PROVE  Won(p, t) \in StatRow
<1>1. /\ stat[p][t] # None => stat[p][t] \in StatRow
      /\ stat[Self][t] # None => stat[Self][t] \in StatRow
  BY RefParts DEF StatTable, Scopes
<1> QED BY <1>1 DEF Won, StatRow

LEMMA DecideEnds ==
  ASSUME RefTypeOK, NEW p \in Scopes, NEW t \in CdpTypes, prop[t] # None, ~Tie(t),
         CanDecide(p, t), Decide(p, t)
  PROVE  /\ Ends(p, t)
         /\ stat' \in StatTable /\ acnt' \in Accounts /\ prop' \in PropTable
<1>0. stat \in StatTable /\ prop \in PropTable /\ acnt \in Accounts /\ Self \in Scopes
  BY RefParts DEF Scopes
<1> DEFINE won == prop[t].yay > prop[t].nay
           enacted == IF won THEN [stat EXCEPT ![Self][t] = Won(p, t)] ELSE stat
<1>1. /\ CanRefund(t) /\ acnt' = Refund(t)
      /\ won /\ stat[p][t] = None => stat[Self][t] # None
      /\ stat' = Cleaned(p, t, enacted)
      /\ prop' = [prop EXCEPT ![t] = None]
  BY DEF CanDecide, Decide
<1>2. acnt' \in Accounts /\ Unstaked(t) BY <1>1, RefundUnstakes
<1>3. /\ prop' \in PropTable /\ prop'[t] = None
      /\ \A u \in CdpTypes : u # t => prop'[u] = prop[u]
  BY <1>0, <1>1 DEF PropTable
<1> HIDE DEF won
<1>4. won => Won(p, t) \in StatRow /\ Won(p, t) # None
  BY <1>1, WonRow, TablesAssumption
<1>5. /\ enacted \in StatTable
      /\ won => enacted[Self][t] = Won(p, t)
      /\ \A x \in Scopes, u \in CdpTypes : x # Self \/ u # t => enacted[x][u] = stat[x][u]
  <2>1. CASE won
    <3>1. enacted = [stat EXCEPT ![Self][t] = Won(p, t)] BY <2>1
    <3> HIDE DEF enacted
    <3>2. enacted \in StatTable BY <1>0, <1>4, <2>1, <3>1, Written DEF StatTable
    <3> QED BY <1>0, <2>1, <3>1, <3>2, WrittenAt DEF StatTable
  <2>2. CASE ~won BY <1>0, <2>2
  <2> QED BY <2>1, <2>2
<1>6. ~won => enacted = stat OBVIOUS
<1> HIDE DEF enacted
<1>7. CASE stat[p][t] = None
  <2>1. stat' = enacted BY <1>1, <1>7 DEF Cleaned
  <2>2. p = Self => ~won BY <1>1, <1>7
  <2>3. stat'[p][t] = None
    BY <1>0, <1>5, <1>6, <1>7, <2>1, <2>2
  <2>4. p # Self => IF won THEN stat'[Self][t] = Won(p, t) /\ stat'[Self][t] # None
                    ELSE stat'[Self][t] = stat[Self][t]
    BY <1>4, <1>5, <1>6, <2>1
  <2>5. \A x \in Scopes, u \in CdpTypes : u # t \/ x \notin {p, Self} => stat'[x][u] = stat[x][u]
    BY <1>5, <2>1
  <2> QED BY <1>2, <1>3, <1>5, <2>1, <2>3, <2>4, <2>5 DEF Ends, won
<1>8. CASE stat[p][t] # None
  <2>1. stat' = [enacted EXCEPT ![p][t] = None] BY <1>1, <1>8 DEF Cleaned
  <2>2. stat' \in StatTable
    <3>1. None \in StatRow \cup {None} OBVIOUS
    <3> QED BY <1>5, <2>1, <3>1, Written DEF StatTable
  <2>3. /\ stat'[p][t] = None
        /\ \A x \in Scopes, u \in CdpTypes : x # p \/ u # t => stat'[x][u] = enacted[x][u]
    BY <1>5, <2>1, WrittenAt DEF StatTable
  <2>4. p # Self => IF won THEN stat'[Self][t] = Won(p, t) /\ stat'[Self][t] # None
                    ELSE stat'[Self][t] = stat[Self][t]
    BY <1>0, <1>4, <1>5, <1>6, <2>3
  <2>5. \A x \in Scopes, u \in CdpTypes : u # t \/ x \notin {p, Self} => stat'[x][u] = stat[x][u]
    BY <1>5, <2>3
  <2> QED BY <1>2, <1>3, <2>2, <2>3, <2>4, <2>5 DEF Ends, won
<1> QED BY <1>7, <1>8

\* referended on the votes of t, when queue holds the other deferred calls: a
\* tie sends a call for another period, anything else ends the session.
LEMMA ReferendedEnds ==
  ASSUME RefTypeOK, NEW p \in Scopes, NEW t \in CdpTypes, NEW queue \in SUBSET Call,
         Referended(p, t, queue)
  PROVE  /\ RefTypeOK' /\ prop[t] # None
         /\ \/ /\ deferred' = Send(queue, p, t)
               /\ stat' = stat /\ acnt' = acnt /\ prop' = prop
            \/ Ends(p, t) /\ deferred' = queue
<1>0. stat \in StatTable /\ feed \in FeedTable /\ acnt \in Accounts /\ prop \in PropTable
  BY RefParts
<1>1. prop[t] # None /\ feed' = feed BY DEF Referended, CanReferend
<1>2. CASE Tie(t)
  <2>1. deferred' = Send(queue, p, t) /\ stat' = stat /\ acnt' = acnt /\ prop' = prop
    BY <1>2 DEF Referended
  <2>2. RefTypeOK' BY <1>0, <1>1, <2>1, SendType, RefPartsNext
  <2> QED BY <1>1, <2>1, <2>2
<1>3. CASE ~Tie(t)
  <2>1. CanDecide(p, t) /\ Decide(p, t) /\ deferred' = queue
    BY <1>3 DEF Referended, CanReferend
  <2>2. /\ Ends(p, t)
        /\ stat' \in StatTable /\ acnt' \in Accounts /\ prop' \in PropTable
    BY <1>1, <1>3, <2>1, DecideEnds
  <2>3. RefTypeOK' BY <1>0, <1>1, <2>1, <2>2, RefPartsNext
  <2> QED BY <1>1, <2>1, <2>2, <2>3
<1> QED BY <1>2, <1>3

\* A second less on the clocks of proposals and calls, and nothing else.
Less(n) == IF n = 0 THEN 0 ELSE n - 1
Aged ==
  /\ stat' = stat /\ acnt' = acnt
  /\ \A t \in CdpTypes :
       IF prop[t] = None THEN prop'[t] = None
       ELSE /\ prop'[t] # None /\ prop'[t].proposer = prop[t].proposer
            /\ prop'[t].yay = prop[t].yay /\ prop'[t].nay = prop[t].nay
            /\ prop'[t].left = Less(prop[t].left)
  /\ \A d \in deferred : \E e \in deferred' :
       e.type = d.type /\ e.proposer = d.proposer /\ e.wait = Less(d.wait)
  /\ \A e \in deferred' : \E d \in deferred : e.type = d.type /\ e.proposer = d.proposer
  /\ (\A d, e \in deferred : d.type = e.type => d = e)
       => \A d, e \in deferred' : d.type = e.type => d = e

LEMMA TickAges ==
  ASSUME RefTypeOK, RefTick
  PROVE  RefTypeOK' /\ Aged
<1>0. prop \in PropTable /\ deferred \in SUBSET Call BY RefParts
<1> DEFINE young(d) == [d EXCEPT !.wait = IF @ = 0 THEN 0 ELSE @ - 1]
           less(row) == [row EXCEPT !.left = @ - 1]
<1>1. /\ stat' = stat /\ feed' = feed /\ acnt' = acnt
      /\ \A t \in CdpTypes : prop'[t] = IF prop[t] = None \/ prop[t].left = 0 THEN prop[t]
                                        ELSE less(prop[t])
      /\ prop' = [t \in CdpTypes |-> prop'[t]]
      /\ deferred' = {young(d) : d \in deferred}
  BY DEF RefTick, AgeProposals
<1>2. ASSUME NEW d \in Call
      PROVE  /\ young(d) \in Call /\ young(d).type = d.type /\ young(d).proposer = d.proposer
             /\ young(d).wait = Less(d.wait)
  <2>1. (IF d.wait = 0 THEN 0 ELSE d.wait - 1) \in 0 .. VotePeriod
    BY ReferendumAssumption DEF Call
  <2> QED BY <2>1 DEF Call, Less
<1>3. ASSUME NEW row \in PropRow, row.left # 0
      PROVE  /\ less(row) \in PropRow /\ less(row).proposer = row.proposer
             /\ less(row).yay = row.yay /\ less(row).nay = row.nay
             /\ less(row).left = row.left - 1
  <2>1. row.left - 1 \in 0 .. VotePeriod BY <1>3, ReferendumAssumption DEF PropRow
  <2> QED BY <2>1 DEF PropRow
<1> HIDE DEF young, less
<1>4. ASSUME NEW t \in CdpTypes
      PROVE  /\ prop'[t] \in PropRow \cup {None}
             /\ IF prop[t] = None THEN prop'[t] = None
                ELSE /\ prop'[t] # None /\ prop'[t].proposer = prop[t].proposer
                     /\ prop'[t].yay = prop[t].yay /\ prop'[t].nay = prop[t].nay
                     /\ prop'[t].left = Less(prop[t].left)
  <2>1. prop[t] \in PropRow \cup {None} BY <1>0 DEF PropTable
  <2>2. CASE prop[t] = None \/ prop[t].left = 0 BY <1>1, <2>1, <2>2 DEF Less
  <2>3. CASE prop[t] # None /\ prop[t].left # 0
    <3>1. prop'[t] = less(prop[t]) BY <1>1, <2>3
    <3>2. less(prop[t]) # None BY <1>3, <2>1, <2>3, ReferendumAssumption
    <3> QED BY <1>3, <2>1, <2>3, <3>1, <3>2 DEF Less
  <2> QED BY <2>2, <2>3
<1>5. prop' \in PropTable BY <1>1, <1>4 DEF PropTable
<1>6. deferred' \in SUBSET Call BY <1>0, <1>1, <1>2
<1>7. RefTypeOK' BY <1>1, <1>5, <1>6, RefParts, RefPartsNext
<1>8. \A e \in deferred' : \E d \in deferred :
        e = young(d) /\ e.type = d.type /\ e.proposer = d.proposer
  BY <1>0, <1>1, <1>2
<1>9. (\A d, e \in deferred : d.type = e.type => d = e)
        => \A d, e \in deferred' : d.type = e.type => d = e
  BY <1>8
<1>10. \A d \in deferred : \E e \in deferred' :
         e.type = d.type /\ e.proposer = d.proposer /\ e.wait = Less(d.wait)
  BY <1>0, <1>1, <1>2
<1> QED BY <1>1, <1>4, <1>7, <1>8, <1>9, <1>10 DEF Aged

\* The steps of the referendum, as one of the facts above.
Same == stat' = stat /\ acnt' = acnt /\ prop' = prop

LEMMA CallEnds ==
  ASSUME RefTypeOK, NEW d \in deferred, RunDeferred(d)
  PROVE  /\ RefTypeOK' /\ d \in Call
         /\ \/ Same /\ prop[d.type] # None
                    /\ deferred' = Send(deferred \ {d}, d.proposer, d.type)
            \/ Same /\ deferred' = deferred \ {d}
            \/ Ends(d.proposer, d.type) /\ deferred' = deferred \ {d}
<1>1. d \in Call /\ deferred \ {d} \in SUBSET Call BY RefParts
<1>2. d.proposer \in Scopes /\ d.type \in CdpTypes BY <1>1 DEF Call
<1>3. CASE Referended(d.proposer, d.type, deferred \ {d})
  BY <1>1, <1>2, <1>3, ReferendedEnds DEF Same
<1>4. CASE /\ deferred' = deferred \ {d} /\ UNCHANGED <<stat, feed, acnt, prop>>
  <2>1. Same /\ feed' = feed BY <1>4 DEF Same
  <2>2. RefTypeOK' BY <1>1, <1>4, <2>1, RefParts, RefPartsNext DEF Same
  <2> QED BY <1>1, <1>4, <2>1, <2>2
<1> QED BY <1>3, <1>4 DEF RunDeferred

LEMMA DirectCallEnds ==
  ASSUME RefTypeOK, NEW c, NEW t \in CdpTypes, CallReferended(c, t)
  PROVE  /\ RefTypeOK' /\ c = Self
         /\ Same \/ Ends(prop[t].proposer, t)
<1>1. prop[t] # None /\ c = Self /\ Referended(prop[t].proposer, t, deferred)
  BY DEF CallReferended
<1>2. prop[t].proposer \in Scopes BY <1>1, PropIn DEF PropRow
<1>3. deferred \in SUBSET Call BY RefParts
<1> QED BY <1>1, <1>2, <1>3, ReferendedEnds DEF Same

LEMMA VoteType ==
  ASSUME RefTypeOK, NEW v \in Users, NEW t \in CdpTypes, NEW against \in BOOLEAN,
         NEW q \in 1 .. MaxAmount, Vote(v, t, against, q)
  PROVE  RefTypeOK' /\ stat' = stat /\ deferred' = deferred
<1>1. stat' = stat /\ feed' = feed /\ deferred' = deferred BY DEF Vote
<1>2. acnt' \in Accounts BY VoteStakes
<1>3. prop' \in PropTable BY VoteCounts
<1> QED BY <1>1, <1>2, <1>3, RefParts, RefPartsNext

LEMMA InitRefType == RefInit => RefTypeOK
<1> SUFFICES ASSUME RefInit PROVE RefTypeOK
  OBVIOUS
<1>1. stat \in StatTable
  <2>1. \A t \in CdpTypes : Enacted[t] \in StatRow \cup {None} BY TablesAssumption
  <2> QED BY <2>1 DEF RefInit, StatInit, StatTable
<1>2. feed \in FeedTable
  <2>1. 0 \in Amounts /\ 0 \in 0 .. FeedFresh + 1 BY TablesAssumption DEF Amounts
  <2>2. \A s \in Symbols :
          [total |-> 0, price |-> Quoted[s], psym |-> PriceSym, age |-> 0] \in FeedRow
    BY <2>1, TablesAssumption DEF FeedRow
  <2> QED BY <2>2 DEF RefInit, FeedInit, FeedTable
<1>3. acnt \in Accounts
  <2>1. \A v \in Users : [balance |-> Purse[v], code |-> IQContract] \in AccountRow
    BY ReferendumAssumption, TablesAssumption DEF AccountRow, Codes
  <2> QED BY <2>1 DEF RefInit, Accounts
<1>4. prop \in PropTable /\ deferred \in SUBSET Call BY DEF RefInit, PropTable
<1> QED BY <1>1, <1>2, <1>3, <1>4, RefParts

LEMMA StepRefType ==
  ASSUME RefTypeOK, [RefNext]_refVars
  PROVE  RefTypeOK'
<1>1. CASE ProposeStep BY <1>1, ProposeMoots DEF ProposeStep
<1>2. CASE VoteStep
  <2>1. VoteQty \subseteq 1 .. MaxAmount BY ReferendumAssumption
  <2> QED BY <1>2, <2>1, VoteType DEF VoteStep
<1>3. CASE DeferredStep BY <1>3, CallEnds DEF DeferredStep
<1>4. CASE CallStep BY <1>4, DirectCallEnds DEF CallStep
<1>5. CASE RefTick BY <1>5, TickAges
<1>6. CASE UNCHANGED refVars
  BY <1>6, RefParts, RefPartsNext DEF refVars
<1> QED BY <1>1, <1>2, <1>3, <1>4, <1>5, <1>6 DEF RefNext

\* The tables of a referendum hold rows of the right shape, no vote or stake
\* out of range among them, whoever proposes, votes or calls.
THEOREM ReferendumTypeCorrect == RefSpec => []RefTypeOK
<1>1. RefTypeOK /\ [RefNext]_refVars => RefTypeOK' BY StepRefType
<1> QED BY <1>1, InitRefType, PTL DEF RefSpec
-----------------------------------------------------------------------------
(***************************************************************************)
(* Votes and stakes.                                                       *)
(***************************************************************************)
\* The IQ in the rows of one scope of a table of balances, and what one voter has
\* staked on all CDP types.
Total(a, s) == SumFunctionOnSet([v \in Users |-> Bal(a[s][v])], Users)
StakesOf(a, v) == SumFunctionOnSet([t \in CdpTypes |-> Bal(a[t][v])], CdpTypes)
Deposited(a) == \A v \in Users : Bal(a[IQ][v]) + StakesOf(a, v) = Purse[v]

LEMMA TotalsAre ==
  /\ \A t : StakeOn(t) = Total(acnt, t)
  /\ \A t : StakeOn(t)' = Total(acnt', t)
  /\ IQIsKept <=> Deposited(acnt)
  /\ IQIsKept' <=> Deposited(acnt')
BY DEF StakeOn, BalanceOf, IQIsKept, Total, StakesOf, Deposited, Bal

LEMMA TotalNat ==
  ASSUME NEW a \in Accounts, NEW s \in Symbols
  PROVE  Total(a, s) \in Nat
<1>1. \A v \in Users : Bal(a[s][v]) \in Nat BY BalIn
<1> QED BY <1>1, SumNat, TablesAssumption DEF Total

LEMMA TotalSame ==
  ASSUME NEW a, NEW b, NEW s, \A v \in Users : b[s][v] = a[s][v]
  PROVE  Total(b, s) = Total(a, s)
BY SumEqual, TablesAssumption DEF Total

LEMMA StakesNat ==
  ASSUME NEW a \in Accounts, NEW v \in Users
  PROVE  /\ StakesOf(a, v) \in Nat
         /\ \A t \in CdpTypes : Bal(a[t][v]) <= StakesOf(a, v)
<1> DEFINE f == [t \in CdpTypes |-> Bal(a[t][v])]
<1>1. \A t \in CdpTypes : f[t] \in Nat BY BalIn, TypeSymbols
<1>2. \A t \in CdpTypes : f[t] = Bal(a[t][v]) OBVIOUS
<1> HIDE DEF f
<1>3. /\ SumFunctionOnSet(f, CdpTypes) \in Nat
      /\ \A t \in CdpTypes : f[t] <= SumFunctionOnSet(f, CdpTypes)
  BY <1>1, SumNat, TablesAssumption
<1> QED BY <1>2, <1>3 DEF StakesOf, f

LEMMA StakesSame ==
  ASSUME NEW a, NEW b, NEW v, \A t \in CdpTypes : b[t][v] = a[t][v]
  PROVE  StakesOf(b, v) = StakesOf(a, v)
BY SumEqual, TablesAssumption DEF StakesOf

\* A change of one stake is a change of the sum.
LEMMA StakesWritten ==
  ASSUME NEW a \in Accounts, NEW b \in Accounts, NEW t \in CdpTypes, NEW v \in Users,
         \A u \in CdpTypes : u # t => b[u][v] = a[u][v]
  PROVE  StakesOf(b, v) = StakesOf(a, v) - Bal(a[t][v]) + Bal(b[t][v])
<1> DEFINE f == [u \in CdpTypes |-> Bal(a[u][v])]   g == [u \in CdpTypes |-> Bal(b[u][v])]
<1>1. \A u \in CdpTypes : f[u] \in Int /\ g[u] \in Int BY BalIn, TypeSymbols
<1>2. \A u \in CdpTypes \ {t} : g[u] = f[u] OBVIOUS
<1>3. f[t] = Bal(a[t][v]) /\ g[t] = Bal(b[t][v]) OBVIOUS
<1> HIDE DEF f, g
<1>4. SumFunctionOnSet(g, CdpTypes) = SumFunctionOnSet(f, CdpTypes) - f[t] + g[t]
  BY <1>1, <1>2, SumUpdate, TablesAssumption
<1> QED BY <1>3, <1>4 DEF StakesOf, f, g

\* What an action writes keeps each voter's IQ: in a vote it is staked, in a refund
\* it is free again.
LEMMA VoteDeposits ==
  ASSUME RefTypeOK, Deposited(acnt), NEW v \in Users, NEW t \in CdpTypes,
         NEW q \in 1 .. MaxAmount, acnt' \in Accounts, Staked(v, t, q)
  PROVE  Deposited(acnt')
<1>0. acnt \in Accounts /\ t \in Symbols /\ IQ \in Symbols /\ t # IQ
  BY RefParts, TypeSymbols
<1> SUFFICES ASSUME NEW u \in Users
             PROVE  Bal(acnt'[IQ][u]) + StakesOf(acnt', u) = Purse[u]
  BY DEF Deposited
<1>1. Bal(acnt[IQ][u]) + StakesOf(acnt, u) = Purse[u] BY DEF Deposited
<1>2. CASE u # v
  <2>1. acnt'[IQ][u] = acnt[IQ][u] BY <1>0, <1>2 DEF Staked
  <2>2. \A s \in CdpTypes : acnt'[s][u] = acnt[s][u] BY <1>2, TypeSymbols DEF Staked
  <2>3. StakesOf(acnt', u) = StakesOf(acnt, u) BY <2>2, StakesSame
  <2> QED BY <1>1, <2>1, <2>3
<1>3. CASE u = v
  <2>1. \A s \in CdpTypes : s # t => acnt'[s][v] = acnt[s][v] BY TypeSymbols DEF Staked
  <2>2. StakesOf(acnt', v) = StakesOf(acnt, v) - Bal(acnt[t][v]) + Bal(acnt'[t][v])
    BY <1>0, <2>1, StakesWritten
  <2>3. /\ Bal(acnt'[IQ][v]) = Bal(acnt[IQ][v]) - q /\ Bal(acnt'[t][v]) = Bal(acnt[t][v]) + q
        /\ Bal(acnt[IQ][v]) \in Nat /\ Bal(acnt[t][v]) \in Nat /\ StakesOf(acnt, v) \in Nat
    BY <1>0, BalIn, StakesNat DEF Staked
  <2> QED BY <1>1, <1>3, <2>2, <2>3
<1> QED BY <1>2, <1>3

LEMMA RefundDeposits ==
  ASSUME RefTypeOK, Deposited(acnt), NEW t \in CdpTypes, acnt' \in Accounts, Unstaked(t)
  PROVE  Deposited(acnt')
<1>0. acnt \in Accounts /\ t \in Symbols /\ IQ \in Symbols /\ t # IQ
  BY RefParts, TypeSymbols
<1> SUFFICES ASSUME NEW v \in Users
             PROVE  Bal(acnt'[IQ][v]) + StakesOf(acnt', v) = Purse[v]
  BY DEF Deposited
<1>1. Bal(acnt[IQ][v]) + StakesOf(acnt, v) = Purse[v] BY DEF Deposited
<1>2. \A s \in CdpTypes : s # t => acnt'[s][v] = acnt[s][v] BY TypeSymbols DEF Unstaked
<1>3. StakesOf(acnt', v) = StakesOf(acnt, v) - Bal(acnt[t][v]) + Bal(acnt'[t][v])
  BY <1>0, <1>2, StakesWritten
<1>4. /\ Bal(acnt'[IQ][v]) = Bal(acnt[IQ][v]) + Bal(acnt[t][v]) /\ Bal(acnt'[t][v]) = 0
      /\ Bal(acnt[IQ][v]) \in Nat /\ Bal(acnt[t][v]) \in Nat /\ StakesOf(acnt, v) \in Nat
  BY <1>0, BalIn, StakesNat DEF Unstaked, Bal
<1> QED BY <1>1, <1>3, <1>4

LEMMA VoteTotals ==
  ASSUME RefTypeOK, NEW v \in Users, NEW t \in CdpTypes, NEW q \in 1 .. MaxAmount,
         acnt' \in Accounts, Staked(v, t, q)
  PROVE  /\ Total(acnt', IQ) = Total(acnt, IQ) - q
         /\ Total(acnt', t) = Total(acnt, t) + q
         /\ \A u \in CdpTypes : u # t => Total(acnt', u) = Total(acnt, u)
<1>0. acnt \in Accounts /\ t \in Symbols /\ IQ \in Symbols /\ t # IQ
  BY RefParts, TypeSymbols
<1>1. ASSUME NEW s \in {IQ, t}
      PROVE  Total(acnt', s) = Total(acnt, s) - Bal(acnt[s][v]) + Bal(acnt'[s][v])
  <2> DEFINE f == [u \in Users |-> Bal(acnt[s][u])]   g == [u \in Users |-> Bal(acnt'[s][u])]
  <2>1. \A u \in Users : f[u] \in Int /\ g[u] \in Int BY <1>0, <1>1, BalIn
  <2>2. \A u \in Users \ {v} : g[u] = f[u] BY <1>0, <1>1 DEF Staked
  <2>3. f[v] = Bal(acnt[s][v]) /\ g[v] = Bal(acnt'[s][v]) OBVIOUS
  <2> HIDE DEF f, g
  <2>4. SumFunctionOnSet(g, Users) = SumFunctionOnSet(f, Users) - f[v] + g[v]
    BY <2>1, <2>2, SumUpdate, TablesAssumption
  <2> QED BY <2>3, <2>4 DEF Total, f, g
<1>2. /\ Bal(acnt'[IQ][v]) = Bal(acnt[IQ][v]) - q /\ Bal(acnt'[t][v]) = Bal(acnt[t][v]) + q
      /\ Bal(acnt[IQ][v]) \in Nat /\ Bal(acnt[t][v]) \in Nat
      /\ Total(acnt, IQ) \in Nat /\ Total(acnt, t) \in Nat
  BY <1>0, BalIn, TotalNat DEF Staked
<1>3. Total(acnt', IQ) = Total(acnt, IQ) - q BY <1>1, <1>2
<1>4. Total(acnt', t) = Total(acnt, t) + q BY <1>1, <1>2
<1>5. ASSUME NEW u \in CdpTypes, u # t PROVE Total(acnt', u) = Total(acnt, u)
  <2>1. u \in Symbols /\ u # IQ BY TypeSymbols
  <2> QED BY <1>5, <2>1, TotalSame DEF Staked
<1> QED BY <1>3, <1>4, <1>5

LEMMA RefundTotals ==
  ASSUME RefTypeOK, NEW t \in CdpTypes, acnt' \in Accounts, Unstaked(t)
  PROVE  /\ Total(acnt', IQ) = Total(acnt, IQ) + Total(acnt, t)
         /\ Total(acnt', t) = 0
         /\ \A u \in CdpTypes : u # t => Total(acnt', u) = Total(acnt, u)
<1>0. acnt \in Accounts /\ t \in Symbols /\ IQ \in Symbols /\ t # IQ
  BY RefParts, TypeSymbols
<1>1. Total(acnt', IQ) = Total(acnt, IQ) + Total(acnt, t)
  <2> DEFINE f == [u \in Users |-> Bal(acnt[IQ][u])]   g == [u \in Users |-> Bal(acnt[t][u])]
             h == [u \in Users |-> Bal(acnt'[IQ][u])]
  <2>1. \A u \in Users : f[u] \in Int /\ g[u] \in Int /\ h[u] = f[u] + g[u]
    BY <1>0, BalIn DEF Unstaked
  <2> HIDE DEF f, g, h
  <2>2. SumFunctionOnSet(h, Users) = SumFunctionOnSet(f, Users) + SumFunctionOnSet(g, Users)
    BY <2>1, SumPlus, TablesAssumption
  <2> QED BY <2>2 DEF Total, f, g, h
<1>2. Total(acnt', t) = 0
  <2>1. \A v \in Users : Bal(acnt'[t][v]) = 0 BY DEF Unstaked, Bal
  <2> QED BY <2>1, SumZero, TablesAssumption DEF Total
<1>3. ASSUME NEW u \in CdpTypes, u # t PROVE Total(acnt', u) = Total(acnt, u)
  <2>1. u \in Symbols /\ u # IQ BY TypeSymbols
  <2> QED BY <1>3, <2>1, TotalSame DEF Unstaked
<1> QED BY <1>1, <1>2, <1>3

\* The inductive invariant: each part needs the types, the second also that a
\* row whose session ended holds nothing.
StakeInv == RefTypeOK /\ VotesAreStaked /\ IQIsKept

VotesOf(row) == IF row = None THEN 0 ELSE row.yay + row.nay

LEMMA VotesAre ==
  /\ VotesAreStaked <=> \A t \in CdpTypes : Total(acnt, t) = VotesOf(prop[t])
  /\ VotesAreStaked' <=> \A t \in CdpTypes : Total(acnt', t) = VotesOf(prop'[t])
BY TotalsAre DEF VotesAreStaked, VotesOf

LEMMA SameStakes ==
  ASSUME VotesAreStaked, IQIsKept, acnt' = acnt,
         \A t \in CdpTypes : VotesOf(prop'[t]) = VotesOf(prop[t])
  PROVE  VotesAreStaked' /\ IQIsKept'
BY VotesAre, TotalsAre

LEMMA VoteStakeInv ==
  ASSUME StakeInv, NEW v \in Users, NEW t \in CdpTypes, NEW against \in BOOLEAN,
         NEW q \in 1 .. MaxAmount, Vote(v, t, against, q)
  PROVE  VotesAreStaked' /\ IQIsKept'
<1>0. RefTypeOK /\ acnt \in Accounts /\ t \in Symbols /\ IQ \in Symbols
  BY RefParts, TypeSymbols DEF StakeInv
<1>1. acnt' \in Accounts /\ Staked(v, t, q) BY <1>0, VoteStakes
<1>2. /\ Total(acnt', IQ) = Total(acnt, IQ) - q
      /\ Total(acnt', t) = Total(acnt, t) + q
      /\ \A u \in CdpTypes : u # t => Total(acnt', u) = Total(acnt, u)
  BY <1>0, <1>1, VoteTotals
<1>3. Total(acnt, IQ) \in Nat /\ Total(acnt, t) \in Nat BY <1>0, TotalNat
<1>4. VotesAreStaked'
  <2>1. /\ prop[t] # None /\ prop'[t] # None
        /\ \A u \in CdpTypes : u # t => prop'[u] = prop[u]
        /\ against => prop'[t].nay = prop[t].nay + q /\ prop'[t].yay = prop[t].yay
        /\ ~against => prop'[t].yay = prop[t].yay + q /\ prop'[t].nay = prop[t].nay
    BY <1>0, VoteCounts
  <2>2. prop[t] \in PropRow BY <1>0, <2>1, PropIn
  <2>3. prop[t].yay \in Int /\ prop[t].nay \in Int
    BY <2>2, TablesAssumption DEF PropRow
  <2>4. VotesOf(prop'[t]) = VotesOf(prop[t]) + q BY <2>1, <2>3 DEF VotesOf
  <2>5. Total(acnt, t) = VotesOf(prop[t]) BY VotesAre DEF StakeInv
  <2>6. Total(acnt', t) = VotesOf(prop'[t]) BY <1>2, <2>4, <2>5
  <2>7. \A u \in CdpTypes : Total(acnt', u) = VotesOf(prop'[u])
    BY <1>2, <2>1, <2>6, VotesAre DEF StakeInv
  <2> QED BY <2>7, VotesAre
<1>5. Deposited(acnt') BY <1>0, <1>1, VoteDeposits, TotalsAre DEF StakeInv
<1> QED BY <1>4, <1>5, TotalsAre

LEMMA EndStakeInv ==
  ASSUME StakeInv, RefTypeOK', NEW p, NEW t \in CdpTypes, Ends(p, t)
  PROVE  VotesAreStaked' /\ IQIsKept'
<1>0. RefTypeOK /\ acnt \in Accounts /\ acnt' \in Accounts /\ t \in Symbols /\ IQ \in Symbols
  BY RefParts, RefPartsNext, TypeSymbols DEF StakeInv
<1>1. /\ Total(acnt', IQ) = Total(acnt, IQ) + Total(acnt, t)
      /\ Total(acnt', t) = 0
      /\ \A u \in CdpTypes : u # t => Total(acnt', u) = Total(acnt, u)
  BY <1>0, RefundTotals DEF Ends
<1>2. Total(acnt, IQ) \in Nat /\ Total(acnt, t) \in Nat BY <1>0, TotalNat
<1>3. prop'[t] = None /\ \A u \in CdpTypes : u # t => prop'[u] = prop[u] BY DEF Ends
<1>4. \A u \in CdpTypes : Total(acnt', u) = VotesOf(prop'[u])
  BY <1>1, <1>3, VotesAre DEF StakeInv, VotesOf
<1>5. Deposited(acnt') BY <1>0, RefundDeposits, TotalsAre DEF StakeInv, Ends
<1> QED BY <1>4, <1>5, VotesAre, TotalsAre

LEMMA StepStakes ==
  ASSUME StakeInv, [RefNext]_refVars
  PROVE  StakeInv'
<1>0. RefTypeOK /\ VotesAreStaked /\ IQIsKept BY DEF StakeInv
<1>1. RefTypeOK' BY <1>0, StepRefType
<1>2. Same => VotesAreStaked' /\ IQIsKept' BY <1>0, SameStakes DEF Same
<1>3. CASE ProposeStep
  <2>1. PICK p \in Proposers, t \in CdpTypes, offer \in Offers : Moots(p, t, offer)
    BY <1>0, <1>3, ProposeMoots DEF ProposeStep
  <2>2. \A u \in CdpTypes : VotesOf(prop'[u]) = VotesOf(prop[u])
    BY <2>1 DEF Moots, VotesOf
  <2>3. acnt' = acnt BY <2>1 DEF Moots
  <2>4. VotesAreStaked' /\ IQIsKept' BY <1>0, <2>2, <2>3, SameStakes
  <2> QED BY <1>1, <2>4 DEF StakeInv
<1>4. CASE VoteStep
  <2>1. VoteQty \subseteq 1 .. MaxAmount BY ReferendumAssumption
  <2> QED BY <1>1, <1>4, <2>1, VoteStakeInv DEF VoteStep, StakeInv
<1>5. CASE DeferredStep
  <2>1. PICK d \in deferred : d \in Call /\ (Same \/ Ends(d.proposer, d.type))
    BY <1>0, <1>5, CallEnds DEF DeferredStep
  <2>2. d.type \in CdpTypes BY <2>1 DEF Call
  <2> QED BY <1>1, <1>2, <2>1, <2>2, EndStakeInv DEF StakeInv
<1>6. CASE CallStep
  <2>1. PICK t \in CdpTypes : Same \/ Ends(prop[t].proposer, t)
    BY <1>0, <1>6, DirectCallEnds DEF CallStep
  <2> QED BY <1>1, <1>2, <2>1, EndStakeInv DEF StakeInv
<1>7. CASE RefTick
  <2>1. Aged BY <1>0, <1>7, TickAges
  <2>2. \A t \in CdpTypes : VotesOf(prop'[t]) = VotesOf(prop[t]) BY <2>1 DEF Aged, VotesOf
  <2>3. acnt' = acnt BY <2>1 DEF Aged
  <2> QED BY <1>0, <1>1, <2>2, <2>3, SameStakes DEF StakeInv
<1>8. CASE UNCHANGED refVars
  <2>1. Same BY <1>8 DEF refVars, Same
  <2> QED BY <1>1, <1>2, <2>1 DEF StakeInv
<1> QED BY <1>3, <1>4, <1>5, <1>6, <1>7, <1>8 DEF RefNext

LEMMA InitStakes == RefInit => StakeInv
<1> SUFFICES ASSUME RefInit PROVE StakeInv
  OBVIOUS
<1>1. RefTypeOK BY InitRefType
<1>2. \A t \in CdpTypes, v \in Users : acnt[t][v] = None
  BY TypeSymbols DEF RefInit
<1>3. \A v \in Users : Bal(acnt[IQ][v]) = Purse[v]
  <2> SUFFICES ASSUME NEW v \in Users PROVE Bal(acnt[IQ][v]) = Purse[v]
    OBVIOUS
  <2>1. Purse[v] \in 0 .. MaxAmount /\ IQ \in Symbols
    BY ReferendumAssumption, TablesAssumption
  <2>2. acnt[IQ][v] = IF Purse[v] > 0 THEN [balance |-> Purse[v], code |-> IQContract] ELSE None
    BY <2>1 DEF RefInit
  <2>3. CASE Purse[v] > 0
    <3>1. [balance |-> Purse[v], code |-> IQContract] \in AccountRow
      BY <2>1, TablesAssumption DEF AccountRow, Codes
    <3> QED BY <2>2, <2>3, <3>1, TablesAssumption DEF Bal
  <2>4. CASE ~(Purse[v] > 0)
    <3>1. Purse[v] = 0 BY <2>1, <2>4
    <3> QED BY <2>2, <2>4, <3>1 DEF Bal
  <2> QED BY <2>3, <2>4
<1>4. \A t \in CdpTypes : Total(acnt, t) = 0
  <2> SUFFICES ASSUME NEW t \in CdpTypes PROVE Total(acnt, t) = 0
    OBVIOUS
  <2>1. \A v \in Users : Bal(acnt[t][v]) = 0 BY <1>2 DEF Bal
  <2> QED BY <2>1, SumZero, TablesAssumption DEF Total
<1>5. \A v \in Users : StakesOf(acnt, v) = 0
  <2> SUFFICES ASSUME NEW v \in Users PROVE StakesOf(acnt, v) = 0
    OBVIOUS
  <2>1. \A t \in CdpTypes : Bal(acnt[t][v]) = 0 BY <1>2 DEF Bal
  <2> QED BY <2>1, SumZero, TablesAssumption DEF StakesOf
<1>6. VotesAreStaked BY <1>4, VotesAre DEF RefInit, VotesOf
<1>7. \A v \in Users : Purse[v] \in Int BY ReferendumAssumption, TablesAssumption
<1>8. IQIsKept BY <1>3, <1>5, <1>7, TotalsAre DEF Deposited
<1> QED BY <1>1, <1>6, <1>8 DEF StakeInv

LEMMA StakeInvariant == RefSpec => []StakeInv
<1>1. StakeInv /\ [RefNext]_refVars => StakeInv' BY StepStakes
<1> QED BY <1>1, InitStakes, PTL DEF RefSpec

\* What a session has counted is the IQ staked on it, and when it has ended
\* nothing is left staked: no vote counts twice or without its stake.
THEOREM VotesMatchStakes == RefSpec => []VotesAreStaked
<1>1. StakeInv => VotesAreStaked BY DEF StakeInv
<1> QED BY <1>1, StakeInvariant, PTL

\* Voting and refunding neither create nor lose any voter's IQ, nor give it to
\* another, whatever calls of referended run and however many of them fail.
THEOREM IQConserved == RefSpec => []IQIsKept
<1>1. StakeInv => IQIsKept BY DEF StakeInv
<1> QED BY <1>1, StakeInvariant, PTL
-----------------------------------------------------------------------------
(***************************************************************************)
(* A majority can always be carried out.  While a session lasts, no step   *)
(* writes the rows of its type, and what its voters staked still fits on   *)
(* top of what they have free, since all of it was free before.            *)
(***************************************************************************)
\* Every row of free IQ belongs to its token contract.
IQCode == \A v \in Users : acnt[IQ][v] # None => acnt[IQ][v].code = IQContract
\* A proposal without parameters is about an existing type, so the referended
\* that flips its settlement never modifies a missing row.
FlipHasType ==
  \A t \in CdpTypes : prop[t] # None /\ stat[prop[t].proposer][t] = None
                        => stat[Self][t] # None

MajorityInv == StakeInv /\ IQCode /\ FlipHasType

LEMMA UsersNotSelf == Self \notin Users /\ Users \subseteq Scopes /\ Self \in Scopes
BY TablesAssumption DEF Scopes

LEMMA ProposeFlip ==
  ASSUME RefTypeOK, FlipHasType, NEW p \in Proposers, NEW t \in CdpTypes, NEW offer \in Offers,
         Moots(p, t, offer)
  PROVE  FlipHasType'
<1>0. p \in Scopes BY ReferendumAssumption
<1>1. /\ prop'[t] # None /\ prop'[t].proposer = p
      /\ \A u \in CdpTypes : u # t => prop'[u] = prop[u]
      /\ \A x \in Scopes, u \in CdpTypes : x # p \/ u # t => stat'[x][u] = stat[x][u]
      /\ stat'[p][t] = None => stat[Self][t] # None /\ stat[p][t] = None
  BY DEF Moots
<1> SUFFICES ASSUME NEW u \in CdpTypes, prop'[u] # None, stat'[prop'[u].proposer][u] = None
             PROVE  stat'[Self][u] # None
  BY DEF FlipHasType
<1>2. CASE u = t
  <2>1. stat'[p][t] = None /\ stat[Self][t] # None /\ stat[p][t] = None BY <1>1, <1>2
  <2>2. p # Self BY <2>1
  <2> QED BY <1>1, <1>2, <2>1, <2>2, UsersNotSelf
<1>3. CASE u # t
  <2>1. prop[u] # None /\ prop'[u] = prop[u] BY <1>1, <1>3
  <2>2. prop[u].proposer \in Scopes BY <2>1, PropIn DEF PropRow
  <2>3. stat[prop[u].proposer][u] = None BY <1>1, <1>3, <2>1, <2>2
  <2> QED BY <1>1, <1>3, <2>1, <2>3, UsersNotSelf DEF FlipHasType
<1> QED BY <1>2, <1>3

LEMMA EndFlip ==
  ASSUME RefTypeOK, FlipHasType, NEW p, NEW t \in CdpTypes, Ends(p, t)
  PROVE  FlipHasType'
<1>1. /\ prop'[t] = None /\ \A u \in CdpTypes : u # t => prop'[u] = prop[u]
      /\ \A x \in Scopes, u \in CdpTypes : u # t => stat'[x][u] = stat[x][u]
  BY DEF Ends
<1> SUFFICES ASSUME NEW u \in CdpTypes, prop'[u] # None, stat'[prop'[u].proposer][u] = None
             PROVE  stat'[Self][u] # None
  BY DEF FlipHasType
<1>2. u # t /\ prop'[u] = prop[u] BY <1>1
<1>3. prop[u].proposer \in Scopes BY <1>2, PropIn DEF PropRow
<1>4. stat[prop[u].proposer][u] = None BY <1>1, <1>2, <1>3
<1> QED BY <1>1, <1>2, <1>4, UsersNotSelf DEF FlipHasType

\* A step that writes no type and keeps each proposer in session.
LEMMA SameFlip ==
  ASSUME FlipHasType, stat' = stat,
         \A t \in CdpTypes : prop'[t] # None =>
           prop[t] # None /\ prop'[t].proposer = prop[t].proposer
  PROVE  FlipHasType'
BY DEF FlipHasType

LEMMA EndCode ==
  ASSUME IQCode, NEW p, NEW t, Ends(p, t)
  PROVE  IQCode'
BY DEF IQCode, Ends, Unstaked

LEMMA VoteCode ==
  ASSUME RefTypeOK, IQCode, NEW v \in Users, NEW t \in CdpTypes, NEW q, Staked(v, t, q)
  PROVE  IQCode'
BY TypeSymbols DEF IQCode, Staked

LEMMA StepMajority ==
  ASSUME MajorityInv, [RefNext]_refVars
  PROVE  MajorityInv'
<1>0. RefTypeOK /\ StakeInv /\ IQCode /\ FlipHasType BY DEF MajorityInv, StakeInv
<1>1. StakeInv' BY <1>0, StepStakes
<1>2. Same => IQCode' /\ FlipHasType' BY <1>0, SameFlip DEF Same, IQCode
<1>3. ASSUME NEW p, NEW t \in CdpTypes, Ends(p, t) PROVE IQCode' /\ FlipHasType'
  BY <1>0, <1>3, EndCode, EndFlip
<1>4. CASE ProposeStep
  <2>1. PICK p \in Proposers, t \in CdpTypes, offer \in Offers : Moots(p, t, offer)
    BY <1>0, <1>4, ProposeMoots DEF ProposeStep
  <2>2. IQCode' BY <1>0, <2>1 DEF Moots, IQCode
  <2> QED BY <1>0, <1>1, <2>1, <2>2, ProposeFlip DEF MajorityInv
<1>5. CASE VoteStep
  <2>1. PICK v \in Users, t \in CdpTypes, against \in BOOLEAN, q \in VoteQty :
          Vote(v, t, against, q)
    BY <1>5 DEF VoteStep
  <2>2. q \in 1 .. MaxAmount BY ReferendumAssumption
  <2>3. /\ prop[t] # None /\ prop'[t].proposer = prop[t].proposer
        /\ \A u \in CdpTypes : u # t => prop'[u] = prop[u]
    BY <1>0, <2>1, <2>2, VoteCounts
  <2>4. Staked(v, t, q) /\ stat' = stat BY <1>0, <2>1, <2>2, VoteStakes, VoteType
  <2>5. IQCode' BY <1>0, <2>4, VoteCode
  <2>6. FlipHasType' BY <1>0, <2>3, <2>4, SameFlip
  <2> QED BY <1>1, <2>5, <2>6 DEF MajorityInv
<1>6. CASE DeferredStep
  <2>1. PICK d \in deferred : d \in Call /\ (Same \/ Ends(d.proposer, d.type))
    BY <1>0, <1>6, CallEnds DEF DeferredStep
  <2>2. d.type \in CdpTypes BY <2>1 DEF Call
  <2> QED BY <1>1, <1>2, <1>3, <2>1, <2>2 DEF MajorityInv
<1>7. CASE CallStep
  <2>1. PICK t \in CdpTypes : Same \/ Ends(prop[t].proposer, t)
    BY <1>0, <1>7, DirectCallEnds DEF CallStep
  <2> QED BY <1>1, <1>2, <1>3, <2>1 DEF MajorityInv
<1>8. CASE RefTick
  <2>1. Aged BY <1>0, <1>8, TickAges
  <2>2. IQCode' BY <1>0, <2>1 DEF Aged, IQCode
  <2>3. FlipHasType' BY <1>0, <2>1, SameFlip DEF Aged
  <2> QED BY <1>1, <2>2, <2>3 DEF MajorityInv
<1>9. CASE UNCHANGED refVars
  <2>1. Same BY <1>9 DEF refVars, Same
  <2> QED BY <1>1, <1>2, <2>1 DEF MajorityInv
<1> QED BY <1>4, <1>5, <1>6, <1>7, <1>8, <1>9 DEF RefNext

LEMMA InitMajority == RefInit => MajorityInv
<1> SUFFICES ASSUME RefInit PROVE MajorityInv
  OBVIOUS
<1>1. StakeInv BY InitStakes
<1>2. IQCode
  <2> SUFFICES ASSUME NEW v \in Users, acnt[IQ][v] # None PROVE acnt[IQ][v].code = IQContract
    BY DEF IQCode
  <2>1. acnt[IQ][v] = IF Purse[v] > 0 THEN [balance |-> Purse[v], code |-> IQContract] ELSE None
    BY TablesAssumption DEF RefInit
  <2> QED BY <2>1
<1>3. FlipHasType BY DEF RefInit, FlipHasType
<1> QED BY <1>1, <1>2, <1>3 DEF MajorityInv

LEMMA MajorityInvariant == RefSpec => []MajorityInv
<1>1. MajorityInv /\ [RefNext]_refVars => MajorityInv' BY StepMajority
<1> QED BY <1>1, InitMajority, PTL DEF RefSpec

\* The refunds on t fit: each voter's IQ on t and its free IQ are parts of what it
\* has deposited.
LEMMA RefundsFit == ASSUME MajorityInv, NEW t \in CdpTypes PROVE CanRefund(t)
<1>0. acnt \in Accounts /\ Deposited(acnt) /\ IQCode /\ t \in Symbols /\ IQ \in Symbols
  BY RefParts, TotalsAre, TypeSymbols DEF MajorityInv, StakeInv
<1> SUFFICES ASSUME NEW v \in Users, acnt[t][v] # None, acnt[IQ][v] # None
             PROVE  /\ acnt[IQ][v].code = IQContract
                    /\ InRange(acnt[IQ][v].balance + acnt[t][v].balance)
  BY DEF CanRefund, CanCredit
<1>1. acnt[IQ][v].code = IQContract BY <1>0 DEF IQCode
<1>2. /\ Bal(acnt[IQ][v]) + StakesOf(acnt, v) = Purse[v]
      /\ Purse[v] \in 0 .. MaxAmount /\ MaxAmount \in Nat
  BY <1>0, ReferendumAssumption, TablesAssumption DEF Deposited
<1>3. /\ Bal(acnt[IQ][v]) \in Nat /\ Bal(acnt[t][v]) \in Nat /\ StakesOf(acnt, v) \in Nat
      /\ Bal(acnt[t][v]) <= StakesOf(acnt, v)
  BY <1>0, BalIn, StakesNat
<1>4. Bal(acnt[IQ][v]) + Bal(acnt[t][v]) \in -MaxAmount .. MaxAmount BY <1>2, <1>3
<1> QED BY <1>1, <1>4 DEF Bal, InRange, Amounts

\* The outcome of a vote is never lost to a refund that fails or to a type that
\* is gone, whoever has proposed, voted and called referended before: what a voter
\* has staked can always be given back, and a session's type stays as it was.
THEOREM MajoritiesAlwaysDecide == RefSpec => []MajoritiesDecide
<1>1. MajorityInv => MajoritiesDecide
  BY RefundsFit DEF MajoritiesDecide, CanDecide, MajorityInv, FlipHasType
<1> QED BY <1>1, MajorityInvariant, PTL
-----------------------------------------------------------------------------
(***************************************************************************)
(* Sessions and their deferred calls.  A direct call of referended by the  *)
(* contract's own account ends a session whose deferred call then meets a  *)
(* later proposal, so these theorems are about the referenda in which that *)
(* account makes none: NoDirectCalls.                                      *)
(***************************************************************************)
NoDirectCalls == Self \notin Callers

\* At most one call is queued for a type: what ends a session leaves none.
OneCall == \A d, e \in deferred : d.type = e.type => d = e
SessionInv ==
  RefTypeOK /\ OneCall /\ CallsAreForSession /\ ParametersInSession

LEMMA SendOne ==
  ASSUME NEW queue, NEW p, NEW t,
         \A d, e \in queue : d.type = e.type => d = e,
         \A d \in queue : d.type # t
  PROVE  /\ \A d, e \in Send(queue, p, t) : d.type = e.type => d = e
         /\ \A d \in Send(queue, p, t) : d \in queue \/ (d.type = t /\ d.proposer = p)
BY DEF Send

LEMMA ProposeSession ==
  ASSUME SessionInv, NEW p \in Proposers, NEW t \in CdpTypes, NEW offer \in Offers,
         Moots(p, t, offer)
  PROVE  OneCall' /\ CallsAreForSession' /\ ParametersInSession'
<1>0. /\ OneCall /\ CallsAreForSession /\ ParametersInSession
      /\ deferred \in SUBSET Call /\ p \in Scopes
  BY RefParts, ReferendumAssumption DEF SessionInv
<1>1. /\ prop[t] = None
      /\ prop'[t] # None /\ prop'[t].proposer = p
      /\ \A u \in CdpTypes : u # t => prop'[u] = prop[u]
      /\ \A x \in Scopes, u \in CdpTypes : x # p \/ u # t => stat'[x][u] = stat[x][u]
      /\ deferred' = Send(deferred, p, t)
  BY DEF Moots
<1>2. \A d \in deferred : d.type # t BY <1>0, <1>1 DEF CallsAreForSession
<1>3. /\ \A d, e \in deferred' : d.type = e.type => d = e
      /\ \A d \in deferred' : d \in deferred \/ (d.type = t /\ d.proposer = p)
  BY <1>0, <1>1, <1>2, SendOne DEF OneCall
<1>4. OneCall' BY <1>3 DEF OneCall
<1>5. CallsAreForSession'
  <2> SUFFICES ASSUME NEW d \in deferred'
               PROVE  prop'[d.type] # None /\ prop'[d.type].proposer = d.proposer
    BY DEF CallsAreForSession
  <2>1. CASE d \in deferred
    <3>1. d.type \in CdpTypes BY <1>0, <2>1 DEF Call
    <3> QED BY <1>0, <1>1, <1>2, <2>1, <3>1 DEF CallsAreForSession
  <2>2. CASE d.type = t /\ d.proposer = p BY <1>1, <2>2
  <2> QED BY <1>3, <2>1, <2>2
<1>6. ParametersInSession'
  <2> SUFFICES ASSUME NEW x \in Users, NEW u \in CdpTypes, stat'[x][u] # None
               PROVE  prop'[u] # None /\ prop'[u].proposer = x
    BY DEF ParametersInSession
  <2>1. CASE x = p /\ u = t BY <1>1, <2>1
  <2>2. CASE ~(x = p /\ u = t)
    <3>1. stat[x][u] # None BY <1>1, <2>2, UsersNotSelf
    <3>2. prop[u] # None /\ prop[u].proposer = x BY <1>0, <3>1 DEF ParametersInSession
    <3> QED BY <1>1, <3>2
  <2> QED BY <2>1, <2>2
<1> QED BY <1>4, <1>5, <1>6

LEMMA EndSession ==
  ASSUME SessionInv, NEW d \in deferred, Ends(d.proposer, d.type), deferred' = deferred \ {d}
  PROVE  OneCall' /\ CallsAreForSession' /\ ParametersInSession'
<1> DEFINE p == d.proposer   t == d.type
<1>0. /\ OneCall /\ CallsAreForSession /\ ParametersInSession
      /\ deferred \in SUBSET Call /\ d \in Call
  BY RefParts DEF SessionInv
<1>1. p \in Scopes /\ t \in CdpTypes BY <1>0 DEF Call
<1>2. /\ prop'[t] = None /\ \A u \in CdpTypes : u # t => prop'[u] = prop[u]
      /\ stat'[p][t] = None
      /\ \A x \in Scopes, u \in CdpTypes :
           u # t \/ x \notin {p, Self} => stat'[x][u] = stat[x][u]
  BY DEF Ends
<1>3. prop[t] # None /\ prop[t].proposer = p BY <1>0 DEF CallsAreForSession
<1>4. \A e \in deferred' : e \in deferred /\ e.type # t /\ e.type \in CdpTypes
  BY <1>0 DEF OneCall, Call
<1> HIDE DEF p, t
<1>5. OneCall' BY <1>0, <1>4 DEF OneCall
<1>6. CallsAreForSession' BY <1>0, <1>2, <1>4 DEF CallsAreForSession
<1>7. ParametersInSession'
  <2> SUFFICES ASSUME NEW x \in Users, NEW u \in CdpTypes, stat'[x][u] # None
               PROVE  prop'[u] # None /\ prop'[u].proposer = x
    BY DEF ParametersInSession
  <2>1. CASE u = t
    <3>1. x # p BY <1>2, <2>1
    <3>2. stat[x][t] # None BY <1>1, <1>2, <2>1, <3>1, UsersNotSelf
    <3> QED BY <1>0, <1>1, <1>3, <3>1, <3>2 DEF ParametersInSession
  <2>2. CASE u # t
    <3>1. stat[x][u] # None /\ prop'[u] = prop[u] BY <1>2, <2>2, UsersNotSelf
    <3> QED BY <1>0, <3>1 DEF ParametersInSession
  <2> QED BY <2>1, <2>2
<1> QED BY <1>5, <1>6, <1>7

\* A step that writes no type and keeps each proposer in session.
LEMMA QuietSession ==
  ASSUME SessionInv, stat' = stat,
         \A t \in CdpTypes : IF prop[t] = None THEN prop'[t] = None
                             ELSE prop'[t] # None /\ prop'[t].proposer = prop[t].proposer,
         \A e \in deferred' : \E d \in deferred : e.type = d.type /\ e.proposer = d.proposer,
         OneCall'
  PROVE  OneCall' /\ CallsAreForSession' /\ ParametersInSession'
<1>0. /\ OneCall /\ CallsAreForSession /\ ParametersInSession
      /\ deferred \in SUBSET Call
  BY RefParts DEF SessionInv
<1>1. CallsAreForSession'
  <2> SUFFICES ASSUME NEW e \in deferred'
               PROVE  prop'[e.type] # None /\ prop'[e.type].proposer = e.proposer
    BY DEF CallsAreForSession
  <2>1. PICK d \in deferred : e.type = d.type /\ e.proposer = d.proposer OBVIOUS
  <2>2. d.type \in CdpTypes BY <1>0 DEF Call
  <2> QED BY <1>0, <2>1, <2>2 DEF CallsAreForSession
<1>2. ParametersInSession' BY <1>0 DEF ParametersInSession
<1> QED BY <1>1, <1>2

LEMMA CallSession ==
  ASSUME SessionInv, NEW d \in deferred, Same,
         \/ prop[d.type] # None /\ deferred' = Send(deferred \ {d}, d.proposer, d.type)
         \/ deferred' = deferred \ {d}
  PROVE  OneCall' /\ CallsAreForSession' /\ ParametersInSession'
<1> DEFINE rest == deferred \ {d}   p == d.proposer   t == d.type
<1>1. /\ \A e, f \in rest : e.type = f.type => e = f
      /\ \A e \in rest : e.type # t /\ e \in deferred
  BY DEF SessionInv, OneCall
<1>2. deferred' = Send(rest, p, t) \/ deferred' = rest OBVIOUS
<1>3. d.type = t /\ d.proposer = p OBVIOUS
<1> HIDE DEF rest, p, t
<1>4. OneCall' /\ \A e \in deferred' : \E f \in deferred : e.type = f.type /\ e.proposer = f.proposer
  <2>1. CASE deferred' = Send(rest, p, t)
    <3>1. /\ \A e, f \in Send(rest, p, t) : e.type = f.type => e = f
          /\ \A e \in Send(rest, p, t) : e \in rest \/ (e.type = t /\ e.proposer = p)
      BY <1>1, SendOne
    <3> QED BY <1>1, <1>3, <2>1, <3>1 DEF OneCall
  <2>2. CASE deferred' = rest BY <1>1, <2>2 DEF OneCall
  <2> QED BY <1>2, <2>1, <2>2
<1> QED BY <1>4, QuietSession DEF Same

LEMMA StepSessions ==
  ASSUME NoDirectCalls, SessionInv, [RefNext]_refVars
  PROVE  SessionInv'
<1>0. RefTypeOK /\ OneCall BY DEF SessionInv
<1>1. RefTypeOK' BY <1>0, StepRefType
<1>2. CASE ProposeStep
  <2>1. PICK p \in Proposers, t \in CdpTypes, offer \in Offers : Moots(p, t, offer)
    BY <1>0, <1>2, ProposeMoots DEF ProposeStep
  <2> QED BY <1>1, <2>1, ProposeSession DEF SessionInv
<1>3. CASE VoteStep
  <2>1. PICK v \in Users, t \in CdpTypes, against \in BOOLEAN, q \in VoteQty :
          Vote(v, t, against, q)
    BY <1>3 DEF VoteStep
  <2>2. q \in 1 .. MaxAmount BY ReferendumAssumption
  <2>3. /\ prop[t] # None /\ prop'[t] # None /\ prop'[t].proposer = prop[t].proposer
        /\ \A u \in CdpTypes : u # t => prop'[u] = prop[u]
    BY <1>0, <2>1, <2>2, VoteCounts
  <2>4. stat' = stat /\ deferred' = deferred BY <1>0, <2>1, <2>2, VoteType
  <2>5. OneCall' BY <1>0, <2>4 DEF OneCall
  <2> QED BY <1>1, <2>3, <2>4, <2>5, QuietSession DEF SessionInv
<1>4. CASE DeferredStep
  <2>1. PICK d \in deferred :
          \/ Same /\ prop[d.type] # None
                  /\ deferred' = Send(deferred \ {d}, d.proposer, d.type)
          \/ Same /\ deferred' = deferred \ {d}
          \/ Ends(d.proposer, d.type) /\ deferred' = deferred \ {d}
    BY <1>0, <1>4, CallEnds DEF DeferredStep
  <2> QED BY <1>1, <2>1, CallSession, EndSession DEF SessionInv
<1>5. ~CallStep BY <1>0, DirectCallEnds DEF CallStep, NoDirectCalls
<1>6. CASE RefTick
  <2>1. Aged BY <1>0, <1>6, TickAges
  <2>2. OneCall' BY <1>0, <2>1 DEF Aged, OneCall
  <2> QED BY <1>1, <2>1, <2>2, QuietSession DEF Aged, SessionInv
<1>7. CASE UNCHANGED refVars
  <2>1. Same /\ deferred' = deferred BY <1>7 DEF refVars, Same
  <2>2. OneCall' BY <1>0, <2>1 DEF OneCall
  <2> QED BY <1>1, <2>1, <2>2, QuietSession DEF Same, SessionInv
<1> QED BY <1>2, <1>3, <1>4, <1>5, <1>6, <1>7 DEF RefNext

LEMMA InitSessions == RefInit => SessionInv
<1> SUFFICES ASSUME RefInit PROVE SessionInv
  OBVIOUS
<1>1. RefTypeOK BY InitRefType
<1>2. \A p \in Users, t \in CdpTypes : stat[p][t] = None
  BY UsersNotSelf DEF RefInit, StatInit
<1>3. deferred = {} /\ \A t \in CdpTypes : prop[t] = None BY DEF RefInit
<1> QED BY <1>1, <1>2, <1>3
    DEF SessionInv, OneCall, CallsAreForSession, ParametersInSession

LEMMA SessionInvariant == ASSUME NoDirectCalls PROVE RefSpec => []SessionInv
<1>1. SessionInv /\ [RefNext]_refVars => SessionInv' BY StepSessions
<1> QED BY <1>1, InitSessions, PTL DEF RefSpec

\* A queued call of referended is for the session it was sent in, and parameters
\* wait in a user's scope only while that user's proposal is voted on: a later
\* proposal for the same type finds neither.
THEOREM SessionsAlwaysStandAlone ==
  ASSUME NoDirectCalls PROVE RefSpec => []SessionsStandAlone
<1>1. SessionInv => SessionsStandAlone BY DEF SessionInv, SessionsStandAlone
<1> QED BY <1>1, SessionInvariant, PTL
-----------------------------------------------------------------------------
(***************************************************************************)
(* Every session has a call of referended coming, which decides it or      *)
(* sends the next, direct calls or not.  It is lost only if a tie falls    *)
(* due in the second in which its proposer has sent a call for another     *)
(* type: the two would have one id (daiqcontract.cpp:625).  TiesApart is   *)
(* that this does not happen; with one type it cannot.                     *)
(***************************************************************************)
TiesApart ==
  \A d, e \in deferred :
    d.wait = 0 /\ prop[d.type] # None /\ Tie(d.type) /\ e.proposer = d.proposer
    /\ e.type # d.type => e.wait # VotePeriod

\* The call does not come before the deadline.
Comes(d, t) == d.type = t /\ d.proposer = prop[t].proposer /\ prop[t].left <= d.wait
ComesIn(queue, t) == \E d \in queue : Comes(d, t)
CallComes == \A t \in CdpTypes : prop[t] # None => ComesIn(deferred, t)

\* A step that leaves the clock and the proposer of t, and the queue but for calls
\* of other types.
LEMMA StillComes ==
  ASSUME NEW t, ComesIn(deferred, t), prop'[t].proposer = prop[t].proposer,
         prop'[t].left = prop[t].left, \A d \in deferred : d.type = t => d \in deferred'
  PROVE  ComesIn(deferred, t)'
BY DEF ComesIn, Comes

\* A call that has just been sent comes.
LEMMA SentComes ==
  ASSUME NEW queue, NEW p, NEW t, deferred' = Send(queue, p, t),
         prop'[t].proposer = p, prop'[t].left <= VotePeriod
  PROVE  ComesIn(deferred, t)'
<1> DEFINE c == [proposer |-> p, type |-> t, wait |-> VotePeriod]
<1>1. c \in deferred' BY DEF Send
<1>2. c.type = t /\ c.proposer = p /\ c.wait = VotePeriod OBVIOUS
<1> HIDE DEF c
<1> QED BY <1>1, <1>2 DEF ComesIn, Comes

LEMMA ProposeComes ==
  ASSUME CallComes, NEW p \in Proposers, NEW t \in CdpTypes, NEW offer \in Offers,
         Propose(p, t, offer), prop \in PropTable
  PROVE  CallComes'
<1>1. /\ prop' = [prop EXCEPT ![t] =
             [proposer |-> p, left |-> VotePeriod, yay |-> 0, nay |-> 0]]
      /\ deferred' = Send(deferred, p, t) /\ deferred \subseteq deferred'
  BY DEF Propose, Send
<1>2. ComesIn(deferred, t)'
  <2>1. /\ prop'[t].proposer = p /\ prop'[t].left = VotePeriod BY <1>1 DEF PropTable
  <2>2. VotePeriod <= VotePeriod BY ReferendumAssumption
  <2> QED BY <1>1, <2>1, <2>2, SentComes
<1>3. \A u \in CdpTypes : u # t => prop'[u] = prop[u] BY <1>1 DEF PropTable
<1>4. \A u \in CdpTypes : u # t /\ prop'[u] # None => ComesIn(deferred, u)'
  BY <1>1, <1>3, StillComes DEF CallComes
<1> QED BY <1>2, <1>4 DEF CallComes

LEMMA TickComes ==
  ASSUME CallComes, RefTypeOK, Aged
  PROVE  CallComes'
<1> SUFFICES ASSUME NEW t \in CdpTypes, prop'[t] # None PROVE ComesIn(deferred, t)'
  BY DEF CallComes
<1>1. /\ prop[t] # None /\ prop'[t].proposer = prop[t].proposer
      /\ prop'[t].left = Less(prop[t].left)
  BY DEF Aged
<1>2. PICK d \in deferred : Comes(d, t) BY <1>1 DEF CallComes, ComesIn
<1>3. PICK e \in deferred' : e.type = d.type /\ e.proposer = d.proposer /\ e.wait = Less(d.wait)
  BY DEF Aged
<1>4. prop[t].left \in Nat /\ d.wait \in Nat
  <2>1. prop[t] \in PropRow /\ d \in Call BY <1>1, PropIn, RefParts
  <2> QED BY <2>1, ReferendumAssumption DEF PropRow, Call
<1>5. prop[t].left <= d.wait BY <1>2 DEF Comes
<1>6. Less(prop[t].left) <= Less(d.wait) BY <1>4, <1>5 DEF Less
<1>7. prop'[t].left <= e.wait BY <1>1, <1>3, <1>6
<1>8. e.type = t /\ e.proposer = prop'[t].proposer BY <1>1, <1>2, <1>3 DEF Comes
<1> QED BY <1>7, <1>8 DEF ComesIn, Comes

\* The end of a session is none of the others'.
LEMMA EndComes ==
  ASSUME CallComes, NEW p, NEW t, Ends(p, t), \A d \in deferred : d.type # t => d \in deferred'
  PROVE  CallComes'
<1>1. prop'[t] = None /\ \A u \in CdpTypes : u # t => prop'[u] = prop[u] BY DEF Ends
<1> SUFFICES ASSUME NEW u \in CdpTypes, prop'[u] # None PROVE ComesIn(deferred, u)'
  BY DEF CallComes
<1>2. u # t /\ prop'[u] = prop[u] BY <1>1
<1> QED BY <1>2, StillComes DEF CallComes

\* A call that comes and is due decides its session or sends the next one, unless
\* the next one has been sent: the id that is taken then is its own.
LEMMA DueComes ==
  ASSUME MajorityInv, TiesApart, CallComes, NEW d \in deferred, RunDeferred(d), Same,
         prop[d.type] # None, Comes(d, d.type)
  PROVE  ComesIn(deferred, d.type)'
<1> DEFINE t == d.type   p == d.proposer   rest == deferred \ {d}
<1>0. RefTypeOK /\ d \in Call BY RefParts DEF MajorityInv, StakeInv
<1>1. t \in CdpTypes /\ prop[t] \in PropRow BY <1>0, PropIn DEF Call
<1>2. d.wait = 0 /\ prop[t].left = 0 /\ prop[t].proposer = p
  BY <1>1, ReferendumAssumption DEF RunDeferred, Comes, PropRow
<1>3. prop' = prop BY DEF Same
<1>4. CASE Referended(p, t, rest)
  <2>1. Tie(t)
    <3>1. ~Tie(t) => prop'[t] = None
      <4>1. prop \in PropTable BY <1>0, RefParts
      <4> QED BY <1>1, <1>4, <4>1 DEF Referended, Decide, PropTable
    <3> QED BY <1>3, <3>1
  <2>2. deferred' = Send(rest, p, t) BY <1>4, <2>1 DEF Referended
  <2>3. 0 <= VotePeriod BY ReferendumAssumption
  <2> QED BY <1>2, <1>3, <2>2, <2>3, SentComes
<1>5. CASE ~CanReferend(p, t, rest) /\ deferred' = rest
  <2>1. Tie(t)
    <3>1. MajoritiesDecide
      BY RefundsFit DEF MajoritiesDecide, CanDecide, MajorityInv, FlipHasType
    <3> QED BY <1>1, <1>2, <1>5, <3>1 DEF MajoritiesDecide, CanReferend
  <2>2. PICK e \in rest : e.proposer = p /\ e.wait = VotePeriod
    BY <1>2, <1>5, <2>1 DEF CanReferend, CanSend
  <2>3. e \in deferred /\ e.type = t BY <1>2, <2>1, <2>2 DEF TiesApart
  <2>4. 0 <= VotePeriod BY ReferendumAssumption
  <2> QED BY <1>2, <1>3, <1>5, <2>2, <2>3, <2>4 DEF ComesIn, Comes
<1> QED BY <1>4, <1>5 DEF RunDeferred

LEMMA DeferredComes ==
  ASSUME MajorityInv, TiesApart, CallComes, NEW d \in deferred, RunDeferred(d)
  PROVE  CallComes'
<1>1. /\ RefTypeOK /\ d \in Call
      /\ \/ Same /\ deferred' = Send(deferred \ {d}, d.proposer, d.type)
         \/ Same /\ deferred' = deferred \ {d}
         \/ Ends(d.proposer, d.type) /\ deferred' = deferred \ {d}
  BY CallEnds DEF MajorityInv, StakeInv
<1>2. \A e \in deferred : e # d => e \in deferred' BY <1>1 DEF Send
<1>3. CASE Ends(d.proposer, d.type)
  <2>1. \A e \in deferred : e.type # d.type => e \in deferred' BY <1>2
  <2> QED BY <1>3, <2>1, EndComes
<1>4. CASE Same
  <2> SUFFICES ASSUME NEW t \in CdpTypes, prop'[t] # None PROVE ComesIn(deferred, t)'
    BY DEF CallComes
  <2>1. prop' = prop /\ prop[t] # None BY <1>4 DEF Same
  <2>2. PICK e \in deferred : Comes(e, t) BY <2>1 DEF CallComes, ComesIn
  <2>3. CASE e = d
    <3>1. t = d.type BY <2>2, <2>3 DEF Comes
    <3> QED BY <1>4, <2>1, <2>2, <2>3, <3>1, DueComes
  <2>4. CASE e # d
    <3>1. e \in deferred' BY <1>2, <2>4
    <3> QED BY <2>1, <2>2, <3>1 DEF ComesIn, Comes
  <2> QED BY <2>3, <2>4
<1> QED BY <1>1, <1>3, <1>4

LEMMA StepComes ==
  ASSUME MajorityInv, TiesApart, CallComes, [RefNext]_refVars
  PROVE  CallComes'
<1>0. RefTypeOK /\ prop \in PropTable BY RefParts DEF MajorityInv, StakeInv
<1>1. CASE ProposeStep BY <1>0, <1>1, ProposeComes DEF ProposeStep
<1>2. CASE VoteStep
  <2>1. PICK v \in Users, t \in CdpTypes, against \in BOOLEAN, q \in VoteQty :
          Vote(v, t, against, q)
    BY <1>2 DEF VoteStep
  <2>2. q \in 1 .. MaxAmount BY ReferendumAssumption
  <2>3. /\ prop[t] # None /\ prop'[t] = Counted(prop[t], against, q)
        /\ \A u \in CdpTypes : u # t => prop'[u] = prop[u]
        /\ deferred' = deferred
    BY <1>0, <2>1, <2>2, VoteCounts, VoteType
  <2>4. prop[t] \in PropRow BY <1>0, <2>3, PropIn
  <2>5. prop'[t].proposer = prop[t].proposer /\ prop'[t].left = prop[t].left
    BY <2>3, <2>4 DEF Counted, PropRow
  <2> QED BY <2>3, <2>5, StillComes DEF CallComes
<1>3. CASE DeferredStep BY <1>3, DeferredComes DEF DeferredStep
<1>4. CASE CallStep
  <2>1. PICK c \in Callers, t \in CdpTypes : CallReferended(c, t) BY <1>4 DEF CallStep
  <2>2. prop[t] # None /\ Referended(prop[t].proposer, t, deferred)
    BY <2>1 DEF CallReferended
  <2>3. prop[t].proposer \in Scopes BY <1>0, <2>2, PropIn DEF PropRow
  <2>4. \/ deferred' = Send(deferred, prop[t].proposer, t) /\ prop' = prop
        \/ Ends(prop[t].proposer, t) /\ deferred' = deferred
    BY <1>0, <2>2, <2>3, RefParts, ReferendedEnds
  <2>5. \A d \in deferred : d \in deferred' BY <2>4 DEF Send
  <2>6. prop' = prop => CallComes' BY <2>5 DEF CallComes, ComesIn, Comes
  <2> QED BY <2>4, <2>5, <2>6, EndComes
<1>5. CASE RefTick BY <1>0, <1>5, TickAges, TickComes
<1>6. CASE UNCHANGED refVars BY <1>6 DEF refVars, CallComes, ComesIn, Comes
<1> QED BY <1>1, <1>2, <1>3, <1>4, <1>5, <1>6 DEF RefNext

\* As long as no tie falls due in the second in which its proposer sends another
\* call, every session has a call coming that decides it or extends it: none
\* stays open with its stakes for want of one.
THEOREM SessionsStayScheduled == RefSpec /\ []TiesApart => []SessionScheduled
<1>1. MajorityInv /\ TiesApart /\ CallComes /\ [RefNext]_refVars => CallComes' BY StepComes
<1>2. RefInit => CallComes BY DEF RefInit, CallComes
<1>3. CallComes => SessionScheduled
  BY DEF CallComes, ComesIn, Comes, SessionScheduled
<1> QED BY <1>1, <1>2, <1>3, MajorityInvariant, PTL DEF RefSpec

\* With a single type no other call can take the id, also not one that a direct
\* call of referended has sent: its session always has a call coming.
THEOREM OneTypeStaysScheduled ==
  ASSUME \A t, u \in CdpTypes : t = u
  PROVE  RefSpec => []SessionScheduled
<1>1. RefTypeOK => TiesApart BY RefParts DEF TiesApart, Call
<1> QED BY <1>1, ReferendumTypeCorrect, SessionsStayScheduled, PTL
-----------------------------------------------------------------------------
(***************************************************************************)
(* A referendum is a ballot.  The contract's own account may propose a     *)
(* type and so put its parameters where those in force are kept, before    *)
(* any vote: the theorem is about proposals of users.                      *)
(***************************************************************************)
UsersPropose == Proposers \subseteq Users
ProposersInSession == \A t \in CdpTypes : prop[t] # None => prop[t].proposer \in Proposers

LEMMA MapMove ==
  ASSUME NEW t \in CdpTypes, NEW m,
         VotesOn(t) = None, m = Flip => LawAt(t) # None,
         VotesOn(t)' = [motion |-> m, yay |-> 0, nay |-> 0],
         \A u \in CdpTypes : u # t => VotesOn(u)' = VotesOn(u),
         \A u \in CdpTypes : LawAt(u)' = LawAt(u),
         acnt' = acnt
  PROVE  B!Move(t, m)
BY DEF B!Move, BalanceOf

LEMMA MapCast ==
  ASSUME NEW t \in CdpTypes, NEW v \in Users, NEW against \in BOOLEAN, NEW q,
         VotesOn(t) # None, q <= BalanceOf(IQ, v),
         \A u \in Users : BalanceOf(IQ, u)' = IF u = v THEN BalanceOf(IQ, v) - q
                                             ELSE BalanceOf(IQ, u),
         \A s \in CdpTypes, u \in Users :
           BalanceOf(s, u)' = IF s = t /\ u = v THEN BalanceOf(t, v) + q ELSE BalanceOf(s, u),
         VotesOn(t)' = B!Counted(VotesOn(t), against, q),
         \A u \in CdpTypes : u # t => VotesOn(u)' = VotesOn(u),
         \A u \in CdpTypes : LawAt(u)' = LawAt(u)
  PROVE  B!Cast(t, v, against, q)
<1> DEFINE law == [u \in CdpTypes |-> LawAt(u)]
           ballot == [u \in CdpTypes |-> VotesOn(u)]
           free == [u \in Users |-> BalanceOf(IQ, u)]
           stake == [s \in CdpTypes |-> [u \in Users |-> BalanceOf(s, u)]]
<1>1. ballot[t] # None /\ q <= free[v] OBVIOUS
<1>2. free' = [free EXCEPT ![v] = @ - q] OBVIOUS
<1>3. stake' = [stake EXCEPT ![t] = [stake[t] EXCEPT ![v] = stake[t][v] + q]]
  <2>1. \A s \in CdpTypes : stake'[s] = IF s = t THEN [stake[t] EXCEPT ![v] = stake[t][v] + q]
                                        ELSE stake[s]
    OBVIOUS
  <2> QED BY <2>1
<1>4. ballot' = [ballot EXCEPT ![t] = B!Counted(ballot[t], against, q)] OBVIOUS
<1>5. law' = law OBVIOUS
<1> QED BY <1>1, <1>2, <1>3, <1>4, <1>5 DEF B!Cast

LEMMA MapClose ==
  ASSUME NEW t \in CdpTypes,
         VotesOn(t) # None, VotesOn(t).yay # VotesOn(t).nay,
         LawAt(t)' = IF VotesOn(t).yay > VotesOn(t).nay
                     THEN B!Effect(LawAt(t), VotesOn(t).motion) ELSE LawAt(t),
         \A u \in CdpTypes : u # t => LawAt(u)' = LawAt(u),
         \A v \in Users : BalanceOf(IQ, v)' = BalanceOf(IQ, v) + BalanceOf(t, v),
         \A s \in CdpTypes, v \in Users :
           BalanceOf(s, v)' = IF s = t THEN 0 ELSE BalanceOf(s, v),
         VotesOn(t)' = None,
         \A u \in CdpTypes : u # t => VotesOn(u)' = VotesOn(u)
  PROVE  B!Close(t)
<1> DEFINE law == [u \in CdpTypes |-> LawAt(u)]
           ballot == [u \in CdpTypes |-> VotesOn(u)]
           free == [u \in Users |-> BalanceOf(IQ, u)]
           stake == [s \in CdpTypes |-> [u \in Users |-> BalanceOf(s, u)]]
<1>1. ballot[t] # None /\ ballot[t].yay # ballot[t].nay OBVIOUS
<1>2. law' = IF ballot[t].yay > ballot[t].nay
             THEN [law EXCEPT ![t] = B!Effect(@, ballot[t].motion)] ELSE law
  OBVIOUS
<1>3. free' = [u \in Users |-> free[u] + stake[t][u]] OBVIOUS
<1>4. stake' = [stake EXCEPT ![t] = [u \in Users |-> 0]] OBVIOUS
<1>5. ballot' = [ballot EXCEPT ![t] = None] OBVIOUS
<1> QED BY <1>1, <1>2, <1>3, <1>4, <1>5 DEF B!Close

LEMMA MapStutter ==
  ASSUME \A t \in CdpTypes : LawAt(t)' = LawAt(t) /\ VotesOn(t)' = VotesOn(t),
         acnt' = acnt
  PROVE  UNCHANGED B!ballotVars
BY DEF B!ballotVars, BalanceOf

\* A type's law and its ballot after a step that leaves their rows alone.
LEMMA SameLaw ==
  ASSUME NEW t \in CdpTypes, stat'[Self][t] = stat[Self][t]
  PROVE  LawAt(t)' = LawAt(t)
BY DEF LawAt, LawOf

LEMMA SameVotes ==
  ASSUME NEW t \in CdpTypes,
         prop[t] = None => prop'[t] = None,
         prop[t] # None =>
           /\ prop'[t] # None /\ prop'[t].proposer = prop[t].proposer
           /\ prop'[t].yay = prop[t].yay /\ prop'[t].nay = prop[t].nay
           /\ stat'[prop[t].proposer][t] = stat[prop[t].proposer][t]
  PROVE  VotesOn(t)' = VotesOn(t)
BY DEF VotesOn, MotionOf

LEMMA RowsAreSome ==
  ASSUME RefTypeOK, NEW t \in CdpTypes
  PROVE  /\ LawAt(t) \in [live: BOOLEAN, par: Params] \cup {None}
         /\ stat[Self][t] # None => LawAt(t) # None
         /\ prop[t] # None =>
              /\ VotesOn(t) # None
              /\ VotesOn(t).yay = prop[t].yay /\ VotesOn(t).nay = prop[t].nay
              /\ VotesOn(t).motion = MotionOf(stat[prop[t].proposer][t])
<1>1. stat \in StatTable /\ Self \in Scopes BY RefParts DEF Scopes
<1>2. stat[Self][t] = None => LawAt(t) = None BY DEF LawAt, LawOf
<1>3. stat[Self][t] # None => LawAt(t) \in [live: BOOLEAN, par: Params] /\ LawAt(t) # None
  <2> SUFFICES ASSUME stat[Self][t] # None
               PROVE  LawAt(t) \in [live: BOOLEAN, par: Params] /\ LawAt(t) # None
    OBVIOUS
  <2>1. stat[Self][t] \in StatRow BY <1>1 DEF StatTable
  <2>2. LawAt(t) \in [live: BOOLEAN, par: Params] BY <2>1 DEF LawAt, LawOf, StatRow
  <2> QED BY <2>2, ReferendumAssumption
<1>4. ASSUME prop[t] # None
      PROVE  /\ VotesOn(t) # None
             /\ VotesOn(t).yay = prop[t].yay /\ VotesOn(t).nay = prop[t].nay
             /\ VotesOn(t).motion = MotionOf(stat[prop[t].proposer][t])
  <2> DEFINE m == MotionOf(stat[prop[t].proposer][t])
  <2>1. prop[t] \in PropRow BY <1>4, PropIn
  <2>2. stat[prop[t].proposer][t] \in StatRow \cup {None}
    BY <1>1, <2>1 DEF StatTable, PropRow
  <2>3. m \in Params \cup {None} BY <2>2 DEF MotionOf, Flip, StatRow
  <2>4. prop[t].yay \in Int /\ prop[t].nay \in Int BY <2>1, TablesAssumption DEF PropRow
  <2>5. VotesOn(t) = [yay |-> prop[t].yay, nay |-> prop[t].nay, motion |-> m]
    BY <1>4 DEF VotesOn
  <2> HIDE DEF m
  <2>6. VotesOn(t) \in [yay: Int, nay: Int, motion: Params \cup {None}]
    BY <2>3, <2>4, <2>5
  <2> QED BY <2>5, <2>6, ReferendumAssumption DEF m
<1> QED BY <1>2, <1>3, <1>4

LEMMA MoveStep ==
  ASSUME RefTypeOK, UsersPropose,
         NEW p \in Proposers, NEW t \in CdpTypes, NEW offer \in Offers, Moots(p, t, offer)
  PROVE  \E m \in Params \cup {Flip} : B!Move(t, m)
<1> DEFINE m == MotionOf(stat'[p][t])
<1>0. /\ p \in Users /\ p # Self /\ offer \in Offer
  BY UsersNotSelf, ReferendumAssumption DEF UsersPropose
<1>1. /\ prop[t] = None /\ prop'[t] # None
      /\ prop'[t].proposer = p /\ prop'[t].yay = 0 /\ prop'[t].nay = 0
      /\ \A u \in CdpTypes : u # t => prop'[u] = prop[u]
      /\ \A x \in Scopes, u \in CdpTypes : x # p \/ u # t => stat'[x][u] = stat[x][u]
      /\ acnt' = acnt
  BY DEF Moots
<1>2. m \in Params \cup {Flip}
  BY <1>0 DEF Moots, Flip, MotionOf, Offer
<1>3. m = Flip => stat[Self][t] # None
  BY <1>0, ReferendumAssumption DEF Moots, Flip, MotionOf, Offer
<1>4. VotesOn(t) = None BY <1>1 DEF VotesOn
<1>5. VotesOn(t)' = [motion |-> m, yay |-> 0, nay |-> 0] BY <1>1 DEF VotesOn, MotionOf
<1>6. \A u \in CdpTypes : LawAt(u)' = LawAt(u) BY <1>0, <1>1, SameLaw, UsersNotSelf
<1>7. ASSUME NEW u \in CdpTypes, u # t PROVE VotesOn(u)' = VotesOn(u)
  <2>1. prop[u] # None => prop[u].proposer \in Scopes BY PropIn DEF PropRow
  <2> QED BY <1>1, <1>7, <2>1, SameVotes
<1>8. m = Flip => LawAt(t) # None BY <1>3, RowsAreSome
<1> HIDE DEF m
<1>9. B!Move(t, m) BY <1>1, <1>4, <1>5, <1>6, <1>7, <1>8, MapMove
<1> QED BY <1>2, <1>9

LEMMA BalancesAre == \A s, v : BalanceOf(s, v) = Bal(acnt[s][v]) /\ BalanceOf(s, v)' = Bal(acnt'[s][v])
BY DEF BalanceOf, Bal

LEMMA CastStep ==
  ASSUME RefTypeOK, NEW v \in Users, NEW t \in CdpTypes, NEW against \in BOOLEAN,
         NEW q \in VoteQty, Vote(v, t, against, q)
  PROVE  B!Cast(t, v, against, q)
<1>0. q \in 1 .. MaxAmount BY ReferendumAssumption
<1>1. /\ prop[t] # None /\ prop'[t] # None /\ prop'[t] = Counted(prop[t], against, q)
      /\ \A u \in CdpTypes : u # t => prop'[u] = prop[u]
      /\ prop'[t].proposer = prop[t].proposer
      /\ against => prop'[t].nay = prop[t].nay + q /\ prop'[t].yay = prop[t].yay
      /\ ~against => prop'[t].yay = prop[t].yay + q /\ prop'[t].nay = prop[t].nay
  BY <1>0, VoteCounts
<1>2. Staked(v, t, q) /\ q <= Bal(acnt[IQ][v]) BY <1>0, VoteStakes
<1>3. stat' = stat BY <1>0, VoteType
<1>4. t \in Symbols /\ t # IQ /\ IQ \in Symbols BY TypeSymbols
<1>5. \A u \in Users : BalanceOf(IQ, u)' = IF u = v THEN BalanceOf(IQ, v) - q
                                          ELSE BalanceOf(IQ, u)
  BY <1>2, <1>4, BalancesAre DEF Staked
<1>6. \A s \in CdpTypes, u \in Users :
        BalanceOf(s, u)' = IF s = t /\ u = v THEN BalanceOf(t, v) + q ELSE BalanceOf(s, u)
  BY <1>2, <1>4, TypeSymbols, BalancesAre DEF Staked
<1>7. \A u \in CdpTypes : LawAt(u)' = LawAt(u) BY <1>3, SameLaw
<1>8. \A u \in CdpTypes : u # t => VotesOn(u)' = VotesOn(u) BY <1>1, <1>3, SameVotes
<1>9. VotesOn(t) # None BY <1>1, RowsAreSome
<1>10. VotesOn(t)' = B!Counted(VotesOn(t), against, q)
  <2> DEFINE m == MotionOf(stat[prop[t].proposer][t])
  <2>1. VotesOn(t) = [yay |-> prop[t].yay, nay |-> prop[t].nay, motion |-> m]
    BY <1>1 DEF VotesOn
  <2>2. VotesOn(t)' = [yay |-> prop'[t].yay, nay |-> prop'[t].nay, motion |-> m]
    BY <1>1, <1>3 DEF VotesOn
  <2> HIDE DEF m
  <2> QED BY <1>1, <2>1, <2>2 DEF B!Counted
<1>11. q <= BalanceOf(IQ, v) BY <1>2, BalancesAre
<1> QED BY <1>5, <1>6, <1>7, <1>8, <1>9, <1>10, <1>11, MapCast

LEMMA CloseStep ==
  ASSUME RefTypeOK, FlipHasType, NEW t \in CdpTypes,
         Ends(prop[t].proposer, t), prop[t].proposer # Self
  PROVE  B!Close(t)
<1> DEFINE p == prop[t].proposer   m == MotionOf(stat[p][t])
<1>1. /\ prop[t] # None /\ prop[t].yay # prop[t].nay /\ Unstaked(t)
      /\ prop'[t] = None /\ \A u \in CdpTypes : u # t => prop'[u] = prop[u]
      /\ \A x \in Scopes, u \in CdpTypes : u # t => stat'[x][u] = stat[x][u]
      /\ IF prop[t].yay > prop[t].nay THEN stat'[Self][t] = Won(p, t) /\ stat'[Self][t] # None
         ELSE stat'[Self][t] = stat[Self][t]
  BY DEF Ends, Tie
<1>2. p \in Scopes /\ Self \in Scopes BY <1>1, PropIn, UsersNotSelf DEF PropRow
<1>3. /\ VotesOn(t) # None /\ VotesOn(t).motion = m
      /\ VotesOn(t).yay = prop[t].yay /\ VotesOn(t).nay = prop[t].nay
  BY <1>1, RowsAreSome
<1>4. LawAt(t)' = IF VotesOn(t).yay > VotesOn(t).nay
                  THEN B!Effect(LawAt(t), VotesOn(t).motion) ELSE LawAt(t)
  <2>1. CASE ~(prop[t].yay > prop[t].nay) BY <1>1, <1>3, <2>1, SameLaw
  <2>2. CASE prop[t].yay > prop[t].nay
    <3>1. stat'[Self][t] = Won(p, t) /\ stat'[Self][t] # None BY <1>1, <2>2
    <3>2. LawAt(t)' = [live |-> Won(p, t).live, par |-> Won(p, t).par]
      BY <3>1 DEF LawAt, LawOf
    <3>3. stat \in StatTable BY RefParts
    <3>4. LawAt(t)' = B!Effect(LawAt(t), m)
      <4>1. CASE stat[p][t] = None
        <5>1. stat[Self][t] # None /\ stat[Self][t] \in StatRow
          BY <1>1, <1>2, <3>3, <4>1 DEF FlipHasType, StatTable
        <5> QED BY <3>2, <4>1, <5>1 DEF Won, B!Effect, MotionOf, LawAt, LawOf, StatRow
      <4>2. CASE stat[p][t] # None
        <5>1. stat[p][t] \in StatRow BY <1>2, <3>3, <4>2 DEF StatTable
        <5>2. stat[Self][t] # None => stat[Self][t] \in StatRow BY <1>2, <3>3 DEF StatTable
        <5>3. Won(p, t).live = TRUE /\ Won(p, t).par = stat[p][t].par
          BY <4>2, <5>1, <5>2 DEF Won, StatRow
        <5>4. m = stat[p][t].par /\ m # Flip
          BY <4>2, <5>1, ReferendumAssumption DEF MotionOf, Flip, StatRow
        <5> QED BY <3>2, <5>3, <5>4 DEF B!Effect
      <4> QED BY <4>1, <4>2
    <3> QED BY <1>3, <2>2, <3>4
  <2> QED BY <2>1, <2>2
<1>5. \A u \in CdpTypes : u # t => LawAt(u)' = LawAt(u) BY <1>1, <1>2, SameLaw
<1>6. ASSUME NEW u \in CdpTypes, u # t PROVE VotesOn(u)' = VotesOn(u)
  <2>1. prop[u] # None => prop[u].proposer \in Scopes BY PropIn DEF PropRow
  <2> QED BY <1>1, <1>6, <2>1, SameVotes
<1>7. VotesOn(t)' = None BY <1>1 DEF VotesOn
<1>8. \A v \in Users : BalanceOf(IQ, v)' = BalanceOf(IQ, v) + BalanceOf(t, v)
  BY <1>1, BalancesAre DEF Unstaked
<1>9. \A s \in CdpTypes, v \in Users : BalanceOf(s, v)' = IF s = t THEN 0 ELSE BalanceOf(s, v)
  BY <1>1, TypeSymbols, BalancesAre DEF Unstaked, Bal
<1>10. VotesOn(t).yay # VotesOn(t).nay BY <1>1, <1>3
<1> HIDE DEF p, m
<1> QED BY <1>3, <1>4, <1>5, <1>6, <1>7, <1>8, <1>9, <1>10, MapClose

LEMMA StutterStep ==
  ASSUME RefTypeOK, stat' = stat, acnt' = acnt,
         \A t \in CdpTypes :
           IF prop[t] = None THEN prop'[t] = None
           ELSE /\ prop'[t] # None /\ prop'[t].proposer = prop[t].proposer
                /\ prop'[t].yay = prop[t].yay /\ prop'[t].nay = prop[t].nay
  PROVE  UNCHANGED B!ballotVars
BY SameLaw, SameVotes, MapStutter

LEMMA StepProposers ==
  ASSUME NoDirectCalls, UsersPropose, RefTypeOK, ProposersInSession, [RefNext]_refVars
  PROVE  ProposersInSession'
<1>1. CASE ProposeStep
  <2>1. PICK p \in Proposers, t \in CdpTypes, offer \in Offers : Moots(p, t, offer)
    BY <1>1, ProposeMoots DEF ProposeStep
  <2> QED BY <2>1 DEF Moots, ProposersInSession
<1>2. CASE VoteStep
  <2>1. PICK v \in Users, t \in CdpTypes, against \in BOOLEAN, q \in VoteQty :
          Vote(v, t, against, q)
    BY <1>2 DEF VoteStep
  <2>2. q \in 1 .. MaxAmount BY ReferendumAssumption
  <2>3. /\ prop[t] # None /\ prop'[t].proposer = prop[t].proposer
        /\ \A u \in CdpTypes : u # t => prop'[u] = prop[u]
    BY <2>1, <2>2, VoteCounts
  <2> QED BY <2>3 DEF ProposersInSession
<1>3. CASE DeferredStep
  <2>1. PICK d \in deferred : Same \/ Ends(d.proposer, d.type)
    BY <1>3, CallEnds DEF DeferredStep
  <2> QED BY <2>1 DEF Same, Ends, ProposersInSession
<1>4. ~CallStep BY DirectCallEnds DEF CallStep, NoDirectCalls
<1>5. CASE RefTick BY <1>5, TickAges DEF Aged, ProposersInSession
<1>6. CASE UNCHANGED refVars BY <1>6 DEF refVars, ProposersInSession
<1> QED BY <1>1, <1>2, <1>3, <1>4, <1>5, <1>6 DEF RefNext

LEMMA StepBallot ==
  ASSUME NoDirectCalls, UsersPropose, SessionInv, FlipHasType, ProposersInSession,
         [RefNext]_refVars
  PROVE  [B!BallotNext]_B!ballotVars
<1>0. /\ RefTypeOK /\ FlipHasType /\ CallsAreForSession /\ deferred \in SUBSET Call
      /\ Self \notin Proposers
  BY RefParts, UsersNotSelf DEF SessionInv, UsersPropose
<1>1. CASE ProposeStep
  <2>1. PICK p \in Proposers, t \in CdpTypes, offer \in Offers : Moots(p, t, offer)
    BY <1>0, <1>1, ProposeMoots DEF ProposeStep
  <2> QED BY <1>0, <2>1, MoveStep DEF B!BallotNext
<1>2. CASE VoteStep BY <1>0, <1>2, CastStep DEF VoteStep, B!BallotNext
<1>3. CASE DeferredStep
  <2>1. PICK d \in deferred : Same \/ Ends(d.proposer, d.type)
    BY <1>0, <1>3, CallEnds DEF DeferredStep
  <2>2. CASE Same BY <1>0, <2>2, StutterStep DEF Same
  <2>3. CASE Ends(d.proposer, d.type)
    <3>1. d.type \in CdpTypes BY <1>0 DEF Call
    <3>2. prop[d.type] # None /\ prop[d.type].proposer = d.proposer
      BY <1>0 DEF CallsAreForSession
    <3>3. prop[d.type].proposer # Self BY <1>0, <3>1, <3>2 DEF ProposersInSession
    <3>4. B!Close(d.type) BY <1>0, <2>3, <3>1, <3>2, <3>3, CloseStep
    <3> QED BY <3>1, <3>4 DEF B!BallotNext
  <2> QED BY <2>1, <2>2, <2>3
<1>4. ~CallStep BY <1>0, DirectCallEnds DEF CallStep, NoDirectCalls
<1>5. CASE RefTick
  <2>1. Aged BY <1>0, <1>5, TickAges
  <2> QED BY <1>0, <2>1, StutterStep DEF Aged
<1>6. CASE UNCHANGED refVars
  <2>1. stat' = stat /\ acnt' = acnt /\ prop' = prop BY <1>6 DEF refVars
  <2> QED BY <1>0, <2>1, StutterStep
<1> QED BY <1>1, <1>2, <1>3, <1>4, <1>5, <1>6 DEF RefNext

LEMMA InitBallot == RefInit => B!BallotInit /\ ProposersInSession
<1> SUFFICES ASSUME RefInit PROVE B!BallotInit /\ ProposersInSession
  OBVIOUS
<1>1. RefTypeOK BY InitRefType
<1>2. \A t \in CdpTypes : prop[t] = None BY DEF RefInit
<1>3. \A t \in CdpTypes : VotesOn(t) = None BY <1>2 DEF VotesOn
<1>4. \A t \in CdpTypes : LawAt(t) \in [live: BOOLEAN, par: Params] \cup {None}
  BY <1>1, RowsAreSome
<1>5. acnt \in Accounts BY <1>1, RefParts
<1>6. \A v \in Users : BalanceOf(IQ, v) \in Nat
  BY <1>5, BalIn, BalancesAre, TablesAssumption
<1>7. \A t \in CdpTypes, v \in Users : BalanceOf(t, v) = 0
  BY TypeSymbols DEF RefInit, BalanceOf
<1>8. B!BallotInit BY <1>3, <1>4, <1>6, <1>7 DEF B!BallotInit
<1> QED BY <1>2, <1>8 DEF ProposersInSession

\* The referendum implements Ballot: votes are counted, a strict majority
\* decides, only a majority in favour changes a type, and all stakes return.
THEOREM ReferendumIsBallot ==
  ASSUME NoDirectCalls, UsersPropose PROVE RefSpec => ImplementsBallot
<1>1. SessionInv /\ ProposersInSession /\ [RefNext]_refVars => ProposersInSession'
  BY StepProposers DEF SessionInv
<1>2. SessionInv /\ FlipHasType /\ ProposersInSession /\ [RefNext]_refVars
        => [B!BallotNext]_B!ballotVars
  BY StepBallot
<1>3. MajorityInv => FlipHasType BY DEF MajorityInv
<1> QED BY <1>1, <1>2, <1>3, InitBallot, SessionInvariant, MajorityInvariant, PTL
        DEF RefSpec, ImplementsBallot, B!BallotSpec
=============================================================================
