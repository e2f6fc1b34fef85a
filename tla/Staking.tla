------------------------------- MODULE Staking ------------------------------
(***************************************************************************)
(* Delegated bandwidth: who staked how much for whom, what everybody may   *)
(* use, what is on its way back, and the deferred refunds of the chain.    *)
(* Amounts have two kinds, net and cpu.                                    *)
(* Source: src/decentralbank.system/delegate_bandwidth.cpp.                *)
(***************************************************************************)
EXTENDS Voting

CONSTANTS
  Receivers,   \* the accounts that stakes may be for
  StakeQty,    \* the amounts of the two kinds that may be delegated,
  UnstakeQty,  \* and undelegated
  RefundDelay, \* refund_delay_sec, in days (3)
  RamGift      \* ram_gift_bytes (1400)

Kinds == {"net", "cpu"}
Amounts == [Kinds -> Nat]
Nothing == [k \in Kinds |-> 0]
TotalOf(q) == q["net"] + q["cpu"]
Plus(q, r) == [k \in Kinds |-> q[k] + r[k]]
Minus(q, r) == [k \in Kinds |-> q[k] - r[k]]

ASSUME StakingAssumption ==
  /\ IsFiniteSet(Receivers)
  /\ StakeQty \cup UnstakeQty \subseteq Amounts \ {Nothing}
  /\ RefundDelay \in Nat /\ RamGift \in Nat
  /\ None \notin [weight: [Kinds -> Int], ram_bytes: Int]
  /\ None \notin [amount: [Kinds -> Int], request_time: Int]

VARIABLES
  delband,  \* what each voter has delegated to each receiver
  userres,  \* what is delegated to each receiver, and its bytes of RAM
  limits,   \* the resource limits that the chain enforces
  refunds,  \* what each voter has undelegated and not been paid
  deferred  \* the day on which each voter's deferred refund is due

stakingVars == <<delband, userres, limits, refunds, deferred>>

Resources == [weight: Amounts, ram_bytes: Nat]
Limits == [weight: Amounts, ram_bytes: Int]
RefundRow == [amount: Amounts, request_time: 0 .. MaxDay]

StakingInit ==
  /\ delband = [v \in Voters |-> [r \in Receivers |-> Nothing]]
  /\ userres = [r \in Receivers |-> None]
  /\ limits = [r \in Receivers |-> [weight |-> Nothing, ram_bytes |-> 0]]
  /\ refunds = [v \in Voters |-> None]
  /\ deferred = [v \in Voters |-> None]

Floored(q) == [k \in Kinds |-> AtLeast0(q[k])]
NoResources == [weight |-> Nothing, ram_bytes |-> 0]
Row(r) == IF userres[r] = None THEN NoResources ELSE userres[r]
Pending(v) == IF refunds[v] = None THEN Nothing ELSE refunds[v].amount

\* A row of delband whose amounts are zero is none; one of userres goes when
\* it has no RAM either.
Delegate(v, r, delta) ==
  LET staked == Plus(delband[v][r], delta)
      row == [Row(r) EXCEPT !.weight = Plus(Row(r).weight, delta)]
  IN /\ \A k \in Kinds : staked[k] >= 0 /\ row.weight[k] >= 0
     /\ delband' = [delband EXCEPT ![v][r] = staked]
     /\ userres' = [userres EXCEPT ![r] = IF row = NoResources THEN None ELSE row]
     /\ limits' = [limits EXCEPT ![r] = [weight |-> row.weight, ram_bytes |->
          IF limits[r].ram_bytes > row.ram_bytes + RamGift
          THEN limits[r].ram_bytes ELSE row.ram_bytes + RamGift]]

\* Faulty variant of Owed: the whole stake is paid although a part of it was
\* taken from the pending refund.
OwedInFull(v, delta, touched) == Floored(delta)

\* What v still has to pay of a stake of which a pending refund may pay a part.
Owed(v, delta, touched) ==
  Floored(IF touched THEN Minus(delta, Pending(v)) ELSE delta)

\* Faulty variant of Settled: a request that grows keeps its time.
KeepsTime(v, delta, touched) ==
  LET left == Floored(Minus(Pending(v), delta))
  IN IF ~ touched THEN refunds[v]
     ELSE IF left = Nothing THEN None
     ELSE [amount |-> left, request_time |->
             IF refunds[v] = None THEN now ELSE refunds[v].request_time]

\* The refund of v when its stake changes by delta: undelegating adds to it,
\* delegating to oneself takes from it, and only those touch it.
Settled(v, delta, touched) ==
  LET left == Floored(Minus(Pending(v), delta))
  IN IF ~ touched THEN refunds[v]
     ELSE IF left = Nothing THEN None
     ELSE [amount |-> left, request_time |->
             IF TotalOf(delta) < 0 THEN now ELSE refunds[v].request_time]

\* Faulty variant of Rescheduled: a deferred refund in the queue keeps its day.
KeepsDay(v, delta, touched) ==
  IF ~ touched \/ Settled(v, delta, touched) = None THEN None
  ELSE IF deferred[v] = None THEN now + RefundDelay ELSE deferred[v]

\* A new refund replaces the deferred one; otherwise it is cancelled, also by
\* a stake for another account that leaves the refund as it is.
Rescheduled(v, delta, touched) ==
  IF touched /\ Settled(v, delta, touched) # None THEN now + RefundDelay ELSE None

\* Faulty variant of Restaked: who votes already does not vote anew.
Uncounted(v, n) ==
  LET row == IF voters[v] = None THEN NewVoter(n, FALSE)
             ELSE [voters[v] EXCEPT !.staked = @ + n]
  IN [Tables EXCEPT !.voters[v] = row]

\* Faulty variant of Restaked: the stake that makes v a voter does not count.
FirstStakeLost(v, n) ==
  LET row == IF voters[v] = None THEN NewVoter(0, FALSE)
             ELSE [voters[v] EXCEPT !.staked = @ + n]
      st == [Tables EXCEPT !.voters[v] = row]
  IN IF row.producers # {} \/ row.proxy # None
     THEN UpdateVotes(st, v, row.proxy, row.producers) ELSE st

\* The stake of v changes by n, and so does its vote, if it has one.
Restaked(v, n) ==
  LET row == IF voters[v] = None THEN NewVoter(n, FALSE)
             ELSE [voters[v] EXCEPT !.staked = @ + n]
      st == [Tables EXCEPT !.voters[v] = row]
  IN IF row.producers # {} \/ row.proxy # None
     THEN UpdateVotes(st, v, row.proxy, row.producers) ELSE st

\* source pays for a stake of v; they are two only in a transferred one.
Changebw(source, v, r, delta) ==
  LET touched == TotalOf(delta) < 0 \/ (source = v /\ v = r)
      owed == TotalOf(Owed(v, delta, touched))
      st == Restaked(v, TotalOf(delta))
  IN /\ Delegate(v, r, delta)
     /\ refunds' = [refunds EXCEPT ![v] = Settled(v, delta, touched)]
     /\ deferred' = [deferred EXCEPT ![v] = Rescheduled(v, delta, touched)]
     /\ owed > 0 => CanPay(core, source, owed)
     /\ core' = IF owed > 0 THEN Paid(core, source, "eosio.stake", owed) ELSE core
     /\ st.voters[v].staked >= 0
     /\ Become(st)

Delegatebw(source, r, q, transfer) ==
  IF transfer THEN source # r /\ r \in Voters /\ Changebw(source, r, r, q)
              ELSE Changebw(source, source, r, q)

\* Nobody undelegates before enough stake has voted.
Undelegatebw(v, r, q) ==
  /\ gstate.total_activated_stake >= MinActivatedStake
  /\ voters[v] # None
  /\ Changebw(v, v, r, Minus(Nothing, q))

CanRefund(v) ==
  /\ refunds[v] # None /\ refunds[v].request_time + RefundDelay <= now
  /\ CanPay(core, "eosio.stake", TotalOf(refunds[v].amount))

Refunded(v) ==
  /\ core' = Paid(core, "eosio.stake", v, TotalOf(refunds[v].amount))
  /\ refunds' = [refunds EXCEPT ![v] = None]

Refund(v) == CanRefund(v) /\ Refunded(v) /\ UNCHANGED deferred

\* The chain takes a deferred refund that is due off its queue and runs it;
\* if it fails it is lost.
RunRefund(v) ==
  /\ deferred[v] # None /\ deferred[v] <= now
  /\ deferred' = [deferred EXCEPT ![v] = None]
  /\ IF CanRefund(v) THEN Refunded(v) ELSE UNCHANGED <<core, refunds>>

\* setalimits, by the system's account for accounts without a row.
Setalimits(r, ram, q) ==
  /\ userres[r] = None
  /\ limits' = [limits EXCEPT ![r] = [weight |-> q, ram_bytes |-> ram]]
  /\ UNCHANGED <<delband, userres>>
-----------------------------------------------------------------------------
(* Properties *)

StakedFor(v, r) == TotalOf(delband[v][r])
StakedBy(v) == SumFunction([r \in Receivers |-> StakedFor(v, r)])
StakedInAll == SumFunction([v \in Voters |-> StakedBy(v)])
PendingInAll == SumFunction([v \in Voters |-> TotalOf(Pending(v))])

\* The stake account has, to the token, what is delegated and what is on its
\* way back: however stakes, unstakes that a later stake takes back, manual
\* and deferred refunds follow one another, none is paid twice or with the
\* tokens of others (changebw, refund).  Equal as far as the system contract
\* pays; what users send there themselves comes on top.
StakesAreFunded == core["eosio.stake"] = StakedInAll + PendingInAll

\* The four records of a stake agree: what v votes with is what it has
\* delegated, also when others staked for it, what r may use is what all
\* have delegated to it, and the chain limits r to that (changebw).
DelegationsAgree ==
  /\ \A v \in Voters :
       StakedBy(v) = IF voters[v] = None THEN 0 ELSE voters[v].staked
  /\ \A r \in Receivers : \A k \in Kinds :
       Row(r).weight[k] = SumFunction([v \in Voters |-> delband[v][r][k]])
  /\ \A r \in Receivers : userres[r] # None => limits[r].weight = userres[r].weight

\* A deferred refund that is due is not lost while a refund is pending: it is
\* never early, however undelegating again, stakes that take from the refund and
\* refunds by hand have moved the two, and the tokens are there (changebw, refund).
DueRefundsPay ==
  \A v \in Voters :
    deferred[v] # None /\ deferred[v] <= now /\ refunds[v] # None => CanRefund(v)
=============================================================================
