------------------------------ MODULE StakePool ------------------------------
(***************************************************************************)
(* What staking promises, without votes, resources or deferred calls: a    *)
(* member's tokens are in its purse, staked, or on their way back, and what*)
(* is unstaked is paid to it, once, no sooner than Delay after the last    *)
(* that it unstaked.                                                       *)
(***************************************************************************)
EXTENDS Integers

CONSTANTS Members, Delay, LastDay

VARIABLES
  purse,   \* what each member has
  pool,    \* the account that keeps what is staked or on its way back
  staked,  \* for each member
  pending, \* what is on its way back to each member
  since,   \* the day on which it last unstaked, if anything is pending
  day

poolVars == <<purse, pool, staked, pending, since, day>>

PoolInit ==
  /\ purse \in [Members -> Nat]
  /\ pool = 0
  /\ staked = [v \in Members |-> 0]
  /\ pending = [v \in Members |-> 0]
  /\ since = [v \in Members |-> 0]
  /\ day = 0

\* payer stakes n for v, and takes m of it from what is on its way back if it
\* is its own.
Stake(payer, v, n, m) ==
  /\ n > 0 /\ m \in 0 .. n
  /\ pool' = pool + (n - m)
  /\ m > 0 => payer = v /\ m <= pending[v]
  /\ n - m <= purse[payer]
  /\ purse' = [purse EXCEPT ![payer] = @ - (n - m)]
  /\ staked' = [staked EXCEPT ![v] = @ + n]
  /\ pending' = [pending EXCEPT ![v] = @ - m]
  /\ since' = [since EXCEPT ![v] = IF pending[v] = m THEN 0 ELSE @]
  /\ UNCHANGED day

Unstake(v, n) ==
  /\ n \in 1 .. staked[v]
  /\ UNCHANGED <<day, pool, purse>>
  /\ staked' = [staked EXCEPT ![v] = @ - n]
  /\ pending' = [pending EXCEPT ![v] = @ + n]
  /\ since' = [since EXCEPT ![v] = day]

Pay(v) ==
  /\ pending[v] > 0 /\ since[v] + Delay <= day
  /\ purse' = [purse EXCEPT ![v] = @ + pending[v]]
  /\ pool' = pool - pending[v]
  /\ pending' = [pending EXCEPT ![v] = 0]
  /\ since' = [since EXCEPT ![v] = 0]
  /\ UNCHANGED <<staked, day>>

\* Members pay and are paid for other things.
Elsewhere ==
  /\ UNCHANGED <<day, pool, pending, since, staked>>
  /\ purse' \in [Members -> Nat]

NextDay ==
  /\ day < LastDay /\ day' = day + 1
  /\ UNCHANGED <<purse, pool, staked, pending, since>>

PoolNext ==
  \/ Elsewhere
  \/ \E v \in Members :
       \/ \E payer \in Members : \E n \in 1 .. purse[payer] + pending[v] :
            \E m \in 0 .. n : Stake(payer, v, n, m)
       \/ \E n \in 1 .. staked[v] : Unstake(v, n)
       \/ Pay(v)
  \/ NextDay

PoolSpec == PoolInit /\ [][PoolNext]_poolVars
=============================================================================
