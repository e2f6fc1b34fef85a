----------------------------- MODULE CoreToken ------------------------------
(***************************************************************************)
(* The core token as the system contract pays with it: how much each       *)
(* account has.  The token contract is modelled in SharesToken, and what   *)
(* is used of it here is the move of the Ledger that it implements.  An    *)
(* inline transfer runs after its action and reverts it when it fails.     *)
(* A transfer of a user's own is not a step: made to an account of the     *)
(* system it would leave a surplus there, which nothing takes off.         *)
(* Source: src/decentralbank.system/eosio.token.cpp.                       *)
(***************************************************************************)
EXTENDS Integers, FiniteSets, Functions

CONSTANTS
  Users,   \* the accounts that are not the system's
  None,    \* no row, or an empty name
  Genesis, \* what each user has at the start
  MaxDay   \* the bound of the clock

\* The accounts of the system contract (eosio.system.hpp).
SystemAccounts == {"eosio", "eosio.stake", "eosio.ram", "eosio.ramfee",
                   "eosio.names", "eosio.bpay", "eosio.vpay", "eosio.saving"}
Accounts == Users \cup SystemAccounts

ASSUME CoreAssumption ==
  /\ IsFiniteSet(Users) /\ Users \cap SystemAccounts = {}
  /\ None \notin Accounts
  /\ Genesis \in [Users -> Nat]
  /\ MaxDay \in Nat

VARIABLES
  core, \* the balance of each account
  now   \* the day, to which all time stamps are kept

CoreInit ==
  /\ core = [a \in Accounts |-> IF a \in Users THEN Genesis[a] ELSE 0]
  /\ now = 0

CanPay(m, a, n) == n > 0 /\ n <= m[a]
Paid(m, a, b, n) == [m EXCEPT ![a] = @ - n, ![b] = @ + n]

AtLeast0(n) == IF n < 0 THEN 0 ELSE n
=============================================================================
