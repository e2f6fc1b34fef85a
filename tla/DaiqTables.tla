----------------------------- MODULE DaiqTables -----------------------------
(***************************************************************************)
(* The tables of the CDP engine that most actions of the contract use:     *)
(* "stat" (CDP types), "feed" (prices) and "accounts" (balances), and the  *)
(* two balance helpers.  Source: src/Maker/daiqcontract.hpp and .cpp.      *)
(*                                                                         *)
(* A table is a function on its keys whose value is a row, or None where   *)
(* the table has no row.  A time stamp is kept as the age of its row: the  *)
(* code only ever reads now() minus a stamp.  An amount is an integer in   *)
(* units of its token, and a symbol stands for a symbol code together with *)
(* its precision.  A failed assertion reverts the whole EOSIO transaction, *)
(* notifications and inline actions included, so it is the absence of a    *)
(* step, and the order of checks inside one action is immaterial.          *)
(***************************************************************************)
EXTENDS Integers, FiniteSets, Functions

CONSTANTS
  Users,       \* accounts that hold balances, CDPs and votes
  Symbols,     \* symbols of balances; the CDP type symbols are among them
  CdpTypes,    \* symbols under which CDP types are proposed
  Tokens,      \* token contracts that notify this one of their transfers
  Self,        \* the account of this contract, _self
  IQ,          \* the governance token, IQ_SYMBOL
  IQContract,  \* its token contract, IQ_NAME
  NoName,      \* the empty name: the code of a row that "vote" created
  None,        \* no row
  MaxAmount,   \* asset::max_amount, 2^62 - 1 in the code
  FeedFresh,   \* FEED_FRESH: how old a usable price may be
  Params,      \* parameter sets that a proposal may name
  PriceSym,    \* the symbol prices are in
  Quoted,      \* the price of each symbol at the start, 0 where it has no feed
  Enacted      \* the CDP types voted in before the start

VARIABLES
  stat,  \* in scope Self the CDP types, in a proposer's scope its proposals
  feed,  \* price feeds by symbol
  acnt   \* balances by symbol, the scope of the table, and owner

Codes == Tokens \cup {Self, NoName}
Scopes == Users \cup {Self}
Amounts == -MaxAmount .. MaxAmount

\* Parameters of a CDP type, the part of a stat row that a proposal sets.
ParamType ==
  [tau: Nat, ttl: Nat, feeder: Scopes, global_ceil: Nat, debt_ceiling: Nat,
   stability_fee: Nat, beg: Nat, penalty_ratio: Nat, liquid8_ratio: Nat]

StatRow ==
  [live: BOOLEAN, par: Params, fee_balance: 0 .. MaxAmount,
   total_stablecoin: Amounts, ssym: Symbols,
   total_collateral: Amounts, csym: Symbols, contract: Tokens]

FeedRow == [total: Amounts, price: Nat, psym: Symbols, age: 0 .. FeedFresh + 1]

AccountRow == [balance: 0 .. MaxAmount, code: Codes]

ASSUME TablesAssumption ==
  /\ IsFiniteSet(Users) /\ IsFiniteSet(CdpTypes)
  /\ CdpTypes \subseteq Symbols \ {IQ} /\ IQ \in Symbols /\ IQContract \in Tokens
  /\ Self \notin Users \cup Tokens /\ NoName \notin Tokens \cup Scopes
  /\ MaxAmount \in Nat /\ FeedFresh \in Nat
  /\ Params \subseteq ParamType
  /\ None \notin StatRow \cup FeedRow \cup AccountRow
  /\ PriceSym \in Symbols /\ Quoted \in [Symbols -> Nat]
  /\ Enacted \in [CdpTypes -> StatRow \cup {None}]

TablesTypeOK ==
  /\ stat \in [Scopes -> [CdpTypes -> StatRow \cup {None}]]
  /\ feed \in [Symbols -> FeedRow \cup {None}]
  /\ acnt \in [Symbols -> [Users -> AccountRow \cup {None}]]

\* The contract once symbols have been quoted and types have been voted in.
StatInit == stat = [p \in Scopes |-> [t \in CdpTypes |->
                      IF p = Self THEN Enacted[t] ELSE None]]
FeedInit == feed = [s \in Symbols |->
  IF Quoted[s] = 0 THEN None
  ELSE [total |-> 0, price |-> Quoted[s], psym |-> PriceSym, age |-> 0]]
-----------------------------------------------------------------------------
\* asset::operator+= and -= assert that the result is in range.
InRange(n) == n \in Amounts

\* Faulty variant of CanDebit: no "overdrawn balance" assertion.
CanOverdraw(a, o, s, q) == a[s][o] # None

\* sub_balance, on a table of balances a: its assertions and its result.
CanDebit(a, o, s, q) == a[s][o] # None /\ a[s][o].balance >= q
Debit(a, o, s, q) == [a EXCEPT ![s][o].balance = @ - q]

\* add_balance: a row belongs to the token contract that first paid into it.
CanCredit(a, o, s, q, c) ==
  a[s][o] # None => a[s][o].code = c /\ InRange(a[s][o].balance + q)
Paid(row, q, c) == IF row = None THEN [balance |-> q, code |-> c]
                   ELSE [row EXCEPT !.balance = @ + q]
Credit(a, o, s, q, c) == [a EXCEPT ![s][o] = Paid(@, q, c)]

\* The collateral ratio in %, prices in cents and collateral with 4 decimals.
\* Truncates where the code divides.
Ratio(price, debt, collateral) ==
  (((price * 100) \div debt) * collateral) \div 10000

Fresh(s) == feed[s].age <= FeedFresh

\* Feed f after its amount in circulation changed by q.
Circulate(f, s, q) == [f EXCEPT ![s].total = @ + q]
CanCirculate(f, s, q) == f[s] # None /\ InRange(f[s].total + q)
-----------------------------------------------------------------------------
\* The smoothing of an existing price: integer arithmetic, kept as written.
Smoothed(old, price) == old * (17 \div 20) + (3 \div 20) * price

\* A feed after it was given a price.
Repriced(f, price, psym) ==
  IF f = None
  THEN [total |-> 0, price |-> price, psym |-> psym, age |-> 0]
  ELSE [f EXCEPT !.price = Smoothed(@, price), !.age = 0]

\* upfeed: the account of the contract may feed any symbol; the feeder of a CDP
\* type may feed its collateral, priced in its stablecoin.
Upfeed(feeder, price, psym, t, s) ==
  /\ price > 0
  /\ feeder # Self => /\ stat[Self][t] # None
                      /\ stat[Self][t].par.feeder = feeder
                      /\ stat[Self][t].ssym = psym
                      /\ stat[Self][t].csym = s
  /\ feed' = [feed EXCEPT ![s] = Repriced(@, price, psym)]
  /\ UNCHANGED <<stat, acnt>>

\* One second passes; a price older than FeedFresh only counts as stale.
OlderFeed(f) == IF f = None \/ f.age > FeedFresh THEN f
                ELSE [f EXCEPT !.age = @ + 1]
AgeFeeds == feed' = [s \in Symbols |-> OlderFeed(feed[s])]
=============================================================================
