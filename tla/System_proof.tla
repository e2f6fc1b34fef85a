---------------------------- MODULE System_proof ---------------------------
(***************************************************************************)
(* The system contract, in every state: the stakes are funded, the records *)
(* of a stake agree, RAM and the bids on names are accounted for, no chain *)
(* of proxies closes, the tallies of votes and of shares are the sums of   *)
(* the rows, votes are backed by stakes, the buckets of the pay are funded,*)
(* and every value is of its type.  No trade lowers the product of the     *)
(* market of RAM, and staking implements StakePool.                        *)
(***************************************************************************)
EXTENDS SystemContract, Voting_proof
-----------------------------------------------------------------------------
(***************************************************************************)
(* Amounts of net and cpu, payments of the core token, and sums.           *)
(***************************************************************************)
AnyAmounts == [Kinds -> Int]

LEMMA AmountsAre ==
  /\ Amounts \subseteq AnyAmounts /\ Nothing \in Amounts
  /\ Nothing["net"] = 0 /\ Nothing["cpu"] = 0 /\ TotalOf(Nothing) = 0
  /\ \A q \in AnyAmounts : /\ q["net"] \in Int /\ q["cpu"] \in Int /\ TotalOf(q) \in Int
                           /\ (q["net"] = 0 /\ q["cpu"] = 0) => q = Nothing
  /\ \A q \in Amounts : /\ q["net"] \in Nat /\ q["cpu"] \in Nat /\ TotalOf(q) \in Nat
                        /\ q # Nothing => TotalOf(q) > 0
<1>1. Amounts \subseteq AnyAmounts /\ Nothing \in Amounts BY DEF Amounts, AnyAmounts, Nothing
<1>2. Nothing["net"] = 0 /\ Nothing["cpu"] = 0 /\ TotalOf(Nothing) = 0
  BY DEF Nothing, Kinds, TotalOf
<1>3. ASSUME NEW q \in AnyAmounts
      PROVE  /\ q["net"] \in Int /\ q["cpu"] \in Int /\ TotalOf(q) \in Int
             /\ (q["net"] = 0 /\ q["cpu"] = 0) => q = Nothing
  <2>1. q["net"] \in Int /\ q["cpu"] \in Int BY <1>3 DEF AnyAmounts, Kinds
  <2>2. (q["net"] = 0 /\ q["cpu"] = 0) => q = Nothing BY <1>3 DEF AnyAmounts, Kinds, Nothing
  <2> QED BY <2>1, <2>2 DEF TotalOf
<1>4. ASSUME NEW q \in Amounts
      PROVE  /\ q["net"] \in Nat /\ q["cpu"] \in Nat /\ TotalOf(q) \in Nat
             /\ q # Nothing => TotalOf(q) > 0
  <2>1. q["net"] \in Nat /\ q["cpu"] \in Nat BY <1>4 DEF Amounts, Kinds
  <2>2. (q["net"] = 0 /\ q["cpu"] = 0) => q = Nothing BY <1>1, <1>3, <1>4
  <2> QED BY <2>1, <2>2 DEF TotalOf
<1> QED BY <1>1, <1>2, <1>3, <1>4

LEMMA AmountOps ==
  ASSUME NEW q \in AnyAmounts, NEW r \in AnyAmounts
  PROVE  /\ Plus(q, r) \in AnyAmounts /\ Minus(q, r) \in AnyAmounts
         /\ Floored(q) \in Amounts
         /\ \A k \in Kinds : /\ Plus(q, r)[k] = q[k] + r[k] /\ Minus(q, r)[k] = q[k] - r[k]
                             /\ Floored(q)[k] = AtLeast0(q[k])
         /\ TotalOf(Plus(q, r)) = TotalOf(q) + TotalOf(r)
         /\ TotalOf(Minus(q, r)) = TotalOf(q) - TotalOf(r)
         /\ (q["net"] >= 0 /\ q["cpu"] >= 0) => TotalOf(Floored(q)) = TotalOf(q)
<1>1. /\ q["net"] \in Int /\ q["cpu"] \in Int /\ r["net"] \in Int /\ r["cpu"] \in Int
      /\ \A k \in Kinds : q[k] \in Int /\ r[k] \in Int
  BY AmountsAre DEF AnyAmounts
<1>2. Plus(q, r) \in AnyAmounts /\ Minus(q, r) \in AnyAmounts
  BY <1>1 DEF Plus, Minus, AnyAmounts
<1>3. Floored(q) \in Amounts BY <1>1, AtLeast0Nat DEF Floored, Amounts
<1>4. \A k \in Kinds : /\ Plus(q, r)[k] = q[k] + r[k] /\ Minus(q, r)[k] = q[k] - r[k]
                       /\ Floored(q)[k] = AtLeast0(q[k])
  BY DEF Plus, Minus, Floored
<1>5. "net" \in Kinds /\ "cpu" \in Kinds BY DEF Kinds
<1> QED BY <1>1, <1>2, <1>3, <1>4, <1>5, AtLeast0Nat DEF TotalOf

\* What a stake takes from a pending refund is what it does not cost.
LEMMA FlooredDifference ==
  ASSUME NEW q \in AnyAmounts, NEW r \in AnyAmounts
  PROVE  TotalOf(Floored(Minus(q, r))) - TotalOf(Floored(Minus(r, q))) = TotalOf(q) - TotalOf(r)
<1>1. \A a, b \in Int : AtLeast0(a - b) - AtLeast0(b - a) = a - b BY DEF AtLeast0
<1>2. /\ q["net"] \in Int /\ q["cpu"] \in Int /\ r["net"] \in Int /\ r["cpu"] \in Int
  BY AmountsAre
<1>3. \A a, b \in Int : AtLeast0(a - b) \in Int BY DEF AtLeast0
<1>4. "net" \in Kinds /\ "cpu" \in Kinds BY DEF Kinds
<1>5. /\ Floored(Minus(q, r))["net"] = AtLeast0(q["net"] - r["net"])
      /\ Floored(Minus(q, r))["cpu"] = AtLeast0(q["cpu"] - r["cpu"])
      /\ Floored(Minus(r, q))["net"] = AtLeast0(r["net"] - q["net"])
      /\ Floored(Minus(r, q))["cpu"] = AtLeast0(r["cpu"] - q["cpu"])
  BY <1>4 DEF Floored, Minus
<1>6. /\ AtLeast0(q["net"] - r["net"]) - AtLeast0(r["net"] - q["net"]) = q["net"] - r["net"]
      /\ AtLeast0(q["cpu"] - r["cpu"]) - AtLeast0(r["cpu"] - q["cpu"]) = q["cpu"] - r["cpu"]
  BY <1>1, <1>2
<1>7. /\ AtLeast0(q["net"] - r["net"]) \in Int /\ AtLeast0(r["net"] - q["net"]) \in Int
      /\ AtLeast0(q["cpu"] - r["cpu"]) \in Int /\ AtLeast0(r["cpu"] - q["cpu"]) \in Int
  BY <1>2, <1>3
<1>8. \A a, b, c, d, w, x, y, z \in Int :
        (a - b = w - x /\ c - d = y - z) => (a + c) - (b + d) = (w + y) - (x + z)
  OBVIOUS
<1> QED BY <1>2, <1>5, <1>6, <1>7, <1>8 DEF TotalOf

\* A balance of each account; the theorems need numbers of three only.
Kept == {"eosio.stake", "eosio.ram", "eosio.names"}
Book(m) == m = [a \in Accounts |-> m[a]] /\ \A a \in Kept : m[a] \in Int

LEMMA AccountsAre ==
  /\ Kept \subseteq Accounts /\ Users \subseteq Accounts
  /\ "eosio.ramfee" \in Accounts /\ "eosio.bpay" \in Accounts /\ "eosio.vpay" \in Accounts
  /\ "eosio.saving" \in Accounts
  /\ Kept \cap Users = {} /\ "eosio.ramfee" \notin Users
  /\ Voters \subseteq Users /\ Candidates \subseteq Users /\ Bidders \subseteq Users
BY CoreAssumption, VotingAssumption, NameAssumption DEF Kept, Accounts, SystemAccounts

\* A payment between two accounts.
LEMMA PaidIs ==
  ASSUME NEW m, m = [x \in Accounts |-> m[x]], NEW a \in Accounts, NEW b \in Accounts, a # b, NEW n
  PROVE  /\ Paid(m, a, b, n) = [x \in Accounts |-> Paid(m, a, b, n)[x]]
         /\ Paid(m, a, b, n)[a] = m[a] - n /\ Paid(m, a, b, n)[b] = m[b] + n
         /\ \A x \in Accounts : (x # a /\ x # b) => Paid(m, a, b, n)[x] = m[x]
BY DEF Paid

LEMMA BookPaid ==
  ASSUME NEW m, Book(m), NEW a \in Accounts, NEW b \in Accounts, a # b, NEW n \in Int
  PROVE  /\ Book(Paid(m, a, b, n))
         /\ \A x \in Kept : Paid(m, a, b, n)[x] =
              IF x = a THEN m[x] - n ELSE IF x = b THEN m[x] + n ELSE m[x]
<1> DEFINE mm == Paid(m, a, b, n)
<1>1. /\ mm = [x \in Accounts |-> mm[x]] /\ mm[a] = m[a] - n /\ mm[b] = m[b] + n
      /\ \A x \in Accounts : (x # a /\ x # b) => mm[x] = m[x]
  BY PaidIs DEF Book
<1> HIDE DEF mm
<1>2. \A x \in Kept : mm[x] = IF x = a THEN m[x] - n ELSE IF x = b THEN m[x] + n ELSE m[x]
  BY <1>1, AccountsAre
<1>3. \A x \in Kept : mm[x] \in Int BY <1>2 DEF Book
<1> QED BY <1>1, <1>2, <1>3 DEF Book, mm

\* The numbers of the three accounts.
LEMMA KeptAre ==
  ASSUME NEW m, Book(m)
  PROVE  /\ m["eosio.stake"] \in Int /\ m["eosio.ram"] \in Int /\ m["eosio.names"] \in Int
         /\ "eosio.stake" \in Kept /\ "eosio.ram" \in Kept /\ "eosio.names" \in Kept
BY DEF Book, Kept

\* One row is written: the sum changes by the difference.
LEMMA SumWritten ==
  ASSUME NEW S, IsFiniteSet(S), NEW f, NEW g, DOMAIN f = S, DOMAIN g = S, NEW a \in S,
         \A x \in S : f[x] \in Int /\ g[x] \in Int,
         \A x \in S : x # a => g[x] = f[x]
  PROVE  /\ SumFunction(f) \in Int /\ SumFunction(g) \in Int
         /\ SumFunction(g) = SumFunction(f) - f[a] + g[a]
<1>1. \A x \in S \ {a} : g[x] = f[x] OBVIOUS
<1>2. SumFunctionOnSet(g, S) = SumFunctionOnSet(f, S) - f[a] + g[a] BY <1>1, SumUpdate
<1>3. SumFunctionOnSet(f, S) \in Int /\ SumFunctionOnSet(g, S) \in Int BY SumInt
<1> QED BY <1>2, <1>3 DEF SumFunction

-----------------------------------------------------------------------------
(***************************************************************************)
(* The inductive invariant, by the parts of the contract.                  *)
(***************************************************************************)
StakesOK ==
  /\ delband \in [Voters -> [Receivers -> Amounts]]
  /\ refunds \in [Voters -> RefundRow \cup {None}]
  /\ StakesAreFunded
DelegatedOK ==
  /\ userres \in [Receivers -> Resources \cup {None}]
  /\ limits \in [Receivers -> Limits]
  /\ DelegationsAgree
\* newaccount overwrites the row of the account: there was none.
RowsOK == \A r \in Receivers : r \notin Users \cup created => userres[r] = None
MarketOK == ram \in RamMarketState /\ RamIsAccounted
NamesOK ==
  /\ bids \in [Names -> BidRow \cup {None}]
  /\ bidrefunds \in [Names -> [Bidders -> Nat]]
  /\ bidcalls \subseteq Names \X Bidders
  /\ BidsAreFunded

SystemInv ==
  Book(core) /\ VotersOK /\ StakesOK /\ DelegatedOK /\ RowsOK /\ MarketOK /\ NamesOK

\* The stake of a voter, as the invariant on delegations says it.
LEMMA StakeInIs ==
  DelegationsAgree <=>
    /\ \A v \in Voters : StakedBy(v) = StakeIn(voters[v])
    /\ \A r \in Receivers : \A k \in Kinds :
         Row(r).weight[k] = SumFunction([v \in Voters |-> delband[v][r][k]])
    /\ \A r \in Receivers : userres[r] # None => limits[r].weight = userres[r].weight
BY DEF DelegationsAgree, StakeIn

LEMMA NoNoneRow == None \notin Resources /\ None \notin RefundRow /\ None \notin BidRow
<1>1. Resources \subseteq [weight: [Kinds -> Int], ram_bytes: Int] BY DEF Resources, Amounts
<1>2. RefundRow \subseteq [amount: [Kinds -> Int], request_time: Int]
  BY DEF RefundRow, Amounts
<1> QED BY <1>1, <1>2, StakingAssumption, NameAssumption DEF BidRow

LEMMA RowIs ==
  ASSUME userres \in [Receivers -> Resources \cup {None}], NEW r \in Receivers
  PROVE  /\ Row(r) \in Resources /\ Row(r).weight \in Amounts /\ Row(r).ram_bytes \in Nat
         /\ Row(r) = [weight |-> Row(r).weight, ram_bytes |-> Row(r).ram_bytes]
<1>1. NoResources \in Resources BY AmountsAre DEF NoResources, Resources
<1>2. Row(r) \in Resources BY <1>1 DEF Row
<1> HIDE DEF Row
<1> QED BY <1>2 DEF Resources

LEMMA PendingIs ==
  ASSUME refunds \in [Voters -> RefundRow \cup {None}], NEW v \in Voters
  PROVE  Pending(v) \in Amounts /\ TotalOf(Pending(v)) \in Nat
<1>1. Pending(v) \in Amounts BY AmountsAre DEF Pending, RefundRow
<1> QED BY <1>1, AmountsAre

LEMMA VotersFrame ==
  ASSUME VotersOK, UNCHANGED <<now, votingVars>>
  PROVE  VotersOK'
<1>1. Tables' = Tables /\ now' = now /\ voters' = voters BY DEF votingVars, Tables
<1>2. Good(Tables)' BY <1>1 DEF VotersOK, Good, Linked
<1> QED BY <1>1, <1>2 DEF VotersOK

LEMMA StakesFrame ==
  ASSUME StakesOK, UNCHANGED <<delband, refunds>>, core'["eosio.stake"] = core["eosio.stake"]
  PROVE  StakesOK'
BY DEF StakesOK, StakesAreFunded, StakedInAll, PendingInAll, StakedBy, StakedFor, Pending

LEMMA DelegatedFrame ==
  ASSUME DelegatedOK, UNCHANGED <<delband, userres, limits>>,
         \A v \in Voters : StakeIn(voters'[v]) = StakeIn(voters[v])
  PROVE  DelegatedOK'
<1>1. \A v \in Voters : StakedBy(v)' = StakeIn(voters[v])
  BY StakeInIs DEF DelegatedOK, StakedBy, StakedFor
<1>2. \A r \in Receivers : Row(r)' = Row(r) BY DEF Row
<1>3. DelegationsAgree'
  <2>1. \A v \in Voters : StakedBy(v)' = IF voters'[v] = None THEN 0 ELSE voters'[v].staked
    BY <1>1 DEF StakeIn
  <2> QED BY <1>2, <2>1 DEF DelegatedOK, DelegationsAgree
<1> QED BY <1>3 DEF DelegatedOK

LEMMA RowsFrame ==
  ASSUME RowsOK, UNCHANGED userres, created \subseteq created'
  PROVE  RowsOK'
BY DEF RowsOK

LEMMA MarketFrame ==
  ASSUME MarketOK, UNCHANGED ram, core'["eosio.ram"] = core["eosio.ram"],
         \A r \in Receivers : Row(r)'.ram_bytes = Row(r).ram_bytes
  PROVE  MarketOK'
<1>1. [r \in Receivers |-> Row(r).ram_bytes]' = [r \in Receivers |-> Row(r).ram_bytes]
  OBVIOUS
<1> QED BY <1>1 DEF MarketOK, RamIsAccounted

LEMMA RowsSame ==
  ASSUME UNCHANGED userres
  PROVE  \A r \in Receivers : Row(r)'.ram_bytes = Row(r).ram_bytes /\ Row(r)' = Row(r)
BY DEF Row

LEMMA NamesFrame ==
  ASSUME NamesOK, UNCHANGED <<bids, bidrefunds>>, bidcalls' \subseteq Names \X Bidders,
         core'["eosio.names"] = core["eosio.names"]
  PROVE  NamesOK'
BY DEF NamesOK, BidsAreFunded, BidOn, OwedOf
-----------------------------------------------------------------------------
LEMMA InitInv == Init => SystemInv
<1> SUFFICES ASSUME Init PROVE SystemInv
  OBVIOUS
<1>0. /\ CoreInit /\ VotingInit /\ StakingInit /\ RamInit /\ NameInit /\ PayInit
  BY DEF Init
<1>1. Book(core) /\ \A a \in Kept : core[a] = 0
  <2>1. /\ core = [a \in Accounts |-> IF a \in Users THEN Genesis[a] ELSE 0]
    BY <1>0 DEF CoreInit
  <2> QED BY <2>1, AccountsAre DEF Book
<1>2. core["eosio.stake"] = 0 /\ core["eosio.ram"] = 0 /\ core["eosio.names"] = 0
  BY <1>1 DEF Kept
<1>3. VotersOK
  <2>1. /\ producers = [p \in Candidates |-> None] /\ voters = [v \in Voters |-> None]
        /\ gstate \in AnyGlobal /\ now = 0
    BY <1>0 DEF VotingInit, AnyGlobal, CoreInit
  <2>2. producers \in ProducerTable /\ voters \in VoterTable /\ Linked(Tables)
    BY <2>1 DEF ProducerTable, VoterTable, Linked, Tables
  <2>3. ProxyRule(voters) /\ NoLoop(voters)
    <3>1. \A v \in Voters : voters[v] = None BY <2>1
    <3>2. Led(voters) = {} BY <3>1 DEF Led
    <3>3. \A S : S \subseteq {} => S = {} OBVIOUS
    <3>4. NoLoop(voters)
      <4>1. ASSUME NEW S \in (SUBSET Led(voters)) \ {{}}
            PROVE  \E v \in S : voters[v].proxy \notin S
        <5>1. S \subseteq {} /\ S # {} BY <3>2, <4>1
        <5> QED BY <3>3, <5>1
      <4> QED BY <4>1 DEF NoLoop
    <3> QED BY <3>1, <3>4 DEF ProxyRule
  <2> QED BY <2>1, <2>2, <2>3, CoreAssumption, VotersParts DEF VotersOK
<1>4. /\ delband = [v \in Voters |-> [r \in Receivers |-> Nothing]]
      /\ userres = [r \in Receivers |-> None]
      /\ limits = [r \in Receivers |-> [weight |-> Nothing, ram_bytes |-> 0]]
      /\ refunds = [v \in Voters |-> None]
  BY <1>0 DEF StakingInit
<1>5. \A v \in Voters : StakedBy(v) = 0
  <2> TAKE v \in Voters
  <2> DEFINE f == [r \in Receivers |-> StakedFor(v, r)]
  <2>1. DOMAIN f = Receivers /\ \A r \in Receivers : f[r] = 0
    BY <1>4, AmountsAre DEF StakedFor
  <2> HIDE DEF f
  <2>2. SumFunction(f) = 0 BY <2>1, SumZero, StakingAssumption DEF SumFunction
  <2> QED BY <2>2 DEF StakedBy, f
<1>6. StakedInAll = 0 /\ PendingInAll = 0
  <2> DEFINE f == [v \in Voters |-> StakedBy(v)]   g == [v \in Voters |-> TotalOf(Pending(v))]
  <2>1. DOMAIN f = Voters /\ \A v \in Voters : f[v] = 0 BY <1>5
  <2>2. DOMAIN g = Voters /\ \A v \in Voters : g[v] = 0 BY <1>4, AmountsAre DEF Pending
  <2> HIDE DEF f, g
  <2>3. SumFunction(f) = 0 /\ SumFunction(g) = 0
    BY <2>1, <2>2, SumZero, VotersFinite DEF SumFunction
  <2> QED BY <2>3 DEF StakedInAll, PendingInAll, f, g
<1>7. StakesOK BY <1>2, <1>4, <1>6, AmountsAre DEF StakesOK, StakesAreFunded
<1>8. \A r \in Receivers : Row(r) = NoResources BY <1>4 DEF Row
<1>9. DelegatedOK
  <2>1. \A r \in Receivers, k \in Kinds :
          Row(r).weight[k] = SumFunction([v \in Voters |-> delband[v][r][k]])
    <3> TAKE r \in Receivers, k \in Kinds
    <3> DEFINE f == [v \in Voters |-> delband[v][r][k]]
    <3>1. DOMAIN f = Voters /\ \A v \in Voters : f[v] = 0 BY <1>4 DEF Nothing
    <3> HIDE DEF f
    <3>2. SumFunction(f) = 0 BY <3>1, SumZero, VotersFinite DEF SumFunction
    <3>3. Row(r).weight[k] = 0 BY <1>8 DEF NoResources, Nothing
    <3> QED BY <3>2, <3>3 DEF f
  <2>2. \A v \in Voters : StakeIn(voters[v]) = 0 BY <1>0 DEF StakeIn, VotingInit
  <2>3. DelegationsAgree BY <1>4, <1>5, <2>1, <2>2, StakeInIs
  <2>4. limits \in [Receivers -> Limits] BY <1>4, AmountsAre DEF Limits
  <2> QED BY <1>4, <2>3, <2>4 DEF DelegatedOK
<1>10. RowsOK BY <1>4 DEF RowsOK
<1>11. MarketOK
  <2>1. /\ ram \in RamMarketState /\ ram.base = FreeRam /\ ram.max_ram_size = FreeRam
        /\ ram.total_ram_bytes_reserved = 0 /\ ram.total_ram_stake = 0 /\ ram.quote = RamQuote
    BY <1>0, RamAssumption, CoreAssumption DEF RamInit, RamMarketState
  <2> DEFINE f == [r \in Receivers |-> Row(r).ram_bytes]
  <2>2. DOMAIN f = Receivers /\ \A r \in Receivers : f[r] = 0 BY <1>8 DEF NoResources
  <2> HIDE DEF f
  <2>3. SumFunction(f) = 0 BY <2>2, SumZero, StakingAssumption DEF SumFunction
  <2> QED BY <1>2, <2>1, <2>3, RamAssumption DEF MarketOK, RamIsAccounted, f
<1>12. NamesOK
  <2>1. /\ bids = [n \in Names |-> None] /\ bidcalls = {}
        /\ bidrefunds = [n \in Names |-> [b \in Bidders |-> 0]]
    BY <1>0 DEF NameInit
  <2>2. ASSUME NEW n \in Names PROVE OwedOf(n) = 0
    <3> DEFINE f == bidrefunds[n]
    <3>1. DOMAIN f = Bidders /\ \A b \in Bidders : f[b] = 0 BY <2>1
    <3>2. IsFiniteSet(Bidders) BY NameAssumption, CoreAssumption, FS_Subset
    <3> HIDE DEF f
    <3>3. SumFunction(f) = 0 BY <3>1, <3>2, SumZero DEF SumFunction
    <3> QED BY <3>3 DEF OwedOf, f
  <2> DEFINE g == [n \in Names |-> BidOn(n) + OwedOf(n)]
  <2>3. DOMAIN g = Names /\ \A n \in Names : g[n] = 0 BY <2>1, <2>2 DEF BidOn
  <2> HIDE DEF g
  <2>4. SumFunction(g) = 0 BY <2>3, SumZero, NameAssumption DEF SumFunction
  <2> QED BY <1>2, <2>1, <2>4 DEF NamesOK, BidsAreFunded, g
<1> QED BY <1>1, <1>3, <1>7, <1>9, <1>10, <1>11, <1>12 DEF SystemInv

-----------------------------------------------------------------------------
(***************************************************************************)
(* Each action keeps the invariant.  Votes, names, accounts and blocks.    *)
(***************************************************************************)
LEMMA VotingInv ==
  ASSUME SystemInv, VotingOnly
  PROVE  SystemInv'
<1>1. /\ VotingStep
      /\ UNCHANGED <<core, now, delband, userres, limits, refunds, deferred, ram,
                     bids, bidrefunds, bidcalls, created>>
  BY DEF VotingOnly, stakingVars, nameVars
<1>2. Voted BY <1>1, VotingKeeps DEF SystemInv
<1>3. VotersOK' BY <1>1, <1>2 DEF Voted, VotersOK, SystemInv
<1>4. StakesOK' BY <1>1, StakesFrame DEF SystemInv
<1>5. DelegatedOK' BY <1>1, <1>2, DelegatedFrame DEF SystemInv, Voted
<1>6. RowsOK' BY <1>1, RowsFrame DEF SystemInv
<1>7. MarketOK' BY <1>1, MarketFrame, RowsSame DEF SystemInv
<1>8. NamesOK' BY <1>1, NamesFrame DEF SystemInv, NamesOK
<1>9. Book(core)' BY <1>1 DEF SystemInv, Book
<1> QED BY <1>3, <1>4, <1>5, <1>6, <1>7, <1>8, <1>9 DEF SystemInv

\* What the names account owes of one auction changes.
LEMMA NamesWritten ==
  ASSUME NamesOK, NEW n \in Names,
         bids' \in [Names -> BidRow \cup {None}], bidrefunds' \in [Names -> [Bidders -> Nat]],
         bidcalls' \subseteq Names \X Bidders,
         \A m \in Names : m # n => bids'[m] = bids[m] /\ bidrefunds'[m] = bidrefunds[m],
         core["eosio.names"] \in Int, core'["eosio.names"] \in Int,
         BidOn(n)' + OwedOf(n)' - BidOn(n) - OwedOf(n)
           <= core'["eosio.names"] - core["eosio.names"]
  PROVE  NamesOK'
<1> DEFINE f == [m \in Names |-> BidOn(m) + OwedOf(m)]
           g == [m \in Names |-> BidOn(m)' + OwedOf(m)']
<1>1. \A m \in Names : BidOn(m) \in Int /\ OwedOf(m) \in Int
  <2> TAKE m \in Names
  <2>1. BidOn(m) \in Int BY DEF NamesOK, BidOn, BidRow
  <2>2. bidrefunds[m] \in [Bidders -> Nat] /\ IsFiniteSet(Bidders)
    BY NameAssumption, CoreAssumption, FS_Subset DEF NamesOK
  <2>3. OwedOf(m) \in Int BY <2>2, SumInt DEF OwedOf, SumFunction
  <2> QED BY <2>1, <2>3
<1>2. \A m \in Names : BidOn(m)' \in Int /\ OwedOf(m)' \in Int
  <2> TAKE m \in Names
  <2>1. BidOn(m)' \in Int BY DEF BidOn, BidRow
  <2>2. bidrefunds'[m] \in [Bidders -> Nat] /\ IsFiniteSet(Bidders)
    BY NameAssumption, CoreAssumption, FS_Subset
  <2>3. OwedOf(m)' \in Int BY <2>2, SumInt DEF OwedOf, SumFunction
  <2> QED BY <2>1, <2>3
<1>3. \A m \in Names : m # n => BidOn(m)' = BidOn(m) /\ OwedOf(m)' = OwedOf(m)
  BY DEF BidOn, OwedOf
<1>4. /\ DOMAIN f = Names /\ DOMAIN g = Names
      /\ \A m \in Names : f[m] \in Int /\ g[m] \in Int
      /\ \A m \in Names : m # n => g[m] = f[m]
  BY <1>1, <1>2, <1>3
<1>5. /\ SumFunction(f) \in Int /\ SumFunction(g) \in Int
      /\ SumFunction(g) = SumFunction(f) - f[n] + g[n]
  <2> HIDE DEF f, g
  <2> QED BY <1>4, SumWritten, NameAssumption
<1>6. core["eosio.names"] >= SumFunction(f) BY DEF NamesOK, BidsAreFunded
<1>7. f[n] = BidOn(n) + OwedOf(n) /\ g[n] = BidOn(n)' + OwedOf(n)' OBVIOUS
<1> HIDE DEF f, g
<1>8. core'["eosio.names"] >= SumFunction(g) BY <1>1, <1>2, <1>5, <1>6, <1>7
<1>9. BidsAreFunded' BY <1>8 DEF BidsAreFunded, g
<1> QED BY <1>9 DEF NamesOK

\* The refund of one bidder is written.
LEMMA OwedWritten ==
  ASSUME NamesOK, NEW n \in Names, NEW b \in Bidders, NEW r \in Nat,
         bidrefunds' = [bidrefunds EXCEPT ![n][b] = r]
  PROVE  /\ bidrefunds' \in [Names -> [Bidders -> Nat]]
         /\ \A m \in Names : m # n => bidrefunds'[m] = bidrefunds[m]
         /\ OwedOf(n) \in Int /\ OwedOf(n)' = OwedOf(n) - bidrefunds[n][b] + r
<1> DEFINE f == bidrefunds[n]   g == bidrefunds'[n]
<1>1. bidrefunds \in [Names -> [Bidders -> Nat]] BY DEF NamesOK
<1>2. /\ bidrefunds' \in [Names -> [Bidders -> Nat]]
      /\ \A m \in Names : m # n => bidrefunds'[m] = bidrefunds[m]
      /\ g[b] = r /\ \A x \in Bidders : x # b => g[x] = f[x]
  BY <1>1
<1>3. /\ DOMAIN f = Bidders /\ DOMAIN g = Bidders
      /\ \A x \in Bidders : f[x] \in Int /\ g[x] \in Int
  BY <1>1, <1>2
<1>4. IsFiniteSet(Bidders) BY NameAssumption, CoreAssumption, FS_Subset
<1>5. OwedOf(n) = SumFunction(f) /\ OwedOf(n)' = SumFunction(g) BY DEF OwedOf
<1> HIDE DEF f, g
<1>6. SumFunction(f) \in Int /\ SumFunction(g) = SumFunction(f) - f[b] + g[b]
  BY <1>2, <1>3, <1>4, SumWritten
<1> QED BY <1>2, <1>5, <1>6 DEF f

LEMMA BidnameInv ==
  ASSUME SystemInv, NEW n \in Names, NEW b \in Bidders, NEW amount \in BidQty,
         Bidname(b, n, amount), UNCHANGED <<now, votingVars, stakingVars, ram, payVars>>
  PROVE  SystemInv'
<1>1. /\ UNCHANGED <<now, votingVars, delband, userres, limits, refunds, deferred, ram, created>>
      /\ core' = Paid(core, b, "eosio.names", amount)
      /\ bids' = [bids EXCEPT ![n] =
                    [high_bidder |-> b, high_bid |-> amount, last_bid_time |-> now]]
  BY DEF Bidname, stakingVars
<1>2. /\ b \in Accounts /\ b \notin Kept /\ "eosio.names" \in Accounts /\ amount \in Nat \ {0}
      /\ "eosio.names" \in Kept /\ now \in 0 .. MaxDay
  BY AccountsAre, NameAssumption DEF Kept, SystemInv, VotersOK
<1>3. /\ Book(core)' /\ core'["eosio.stake"] = core["eosio.stake"]
      /\ core'["eosio.ram"] = core["eosio.ram"]
      /\ core'["eosio.names"] = core["eosio.names"] + amount
  <2>1. Book(core) /\ b # "eosio.names" /\ b # "eosio.stake" /\ b # "eosio.ram"
    BY <1>2 DEF SystemInv, Kept
  <2>2. "eosio.stake" \in Kept /\ "eosio.ram" \in Kept BY <2>1, KeptAre
  <2> QED BY <1>1, <1>2, <2>1, <2>2, BookPaid
<1>4. bids \in [Names -> BidRow \cup {None}] /\ None \notin BidRow
  BY NoNoneRow DEF SystemInv, NamesOK
<1>5. /\ bids' \in [Names -> BidRow \cup {None}] /\ BidOn(n)' = amount
      /\ \A m \in Names : m # n => bids'[m] = bids[m]
  <2>1. [high_bidder |-> b, high_bid |-> amount, last_bid_time |-> now] \in BidRow
    BY <1>2 DEF BidRow
  <2> QED BY <1>1, <1>2, <1>4, <2>1 DEF BidOn
<1>6. NamesOK'
  <2>1. CASE bids[n] = None /\ UNCHANGED <<bidrefunds, bidcalls>>
    <3>1. OwedOf(n)' = OwedOf(n) /\ OwedOf(n) \in Int
      <4>1. bidrefunds[n] \in [Bidders -> Nat] /\ IsFiniteSet(Bidders)
        BY NameAssumption, CoreAssumption, FS_Subset DEF SystemInv, NamesOK
      <4>2. OwedOf(n) \in Int BY <4>1, SumInt DEF OwedOf, SumFunction
      <4> QED BY <2>1, <4>2 DEF OwedOf
    <3>2. BidOn(n) = 0 BY <2>1 DEF BidOn
    <3>3. BidOn(n)' + OwedOf(n)' - BidOn(n) - OwedOf(n)
            <= core'["eosio.names"] - core["eosio.names"]
      BY <1>2, <1>3, <1>5, <3>1, <3>2 DEF SystemInv, Book
    <3> QED BY <1>2, <1>3, <1>5, <2>1, <3>3, NamesWritten DEF SystemInv, NamesOK, Book
  <2>2. CASE /\ bids[n] # None /\ bids[n].high_bid > 0
             /\ bidrefunds' = Owing(n, bids[n].high_bidder, bids[n].high_bid)
             /\ bidcalls' = Called(n, bids[n].high_bidder)
    <3> DEFINE h == bids[n].high_bidder   r == bidrefunds[n][h] + bids[n].high_bid
    <3>1. h \in Bidders /\ bids[n].high_bid \in Int /\ bids[n].high_bid > 0
      BY <1>4, <2>2 DEF BidRow
    <3>2. bidrefunds[n][h] \in Nat BY <3>1 DEF SystemInv, NamesOK
    <3>3. r \in Nat /\ bidrefunds' = [bidrefunds EXCEPT ![n][h] = r]
      BY <2>2, <3>1, <3>2 DEF Owing
    <3>4. /\ bidrefunds' \in [Names -> [Bidders -> Nat]]
          /\ \A m \in Names : m # n => bidrefunds'[m] = bidrefunds[m]
          /\ OwedOf(n) \in Int /\ OwedOf(n)' = OwedOf(n) - bidrefunds[n][h] + r
      <4> HIDE DEF r, h
      <4> QED BY <3>1, <3>3, OwedWritten DEF SystemInv
    <3>5. BidOn(n) = bids[n].high_bid BY <2>2, <3>1 DEF BidOn
    <3>6. BidOn(n)' + OwedOf(n)' - BidOn(n) - OwedOf(n)
            <= core'["eosio.names"] - core["eosio.names"]
      <4>1. core["eosio.names"] \in Int BY KeptAre DEF SystemInv
      <4> QED BY <1>2, <1>3, <1>5, <3>1, <3>2, <3>4, <3>5, <4>1
    <3>7. bidcalls' \subseteq Names \X Bidders BY <2>2, <3>1 DEF Called, SystemInv, NamesOK
    <3> HIDE DEF r, h
    <3> QED BY <1>2, <1>3, <1>5, <3>4, <3>6, <3>7, NamesWritten DEF SystemInv, Book
  <2> QED BY <2>1, <2>2 DEF Bidname
<1>7. VotersOK' /\ StakesOK' BY <1>1, <1>3, VotersFrame, StakesFrame DEF SystemInv
<1>8. DelegatedOK' BY <1>1, DelegatedFrame DEF SystemInv, votingVars
<1>9. RowsOK' BY <1>1, RowsFrame DEF SystemInv
<1>10. MarketOK' BY <1>1, <1>3, MarketFrame, RowsSame DEF SystemInv
<1> QED BY <1>3, <1>6, <1>7, <1>8, <1>9, <1>10 DEF SystemInv

\* A refund is paid, by hand or by the deferred call, or nothing is.
LEMMA BidRefundedInv ==
  ASSUME SystemInv, NEW n \in Names, NEW b \in Bidders,
         UNCHANGED <<now, votingVars, delband, userres, limits, refunds, ram, bids, created>>,
         bidcalls' \subseteq Names \X Bidders,
         \/ CanPay(core, "eosio.names", bidrefunds[n][b]) /\ BidRefunded(n, b)
         \/ UNCHANGED <<core, bidrefunds>>
  PROVE  SystemInv'
<1>1. /\ b \in Accounts /\ b \notin Kept /\ "eosio.names" \in Accounts
      /\ bidrefunds[n][b] \in Nat /\ bids' = bids
  BY AccountsAre DEF Kept, SystemInv, NamesOK
<1>2. /\ Book(core)' /\ core'["eosio.stake"] = core["eosio.stake"]
      /\ core'["eosio.ram"] = core["eosio.ram"] /\ NamesOK'
  <2>1. CASE CanPay(core, "eosio.names", bidrefunds[n][b]) /\ BidRefunded(n, b)
    <3>1. /\ core' = Paid(core, "eosio.names", b, bidrefunds[n][b])
          /\ bidrefunds' = [bidrefunds EXCEPT ![n][b] = 0]
      BY <2>1 DEF BidRefunded
    <3>2. /\ Book(core)' /\ core'["eosio.stake"] = core["eosio.stake"]
          /\ core'["eosio.ram"] = core["eosio.ram"]
          /\ core'["eosio.names"] = core["eosio.names"] - bidrefunds[n][b]
      <4>1. /\ Book(core) /\ b # "eosio.names" /\ b # "eosio.stake" /\ b # "eosio.ram"
            /\ bidrefunds[n][b] \in Int
        BY <1>1 DEF SystemInv, Kept
      <4>2. "eosio.stake" \in Kept /\ "eosio.ram" \in Kept /\ "eosio.names" \in Kept
        BY <4>1, KeptAre
      <4> QED BY <1>1, <3>1, <4>1, <4>2, BookPaid
    <3>3. /\ bidrefunds' \in [Names -> [Bidders -> Nat]]
          /\ \A m \in Names : m # n => bidrefunds'[m] = bidrefunds[m]
          /\ OwedOf(n) \in Int /\ OwedOf(n)' = OwedOf(n) - bidrefunds[n][b] + 0
      BY <3>1, OwedWritten DEF SystemInv
    <3>4. BidOn(n)' = BidOn(n) /\ BidOn(n) \in Int
      BY <1>1 DEF BidOn, SystemInv, NamesOK, BidRow
    <3>5. core["eosio.names"] \in Int /\ core'["eosio.names"] \in Int
      BY <3>2 DEF SystemInv, Book, Kept
    <3>6. BidOn(n)' + OwedOf(n)' - BidOn(n) - OwedOf(n)
            <= core'["eosio.names"] - core["eosio.names"]
      BY <1>1, <3>2, <3>3, <3>4, <3>5
    <3>7. NamesOK' BY <1>1, <3>3, <3>5, <3>6, NamesWritten DEF SystemInv, NamesOK
    <3> QED BY <3>2, <3>7
  <2>2. CASE UNCHANGED <<core, bidrefunds>>
    BY <1>1, <2>2, NamesFrame DEF SystemInv, Book
  <2> QED BY <2>1, <2>2
<1>3. VotersOK' /\ StakesOK' BY <1>2, VotersFrame, StakesFrame DEF SystemInv
<1>4. DelegatedOK' BY DelegatedFrame DEF SystemInv, votingVars
<1>5. RowsOK' BY RowsFrame DEF SystemInv
<1>6. MarketOK' BY <1>2, MarketFrame, RowsSame DEF SystemInv
<1> QED BY <1>2, <1>3, <1>4, <1>5, <1>6 DEF SystemInv

LEMMA NameInv ==
  ASSUME SystemInv, NameStep
  PROVE  SystemInv'
<1>1. UNCHANGED <<now, votingVars, stakingVars, ram, payVars>> BY DEF NameStep
<1>2. ASSUME NEW n \in Names, NEW b \in Bidders, NEW amount \in BidQty, Bidname(b, n, amount)
      PROVE  SystemInv'
  BY <1>1, <1>2, BidnameInv
<1>3. ASSUME NEW n \in Names, NEW b \in Bidders, Bidrefund(n, b)
      PROVE  SystemInv'
  <2>1. /\ CanPay(core, "eosio.names", bidrefunds[n][b]) /\ BidRefunded(n, b)
        /\ UNCHANGED <<bids, bidcalls, created>>
    BY <1>3 DEF Bidrefund
  <2> QED BY <1>1, <2>1, BidRefundedInv DEF stakingVars, SystemInv, NamesOK
<1> QED BY <1>2, <1>3 DEF NameStep

LEMMA BidrefundCallInv ==
  ASSUME SystemInv, NEW n \in Names, NEW b \in Bidders, BidrefundCall(n, b)
  PROVE  SystemInv'
<1>1. /\ UNCHANGED <<now, votingVars, stakingVars, ram, payVars, bids, created>>
      /\ bidcalls' = bidcalls \ {<<n, b>>}
      /\ \/ CanPay(core, "eosio.names", bidrefunds[n][b]) /\ BidRefunded(n, b)
         \/ UNCHANGED <<core, bidrefunds>>
  BY DEF BidrefundCall, RunBidrefund
<1>2. bidcalls' \subseteq Names \X Bidders BY <1>1 DEF SystemInv, NamesOK
<1> QED BY <1>1, <1>2, BidRefundedInv DEF stakingVars

LEMMA NewaccountInv ==
  ASSUME SystemInv, NEW creator, NEW n \in NewNames, Newaccount(creator, n)
  PROVE  SystemInv'
<1>1. /\ MayCreate(creator, n) /\ Created(creator, n)
      /\ UNCHANGED <<core, now, votingVars, delband, refunds, deferred, ram, payVars>>
  BY DEF Newaccount
<1>2. n \notin created /\ n \notin Users
  BY <1>1, NameAssumption DEF MayCreate, Accounts
<1>3. n \in Receivers => /\ userres[n] = None /\ userres' = [userres EXCEPT ![n] = NoResources]
                         /\ limits' = [limits EXCEPT ![n] = NoResources]
  BY <1>2 DEF Newaccount, SystemInv, RowsOK
<1>4. n \notin Receivers => UNCHANGED <<userres, limits>> BY DEF Newaccount
<1>5. /\ NoResources \in Resources /\ NoResources \in Limits
      /\ userres \in [Receivers -> Resources \cup {None}] /\ limits \in [Receivers -> Limits]
  BY AmountsAre DEF NoResources, Resources, Limits, SystemInv, DelegatedOK
<1>6. /\ userres' \in [Receivers -> Resources \cup {None}] /\ limits' \in [Receivers -> Limits]
      /\ \A r \in Receivers : r # n => userres'[r] = userres[r] /\ limits'[r] = limits[r]
      /\ n \in Receivers => userres'[n] = NoResources /\ limits'[n] = NoResources
  BY <1>3, <1>4, <1>5
<1>7. \A r \in Receivers : Row(r)' = Row(r)
  <2> TAKE r \in Receivers
  <2>1. CASE r = n
    <3>1. Row(r) = NoResources BY <1>3, <2>1 DEF Row
    <3>2. NoResources # None BY <1>5, NoNoneRow
    <3>3. Row(r)' = NoResources BY <1>6, <2>1, <3>2 DEF Row
    <3> QED BY <3>1, <3>3
  <2>2. CASE r # n BY <1>6, <2>2 DEF Row
  <2> QED BY <2>1, <2>2
<1>8. DelegatedOK'
  <2>1. /\ \A v \in Voters : StakedBy(v) = IF voters[v] = None THEN 0 ELSE voters[v].staked
        /\ \A r \in Receivers : \A k \in Kinds :
             Row(r).weight[k] = SumFunction([v \in Voters |-> delband[v][r][k]])
        /\ \A r \in Receivers : userres[r] # None => limits[r].weight = userres[r].weight
    BY DEF SystemInv, DelegatedOK, DelegationsAgree
  <2>2. voters' = voters /\ delband' = delband BY <1>1 DEF votingVars
  <2>3. \A v \in Voters : StakedBy(v)' = StakedBy(v) BY <2>2 DEF StakedBy, StakedFor
  <2>4. \A r \in Receivers : userres'[r] # None => limits'[r].weight = userres'[r].weight
    BY <1>6, <2>1 DEF NoResources
  <2>5. DelegationsAgree' BY <1>7, <2>1, <2>2, <2>3, <2>4 DEF DelegationsAgree
  <2> QED BY <1>6, <2>5 DEF DelegatedOK
<1>9. RowsOK'
  <2>1. created' = created \cup {n} BY <1>1 DEF Created
  <2> QED BY <1>6, <2>1 DEF RowsOK, SystemInv
<1>10. MarketOK' BY <1>1, <1>7, MarketFrame DEF SystemInv
<1>11. NamesOK'
  <2>1. UNCHANGED <<bidrefunds, bidcalls>> BY <1>1 DEF Created
  <2>2. CASE bids' = bids BY <1>1, <2>1, <2>2, NamesFrame DEF SystemInv, NamesOK
  <2>3. CASE n \in Names /\ bids' = [bids EXCEPT ![n] = None]
    <3>1. bids \in [Names -> BidRow \cup {None}] BY DEF SystemInv, NamesOK
    <3>2. /\ bids' \in [Names -> BidRow \cup {None}] /\ bids'[n] = None
          /\ \A m \in Names : m # n => bids'[m] = bids[m]
      BY <2>3, <3>1
    <3>3. BidOn(n)' = 0 /\ BidOn(n) \in Int /\ BidOn(n) >= 0
      BY <2>3, <3>1, <3>2 DEF BidOn, BidRow
    <3>4. bidrefunds[n] \in [Bidders -> Nat] /\ IsFiniteSet(Bidders)
      BY <2>3, NameAssumption, CoreAssumption, FS_Subset DEF SystemInv, NamesOK
    <3>5. OwedOf(n) \in Int /\ OwedOf(n)' = OwedOf(n)
      BY <2>1, <3>4, SumInt DEF OwedOf, SumFunction
    <3>6. core["eosio.names"] \in Int /\ core' = core BY <1>1, KeptAre DEF SystemInv
    <3>7. BidOn(n)' + OwedOf(n)' - BidOn(n) - OwedOf(n)
            <= core'["eosio.names"] - core["eosio.names"]
      BY <3>3, <3>5, <3>6
    <3> QED BY <2>1, <2>3, <3>2, <3>6, <3>7, NamesWritten DEF SystemInv, NamesOK
  <2> QED BY <1>1, <2>2, <2>3 DEF Created
<1>12. VotersOK' /\ StakesOK' BY <1>1, VotersFrame, StakesFrame DEF SystemInv
<1>13. Book(core)' BY <1>1 DEF SystemInv, Book
<1> QED BY <1>8, <1>9, <1>10, <1>11, <1>12, <1>13 DEF SystemInv

\* A block: its producer is counted, and an auction may be closed.
LEMMA OnblockInv ==
  ASSUME SystemInv, NEW p, Onblock(p), UNCHANGED <<now, stakingVars, ram>>
  PROVE  SystemInv'
<1>1. /\ CountedBlock(p)
      /\ UNCHANGED <<now, core, voters, gstate, delband, userres, limits, refunds, ram,
                     bidrefunds, bidcalls, created>>
  BY DEF Onblock, stakingVars
<1>2. /\ Linked(Tables) /\ voters \in VoterTable /\ producers \in ProducerTable
      /\ gstate \in AnyGlobal
  BY VotersParts DEF SystemInv, VotersOK
<1>3. /\ producers' \in ProducerTable
      /\ \A q \in Candidates : producers[q] # None => producers'[q] # None
  <2>1. CASE p \in Candidates /\ producers[p] # None
    <3> DEFINE row == [producers[p] EXCEPT !.unpaid_blocks = @ + 1]
    <3>1. producers[p] \in AnyProducer BY <1>2, <2>1 DEF ProducerTable
    <3>2. row \in AnyProducer BY <3>1 DEF AnyProducer
    <3>3. producers' = [producers EXCEPT ![p] = row] BY <1>1, <2>1 DEF CountedBlock
    <3> HIDE DEF row
    <3> QED BY <1>2, <3>2, <3>3, NoRow DEF ProducerTable
  <2>2. CASE ~ (p \in Candidates /\ producers[p] # None)
    BY <1>1, <1>2, <2>2 DEF CountedBlock
  <2> QED BY <2>1, <2>2
<1>4. VotersOK'
  <2>1. Linked(Tables)'
    <3> SUFFICES ASSUME NEW x \in Voters, voters[x] # None
                 PROVE  /\ voters[x].proxy # None => voters[voters[x].proxy] # None
                        /\ \A q \in voters[x].producers : producers'[q] # None
      BY <1>1, TablesAre DEF Linked
    <3>1. voters[x].producers \subseteq Candidates BY <1>2 DEF VoterTable, AnyVoter
    <3> QED BY <1>2, <1>3, <3>1, TablesAre DEF Linked
  <2>2. Good(Tables)' BY <1>1, <1>2, <1>3, <2>1 DEF Good, State, Tables
  <2> QED BY <1>1, <2>2 DEF VotersOK, SystemInv
<1>5. NamesOK'
  <2>1. CASE bids' = bids BY <1>1, <2>1, NamesFrame DEF SystemInv, NamesOK
  <2>2. CASE bids' # bids
    <3>1. PICK n \in Names : /\ IsHighest(n)
                             /\ bids' = [bids EXCEPT ![n] = [bids[n] EXCEPT !.high_bid = -@]]
      BY <2>2 DEF Onblock, CloseName
    <3>2. bids[n] # None /\ bids[n].high_bid > 0 /\ bids \in [Names -> BidRow \cup {None}]
      BY <3>1 DEF IsHighest, IsOpen, SystemInv, NamesOK
    <3>3. bids[n] \in BidRow /\ bids[n].high_bid \in Int BY <3>2 DEF BidRow
    <3> DEFINE row == [bids[n] EXCEPT !.high_bid = -@]
    <3>4. row \in BidRow /\ row.high_bid = -bids[n].high_bid BY <3>3 DEF BidRow
    <3>5. bids' = [bids EXCEPT ![n] = row] BY <3>1
    <3> HIDE DEF row
    <3>6. /\ bids' \in [Names -> BidRow \cup {None}] /\ bids'[n] = row
          /\ \A m \in Names : m # n => bids'[m] = bids[m]
      BY <3>2, <3>4, <3>5
    <3>7. BidOn(n)' = bids[n].high_bid /\ BidOn(n) = bids[n].high_bid
      BY <3>2, <3>3, <3>4, <3>6, NoNoneRow DEF BidOn
    <3>8. bidrefunds[n] \in [Bidders -> Nat] /\ IsFiniteSet(Bidders)
      BY NameAssumption, CoreAssumption, FS_Subset DEF SystemInv, NamesOK
    <3>9. OwedOf(n) \in Int /\ OwedOf(n)' = OwedOf(n)
      BY <1>1, <3>8, SumInt DEF OwedOf, SumFunction
    <3>10. core["eosio.names"] \in Int /\ core' = core BY <1>1, KeptAre DEF SystemInv
    <3>11. BidOn(n)' + OwedOf(n)' - BidOn(n) - OwedOf(n)
             <= core'["eosio.names"] - core["eosio.names"]
      BY <3>3, <3>7, <3>9, <3>10
    <3> QED BY <1>1, <3>6, <3>10, <3>11, NamesWritten DEF SystemInv, NamesOK
  <2> QED BY <2>1, <2>2
<1>6. StakesOK' BY <1>1, StakesFrame DEF SystemInv
<1>7. DelegatedOK' BY <1>1, DelegatedFrame DEF SystemInv
<1>8. RowsOK' BY <1>1, RowsFrame DEF SystemInv
<1>9. MarketOK' BY <1>1, MarketFrame, RowsSame DEF SystemInv
<1>10. Book(core)' BY <1>1 DEF SystemInv, Book
<1> QED BY <1>4, <1>5, <1>6, <1>7, <1>8, <1>9, <1>10 DEF SystemInv

-----------------------------------------------------------------------------
(***************************************************************************)
(* The market of RAM.                                                      *)
(***************************************************************************)
LEMMA DivIs ==
  ASSUME NEW p \in Nat, NEW d \in Nat, d > 0
  PROVE  p \div d \in Nat /\ (p \div d) * d <= p
OBVIOUS

LEMMA MulNat == \A a, b \in Nat : a * b \in Nat
OBVIOUS

LEMMA MulOver ==
  ASSUME NEW a \in Int, NEW b \in Int, NEW c \in Int
  PROVE  /\ a * b \in Int /\ a * b = b * a
         /\ (a + b) * c = a * c + b * c /\ a * (b - c) = a * b - a * c
OBVIOUS

LEMMA MulMono ==
  ASSUME NEW a \in Nat, NEW b \in Nat, NEW c \in Nat, b <= c
  PROVE  a * b <= a * c /\ b * a <= c * a
OBVIOUS

LEMMA MulCancel ==
  ASSUME NEW a \in Nat, NEW b \in Nat, NEW c \in Nat, a > 0, b * a <= c * a
  PROVE  b <= c
OBVIOUS

\* What a trade gives: no more than there is, and the product does not fall.
LEMMA ConvertIs ==
  ASSUME NEW n \in Nat, NEW from \in Nat, NEW to \in Nat, from + n > 0
  PROVE  /\ Convert(n, from, to) \in Nat /\ Convert(n, from, to) <= to
         /\ (from + n) * (to - Convert(n, from, to)) >= from * to
<1> DEFINE c == Convert(n, from, to)   d == from + n
<1>1. to * n \in Nat /\ d \in Nat BY MulNat
<1>2. c \in Nat /\ c * d <= to * n BY <1>1, DivIs DEF Convert
<1> HIDE DEF c
<1>3. to * n <= to * d BY <1>1, MulMono
<1>4. c * d <= to * d BY <1>1, <1>2, <1>3, MulNat
<1>5. c <= to BY <1>1, <1>2, <1>4, MulCancel
<1>6. d * (to - c) = d * to - d * c /\ d * c = c * d BY <1>1, <1>2, MulOver
<1>7. d * to = from * to + n * to /\ n * to = to * n BY MulOver
<1>8. from * to \in Nat /\ c * d \in Nat BY <1>1, <1>2, MulNat
<1>9. d * (to - c) >= from * to BY <1>1, <1>2, <1>6, <1>7, <1>8
<1> QED BY <1>2, <1>5, <1>9 DEF c

LEMMA FeeIs == ASSUME NEW n \in Nat PROVE FeeOf(n) \in Nat
BY DEF FeeOf

LEMMA GrownIs ==
  ASSUME ram \in RamMarketState, now \in 0 .. MaxDay
  PROVE  LET m == Grown(ram)
         IN  /\ m \in RamMarketState /\ m.base >= ram.base /\ m.quote = ram.quote
             /\ m.max_ram_size - m.base = ram.max_ram_size - ram.base
             /\ m.total_ram_bytes_reserved = ram.total_ram_bytes_reserved
             /\ m.total_ram_stake = ram.total_ram_stake
             /\ m.new_ram_per_block = ram.new_ram_per_block
<1> DEFINE new == ((now - ram.last_ram_increase) * ram.new_ram_per_block) % RamWord
<1>1. /\ ram.max_ram_size \in Nat /\ ram.base \in Nat /\ ram.new_ram_per_block \in Nat
      /\ ram.last_ram_increase \in Int /\ now \in Int
  BY DEF RamMarketState
<1>2. (now - ram.last_ram_increase) * ram.new_ram_per_block \in Int BY <1>1, MulOver
<1>3. \A a \in Int : a % RamWord \in Nat BY RamAssumption
<1>4. new \in Nat BY <1>2, <1>3
<1>5. Grown(ram) = [ram EXCEPT !.max_ram_size = ram.max_ram_size + new,
                               !.base = ram.base + new, !.last_ram_increase = now]
  BY DEF Grown
<1> DEFINE m == Grown(ram)   x == ram.max_ram_size + new   y == ram.base + new
<1>6. x \in Nat /\ y \in Nat /\ x - y = ram.max_ram_size - ram.base /\ y >= ram.base
  <2> HIDE DEF new
  <2> QED BY <1>1, <1>4
<1>7. m = [ram EXCEPT !.max_ram_size = x, !.base = y, !.last_ram_increase = now] BY <1>5
<1> HIDE DEF new, m, x, y
<1>8. m \in RamMarketState BY <1>6, <1>7 DEF RamMarketState
<1>9. /\ m.max_ram_size = x /\ m.base = y /\ m.quote = ram.quote
      /\ m.total_ram_bytes_reserved = ram.total_ram_bytes_reserved
      /\ m.total_ram_stake = ram.total_ram_stake
      /\ m.new_ram_per_block = ram.new_ram_per_block
  BY <1>7 DEF RamMarketState
<1> QED BY <1>6, <1>8, <1>9 DEF m

\* A trade, after which no balance is negative.
LEMMA BoughtIs ==
  ASSUME NEW m \in RamMarketState, NEW n \in Int, NEW bytes \in Int,
         m.quote + n >= 0, m.base - bytes >= 0,
         m.total_ram_bytes_reserved + bytes >= 0, m.total_ram_stake + n >= 0
  PROVE  LET mm == Bought(m, n, bytes)
         IN  /\ mm \in RamMarketState /\ mm.quote = m.quote + n /\ mm.base = m.base - bytes
             /\ mm.max_ram_size = m.max_ram_size
             /\ mm.total_ram_bytes_reserved = m.total_ram_bytes_reserved + bytes
             /\ mm.total_ram_stake = m.total_ram_stake + n
<1>1. /\ m.quote \in Nat /\ m.base \in Nat /\ m.total_ram_bytes_reserved \in Nat
      /\ m.total_ram_stake \in Nat
  BY DEF RamMarketState
<1> DEFINE q == m.quote + n   b == m.base - bytes
           r == m.total_ram_bytes_reserved + bytes   s == m.total_ram_stake + n
           mm == Bought(m, n, bytes)
<1>2. q \in Nat /\ b \in Nat /\ r \in Nat /\ s \in Nat BY <1>1
<1>3. mm = [m EXCEPT !.quote = q, !.base = b, !.total_ram_bytes_reserved = r,
                     !.total_ram_stake = s]
  BY DEF Bought
<1> HIDE DEF q, b, r, s, mm
<1>4. mm \in RamMarketState BY <1>2, <1>3 DEF RamMarketState
<1>5. /\ mm.quote = q /\ mm.base = b /\ mm.total_ram_bytes_reserved = r
      /\ mm.total_ram_stake = s /\ mm.max_ram_size = m.max_ram_size
  BY <1>3 DEF RamMarketState
<1> QED BY <1>4, <1>5 DEF mm, q, b, r, s

RamRows == [r \in Receivers |-> Row(r).ram_bytes]

LEMMA RamRowsAre ==
  ASSUME userres \in [Receivers -> Resources \cup {None}]
  PROVE  /\ SumFunction(RamRows) \in Nat
         /\ \A r \in Receivers : RamRows[r] \in Nat /\ RamRows[r] <= SumFunction(RamRows)
<1>1. DOMAIN RamRows = Receivers /\ \A r \in Receivers : RamRows[r] \in Nat
  BY RowIs DEF RamRows
<1> HIDE DEF RamRows
<1> QED BY <1>1, SumNat, StakingAssumption DEF SumFunction

\* The quota of one account changes.
LEMMA WithBytesIs ==
  ASSUME DelegatedOK, voters' = voters, NEW r \in Receivers, NEW n \in Int,
         WithBytes(r, n), Row(r).ram_bytes + n >= 0
  PROVE  /\ DelegatedOK' /\ SumFunction(RamRows)' = SumFunction(RamRows) + n
         /\ \A x \in Receivers : x # r => userres'[x] = userres[x]
         /\ delband' = delband
<1> DEFINE row == [Row(r) EXCEPT !.ram_bytes = @ + n]
           lim == [weight |-> row.weight, ram_bytes |-> row.ram_bytes + RamGift]
<1>0. userres \in [Receivers -> Resources \cup {None}] /\ limits \in [Receivers -> Limits]
  BY DEF DelegatedOK
<1>1. /\ Row(r) \in Resources /\ Row(r).weight \in Amounts /\ Row(r).ram_bytes \in Nat
  BY <1>0, RowIs
<1>2. row \in Resources /\ row.weight = Row(r).weight /\ row.ram_bytes = Row(r).ram_bytes + n
  <2> DEFINE b == Row(r).ram_bytes + n
  <2>1. b \in Nat BY <1>1
  <2>2. row = [Row(r) EXCEPT !.ram_bytes = b] OBVIOUS
  <2> HIDE DEF b, row
  <2> QED BY <1>1, <2>1, <2>2 DEF Resources, b
<1>3. /\ userres' = [userres EXCEPT ![r] = row] /\ limits' = [limits EXCEPT ![r] = lim]
      /\ delband' = delband
  BY DEF WithBytes
<1> HIDE DEF row
<1>4. lim \in Limits /\ lim.weight = row.weight
  <2>1. row.weight \in Amounts /\ row.ram_bytes + RamGift \in Int
    BY <1>2, StakingAssumption DEF Resources
  <2> QED BY <2>1 DEF Limits
<1> HIDE DEF lim
<1>5. /\ userres' \in [Receivers -> Resources \cup {None}] /\ limits' \in [Receivers -> Limits]
      /\ userres'[r] = row /\ limits'[r] = lim
      /\ \A x \in Receivers : x # r => userres'[x] = userres[x] /\ limits'[x] = limits[x]
  BY <1>0, <1>2, <1>3, <1>4
<1>6. Row(r)' = row /\ \A x \in Receivers : x # r => Row(x)' = Row(x)
  BY <1>2, <1>5, NoNoneRow DEF Row
<1>7. DelegationsAgree'
  <2>1. /\ \A v \in Voters : StakedBy(v) = IF voters[v] = None THEN 0 ELSE voters[v].staked
        /\ \A x \in Receivers : \A k \in Kinds :
             Row(x).weight[k] = SumFunction([v \in Voters |-> delband[v][x][k]])
        /\ \A x \in Receivers : userres[x] # None => limits[x].weight = userres[x].weight
    BY DEF DelegatedOK, DelegationsAgree
  <2>2. \A v \in Voters : StakedBy(v)' = StakedBy(v) BY <1>3 DEF StakedBy, StakedFor
  <2>3. \A x \in Receivers : userres'[x] # None => limits'[x].weight = userres'[x].weight
    BY <1>4, <1>5, <2>1
  <2>4. \A x \in Receivers : Row(x)'.weight = Row(x).weight BY <1>2, <1>6
  <2> QED BY <1>3, <2>1, <2>2, <2>3, <2>4 DEF DelegationsAgree
<1>8. SumFunction(RamRows)' = SumFunction(RamRows) + n
  <2> DEFINE f == RamRows   g == RamRows'
  <2>1. DOMAIN f = Receivers /\ DOMAIN g = Receivers BY DEF RamRows
  <2>2. \A x \in Receivers : f[x] \in Int /\ g[x] \in Int
    <3>1. \A x \in Receivers : f[x] \in Int BY <1>0, RowIs DEF RamRows
    <3>2. \A x \in Receivers : x # r => g[x] = f[x] BY <1>6 DEF RamRows
    <3>3. g[r] = row.ram_bytes BY <1>6 DEF RamRows
    <3> QED BY <1>1, <1>2, <3>1, <3>2, <3>3
  <2>3. g[r] = f[r] + n /\ \A x \in Receivers : x # r => g[x] = f[x]
    BY <1>2, <1>6 DEF RamRows
  <2> HIDE DEF f, g
  <2>4. SumFunction(f) \in Int /\ SumFunction(g) = SumFunction(f) - f[r] + g[r]
    BY <2>1, <2>2, <2>3, SumWritten, StakingAssumption
  <2>5. SumFunction(g) = SumFunction(f) + n BY <2>2, <2>3, <2>4
  <2> QED BY <2>5 DEF f, g
<1> QED BY <1>3, <1>5, <1>7, <1>8 DEF DelegatedOK

\* What is known of the market of RAM before a trade.
LEMMA MarketIs ==
  ASSUME SystemInv
  PROVE  /\ ram \in RamMarketState /\ now \in 0 .. MaxDay
         /\ ram.base \in Nat /\ ram.quote \in Nat /\ ram.quote > 0
         /\ ram.total_ram_bytes_reserved \in Nat /\ ram.total_ram_stake \in Nat
         /\ ram.max_ram_size \in Nat
         /\ ram.base = ram.max_ram_size - ram.total_ram_bytes_reserved
         /\ ram.total_ram_bytes_reserved = SumFunction(RamRows)
         /\ core["eosio.ram"] = ram.total_ram_stake
         /\ ram.quote = RamQuote + ram.total_ram_stake
BY RamAssumption DEF SystemInv, MarketOK, RamIsAccounted, RamRows, RamMarketState, VotersOK

\* A purchase: bytes are no more than are for sale, and the product does not fall.
LEMMA BuyramInv ==
  ASSUME SystemInv, NEW payer \in Users, NEW r \in Receivers, Exists(r), NEW quant \in Nat,
         Buyram(payer, r, quant), UNCHANGED <<now, votingVars, refunds, deferred, nameVars, payVars>>
  PROVE  SystemInv' /\ ram'.base * ram'.quote >= ram.base * ram.quote
<1> DEFINE fee == FeeOf(quant)   n == quant - fee   m == Grown(ram)
           bytes == Convert(n, m.quote, m.base)
<1>1. /\ n > 0 /\ bytes > 0
      /\ core' = Paid(Paid(core, payer, "eosio.ram", n), payer, "eosio.ramfee", fee)
      /\ ram' = Bought(m, n, bytes) /\ WithBytes(r, bytes)
  BY DEF Buyram
<1>2. fee \in Nat BY FeeIs
<1>3. n \in Nat /\ n \in Int BY <1>1, <1>2
<1>4. /\ m \in RamMarketState /\ m.base >= ram.base /\ m.quote = ram.quote
      /\ m.max_ram_size - m.base = ram.max_ram_size - ram.base
      /\ m.total_ram_bytes_reserved = ram.total_ram_bytes_reserved
      /\ m.total_ram_stake = ram.total_ram_stake
  BY MarketIs, GrownIs
<1> HIDE DEF fee, m
<1>5. /\ m.quote \in Nat /\ m.base \in Nat /\ m.total_ram_bytes_reserved \in Nat
      /\ m.total_ram_stake \in Nat /\ m.max_ram_size \in Nat /\ m.quote + n > 0
  BY <1>1, <1>3, <1>4 DEF RamMarketState
<1> HIDE DEF n
<1>6. /\ bytes \in Nat /\ bytes <= m.base
      /\ (m.quote + n) * (m.base - bytes) >= m.quote * m.base
  BY <1>3, <1>5, ConvertIs
<1> HIDE DEF bytes
<1>7. /\ ram' \in RamMarketState /\ ram'.quote = m.quote + n /\ ram'.base = m.base - bytes
      /\ ram'.max_ram_size = m.max_ram_size
      /\ ram'.total_ram_bytes_reserved = m.total_ram_bytes_reserved + bytes
      /\ ram'.total_ram_stake = m.total_ram_stake + n
  <2>1. /\ m.base - bytes >= 0 /\ m.quote + n >= 0 /\ m.total_ram_bytes_reserved + bytes >= 0
        /\ m.total_ram_stake + n >= 0 /\ bytes \in Int
    BY <1>3, <1>5, <1>6
  <2> QED BY <1>1, <1>3, <1>4, <2>1, BoughtIs
<1>8. ram'.base * ram'.quote >= ram.base * ram.quote
  <2>1. ram'.base \in Nat /\ ram'.quote \in Nat BY <1>7 DEF RamMarketState
  <2>2. ram'.base * ram'.quote = (m.quote + n) * (m.base - bytes) BY <1>7, <2>1, MulOver
  <2>3. m.quote * m.base >= ram.base * ram.quote
    <3>1. m.quote * ram.base <= m.quote * m.base BY <1>4, <1>5, MarketIs, MulMono
    <3>2. m.quote * ram.base = ram.base * ram.quote BY <1>4, MarketIs, MulOver
    <3> QED BY <3>1, <3>2
  <2>4. /\ ram'.base * ram'.quote \in Nat /\ m.quote * m.base \in Nat
        /\ ram.base * ram.quote \in Nat
    BY <1>5, <2>1, MarketIs, MulNat
  <2> QED BY <1>6, <2>2, <2>3, <2>4
<1>9. /\ Book(core)' /\ core'["eosio.stake"] = core["eosio.stake"]
      /\ core'["eosio.names"] = core["eosio.names"]
      /\ core'["eosio.ram"] = core["eosio.ram"] + n
  <2>1. /\ payer \in Accounts /\ payer # "eosio.ram" /\ payer # "eosio.ramfee"
        /\ payer # "eosio.stake" /\ payer # "eosio.names" /\ "eosio.ram" \in Accounts
        /\ "eosio.ramfee" \in Accounts /\ fee \in Int /\ Book(core)
    BY <1>2, AccountsAre DEF Kept, SystemInv
  <2> DEFINE mid == Paid(core, payer, "eosio.ram", n)
  <2>2. /\ Book(mid) /\ mid["eosio.ram"] = core["eosio.ram"] + n
        /\ mid["eosio.stake"] = core["eosio.stake"] /\ mid["eosio.names"] = core["eosio.names"]
    BY <1>3, <2>1, BookPaid, KeptAre
  <2>3. core' = Paid(mid, payer, "eosio.ramfee", fee) BY <1>1 DEF n, fee
  <2> HIDE DEF mid
  <2>4. /\ "eosio.stake" \in Kept /\ "eosio.ram" \in Kept /\ "eosio.names" \in Kept
        /\ "eosio.ramfee" \notin Kept
    BY DEF Kept
  <2>5. /\ Book(core')
        /\ \A x \in Kept : core'[x] = IF x = payer THEN mid[x] - fee
                            ELSE IF x = "eosio.ramfee" THEN mid[x] + fee ELSE mid[x]
    BY <2>1, <2>2, <2>3, BookPaid
  <2> QED BY <2>1, <2>2, <2>4, <2>5
<1>10. /\ DelegatedOK' /\ SumFunction(RamRows)' = SumFunction(RamRows) + bytes
       /\ \A x \in Receivers : x # r => userres'[x] = userres[x]
       /\ delband' = delband
  <2>1. Row(r).ram_bytes \in Nat BY RowIs DEF SystemInv, DelegatedOK
  <2>2. Row(r).ram_bytes + bytes >= 0 /\ bytes \in Int /\ voters' = voters
    BY <1>6, <2>1 DEF votingVars
  <2> QED BY <1>1, <2>2, WithBytesIs DEF SystemInv
<1>11. MarketOK'
  <2>1. /\ ram'.base = ram'.max_ram_size - ram'.total_ram_bytes_reserved
        /\ ram'.total_ram_bytes_reserved = SumFunction(RamRows)'
        /\ core'["eosio.ram"] = ram'.total_ram_stake
        /\ ram'.quote = RamQuote + ram'.total_ram_stake
    BY <1>3, <1>4, <1>5, <1>6, <1>7, <1>9, <1>10, MarketIs, RamAssumption
  <2> QED BY <1>7, <2>1 DEF MarketOK, RamIsAccounted, RamRows
<1>12. RowsOK' BY <1>10 DEF RowsOK, SystemInv, Exists, nameVars
<1>13. VotersOK' BY VotersFrame DEF SystemInv
<1>14. StakesOK' BY <1>9, <1>10, StakesFrame DEF SystemInv
<1>15. NamesOK' BY <1>9, NamesFrame DEF SystemInv, nameVars, NamesOK
<1> QED BY <1>8, <1>9, <1>10, <1>11, <1>12, <1>13, <1>14, <1>15 DEF SystemInv

\* A sale pays no more than the market and the account have.
LEMMA SellramInv ==
  ASSUME SystemInv, NEW r \in Receivers \cap Users, NEW bytes \in RamBytes,
         Sellram(r, bytes), UNCHANGED <<now, votingVars, refunds, deferred, nameVars, payVars>>
  PROVE  SystemInv' /\ ram'.base * ram'.quote >= ram.base * ram.quote
<1> DEFINE m == Grown(ram)   n == Convert(bytes, m.base, m.quote)   fee == FeeOf(n)
<1>1. /\ CanSell(r, bytes) /\ n > 1 /\ n <= m.total_ram_stake
      /\ core' = Paid(Paid(core, "eosio.ram", r, n), r, "eosio.ramfee", fee)
      /\ ram' = Bought(m, -n, -bytes) /\ WithBytes(r, -bytes)
  BY DEF Sellram, Sold
<1>2. bytes \in Nat /\ bytes > 0 /\ -bytes \in Int BY RamAssumption
<1>3. /\ m \in RamMarketState /\ m.base >= ram.base /\ m.quote = ram.quote
      /\ m.max_ram_size - m.base = ram.max_ram_size - ram.base
      /\ m.total_ram_bytes_reserved = ram.total_ram_bytes_reserved
      /\ m.total_ram_stake = ram.total_ram_stake
  BY MarketIs, GrownIs
<1> HIDE DEF m
<1>4. /\ m.quote \in Nat /\ m.base \in Nat /\ m.total_ram_bytes_reserved \in Nat
      /\ m.total_ram_stake \in Nat /\ m.max_ram_size \in Nat /\ m.base + bytes > 0
  BY <1>2, <1>3 DEF RamMarketState
<1>5. /\ n \in Nat /\ n <= m.quote /\ (m.base + bytes) * (m.quote - n) >= m.base * m.quote
  BY <1>2, <1>4, ConvertIs
<1> HIDE DEF n
<1>6. fee \in Int /\ n \in Int /\ -n \in Int BY <1>5, FeeIs
<1> HIDE DEF fee
<1>7. /\ Row(r).ram_bytes >= bytes /\ Row(r).ram_bytes \in Nat
      /\ m.total_ram_bytes_reserved >= bytes
  <2>1. userres[r] # None /\ userres[r].ram_bytes >= bytes BY <1>1 DEF CanSell
  <2>2. Row(r).ram_bytes >= bytes BY <2>1 DEF Row
  <2>3. userres \in [Receivers -> Resources \cup {None}] BY DEF SystemInv, DelegatedOK
  <2>4. Row(r).ram_bytes \in Nat BY <2>3, RowIs
  <2>5. RamRows[r] = Row(r).ram_bytes BY DEF RamRows
  <2>6. RamRows[r] <= SumFunction(RamRows) /\ SumFunction(RamRows) \in Nat
    BY <2>3, RamRowsAre
  <2>7. m.total_ram_bytes_reserved = SumFunction(RamRows) BY <1>3, MarketIs
  <2> QED BY <1>2, <2>2, <2>4, <2>5, <2>6, <2>7
<1>8. /\ ram' \in RamMarketState /\ ram'.quote = m.quote - n /\ ram'.base = m.base + bytes
      /\ ram'.max_ram_size = m.max_ram_size
      /\ ram'.total_ram_bytes_reserved = m.total_ram_bytes_reserved - bytes
      /\ ram'.total_ram_stake = m.total_ram_stake - n
  <2>1. /\ m.base - (-bytes) >= 0 /\ m.quote + (-n) >= 0
        /\ m.total_ram_bytes_reserved + (-bytes) >= 0 /\ m.total_ram_stake + (-n) >= 0
    BY <1>1, <1>2, <1>4, <1>5, <1>7
  <2>2. /\ ram' \in RamMarketState /\ ram'.quote = m.quote + (-n) /\ ram'.base = m.base - (-bytes)
        /\ ram'.max_ram_size = m.max_ram_size
        /\ ram'.total_ram_bytes_reserved = m.total_ram_bytes_reserved + (-bytes)
        /\ ram'.total_ram_stake = m.total_ram_stake + (-n)
    BY <1>1, <1>2, <1>3, <1>6, <2>1, BoughtIs
  <2> QED BY <1>2, <1>4, <1>6, <2>2
<1>9. ram'.base * ram'.quote >= ram.base * ram.quote
  <2>1. m.base * m.quote >= ram.base * ram.quote
    <3>1. m.base * m.quote >= ram.base * m.quote BY <1>3, <1>4, MarketIs, MulMono
    <3> QED BY <1>3, <3>1
  <2>2. /\ (m.base + bytes) * (m.quote - n) \in Int /\ m.base * m.quote \in Int
        /\ ram.base * ram.quote \in Int
    BY <1>2, <1>4, <1>5, MarketIs, MulOver
  <2> QED BY <1>5, <1>8, <2>1, <2>2
<1>10. /\ Book(core') /\ core'["eosio.stake"] = core["eosio.stake"]
       /\ core'["eosio.names"] = core["eosio.names"]
       /\ core'["eosio.ram"] = core["eosio.ram"] - n
  <2>1. /\ r \in Accounts /\ r # "eosio.ram" /\ r # "eosio.ramfee"
        /\ r # "eosio.stake" /\ r # "eosio.names" /\ "eosio.ram" \in Accounts
        /\ "eosio.ramfee" \in Accounts /\ Book(core)
    BY AccountsAre DEF Kept, SystemInv
  <2> DEFINE mid == Paid(core, "eosio.ram", r, n)
  <2>2. core' = Paid(mid, r, "eosio.ramfee", fee) BY <1>1
  <2>3. /\ "eosio.stake" \in Kept /\ "eosio.ram" \in Kept /\ "eosio.names" \in Kept
        /\ "eosio.ramfee" \notin Kept
    BY DEF Kept
  <2>4. /\ Book(mid)
        /\ \A x \in Kept : mid[x] = IF x = "eosio.ram" THEN core[x] - n
                            ELSE IF x = r THEN core[x] + n ELSE core[x]
    BY <1>6, <2>1, BookPaid
  <2> HIDE DEF mid
  <2>5. /\ Book(core')
        /\ \A x \in Kept : core'[x] = IF x = r THEN mid[x] - fee
                            ELSE IF x = "eosio.ramfee" THEN mid[x] + fee ELSE mid[x]
    BY <1>6, <2>1, <2>2, <2>4, BookPaid
  <2> QED BY <2>1, <2>3, <2>4, <2>5
<1>11. /\ DelegatedOK' /\ SumFunction(RamRows)' = SumFunction(RamRows) - bytes
       /\ \A x \in Receivers : x # r => userres'[x] = userres[x]
       /\ delband' = delband
  <2>1. Row(r).ram_bytes + (-bytes) >= 0 /\ voters' = voters
    BY <1>2, <1>7 DEF votingVars
  <2>2. /\ DelegatedOK' /\ SumFunction(RamRows)' = SumFunction(RamRows) + (-bytes)
        /\ \A x \in Receivers : x # r => userres'[x] = userres[x]
        /\ delband' = delband
    BY <1>1, <1>2, <2>1, WithBytesIs DEF SystemInv
  <2>3. SumFunction(RamRows) \in Nat BY RamRowsAre DEF SystemInv, DelegatedOK
  <2> QED BY <1>2, <2>2, <2>3
<1>12. MarketOK'
  <2>1. /\ ram'.base = ram'.max_ram_size - ram'.total_ram_bytes_reserved
        /\ ram'.total_ram_bytes_reserved = SumFunction(RamRows)'
        /\ core'["eosio.ram"] = ram'.total_ram_stake
        /\ ram'.quote = RamQuote + ram'.total_ram_stake
    BY <1>2, <1>3, <1>4, <1>6, <1>8, <1>10, <1>11, MarketIs, RamAssumption
  <2> QED BY <1>8, <2>1 DEF MarketOK, RamIsAccounted, RamRows
<1>13. RowsOK' BY <1>11 DEF RowsOK, SystemInv, nameVars
<1>14. VotersOK' BY VotersFrame DEF SystemInv
<1>15. StakesOK' BY <1>10, <1>11, StakesFrame DEF SystemInv
<1>16. NamesOK' BY <1>10, NamesFrame DEF SystemInv, nameVars, NamesOK
<1> QED BY <1>9, <1>10, <1>11, <1>12, <1>13, <1>14, <1>15, <1>16 DEF SystemInv

LEMMA RamInv ==
  ASSUME SystemInv, RamStep
  PROVE  SystemInv' /\ ram'.base * ram'.quote >= ram.base * ram.quote
<1>0. UNCHANGED <<now, votingVars, refunds, deferred, nameVars, payVars>> BY DEF RamStep
<1>1. ASSUME NEW payer \in Users, NEW r \in Receivers, Exists(r), NEW quant \in RamQty,
             Buyram(payer, r, quant)
      PROVE  SystemInv' /\ ram'.base * ram'.quote >= ram.base * ram.quote
  BY <1>0, <1>1, BuyramInv, RamAssumption
<1>2. ASSUME NEW payer \in Users, NEW r \in Receivers, Exists(r), NEW bytes \in RamBytes,
             Buyrambytes(payer, r, bytes)
      PROVE  SystemInv' /\ ram'.base * ram'.quote >= ram.base * ram.quote
  <2>1. bytes \in Nat /\ ram.base \in Nat /\ ram.quote \in Nat /\ ram.base + bytes > 0
    BY MarketIs, RamAssumption
  <2>2. Convert(bytes, ram.base, ram.quote) \in Nat BY <2>1, ConvertIs
  <2>3. Buyram(payer, r, Convert(bytes, ram.base, ram.quote)) BY <1>2 DEF Buyrambytes
  <2> QED BY <1>0, <1>2, <2>2, <2>3, BuyramInv
<1> QED BY <1>0, <1>1, <1>2, SellramInv DEF RamStep

\* The system's account grants RAM, sets a rate, or the limits of an account.
LEMMA AdminInv ==
  ASSUME SystemInv, AdminStep
  PROVE  SystemInv' /\ ram'.base * ram'.quote >= ram.base * ram.quote
<1>1. ASSUME NEW mm \in RamMarketState, ram' = mm,
             mm.max_ram_size - mm.base = ram.max_ram_size - ram.base,
             mm.base >= ram.base, mm.quote = ram.quote,
             mm.total_ram_bytes_reserved = ram.total_ram_bytes_reserved,
             mm.total_ram_stake = ram.total_ram_stake,
             UNCHANGED <<core, now, votingVars, stakingVars, nameVars, payVars>>
      PROVE  SystemInv' /\ ram'.base * ram'.quote >= ram.base * ram.quote
  <2>1. mm.base \in Nat /\ mm.quote \in Nat /\ mm.max_ram_size \in Nat
    BY <1>1 DEF RamMarketState
  <2>2. ram'.base * ram'.quote >= ram.base * ram.quote BY <1>1, <2>1, MarketIs, MulMono
  <2>3. ram'.base = ram'.max_ram_size - ram'.total_ram_bytes_reserved BY <1>1, <2>1, MarketIs
  <2>4. SumFunction(RamRows)' = SumFunction(RamRows) BY <1>1 DEF RamRows, Row, stakingVars
  <2>5. MarketOK' BY <1>1, <2>3, <2>4, MarketIs DEF MarketOK, RamIsAccounted, RamRows
  <2>6. VotersOK' /\ StakesOK' BY <1>1, VotersFrame, StakesFrame DEF SystemInv, stakingVars
  <2>7. DelegatedOK' BY <1>1, DelegatedFrame DEF SystemInv, stakingVars, votingVars
  <2>8. RowsOK' /\ NamesOK'
    BY <1>1, RowsFrame, NamesFrame DEF SystemInv, stakingVars, nameVars, NamesOK
  <2>9. Book(core)' BY <1>1 DEF SystemInv, Book
  <2> QED BY <2>2, <2>5, <2>6, <2>7, <2>8, <2>9 DEF SystemInv
<1>2. ASSUME NEW size \in RamSizes, Setram(size),
             UNCHANGED <<core, now, votingVars, stakingVars, nameVars, payVars>>
      PROVE  SystemInv' /\ ram'.base * ram'.quote >= ram.base * ram.quote
  <2> DEFINE base == ram.base + (size - ram.max_ram_size)
             mm == [ram EXCEPT !.max_ram_size = size, !.base = base]
  <2>1. /\ size \in Nat /\ base \in Nat /\ base >= ram.base
        /\ size - base = ram.max_ram_size - ram.base
    BY <1>2, MarketIs, RamAssumption DEF Setram
  <2>2. ram' = mm BY <1>2 DEF Setram
  <2> HIDE DEF base
  <2>3. /\ mm \in RamMarketState /\ mm.max_ram_size = size /\ mm.base = base
        /\ mm.quote = ram.quote /\ mm.total_ram_stake = ram.total_ram_stake
        /\ mm.total_ram_bytes_reserved = ram.total_ram_bytes_reserved
    BY <2>1, MarketIs DEF RamMarketState
  <2> HIDE DEF mm
  <2> QED BY <1>1, <1>2, <2>1, <2>2, <2>3
<1>3. ASSUME NEW rate \in RamRates, Setramrate(rate),
             UNCHANGED <<core, now, votingVars, stakingVars, nameVars, payVars>>
      PROVE  SystemInv' /\ ram'.base * ram'.quote >= ram.base * ram.quote
  <2> DEFINE m == Grown(ram)   mm == [m EXCEPT !.new_ram_per_block = rate]
  <2>1. /\ m \in RamMarketState /\ m.base >= ram.base /\ m.quote = ram.quote
        /\ m.max_ram_size - m.base = ram.max_ram_size - ram.base
        /\ m.total_ram_bytes_reserved = ram.total_ram_bytes_reserved
        /\ m.total_ram_stake = ram.total_ram_stake
    BY MarketIs, GrownIs
  <2>2. ram' = mm BY <1>3 DEF Setramrate
  <2>3. rate \in Nat BY RamAssumption
  <2> HIDE DEF m
  <2>4. /\ mm \in RamMarketState /\ mm.max_ram_size = m.max_ram_size /\ mm.base = m.base
        /\ mm.quote = m.quote /\ mm.total_ram_stake = m.total_ram_stake
        /\ mm.total_ram_bytes_reserved = m.total_ram_bytes_reserved
    BY <2>1, <2>3 DEF RamMarketState
  <2> HIDE DEF mm
  <2> QED BY <1>1, <1>3, <2>1, <2>2, <2>4
<1>4. ASSUME NEW r \in Receivers, NEW q \in StakeQty, NEW bytes \in AdminLimits,
             Setalimits(r, bytes, q),
             UNCHANGED <<core, now, votingVars, refunds, deferred, ram, nameVars, payVars>>
      PROVE  SystemInv'
  <2>1. /\ userres[r] = None /\ delband' = delband /\ userres' = userres
        /\ limits' = [limits EXCEPT ![r] = [weight |-> q, ram_bytes |-> bytes]]
    BY <1>4 DEF Setalimits
  <2>2. q \in Amounts /\ bytes \in Int BY StakingAssumption, SystemAssumption
  <2>3. limits \in [Receivers -> Limits] /\ DelegationsAgree
        /\ userres \in [Receivers -> Resources \cup {None}]
    BY DEF SystemInv, DelegatedOK
  <2>4. [weight |-> q, ram_bytes |-> bytes] \in Limits BY <2>2 DEF Limits
  <2>5. limits' \in [Receivers -> Limits] BY <2>1, <2>3, <2>4
  <2>6. \A x \in Receivers : userres[x] # None => limits'[x].weight = userres[x].weight
    BY <2>1, <2>3 DEF DelegationsAgree
  <2>7. DelegationsAgree'
    <3>1. \A v \in Voters : StakedBy(v)' = StakedBy(v) BY <2>1 DEF StakedBy, StakedFor
    <3>2. \A x \in Receivers : Row(x)' = Row(x) BY <2>1 DEF Row
    <3>3. voters' = voters BY <1>4 DEF votingVars
    <3> QED BY <2>1, <2>3, <2>6, <3>1, <3>2, <3>3 DEF DelegationsAgree
  <2>8. DelegatedOK' BY <2>1, <2>3, <2>5, <2>7 DEF DelegatedOK
  <2>9. VotersOK' /\ StakesOK' BY <1>4, <2>1, VotersFrame, StakesFrame DEF SystemInv
  <2>10. RowsOK' /\ NamesOK'
    BY <1>4, <2>1, RowsFrame, NamesFrame DEF SystemInv, nameVars, NamesOK
  <2>11. MarketOK' BY <1>4, <2>1, MarketFrame, RowsSame DEF SystemInv
  <2>12. Book(core)' BY <1>4 DEF SystemInv, Book
  <2> QED BY <2>8, <2>9, <2>10, <2>11, <2>12 DEF SystemInv
<1>5. ASSUME UNCHANGED <<core, now, votingVars, stakingVars, ram, nameVars>>
      PROVE  SystemInv'
  <2>1. VotersOK' /\ StakesOK' BY <1>5, VotersFrame, StakesFrame DEF SystemInv, stakingVars
  <2>2. DelegatedOK' BY <1>5, DelegatedFrame DEF SystemInv, stakingVars, votingVars
  <2>3. RowsOK' /\ NamesOK'
    BY <1>5, RowsFrame, NamesFrame DEF SystemInv, stakingVars, nameVars, NamesOK
  <2>4. MarketOK' BY <1>5, MarketFrame, RowsSame DEF SystemInv, stakingVars
  <2>5. Book(core)' BY <1>5 DEF SystemInv, Book
  <2> QED BY <2>1, <2>2, <2>3, <2>4, <2>5 DEF SystemInv
<1>6. ram' = ram => ram'.base * ram'.quote >= ram.base * ram.quote
  <2>1. ram.base * ram.quote \in Nat BY MarketIs, MulNat
  <2> QED BY <2>1
<1> QED BY <1>2, <1>3, <1>4, <1>5, <1>6 DEF AdminStep

-----------------------------------------------------------------------------
(***************************************************************************)
(* Stakes and refunds.                                                     *)
(***************************************************************************)
PendingRows == [v \in Voters |-> TotalOf(Pending(v))]
StakedRows == [v \in Voters |-> StakedBy(v)]

LEMMA StakesAre ==
  ASSUME delband \in [Voters -> [Receivers -> Amounts]]
  PROVE  /\ \A v \in Voters : StakedBy(v) \in Nat
         /\ StakedInAll = SumFunction(StakedRows) /\ PendingInAll = SumFunction(PendingRows)
         /\ SumFunction(StakedRows) \in Int
<1>1. ASSUME NEW v \in Voters PROVE StakedBy(v) \in Nat
  <2> DEFINE f == [r \in Receivers |-> StakedFor(v, r)]
  <2>1. DOMAIN f = Receivers /\ \A r \in Receivers : f[r] \in Nat
    BY AmountsAre DEF StakedFor
  <2> HIDE DEF f
  <2>2. SumFunction(f) \in Nat BY <2>1, SumNat, StakingAssumption DEF SumFunction
  <2> QED BY <2>2 DEF StakedBy, f
<1>2. DOMAIN StakedRows = Voters /\ \A v \in Voters : StakedRows[v] \in Int
  BY <1>1 DEF StakedRows
<1> HIDE DEF StakedRows
<1>3. SumFunction(StakedRows) \in Int BY <1>2, SumInt, VotersFinite DEF SumFunction
<1> QED BY <1>1, <1>3 DEF StakedInAll, PendingInAll, PendingRows, StakedRows

\* The pending refund of one voter changes.
LEMMA PendingWritten ==
  ASSUME refunds \in [Voters -> RefundRow \cup {None}], NEW v \in Voters,
         NEW row \in RefundRow \cup {None}, refunds' = [refunds EXCEPT ![v] = row]
  PROVE  /\ refunds' \in [Voters -> RefundRow \cup {None}]
         /\ PendingInAll \in Int
         /\ PendingInAll' = PendingInAll - TotalOf(Pending(v)) + TotalOf(Pending(v)')
<1> DEFINE f == PendingRows   g == PendingRows'
<1>1. /\ refunds' \in [Voters -> RefundRow \cup {None}] /\ refunds'[v] = row
      /\ \A x \in Voters : x # v => refunds'[x] = refunds[x]
  OBVIOUS
<1>2. DOMAIN f = Voters /\ DOMAIN g = Voters /\ f[v] = TotalOf(Pending(v))
      /\ g[v] = TotalOf(Pending(v)')
  BY DEF PendingRows, TotalOf
<1>3. \A x \in Voters : f[x] \in Int BY PendingIs DEF PendingRows
<1>4. \A x \in Voters : x # v => g[x] = f[x]
  BY <1>1 DEF PendingRows, Pending, TotalOf
<1>5. g[v] \in Int
  <2>1. Pending(v)' \in Amounts BY <1>1, AmountsAre DEF Pending, RefundRow
  <2> QED BY <1>2, <2>1, AmountsAre
<1>6. /\ \A x \in Voters : f[x] \in Int /\ g[x] \in Int
      /\ IsFiniteSet(Voters) /\ v \in Voters
  <2> HIDE DEF f, g
  <2> QED BY <1>3, <1>4, <1>5, VotersFinite
<1>7. PendingInAll = SumFunction(f) /\ PendingInAll' = SumFunction(g)
  BY DEF PendingInAll, PendingRows
<1> HIDE DEF f, g
<1>8. SumFunction(f) \in Int /\ SumFunction(g) = SumFunction(f) - f[v] + g[v]
  BY ONLY <1>2, <1>4, <1>6, SumWritten
<1> QED BY <1>1, <1>2, <1>7, <1>8

LEMMA RefundInv ==
  ASSUME SystemInv, RefundStep
  PROVE  SystemInv'
<1>1. UNCHANGED <<now, votingVars, delband, userres, limits, ram, nameVars, payVars>>
  BY DEF RefundStep
<1>2. PICK v \in Voters : \/ CanRefund(v) /\ Refunded(v)
                          \/ UNCHANGED <<core, refunds>>
  BY DEF RefundStep, Refund, RunRefund
<1>3. /\ Book(core') /\ core'["eosio.ram"] = core["eosio.ram"]
      /\ core'["eosio.names"] = core["eosio.names"] /\ StakesOK'
  <2>1. CASE CanRefund(v) /\ Refunded(v)
    <3> DEFINE n == TotalOf(refunds[v].amount)
    <3>1. /\ core' = Paid(core, "eosio.stake", v, n)
          /\ refunds' = [refunds EXCEPT ![v] = None] /\ refunds[v] # None
      BY <2>1 DEF Refunded, CanRefund
    <3>2. refunds \in [Voters -> RefundRow \cup {None}]
          /\ delband \in [Voters -> [Receivers -> Amounts]]
      BY DEF SystemInv, StakesOK
    <3>3. Pending(v) = refunds[v].amount /\ n \in Int
      BY <3>1, <3>2, PendingIs DEF Pending
    <3>4. /\ refunds' \in [Voters -> RefundRow \cup {None}] /\ PendingInAll \in Int
          /\ PendingInAll' = PendingInAll - n + TotalOf(Pending(v)')
      BY <3>1, <3>2, <3>3, PendingWritten
    <3>5. TotalOf(Pending(v)') = 0
      <4>1. Pending(v)' = Nothing BY <3>1, <3>2 DEF Pending
      <4> QED BY <4>1, AmountsAre
    <3> HIDE DEF n
    <3>6. /\ Book(core)
          /\ \A x \in Kept : core'[x] = IF x = "eosio.stake" THEN core[x] - n
                            ELSE IF x = v THEN core[x] + n ELSE core[x]
          /\ Book(core')
      <4>1. v \in Accounts /\ v # "eosio.stake" /\ "eosio.stake" \in Accounts /\ Book(core)
        BY AccountsAre DEF Kept, SystemInv
      <4> QED BY <3>1, <3>3, <4>1, BookPaid
    <3>7. v \notin Kept BY AccountsAre
    <3>8. /\ core'["eosio.stake"] = core["eosio.stake"] - n
          /\ core'["eosio.ram"] = core["eosio.ram"] /\ core'["eosio.names"] = core["eosio.names"]
      BY <3>6, <3>7, KeptAre
    <3>9. core["eosio.stake"] = StakedInAll + PendingInAll /\ StakedInAll \in Int
      BY <3>2, StakesAre DEF SystemInv, StakesOK, StakesAreFunded
    <3>10. StakedInAll' = StakedInAll BY <1>1 DEF StakedInAll, StakedBy, StakedFor
    <3>11. core'["eosio.stake"] = StakedInAll' + PendingInAll'
      BY <3>3, <3>4, <3>5, <3>8, <3>9, <3>10
    <3> QED BY <1>1, <3>2, <3>4, <3>6, <3>8, <3>11 DEF StakesOK, StakesAreFunded
  <2>2. CASE UNCHANGED <<core, refunds>>
    BY <1>1, <2>2, StakesFrame DEF SystemInv, Book
  <2> QED BY <1>2, <2>1, <2>2
<1>4. VotersOK' BY <1>1, VotersFrame DEF SystemInv
<1>5. DelegatedOK' BY <1>1, DelegatedFrame DEF SystemInv, votingVars
<1>6. RowsOK' BY <1>1, RowsFrame DEF SystemInv, nameVars
<1>7. MarketOK' BY <1>1, <1>3, MarketFrame, RowsSame DEF SystemInv
<1>8. NamesOK' BY <1>1, <1>3, NamesFrame DEF SystemInv, nameVars, NamesOK
<1> QED BY <1>3, <1>4, <1>5, <1>6, <1>7, <1>8 DEF SystemInv

LEMMA ClaimedIs ==
  ASSUME NEW row \in AnyProducer, now \in 0 .. MaxDay
  PROVE  Claimed(row) \in AnyProducer /\ Claimed(row).unpaid_blocks = 0
<1> DEFINE z == 0
           new == [row EXCEPT !.unpaid_blocks = z, !.last_claim_time = now,
                              !.votepay_share = z, !.last_votepay_share_update = now]
<1>1. z \in Int /\ now \in Int /\ z = 0 OBVIOUS
<1>2. Claimed(row) = new BY DEF Claimed
<1> HIDE DEF z
<1>3. new \in AnyProducer /\ new.unpaid_blocks = z
  <2> SUFFICES ASSUME NEW y \in Int, NEW t \in Int
               PROVE  LET nn == [row EXCEPT !.unpaid_blocks = y, !.last_claim_time = t,
                              !.votepay_share = y, !.last_votepay_share_update = t]
                      IN nn \in AnyProducer /\ nn.unpaid_blocks = y
    BY <1>1
  <2> QED BY DEF AnyProducer
<1> QED BY <1>1, <1>2, <1>3

LEMMA PaidOutIs ==
  ASSUME NEW m, m = [x \in Accounts |-> m[x]], NEW a \in Accounts, NEW b \in Accounts, a # b, NEW n
  PROVE  /\ PaidOut(m, a, b, n) = [x \in Accounts |-> PaidOut(m, a, b, n)[x]]
         /\ \A x \in Accounts : (x # a /\ x # b) => PaidOut(m, a, b, n)[x] = m[x]
<1>1. CASE n = 0 BY <1>1 DEF PaidOut
<1>2. CASE n # 0
  <2>1. PaidOut(m, a, b, n) = Paid(m, a, b, n) BY <1>2 DEF PaidOut
  <2> QED BY <2>1, PaidIs
<1> QED BY <1>1, <1>2

\* A claim pays a producer from inflation.
LEMMA ClaimInv ==
  ASSUME SystemInv, NEW p \in Candidates, Claimrewards(p), UNCHANGED <<now, stakingVars, ram>>
  PROVE  SystemInv'
<1> DEFINE row == producers[p]
           forBlocks == BlockPay(Fill, row)   forVotes == VotePay(Fill, row)
           mid == PaidOut(Issued, "eosio.bpay", p, forBlocks)
<1>1. /\ row # None
      /\ core' = PaidOut(mid, "eosio.vpay", p, forVotes)
      /\ gstate' = SharesClaimed(row)
      /\ producers' = [producers EXCEPT ![p] = Claimed(row)]
      /\ UNCHANGED <<now, voters, delband, userres, limits, refunds, ram, bids, bidrefunds,
                     bidcalls, created>>
  BY DEF Claimrewards, stakingVars
<1>2. /\ Linked(Tables) /\ voters \in VoterTable /\ producers \in ProducerTable
      /\ gstate \in AnyGlobal /\ now \in 0 .. MaxDay
  BY VotersParts DEF SystemInv, VotersOK
<1>3. row \in AnyProducer BY <1>1, <1>2 DEF ProducerTable
<1> HIDE DEF forBlocks, forVotes
<1>4. Book(core') /\ \A x \in Kept : core'[x] = core[x]
  <2>0. /\ p \in Accounts /\ p \notin Kept /\ p # "eosio.bpay" /\ p # "eosio.vpay"
        /\ "eosio.bpay" \in Accounts /\ "eosio.vpay" \in Accounts
        /\ "eosio.bpay" \notin Kept /\ "eosio.vpay" \notin Kept /\ "eosio.saving" \notin Kept
    BY CoreAssumption, AccountsAre DEF Kept, SystemAccounts
  <2>1. /\ core = [x \in Accounts |-> core[x]] /\ \A x \in Kept : core[x] \in Int
        /\ Kept \subseteq Accounts
    BY AccountsAre DEF SystemInv, Book
  <2>2. /\ Issued = [x \in Accounts |-> Issued[x]] /\ \A x \in Kept : Issued[x] = core[x]
    BY <2>0, <2>1 DEF Issued
  <2>3. mid = [x \in Accounts |-> mid[x]] /\ \A x \in Kept : mid[x] = core[x]
    <3>1. "eosio.bpay" # p BY <2>0
    <3>2. /\ mid = [x \in Accounts |-> mid[x]]
          /\ \A x \in Accounts : (x # "eosio.bpay" /\ x # p) => mid[x] = Issued[x]
      BY ONLY <2>0, <2>2, <3>1, PaidOutIs
    <3> HIDE DEF mid
    <3> QED BY <2>0, <2>1, <2>2, <3>2
  <2> HIDE DEF mid
  <2>4. core' = [x \in Accounts |-> core'[x]] /\ \A x \in Kept : core'[x] = core[x]
    <3>1. "eosio.vpay" # p BY <2>0
    <3> DEFINE last == PaidOut(mid, "eosio.vpay", p, forVotes)
    <3>2. /\ last = [x \in Accounts |-> last[x]]
          /\ \A x \in Accounts : (x # "eosio.vpay" /\ x # p) => last[x] = mid[x]
      BY ONLY <2>0, <2>3, <3>1, PaidOutIs
    <3>3. core' = last BY <1>1 DEF mid
    <3> HIDE DEF last
    <3> QED BY <2>0, <2>1, <2>3, <3>2, <3>3
  <2> QED BY <2>1, <2>4 DEF Book
<1>5. /\ core'["eosio.stake"] = core["eosio.stake"] /\ core'["eosio.ram"] = core["eosio.ram"]
      /\ core'["eosio.names"] = core["eosio.names"]
  BY <1>4 DEF Kept
<1>6. gstate' \in AnyGlobal
  <2> DEFINE lost == ShareNow(row)   rate == IF Lapsed(row) THEN row.total_votes ELSE 0
  <2>1. now \in Int BY <1>2
  <2>2. lost \in Int BY <1>3, <2>1, CountInts
  <2>3. rate \in Int BY <1>3 DEF AnyProducer
  <2>4. gstate' = TotalUpdated(gstate, lost, rate) BY <1>1 DEF SharesClaimed
  <2> HIDE DEF lost, rate
  <2> QED BY <1>2, <2>1, <2>2, <2>3, <2>4, UpdatedInts
<1>7. Claimed(row) \in AnyProducer BY <1>2, <1>3, ClaimedIs
<1> HIDE DEF row
<1>8. /\ producers' \in ProducerTable
      /\ \A q \in Candidates : producers[q] # None => producers'[q] # None
  BY <1>1, <1>2, <1>7, NoRow DEF ProducerTable
<1>9. VotersOK'
  <2>1. Linked(Tables)'
    <3> SUFFICES ASSUME NEW x \in Voters, voters[x] # None
                 PROVE  /\ voters[x].proxy # None => voters[voters[x].proxy] # None
                        /\ \A q \in voters[x].producers : producers'[q] # None
      BY <1>1, TablesAre DEF Linked
    <3>1. voters[x].producers \subseteq Candidates BY <1>2 DEF VoterTable, AnyVoter
    <3> QED BY <1>2, <1>8, <3>1, TablesAre DEF Linked
  <2>2. Good(Tables)' BY <1>1, <1>2, <1>6, <1>8, <2>1 DEF Good, State, Tables
  <2> QED BY <1>1, <2>2 DEF VotersOK, SystemInv
<1>10. StakesOK' BY <1>1, <1>5, StakesFrame DEF SystemInv
<1>11. DelegatedOK' BY <1>1, DelegatedFrame DEF SystemInv
<1>12. RowsOK' BY <1>1, RowsFrame DEF SystemInv
<1>13. MarketOK' BY <1>1, <1>5, MarketFrame, RowsSame DEF SystemInv
<1>14. NamesOK' BY <1>1, <1>5, NamesFrame DEF SystemInv, NamesOK
<1> QED BY <1>4, <1>9, <1>10, <1>11, <1>12, <1>13, <1>14 DEF SystemInv

LEMMA PayInv == ASSUME SystemInv, PayStep PROVE SystemInv'
BY OnblockInv, ClaimInv DEF PayStep

LEMMA TickInv ==
  ASSUME SystemInv, Tick
  PROVE  SystemInv'
<1>1. /\ UNCHANGED <<core, producers, voters, gstate, delband, userres, limits, refunds, ram,
                     bids, bidrefunds, bidcalls, created>>
      /\ now' = now \/ (now < MaxDay /\ now' = now + 1)
  BY DEF Tick, votingVars, stakingVars, nameVars
<1>2. now' \in 0 .. MaxDay BY <1>1, CoreAssumption DEF SystemInv, VotersOK
<1>3. VotersOK'
  <2>1. Tables' = Tables BY <1>1 DEF Tables
  <2>2. Good(Tables)' BY <2>1 DEF SystemInv, VotersOK, Good, Linked
  <2> QED BY <1>1, <1>2, <2>2 DEF VotersOK, SystemInv
<1>4. StakesOK' BY <1>1, StakesFrame DEF SystemInv
<1>5. DelegatedOK' BY <1>1, DelegatedFrame DEF SystemInv
<1>6. RowsOK' BY <1>1, RowsFrame DEF SystemInv
<1>7. MarketOK' BY <1>1, MarketFrame, RowsSame DEF SystemInv
<1>8. NamesOK' BY <1>1, NamesFrame DEF SystemInv, NamesOK
<1>9. Book(core)' BY <1>1 DEF SystemInv, Book
<1> QED BY <1>3, <1>4, <1>5, <1>6, <1>7, <1>8, <1>9 DEF SystemInv

\* A stake of v that changes by n, with the vote that goes with it.
LEMMA RestakedKeeps ==
  ASSUME VotersOK, NEW v \in Voters, NEW n \in Int, Become(Restaked(v, n))
  PROVE  /\ Good(Tables)' /\ ProxyRule(voters') /\ NoLoop(voters')
         /\ Restaked(v, n).voters = voters' /\ voters'[v] # None
         /\ voters'[v].staked = StakeIn(voters[v]) + n
         /\ \A x \in Voters : x # v => StakeIn(voters'[x]) = StakeIn(voters[x])
         /\ \A p \in Candidates : UnpaidIn(producers'[p]) = UnpaidIn(producers[p])
<1> DEFINE row == IF voters[v] = None THEN NewVoter(n, FALSE)
                  ELSE [voters[v] EXCEPT !.staked = @ + n]
           st == [Tables EXCEPT !.voters[v] = row]
           tt == Restaked(v, n)
<1>0. /\ Tables \in State /\ Linked(Tables) /\ voters \in VoterTable
      /\ producers \in ProducerTable /\ gstate \in AnyGlobal
      /\ ProxyRule(voters) /\ NoLoop(voters)
  BY VotersParts DEF VotersOK, Good
<1>1. /\ row \in AnyVoter /\ row # None /\ row.staked = StakeIn(voters[v]) + n
      /\ voters[v] = None => row.proxy = None /\ row.producers = {}
      /\ voters[v] # None => /\ row.proxy = voters[v].proxy /\ row.is_proxy = voters[v].is_proxy
                             /\ row.producers = voters[v].producers
  <2>1. CASE voters[v] = None
    <3>1. row = NewVoter(n, FALSE) BY <2>1
    <3> HIDE DEF row
    <3>2. /\ row \in AnyVoter /\ row # None /\ row.staked = n /\ row.proxy = None
          /\ row.producers = {}
      BY ONLY <3>1, n \in Int, FALSE \in BOOLEAN, NewVoterRow
    <3>3. StakeIn(voters[v]) + n = n BY <2>1 DEF StakeIn
    <3> QED BY <2>1, <3>2, <3>3
  <2>2. CASE voters[v] # None
    <3>1. voters[v] \in AnyVoter BY <1>0, <2>2 DEF VoterTable
    <3>2. voters[v].staked + n \in Int BY <3>1 DEF AnyVoter
    <3>3. row = [voters[v] EXCEPT !.staked = voters[v].staked + n] BY <2>2
    <3> HIDE DEF row
    <3>4. row \in AnyVoter BY <3>1, <3>2, <3>3 DEF AnyVoter
    <3> QED BY <2>2, <3>1, <3>3, <3>4, NoRow DEF AnyVoter, StakeIn
  <2> QED BY <2>1, <2>2
<1>2. tt = IF row.producers # {} \/ row.proxy # None
           THEN UpdateVotes(st, v, row.proxy, row.producers) ELSE st
  BY DEF Restaked
<1> HIDE DEF row, tt
<1>3. /\ st \in State /\ st.producers = producers /\ st.gstate = gstate /\ st.voters[v] = row
      /\ \A x \in Voters : x # v => st.voters[x] = voters[x]
  BY <1>0, <1>1, VoterWritten, TablesAre
<1> HIDE DEF st
<1>4. Linked(st)
  <2> SUFFICES ASSUME NEW x \in Voters, st.voters[x] # None
               PROVE  /\ st.voters[x].proxy # None => st.voters[st.voters[x].proxy] # None
                      /\ \A p \in st.voters[x].producers : st.producers[p] # None
    BY DEF Linked
  <2>1. CASE x = v /\ voters[v] = None BY <1>1, <1>3, <2>1
  <2>2. CASE ~ (x = v /\ voters[v] = None)
    <3>1. /\ voters[x] # None /\ st.voters[x].proxy = voters[x].proxy
          /\ st.voters[x].producers = voters[x].producers
      BY <1>1, <1>3, <2>2
    <3>2. /\ voters[x].proxy # None => voters[x].proxy \in Voters /\ voters[voters[x].proxy] # None
          /\ \A p \in voters[x].producers : producers[p] # None
      BY <1>0, <3>1, VoterOf, TablesAre DEF Good
    <3> QED BY <1>1, <1>3, <3>1, <3>2
  <2> QED BY <2>1, <2>2
<1>5. Good(st) /\ st.voters \in VoterTable BY <1>3, <1>4 DEF Good, State
<1>6. \A x \in Voters : x # v => SameVoter(voters[x], st.voters[x]) BY <1>3 DEF SameVoter
<1>7. ProxyRule(st.voters) /\ NoLoop(st.voters)
  <2>1. CASE voters[v] = None BY <1>0, <1>1, <1>3, <1>5, <1>6, <2>1, NewKeepsOrder
  <2>2. CASE voters[v] # None BY <1>0, <1>1, <1>3, <1>5, <1>6, <2>2, ChoiceKeepsOrder
  <2> QED BY <2>1, <2>2
<1>8. tt = st \/ Updated(st, v, row.proxy, row.producers, tt)
  <2>1. /\ row.proxy \in Proxies \cup {None} /\ row.producers \in SUBSET Candidates
        /\ row.proxy # None => st.voters[row.proxy] # None
        /\ \A p \in row.producers : st.producers[p] # None
    BY <1>1, <1>3, <1>4 DEF AnyVoter, Linked
  <2>2. UpdateVotes(st, v, row.proxy, row.producers) = tt
          => Updated(st, v, row.proxy, row.producers, tt)
    BY <1>1, <1>3, <1>5, <2>1, UpdateVotesUpdates DEF VotersOK
  <2> QED BY <1>2, <2>2
<1>9. /\ Good(tt) /\ ProxyRule(tt.voters) /\ NoLoop(tt.voters)
      /\ tt.voters[v] # None /\ tt.voters[v].staked = row.staked
      /\ \A x \in Voters : x # v => SameVoter(voters[x], tt.voters[x])
      /\ \A p \in Candidates : UnpaidIn(tt.producers[p]) = UnpaidIn(producers[p])
  <2>1. CASE tt = st BY <1>1, <1>3, <1>5, <1>6, <1>7, <2>1
  <2>2. CASE Updated(st, v, row.proxy, row.producers, tt)
    <3>1. /\ Good(tt) /\ tt.voters \in VoterTable
          /\ tt.voters[v] # None /\ tt.voters[v].staked = row.staked
          /\ tt.voters[v].proxy = st.voters[v].proxy
          /\ tt.voters[v].is_proxy = st.voters[v].is_proxy
          /\ \A x \in Voters : x # v => SameVoter(st.voters[x], tt.voters[x])
      BY <1>3, <2>2 DEF Updated, Good, State
    <3>2. ProxyRule(tt.voters) /\ NoLoop(tt.voters)
      BY <1>1, <1>3, <1>5, <1>7, <3>1, ChoiceKeepsOrder
    <3>3. \A p \in Candidates : UnpaidIn(tt.producers[p]) = UnpaidIn(producers[p])
      BY <1>3, <2>2 DEF Updated, UnpaidIn
    <3> QED BY <1>3, <3>1, <3>2, <3>3
  <2> QED BY <1>8, <2>1, <2>2
<1>10. Tables' = tt /\ voters' = tt.voters /\ producers' = tt.producers
  BY <1>9, BecomeIs DEF tt, Good
<1> QED BY <1>1, <1>9, <1>10, SameStakes DEF tt

-----------------------------------------------------------------------------
\* What all have delegated to r.
AllFor(d, r, k) == SumFunction([x \in Voters |-> d[x][r][k]])

\* The delegations of others, and of v to others, stay.
LEMMA DelbandWritten ==
  ASSUME delband \in [Voters -> [Receivers -> Amounts]],
         NEW v \in Voters, NEW r \in Receivers, NEW delta \in AnyAmounts,
         NEW staked \in Amounts, staked = Plus(delband[v][r], delta),
         delband' \in [Voters -> [Receivers -> Amounts]], delband'[v][r] = staked,
         \A x \in Voters : x # v => delband'[x] = delband[x],
         \A y \in Receivers : y # r => delband'[v][y] = delband[v][y]
  PROVE  /\ \A x \in Voters : x # v => StakedBy(x)' = StakedBy(x)
         /\ StakedBy(v)' = StakedBy(v) + TotalOf(delta)
         /\ StakedInAll' = StakedInAll + TotalOf(delta)
         /\ \A y \in Receivers : y # r =>
              \A k \in Kinds : AllFor(delband', y, k) = AllFor(delband, y, k)
         /\ \A k \in Kinds : AllFor(delband', r, k) = AllFor(delband, r, k) + delta[k]
<1>1. /\ delband' \in [Voters -> [Receivers -> Amounts]] /\ delband'[v][r] = staked
      /\ \A x \in Voters : x # v => delband'[x] = delband[x]
      /\ \A y \in Receivers : y # r => delband'[v][y] = delband[v][y]
  OBVIOUS
<1>2. \A x \in Voters : x # v => StakedBy(x)' = StakedBy(x)
  BY <1>1 DEF StakedBy, StakedFor
<1>3. delband[v][r] \in Amounts /\ delband[v][r] \in AnyAmounts /\ TotalOf(delta) \in Int
  BY AmountsAre
<1>4. TotalOf(staked) = TotalOf(delband[v][r]) + TotalOf(delta) BY <1>3, AmountOps
<1>5. StakedBy(v)' = StakedBy(v) + TotalOf(delta) /\ StakedBy(v) \in Int
  <2> DEFINE f == [y \in Receivers |-> StakedFor(v, y)]   g == [y \in Receivers |-> StakedFor(v, y)']
  <2>1. /\ DOMAIN f = Receivers /\ DOMAIN g = Receivers
        /\ f[r] = TotalOf(delband[v][r]) /\ g[r] = TotalOf(staked)
        /\ \A y \in Receivers : y # r => g[y] = f[y]
    BY <1>1 DEF StakedFor
  <2>2. \A y \in Receivers : f[y] \in Int /\ g[y] \in Int
    BY <1>1, AmountsAre DEF StakedFor
  <2>3. StakedBy(v) = SumFunction(f) /\ StakedBy(v)' = SumFunction(g) BY DEF StakedBy
  <2> HIDE DEF f, g
  <2>4. SumFunction(f) \in Int /\ SumFunction(g) = SumFunction(f) - f[r] + g[r]
    BY <2>1, <2>2, SumWritten, StakingAssumption
  <2>5. TotalOf(delband[v][r]) \in Int BY <1>3, AmountsAre
  <2> QED BY <1>3, <1>4, <2>1, <2>3, <2>4, <2>5
<1>6. StakedInAll' = StakedInAll + TotalOf(delta)
  <2> DEFINE f == [x \in Voters |-> StakedBy(x)]   g == [x \in Voters |-> StakedBy(x)']
  <2>1. /\ DOMAIN f = Voters /\ DOMAIN g = Voters /\ f[v] = StakedBy(v) /\ g[v] = StakedBy(v)'
        /\ \A x \in Voters : x # v => g[x] = f[x]
    BY <1>2
  <2>2. \A x \in Voters : f[x] \in Int /\ g[x] \in Int
    BY <1>2, <1>3, <1>5, StakesAre
  <2>3. StakedInAll = SumFunction(f) /\ StakedInAll' = SumFunction(g) BY DEF StakedInAll
  <2> HIDE DEF f, g
  <2>4. SumFunction(f) \in Int /\ SumFunction(g) = SumFunction(f) - f[v] + g[v]
    <3>1. IsFiniteSet(Voters) BY VotersFinite
    <3> QED BY ONLY v \in Voters, <2>1, <2>2, <3>1, SumWritten
  <2> QED BY <1>3, <1>5, <2>1, <2>3, <2>4
<1>7. ASSUME NEW y \in Receivers, y # r, NEW k \in Kinds
      PROVE  AllFor(delband', y, k) = AllFor(delband, y, k)
  <2>1. [x \in Voters |-> delband'[x][y][k]] = [x \in Voters |-> delband[x][y][k]]
    BY <1>1, <1>7
  <2> QED BY <2>1 DEF AllFor
<1>8. ASSUME NEW k \in Kinds
      PROVE  AllFor(delband', r, k) = AllFor(delband, r, k) + delta[k]
  <2> DEFINE f == [x \in Voters |-> delband[x][r][k]]   g == [x \in Voters |-> delband'[x][r][k]]
  <2>1. /\ DOMAIN f = Voters /\ DOMAIN g = Voters /\ f[v] = delband[v][r][k] /\ g[v] = staked[k]
        /\ \A x \in Voters : x # v => g[x] = f[x]
    BY <1>1
  <2>2. \A x \in Voters : f[x] \in Int /\ g[x] \in Int
    BY <1>1, <1>8 DEF Amounts
  <2>3. staked[k] = delband[v][r][k] + delta[k] /\ delta[k] \in Int /\ delband[v][r][k] \in Int
    BY <1>3, <1>8, AmountOps DEF AnyAmounts
  <2> HIDE DEF f, g
  <2>4. SumFunction(f) \in Int /\ SumFunction(g) = SumFunction(f) - f[v] + g[v]
    <3>1. IsFiniteSet(Voters) BY VotersFinite
    <3> QED BY ONLY v \in Voters, <2>1, <2>2, <3>1, SumWritten
  <2>5. SumFunction(g) = SumFunction(f) + delta[k] BY <2>1, <2>3, <2>4
  <2> QED BY <2>5 DEF f, g, AllFor
<1> QED BY <1>1, <1>2, <1>5, <1>6, <1>7, <1>8

\* What one stake does to the records of resources.
LEMMA DelegateIs ==
  ASSUME StakesOK, DelegatedOK, NEW v \in Voters, NEW r \in Receivers, NEW delta \in AnyAmounts,
         Delegate(v, r, delta)
  PROVE  /\ delband' \in [Voters -> [Receivers -> Amounts]]
         /\ \A x \in Voters : x # v => StakedBy(x)' = StakedBy(x)
         /\ StakedBy(v)' = StakedBy(v) + TotalOf(delta)
         /\ StakedInAll' = StakedInAll + TotalOf(delta)
         /\ userres' \in [Receivers -> Resources \cup {None}] /\ limits' \in [Receivers -> Limits]
         /\ \A x \in Receivers : \A k \in Kinds :
              Row(x)'.weight[k] = AllFor(delband', x, k)
         /\ \A x \in Receivers : userres'[x] # None => limits'[x].weight = userres'[x].weight
         /\ \A x \in Receivers : Row(x)'.ram_bytes = Row(x).ram_bytes
         /\ \A x \in Receivers : x # r => userres'[x] = userres[x]
         /\ userres[r] = None => delta \in Amounts
<1>0. /\ delband \in [Voters -> [Receivers -> Amounts]]
      /\ userres \in [Receivers -> Resources \cup {None}] /\ limits \in [Receivers -> Limits]
      /\ \A x \in Receivers : \A k \in Kinds :
           Row(x).weight[k] = AllFor(delband, x, k)
      /\ \A x \in Receivers : userres[x] # None => limits[x].weight = userres[x].weight
  BY DEF StakesOK, DelegatedOK, DelegationsAgree, AllFor
<1> DEFINE staked == Plus(delband[v][r], delta)
           weight == Plus(Row(r).weight, delta)
           row == [Row(r) EXCEPT !.weight = weight]
           lim == [weight |-> row.weight, ram_bytes |->
             IF limits[r].ram_bytes > row.ram_bytes + RamGift
             THEN limits[r].ram_bytes ELSE row.ram_bytes + RamGift]
<1>1. /\ \A k \in Kinds : staked[k] >= 0 /\ row.weight[k] >= 0
      /\ delband' = [delband EXCEPT ![v][r] = staked]
      /\ userres' = [userres EXCEPT ![r] = IF row = NoResources THEN None ELSE row]
      /\ limits' = [limits EXCEPT ![r] = lim]
  BY DEF Delegate
<1>2. /\ Row(r) \in Resources /\ Row(r).weight \in Amounts /\ Row(r).ram_bytes \in Nat
      /\ Row(r) = [weight |-> Row(r).weight, ram_bytes |-> Row(r).ram_bytes]
      /\ delband[v][r] \in Amounts
  BY <1>0, RowIs
<1>3. /\ staked \in AnyAmounts /\ weight \in AnyAmounts
      /\ \A k \in Kinds : /\ staked[k] = delband[v][r][k] + delta[k]
                          /\ weight[k] = Row(r).weight[k] + delta[k]
  BY <1>2, AmountsAre, AmountOps
<1>3a. staked = Plus(delband[v][r], delta) OBVIOUS
<1> HIDE DEF staked, weight
<1>4. row = [weight |-> weight, ram_bytes |-> Row(r).ram_bytes] BY <1>2
<1>5. row.weight = weight /\ row.ram_bytes = Row(r).ram_bytes BY <1>4
<1> HIDE DEF row
<1>6. staked \in Amounts /\ weight \in Amounts
  BY <1>1, <1>3, <1>5 DEF Amounts, AnyAmounts
<1>7. row \in Resources BY <1>2, <1>4, <1>6 DEF Resources
<1>8. lim \in Limits /\ lim.weight = row.weight
  <2>1. /\ row.ram_bytes + RamGift \in Int /\ limits[r].ram_bytes \in Int
    BY <1>0, <1>2, <1>5, StakingAssumption DEF Limits
  <2> QED BY <1>5, <1>6, <2>1 DEF Limits
<1> HIDE DEF lim
<1>9. NoResources \in Resources /\ None \notin Resources
  BY AmountsAre, NoNoneRow DEF NoResources, Resources
<1>10. /\ userres' \in [Receivers -> Resources \cup {None}] /\ limits' \in [Receivers -> Limits]
       /\ userres'[r] = IF row = NoResources THEN None ELSE row
       /\ limits'[r] = lim
       /\ \A x \in Receivers : x # r => userres'[x] = userres[x] /\ limits'[x] = limits[x]
  BY <1>0, <1>1, <1>7, <1>8
<1>11. Row(r)' = row /\ \A x \in Receivers : x # r => Row(x)' = Row(x)
  BY <1>7, <1>9, <1>10 DEF Row
<1>12. /\ delband' \in [Voters -> [Receivers -> Amounts]]
       /\ \A x \in Voters : x # v => StakedBy(x)' = StakedBy(x)
       /\ StakedBy(v)' = StakedBy(v) + TotalOf(delta)
       /\ StakedInAll' = StakedInAll + TotalOf(delta)
       /\ \A y \in Receivers : y # r =>
            \A k \in Kinds : AllFor(delband', y, k) = AllFor(delband, y, k)
       /\ \A k \in Kinds : AllFor(delband', r, k) = AllFor(delband, r, k) + delta[k]
  <2>1. /\ delband \in [Voters -> [Receivers -> Amounts]] /\ v \in Voters /\ r \in Receivers
        /\ delta \in AnyAmounts /\ staked \in Amounts /\ staked = Plus(delband[v][r], delta)
    BY <1>0, <1>3a, <1>6
  <2>2. /\ delband' \in [Voters -> [Receivers -> Amounts]] /\ delband'[v][r] = staked
        /\ \A x \in Voters : x # v => delband'[x] = delband[x]
        /\ \A y \in Receivers : y # r => delband'[v][y] = delband[v][y]
    BY <1>1, <2>1
  <2> QED BY ONLY <2>1, <2>2, DelbandWritten
<1>13. ASSUME NEW x \in Receivers, NEW k \in Kinds
       PROVE  Row(x)'.weight[k] = AllFor(delband', x, k)
  <2>1. CASE x = r
    <3>1. Row(x)'.weight[k] = Row(r).weight[k] + delta[k] BY <1>3, <1>5, <1>11, <2>1
    <3>2. AllFor(delband', x, k) = AllFor(delband, r, k) + delta[k]
      BY <1>12, <2>1
    <3>3. Row(r).weight[k] = AllFor(delband, r, k) BY <1>0
    <3> QED BY <3>1, <3>2, <3>3
  <2>2. CASE x # r BY <1>0, <1>11, <1>12, <2>2
  <2> QED BY <2>1, <2>2
<1>14. \A x \in Receivers : userres'[x] # None => limits'[x].weight = userres'[x].weight
  BY <1>0, <1>8, <1>10
<1>15. \A x \in Receivers : Row(x)'.ram_bytes = Row(x).ram_bytes BY <1>5, <1>11
<1>16. userres[r] = None => delta \in Amounts
  <2> SUFFICES ASSUME userres[r] = None PROVE delta \in Amounts
    OBVIOUS
  <2>1. \A k \in Kinds : Row(r).weight[k] = 0 BY DEF Row, NoResources, Nothing
  <2>2. \A k \in Kinds : delta[k] \in Int BY DEF AnyAmounts
  <2>3. \A k \in Kinds : delta[k] >= 0 BY <1>1, <1>3, <1>5, <2>1, <2>2
  <2> QED BY <2>2, <2>3 DEF Amounts, AnyAmounts
<1> QED BY <1>10, <1>12, <1>13, <1>14, <1>15, <1>16

-----------------------------------------------------------------------------
\* The amount in a row of refunds.
AmountIn(row) == IF row = None THEN Nothing ELSE row.amount

\* What v pays for a stake is the stake less what its pending refund gives.
LEMMA SettledIs ==
  ASSUME refunds \in [Voters -> RefundRow \cup {None}], NEW v \in Voters,
         NEW delta \in AnyAmounts, NEW touched \in BOOLEAN, now \in 0 .. MaxDay,
         ~ touched \/ TotalOf(delta) >= 0 => delta \in Amounts
  PROVE  /\ Settled(v, delta, touched) \in RefundRow \cup {None}
         /\ TotalOf(Owed(v, delta, touched)) \in Nat
         /\ TotalOf(Owed(v, delta, touched)) = TotalOf(delta) - TotalOf(Pending(v))
              + TotalOf(AmountIn(Settled(v, delta, touched)))
<1>0. /\ Pending(v) \in Amounts /\ Pending(v) \in AnyAmounts /\ TotalOf(Pending(v)) \in Nat
      /\ TotalOf(delta) \in Int
  BY PendingIs, AmountsAre
<1>1. CASE ~ touched
  <2>1. delta \in Amounts BY <1>1
  <2>2. /\ Settled(v, delta, touched) = refunds[v] /\ Owed(v, delta, touched) = Floored(delta)
    BY <1>1 DEF Settled, Owed
  <2>3. AmountIn(refunds[v]) = Pending(v) BY DEF AmountIn, Pending
  <2>4. TotalOf(Floored(delta)) = TotalOf(delta) /\ TotalOf(delta) \in Nat
    BY <2>1, AmountsAre, AmountOps
  <2> QED BY <1>0, <2>2, <2>3, <2>4
<1>2. CASE touched
  <2> DEFINE left == Floored(Minus(Pending(v), delta))
  <2>1. left \in Amounts /\ left \in AnyAmounts
    BY <1>0, AmountOps, AmountsAre
  <2>2. Owed(v, delta, touched) = Floored(Minus(delta, Pending(v))) BY <1>2 DEF Owed
  <2>3. Floored(Minus(delta, Pending(v))) \in Amounts
    BY <1>0, AmountOps
  <2>4. TotalOf(Floored(Minus(delta, Pending(v)))) - TotalOf(left)
          = TotalOf(delta) - TotalOf(Pending(v))
    BY <1>0, FlooredDifference
  <2>5. left # Nothing /\ TotalOf(delta) >= 0 => refunds[v] # None
    <3> SUFFICES ASSUME TotalOf(delta) >= 0, refunds[v] = None PROVE left = Nothing
      OBVIOUS
    <3>1. Pending(v) = Nothing /\ delta \in Amounts BY DEF Pending
    <3>2. \A k \in Kinds : left[k] = AtLeast0(Pending(v)[k] - delta[k])
      BY DEF Floored, Minus
    <3>3. \A k \in Kinds : Pending(v)[k] = 0 /\ delta[k] \in Nat BY <3>1 DEF Nothing, Amounts
    <3>4. \A k \in Kinds : left[k] = 0 BY <3>2, <3>3 DEF AtLeast0
    <3>5. left["net"] = 0 /\ left["cpu"] = 0 BY <3>4 DEF Kinds
    <3> HIDE DEF left
    <3> QED BY <2>1, <3>5, AmountsAre
  <2> DEFINE time == IF TotalOf(delta) < 0 THEN now ELSE refunds[v].request_time
  <2>6. Settled(v, delta, touched) =
          IF left = Nothing THEN None ELSE [amount |-> left, request_time |-> time]
    BY <1>2 DEF Settled
  <2>7. left # Nothing => time \in 0 .. MaxDay
    <3>1. refunds[v] # None => refunds[v].request_time \in 0 .. MaxDay BY DEF RefundRow
    <3> HIDE DEF left
    <3> QED BY <1>0, <2>5, <3>1
  <2> HIDE DEF left, time
  <2>8. CASE left = Nothing
    <3>1. Settled(v, delta, touched) = None BY <2>6, <2>8
    <3>2. AmountIn(Settled(v, delta, touched)) = left BY <2>8, <3>1 DEF AmountIn
    <3>3. TotalOf(left) \in Nat /\ TotalOf(Floored(Minus(delta, Pending(v)))) \in Nat
      BY <2>1, <2>3, AmountsAre
    <3> QED BY <1>0, <2>2, <2>4, <3>1, <3>2, <3>3
  <2>9. CASE left # Nothing
    <3>1. Settled(v, delta, touched) = [amount |-> left, request_time |-> time]
      BY <2>6, <2>9
    <3>2. [amount |-> left, request_time |-> time] \in RefundRow
      BY <2>1, <2>7, <2>9 DEF RefundRow
    <3>3. AmountIn(Settled(v, delta, touched)) = left BY <3>1, <3>2, NoNoneRow DEF AmountIn
    <3>4. TotalOf(left) \in Nat /\ TotalOf(Floored(Minus(delta, Pending(v)))) \in Nat
      BY <2>1, <2>3, AmountsAre
    <3> QED BY <1>0, <2>2, <2>4, <3>1, <3>2, <3>3, <3>4
  <2> QED BY <2>8, <2>9
<1> QED BY <1>1, <1>2

\* A stake or an unstake.
LEMMA ChangebwInv ==
  ASSUME SystemInv, NEW source \in Voters, NEW v \in Voters, NEW r \in Receivers,
         NEW delta \in AnyAmounts, Changebw(source, v, r, delta),
         TotalOf(delta) >= 0 => delta \in Amounts /\ Exists(r),
         UNCHANGED <<now, ram, nameVars, payVars>>
  PROVE  SystemInv'
<1> DEFINE touched == TotalOf(delta) < 0 \/ (source = v /\ v = r)
           row == Settled(v, delta, touched)
           owed == TotalOf(Owed(v, delta, touched))
           st == Restaked(v, TotalOf(delta))
<1>1. /\ Delegate(v, r, delta)
      /\ refunds' = [refunds EXCEPT ![v] = row]
      /\ core' = IF owed > 0 THEN Paid(core, source, "eosio.stake", owed) ELSE core
      /\ Become(st)
  BY DEF Changebw
<1>2. /\ refunds \in [Voters -> RefundRow \cup {None}] /\ VotersOK /\ now \in 0 .. MaxDay
      /\ delband \in [Voters -> [Receivers -> Amounts]]
      /\ core["eosio.stake"] = StakedInAll + PendingInAll
      /\ StakesOK /\ DelegatedOK /\ TotalOf(delta) \in Int
  BY AmountsAre DEF SystemInv, StakesOK, StakesAreFunded, VotersOK
<1>3. /\ row \in RefundRow \cup {None} /\ owed \in Nat
      /\ owed = TotalOf(delta) - TotalOf(Pending(v)) + TotalOf(AmountIn(row))
  <2>1. touched \in BOOLEAN OBVIOUS
  <2>2. ~ touched \/ TotalOf(delta) >= 0 => delta \in Amounts BY <1>2
  <2> HIDE DEF touched
  <2> QED BY <1>2, <2>1, <2>2, SettledIs
<1> HIDE DEF touched, row, owed
<1>4. /\ delband' \in [Voters -> [Receivers -> Amounts]]
      /\ \A x \in Voters : x # v => StakedBy(x)' = StakedBy(x)
      /\ StakedBy(v)' = StakedBy(v) + TotalOf(delta)
      /\ StakedInAll' = StakedInAll + TotalOf(delta)
      /\ userres' \in [Receivers -> Resources \cup {None}] /\ limits' \in [Receivers -> Limits]
      /\ \A x \in Receivers : \A k \in Kinds : Row(x)'.weight[k] = AllFor(delband', x, k)
      /\ \A x \in Receivers : userres'[x] # None => limits'[x].weight = userres'[x].weight
      /\ \A x \in Receivers : Row(x)'.ram_bytes = Row(x).ram_bytes
      /\ \A x \in Receivers : x # r => userres'[x] = userres[x]
      /\ userres[r] = None => delta \in Amounts
  BY <1>1, <1>2, DelegateIs
<1>5. /\ Good(Tables)' /\ ProxyRule(voters') /\ NoLoop(voters') /\ voters'[v] # None
      /\ voters'[v].staked = StakeIn(voters[v]) + TotalOf(delta)
      /\ \A x \in Voters : x # v => StakeIn(voters'[x]) = StakeIn(voters[x])
  BY <1>1, <1>2, RestakedKeeps DEF st
<1>6. VotersOK' BY <1>2, <1>5 DEF VotersOK
<1>7. /\ refunds' \in [Voters -> RefundRow \cup {None}] /\ PendingInAll \in Int
      /\ PendingInAll' = PendingInAll - TotalOf(Pending(v)) + TotalOf(Pending(v)')
  BY <1>1, <1>2, <1>3, PendingWritten
<1>8. Pending(v)' = AmountIn(row) BY <1>1, <1>2 DEF Pending, AmountIn
<1>9. /\ Book(core') /\ core'["eosio.ram"] = core["eosio.ram"]
      /\ core'["eosio.names"] = core["eosio.names"]
      /\ core'["eosio.stake"] = core["eosio.stake"] + owed
  <2>1. /\ Book(core) /\ source \in Accounts /\ source \notin Kept /\ "eosio.stake" \in Accounts
        /\ owed \in Int /\ source # "eosio.stake"
    BY <1>3, AccountsAre DEF SystemInv, Kept
  <2>2. /\ "eosio.stake" \in Kept /\ "eosio.ram" \in Kept /\ "eosio.names" \in Kept
        /\ core["eosio.stake"] \in Int
    BY <2>1, KeptAre
  <2>3. CASE owed > 0
    <3>1. core' = Paid(core, source, "eosio.stake", owed) BY <1>1, <2>3
    <3>2. /\ Book(core')
          /\ \A x \in Kept : core'[x] = IF x = source THEN core[x] - owed
                ELSE IF x = "eosio.stake" THEN core[x] + owed ELSE core[x]
      BY ONLY <2>1, <3>1, BookPaid
    <3>3. source # "eosio.ram" /\ source # "eosio.names" /\ "eosio.names" \in Kept
      BY <2>1, <2>2, KeptAre
    <3> QED BY ONLY <2>1, <2>2, <3>2, <3>3
  <2>4. CASE ~ owed > 0
    <3>1. core' = core /\ owed = 0 BY <1>1, <1>3, <2>4
    <3> QED BY <2>1, <2>2, <3>1
  <2> QED BY <2>3, <2>4
<1>10. StakesOK'
  <2>1. StakedInAll \in Int BY <1>2, StakesAre
  <2>2. TotalOf(Pending(v)) \in Int /\ TotalOf(Pending(v)') \in Int
    <3>1. AmountIn(row) \in Amounts BY <1>3, AmountsAre DEF AmountIn, RefundRow
    <3> QED BY <1>2, <1>8, <3>1, PendingIs, AmountsAre
  <2>3. core'["eosio.stake"] = StakedInAll' + PendingInAll'
    BY <1>2, <1>3, <1>4, <1>7, <1>8, <1>9, <2>1, <2>2
  <2> QED BY <1>4, <1>7, <2>3 DEF StakesOK, StakesAreFunded
<1>11. DelegatedOK'
  <2>1. \A x \in Voters : StakedBy(x) = StakeIn(voters[x])
    BY <1>2, StakeInIs DEF DelegatedOK
  <2>2. \A x \in Voters : StakedBy(x)' = StakeIn(voters'[x])
    BY <1>4, <1>5, <2>1 DEF StakeIn
  <2>3. \A x \in Voters : StakedBy(x)' = IF voters'[x] = None THEN 0 ELSE voters'[x].staked
    BY <2>2 DEF StakeIn
  <2>4. DelegationsAgree' BY <1>4, <2>3 DEF DelegationsAgree, AllFor
  <2> QED BY <1>4, <2>4 DEF DelegatedOK
<1>12. RowsOK'
  <2>1. created' = created BY DEF nameVars
  <2>2. Exists(r) \/ userres[r] # None BY <1>2, <1>4, AmountsAre
  <2>3. \A x \in Receivers : x \notin Users \cup created => userres[x] = None
    BY DEF SystemInv, RowsOK
  <2>4. Exists(r) BY <2>2, <2>3 DEF Exists
  <2> QED BY <1>4, <2>1, <2>3, <2>4 DEF RowsOK, Exists
<1>13. MarketOK' BY <1>4, <1>9, MarketFrame DEF SystemInv
<1>14. NamesOK' BY <1>9, NamesFrame DEF SystemInv, nameVars, NamesOK
<1> QED BY <1>6, <1>9, <1>10, <1>11, <1>12, <1>13, <1>14 DEF SystemInv

LEMMA StakingInv ==
  ASSUME SystemInv, StakingStep
  PROVE  SystemInv'
<1>0. UNCHANGED <<now, ram, nameVars, payVars>> BY DEF StakingStep
<1>1. ASSUME NEW source \in Voters, NEW r \in Receivers, NEW q \in StakeQty,
             NEW transfer \in BOOLEAN, Exists(r), Delegatebw(source, r, q, transfer)
      PROVE  SystemInv'
  <2>1. q \in Amounts /\ q \in AnyAmounts BY StakingAssumption, AmountsAre
  <2>2. CASE transfer
    <3>1. r \in Voters /\ Changebw(source, r, r, q) BY <1>1, <2>2 DEF Delegatebw
    <3> QED BY <1>0, <1>1, <2>1, <3>1, ChangebwInv
  <2>3. CASE ~ transfer
    <3>1. Changebw(source, source, r, q) BY <1>1, <2>3 DEF Delegatebw
    <3> QED BY <1>0, <1>1, <2>1, <3>1, ChangebwInv
  <2> QED BY <2>2, <2>3
<1>2. ASSUME NEW v \in Voters, NEW r \in Receivers, NEW q \in UnstakeQty, Undelegatebw(v, r, q)
      PROVE  SystemInv'
  <2> DEFINE delta == Minus(Nothing, q)
  <2>1. /\ q \in Amounts /\ q # Nothing /\ q \in AnyAmounts /\ Nothing \in AnyAmounts
        /\ TotalOf(q) \in Nat /\ TotalOf(q) > 0 /\ TotalOf(Nothing) = 0
    BY StakingAssumption, AmountsAre
  <2>2. delta \in AnyAmounts /\ TotalOf(delta) = TotalOf(Nothing) - TotalOf(q)
    BY <2>1, AmountOps
  <2>3. Changebw(v, v, r, delta) BY <1>2 DEF Undelegatebw
  <2> HIDE DEF delta
  <2>4. TotalOf(delta) < 0 BY <2>1, <2>2
  <2>5. ~ (TotalOf(delta) >= 0) BY <2>1, <2>2
  <2> QED BY <1>0, <1>2, <2>2, <2>3, <2>5, ChangebwInv
<1> QED BY <1>1, <1>2 DEF StakingStep

LEMMA StutterInv == ASSUME SystemInv, UNCHANGED vars PROVE SystemInv'
<1>1. UNCHANGED <<core, now, votingVars, stakingVars, ram, nameVars>> BY DEF vars
<1>2. VotersOK' /\ StakesOK' BY <1>1, VotersFrame, StakesFrame DEF SystemInv, stakingVars
<1>3. DelegatedOK' BY <1>1, DelegatedFrame DEF SystemInv, stakingVars, votingVars
<1>4. RowsOK' /\ NamesOK'
  BY <1>1, RowsFrame, NamesFrame DEF SystemInv, stakingVars, nameVars, NamesOK
<1>5. MarketOK' BY <1>1, MarketFrame, RowsSame DEF SystemInv, stakingVars
<1>6. Book(core)' BY <1>1 DEF SystemInv, Book
<1> QED BY <1>2, <1>3, <1>4, <1>5, <1>6 DEF SystemInv

LEMMA SystemStep == SystemInv /\ [Next]_vars => SystemInv'
<1> SUFFICES ASSUME SystemInv, [Next]_vars PROVE SystemInv'
  OBVIOUS
<1>1. CASE VotingOnly BY <1>1, VotingInv
<1>2. CASE StakingStep BY <1>2, StakingInv
<1>3. CASE RefundStep BY <1>3, RefundInv
<1>4. CASE RamStep BY <1>4, RamInv
<1>5. CASE AdminStep BY <1>5, AdminInv
<1>6. CASE NameStep BY <1>6, NameInv
<1>7. CASE \E n \in Names, b \in Bidders : BidrefundCall(n, b) BY <1>7, BidrefundCallInv
<1>8. CASE \E creator \in Creators, n \in NewNames : Newaccount(creator, n)
  BY <1>8, NewaccountInv
<1>9. CASE PayStep BY <1>9, PayInv
<1>10. CASE Tick BY <1>10, TickInv
<1>11. CASE UNCHANGED vars BY <1>11, StutterInv
<1> QED BY <1>1, <1>2, <1>3, <1>4, <1>5, <1>6, <1>7, <1>8, <1>9, <1>10, <1>11 DEF Next

LEMMA SystemAlways == Spec => []SystemInv
<1> QED BY InitInv, SystemStep, PTL DEF Spec
-----------------------------------------------------------------------------
\* The stake account has what is delegated and what is on its way back, no more
\* and no less, through every order of stakes, unstakes and refunds (changebw,
\* refund).
THEOREM StakesFunded == Spec => []StakesAreFunded
<1>1. SystemInv => StakesAreFunded BY DEF SystemInv, StakesOK
<1> QED BY <1>1, SystemAlways, PTL

\* The four records of a stake agree (changebw).
THEOREM RecordsAgree == Spec => []DelegationsAgree
<1>1. SystemInv => DelegationsAgree BY DEF SystemInv, DelegatedOK
<1> QED BY <1>1, SystemAlways, PTL

\* RAM is neither lost nor sold twice, and its account can pay the sellers
\* (buyram, sellram, setram, update_ram_supply).
THEOREM RamAccounted == Spec => []RamIsAccounted
<1>1. SystemInv => RamIsAccounted BY DEF SystemInv, MarketOK
<1> QED BY <1>1, SystemAlways, PTL

\* The names account can pay everybody who was outbid and has the highest bids
\* (bidname, bidrefund).
THEOREM BidsFunded == Spec => []BidsAreFunded
<1>1. SystemInv => BidsAreFunded BY DEF SystemInv, NamesOK
<1> QED BY <1>1, SystemAlways, PTL

\* No chain of proxies closes, whatever voters and proxies do in which order:
\* propagate_weight_change ends and its assertion never fails.
THEOREM ChainsEnd == Spec => []ProxiesEnd
<1>1. SystemInv => ProxiesEnd BY ProxiesEndIs DEF SystemInv, VotersOK
<1> QED BY <1>1, SystemAlways, PTL

\* No trade lowers the product of the two balances of the market of RAM
\* (exchange_state).
THEOREM ProductKept == Spec => ProductNeverFalls
<1>1. SystemInv /\ [Next]_vars => [ram'.base * ram'.quote >= ram.base * ram.quote]_ram
  <2> SUFFICES ASSUME SystemInv, [Next]_vars, ram' # ram
               PROVE  ram'.base * ram'.quote >= ram.base * ram.quote
    OBVIOUS
  <2>1. RamStep \/ AdminStep
    BY DEF Next, vars, VotingOnly, StakingStep, RefundStep, NameStep, BidrefundCall, Newaccount,
           PayStep, Tick
  <2> QED BY <2>1, RamInv, AdminInv
<1> QED BY <1>1, SystemAlways, PTL DEF Spec, ProductNeverFalls
-----------------------------------------------------------------------------
(***************************************************************************)
(* The tallies of votes.                                                   *)
(***************************************************************************)
LEMMA RestakedBalanced ==
  ASSUME VotersOK, Balanced(Tables), NEW v \in Voters, NEW n \in Int, Become(Restaked(v, n)),
         StakeIn(voters[v]) + n \in Nat
  PROVE  /\ Balanced(Tables')
         /\ Ready(Tables) /\ (Activation(Tables) = None => n >= 0)
              => Activates(Tables, Tables')
         /\ FreshBut(voters, None) => FreshBut(voters', None)
<1> DEFINE row == IF voters[v] = None THEN NewVoter(n, FALSE)
                  ELSE [voters[v] EXCEPT !.staked = @ + n]
           st == [Tables EXCEPT !.voters[v] = row]
           tt == Restaked(v, n)
<1>0. /\ Tables \in State /\ Linked(Tables) /\ voters \in VoterTable
      /\ producers \in ProducerTable /\ gstate \in AnyGlobal
      /\ ProxyRule(voters) /\ NoLoop(voters) /\ FairRows(voters) /\ now \in 0 .. MaxDay
  BY VotersParts, BalancedIs, TablesAre DEF VotersOK, Good
<1>1. /\ row \in AnyVoter /\ row # None
      /\ voters[v] = None => row = NewVoter(n, FALSE) /\ n \in Nat
                             /\ row.proxy = None /\ row.producers = {}
      /\ voters[v] # None => /\ SameCredit(voters[v], row) /\ FairRow(row)
                             /\ row.proxied_vote_weight = voters[v].proxied_vote_weight
                             /\ row.proxy = voters[v].proxy /\ row.producers = voters[v].producers
  <2>1. CASE voters[v] = None
    <3>1. row = NewVoter(n, FALSE) BY <2>1
    <3> HIDE DEF row
    <3>2. row \in AnyVoter /\ row # None /\ row.proxy = None /\ row.producers = {}
      BY ONLY <3>1, n \in Int, FALSE \in BOOLEAN, NewVoterRow
    <3>3. n \in Nat BY <2>1 DEF StakeIn
    <3> QED BY <2>1, <3>1, <3>2, <3>3
  <2>2. CASE voters[v] # None
    <3>1. voters[v] \in AnyVoter /\ FairRow(voters[v]) BY <1>0, <2>2 DEF VoterTable, FairRows
    <3>2. voters[v].staked + n \in Nat BY <2>2 DEF StakeIn
    <3>3. row = [voters[v] EXCEPT !.staked = voters[v].staked + n] BY <2>2
    <3> HIDE DEF row
    <3>4. /\ row \in AnyVoter /\ row.staked = voters[v].staked + n
          /\ row.proxy = voters[v].proxy /\ row.producers = voters[v].producers
          /\ row.last_vote_weight = voters[v].last_vote_weight
          /\ row.proxied_vote_weight = voters[v].proxied_vote_weight
      BY <3>1, <3>2, <3>3 DEF AnyVoter
    <3>5. row # None BY <3>4, NoRow
    <3>6. FairRow(row) BY <2>2, <3>1, <3>2, <3>4 DEF FairRow
    <3> QED BY <2>2, <3>4, <3>5, <3>6 DEF SameCredit
  <2> QED BY <2>1, <2>2
<1>2. tt = IF row.producers # {} \/ row.proxy # None
           THEN UpdateVotes(st, v, row.proxy, row.producers) ELSE st
  BY DEF Restaked
<1> HIDE DEF row, tt
<1>3. /\ st \in State /\ st.producers = producers /\ st.gstate = gstate /\ st.voters[v] = row
      /\ \A x \in Voters : x # v => st.voters[x] = voters[x]
  BY <1>0, <1>1, VoterWritten, TablesAre
<1> HIDE DEF st
<1>4. Linked(st)
  <2> SUFFICES ASSUME NEW x \in Voters, st.voters[x] # None
               PROVE  /\ st.voters[x].proxy # None => st.voters[st.voters[x].proxy] # None
                      /\ \A p \in st.voters[x].producers : st.producers[p] # None
    BY DEF Linked
  <2>1. CASE x = v /\ voters[v] = None BY <1>1, <1>3, <2>1
  <2>2. CASE ~ (x = v /\ voters[v] = None)
    <3>1. /\ voters[x] # None /\ st.voters[x].proxy = voters[x].proxy
          /\ st.voters[x].producers = voters[x].producers
      BY <1>1, <1>3, <2>2
    <3>2. /\ voters[x].proxy # None => voters[x].proxy \in Voters /\ voters[voters[x].proxy] # None
          /\ \A p \in voters[x].producers : producers[p] # None
      BY <1>0, <3>1, VoterOf, TablesAre DEF Good
    <3> QED BY <1>1, <1>3, <3>1, <3>2
  <2> QED BY <2>1, <2>2
<1>5. Good(st) /\ st.voters \in VoterTable BY <1>3, <1>4 DEF Good, State
<1>6. Balanced(st)
  <2>1. CASE voters[v] = None
    <3>1. FALSE \in BOOLEAN /\ n \in Nat /\ st.voters[v] = NewVoter(n, FALSE)
      BY <1>1, <1>3, <2>1
    <3>2. /\ Tables.voters[v] = None /\ st.producers = Tables.producers
          /\ st.gstate = Tables.gstate
          /\ \A x \in Voters : x # v => st.voters[x] = Tables.voters[x]
      BY <1>3, <2>1, TablesAre
    <3> QED BY ONLY <1>5, <3>1, <3>2, Balanced(Tables), v \in Voters, VoterAdded
  <2>2. CASE voters[v] # None
    BY <1>1, <1>3, <1>5, <2>2, TablesAre, VoterChanged
  <2> QED BY <2>1, <2>2
<1>9. /\ Activation(st) = Activation(Tables)
      /\ Ready(Tables) /\ (Activation(Tables) = None => n >= 0) => Activates(Tables, st) /\ Ready(st)
  <2>1. SameActive(Tables, st) BY <1>3, TablesAre DEF SameActive
  <2>2. ASSUME n >= 0, NEW x \in Voters PROVE Heard(Tables.voters[x]) <= Heard(st.voters[x])
    <3>1. /\ Heard(voters[x]) \in Nat /\ Heard(st.voters[x]) \in Nat
      BY <1>0, <1>6, HeardNat, BalancedIs
    <3>2. CASE x # v BY <1>3, <3>1, <3>2, TablesAre
    <3>3. CASE x = v /\ voters[v] = None BY <3>1, <3>3, TablesAre DEF Heard, Speaks
    <3>4. CASE x = v /\ voters[v] # None
      <4>1. row.staked = voters[v].staked + n /\ voters[v].staked \in Nat
        BY <1>0, <3>4 DEF row, VoterTable, AnyVoter, FairRows, FairRow
      <4>2. row.last_vote_weight = voters[v].last_vote_weight BY <1>1, <3>4 DEF SameCredit
      <4> QED BY <1>1, <1>3, <2>2, <3>1, <3>4, <4>1, <4>2, TablesAre DEF Heard, Speaks
    <3> QED BY <3>2, <3>3, <3>4
  <2>3. Activation(st) = Activation(Tables) BY <1>3, TablesAre DEF Activation
  <2>4. Ready(Tables) /\ (Activation(Tables) = None => n >= 0) => Activates(Tables, st)
    BY <1>6, <2>1, <2>2, HeardStep
  <2> QED BY <2>3, <2>4 DEF Activates
<1>10. FreshBut(voters, None) => FreshBut(tt.voters, None)
  <2> SUFFICES ASSUME FreshBut(voters, None) PROVE FreshBut(tt.voters, None)
    OBVIOUS
  <2>1. FreshBut(st.voters, v) BY <1>3, NoneNoVoter DEF FreshBut
  <2>2. CASE ~ (row.producers # {} \/ row.proxy # None)
    <3>1. tt = st /\ Fresh(row) BY <1>2, <2>2 DEF Fresh, Votes
    <3> QED BY <1>3, <2>1, <3>1 DEF FreshBut
  <2>3. CASE row.producers # {} \/ row.proxy # None
    <3>1. voters[v] # None BY <1>1, <2>3
    <3>2. \A x \in Voters : /\ st.voters[x] = None <=> voters[x] = None
                            /\ voters[x] # None => st.voters[x].proxy = voters[x].proxy
      BY <1>1, <1>3, <3>1
    <3>3. row.is_proxy = voters[v].is_proxy /\ row.proxy = voters[v].proxy
      BY <1>0, <1>1, <3>1 DEF row, VoterTable, AnyVoter
    <3>4. Whole(st.voters) BY <1>6, BalancedIs DEF Whole, FairRows, FairRow
    <3>5. ProxyRule(st.voters) BY <1>0, <1>3, <3>2, <3>3 DEF ProxyRule
    <3>6. NoLoop(st.voters)
      <4>1. /\ Led(st.voters) = Led(voters)
            /\ \A x \in Led(voters) : st.voters[x].proxy = voters[x].proxy
        BY <3>2 DEF Led
      <4> QED BY <1>0, <4>1 DEF NoLoop
    <3>7. /\ row.proxy \in Proxies \cup {None} /\ row.producers \in SUBSET Candidates
          /\ row.proxy # None => st.voters[row.proxy] # None
          /\ \A p \in row.producers : st.producers[p] # None
          /\ row.proxy # None => ~ st.voters[v].is_proxy
      BY <1>0, <1>1, <1>3, <1>4, <3>1, <3>3 DEF AnyVoter, Linked, ProxyRule
    <3> QED BY <1>0, <1>1, <1>2, <1>3, <1>5, <2>1, <2>3, <3>4, <3>5, <3>6, <3>7, UpdateVotesFresh
  <2> QED BY <2>2, <2>3
<1>7. CASE tt = st
  BY <1>3, <1>6, <1>7, <1>9, <1>10, BecomeIs DEF tt
<1>8. CASE /\ row.producers # {} \/ row.proxy # None
           /\ tt = UpdateVotes(st, v, row.proxy, row.producers)
  <2>1. voters[v] # None BY <1>1, <1>8
  <2>0. row.producers \in Ballots BY <1>1, <2>1 DEF FairRow
  <2>2. /\ row.proxy \in Proxies \cup {None} /\ row.producers \in SUBSET Candidates
        /\ row.proxy # None => st.voters[row.proxy] # None
        /\ \A p \in row.producers : st.producers[p] # None
    BY <1>1, <1>3, <1>4 DEF AnyVoter, Linked
  <2>3. row.proxy # None => row.producers = {} BY <1>1, <2>1 DEF FairRow
  <2>4. row.proxy # None => Avoids(st.voters, row.proxy, v)
    <3> SUFFICES ASSUME row.proxy # None PROVE Avoids(st.voters, row.proxy, v)
      OBVIOUS
    <3>1. Avoids(voters, voters[v].proxy, v) BY <1>0, <1>1, <2>1, OwnProxyAvoids
    <3>2. PICK S : ClosedIn(S, voters) /\ voters[v].proxy \in S /\ v \notin S
      BY <3>1 DEF Avoids
    <3>3. ClosedIn(S, st.voters) BY <1>1, <1>3, <2>1, <3>2 DEF ClosedIn
    <3> QED BY <1>1, <2>1, <3>2, <3>3 DEF Avoids
  <2>5. st.voters[v].proxy = row.proxy /\ st.voters[v] # None BY <1>1, <1>3
  <2>6. Balanced(tt) /\ StillHeard(st.voters, tt.voters)
    BY <1>0, <1>6, <1>8, <2>0, <2>2, <2>3, <2>4, <2>5, UpdateVotesTallied
  <2>7. tt \in State BY <2>6, BalancedIs DEF Good
  <2>8. Updated(st, v, row.proxy, row.producers, tt)
    BY <1>0, <1>5, <1>8, <2>2, <2>5, UpdateVotesUpdates
  <2>9. Ready(st) => Activates(st, tt)
    BY <1>0, <1>6, <2>5, <2>6, <2>8, UpdateVotesActivates
  <2>10. Ready(Tables) /\ (Activation(Tables) = None => n >= 0) => Activates(Tables, tt)
    BY <1>9, <2>9 DEF Activates
  <2> QED BY <1>10, <2>6, <2>7, <2>10, BecomeIs DEF tt
<1> QED BY <1>2, <1>7, <1>8

\* The stake of a voter is what it has delegated.
StakesNat == \A v \in Voters : StakeIn(voters[v]) \in Nat

LEMMA StakesAreNat == SystemInv => StakesNat
<1> SUFFICES ASSUME SystemInv, NEW v \in Voters PROVE StakeIn(voters[v]) \in Nat
  BY DEF StakesNat
<1> DEFINE f == [r \in Receivers |-> StakedFor(v, r)]
<1>1. \A r \in Receivers : delband[v][r] \in Amounts BY DEF SystemInv, StakesOK
<1>2. \A r \in Receivers : f[r] \in Nat BY <1>1, AmountsAre DEF StakedFor
<1>3. StakedBy(v) = SumFunctionOnSet(f, Receivers) BY DEF StakedBy, SumFunction
<1> HIDE DEF f
<1>4. StakedBy(v) \in Nat BY <1>2, <1>3, StakingAssumption, SumNat
<1> QED BY <1>4, StakeInIs DEF SystemInv, DelegatedOK

LEMMA ChangebwBalanced ==
  ASSUME SystemInv, StakesNat', Balanced(Tables), NEW source, NEW v \in Voters,
         NEW r \in Receivers, NEW delta \in AnyAmounts, Changebw(source, v, r, delta)
  PROVE  /\ Balanced(Tables')
         /\ Ready(Tables) /\ (Activation(Tables) = None => TotalOf(delta) >= 0)
              => Activates(Tables, Tables')
         /\ FreshBut(voters, None) => FreshBut(voters', None)
<1>1. TotalOf(delta) \in Int BY AmountsAre
<1>2. Become(Restaked(v, TotalOf(delta))) BY DEF Changebw
<1>3. voters'[v] # None /\ voters'[v].staked = StakeIn(voters[v]) + TotalOf(delta)
  BY <1>1, <1>2, RestakedKeeps DEF SystemInv
<1>4. StakeIn(voters[v]) + TotalOf(delta) \in Nat BY <1>3 DEF StakesNat, StakeIn
<1> QED BY <1>1, <1>2, <1>4, RestakedBalanced DEF SystemInv

LEMMA StakingBalanced ==
  ASSUME SystemInv, StakesNat', Balanced(Tables), StakingStep
  PROVE  /\ Balanced(Tables') /\ (Ready(Tables) => Activates(Tables, Tables'))
         /\ FreshBut(voters, None) => FreshBut(voters', None)
<1>1. ASSUME NEW source \in Voters, NEW r \in Receivers, NEW q \in StakeQty,
             NEW transfer \in BOOLEAN, Delegatebw(source, r, q, transfer)
      PROVE  /\ Balanced(Tables') /\ (Ready(Tables) => Activates(Tables, Tables'))
             /\ FreshBut(voters, None) => FreshBut(voters', None)
  <2>1. q \in AnyAmounts BY StakingAssumption, AmountsAre
  <2>2. \E v \in Voters : Changebw(source, v, r, q) BY <1>1 DEF Delegatebw
  <2>3. TotalOf(q) >= 0 BY StakingAssumption, AmountsAre
  <2> QED BY <2>1, <2>2, <2>3, ChangebwBalanced
<1>2. ASSUME NEW v \in Voters, NEW r \in Receivers, NEW q \in UnstakeQty, Undelegatebw(v, r, q)
      PROVE  /\ Balanced(Tables') /\ (Ready(Tables) => Activates(Tables, Tables'))
             /\ FreshBut(voters, None) => FreshBut(voters', None)
  <2> DEFINE delta == Minus(Nothing, q)
  <2>1. q \in AnyAmounts /\ Nothing \in AnyAmounts BY StakingAssumption, AmountsAre
  <2>2. delta \in AnyAmounts BY <2>1, AmountOps
  <2>3. Changebw(v, v, r, delta) BY <1>2 DEF Undelegatebw
  <2>4. Ready(Tables) => Activation(Tables) # None
    <3>1. gstate.total_activated_stake >= MinActivatedStake BY <1>2 DEF Undelegatebw
    <3>2. gstate.total_activated_stake \in Int /\ MinActivatedStake \in Int
      BY VotersParts, VotingAssumption DEF SystemInv, VotersOK, AnyGlobal
    <3> QED BY <3>1, <3>2, TablesAre DEF Ready, ActiveStake
  <2> HIDE DEF delta
  <2> QED BY <2>2, <2>3, <2>4, ChangebwBalanced
<1> QED BY <1>1, <1>2 DEF StakingStep

LEMMA OnblockBalanced ==
  ASSUME SystemInv, SystemInv', Balanced(Tables), NEW p, Onblock(p)
  PROVE  Balanced(Tables')
<1>0. /\ producers \in ProducerTable /\ now \in 0 .. MaxDay /\ Good(Tables')
      /\ Totals(gstate, producers)
  BY VotersParts, TablesAre, BalancedIs DEF SystemInv, VotersOK, Good, Tallied
<1>1. voters' = voters /\ gstate' = gstate /\ CountedBlock(p) BY DEF Onblock
<1>2. ASSUME NEW q \in Candidates
      PROVE  /\ PaidRow(producers'[q]) /\ VotesIn(producers'[q]) = VotesIn(producers[q])
             /\ ShareIn(producers'[q]) = ShareIn(producers[q])
             /\ RateIn(producers'[q]) = RateIn(producers[q])
  <2>0. PaidRow(producers[q]) BY <1>0 DEF Totals, PaidRows
  <2>1. CASE q = p /\ producers[p] # None
    <3> DEFINE a == producers[q]   b == producers'[q]
    <3>1. a \in ProducerRow /\ PaidRow(a) BY <2>0, <2>1 DEF PaidRow
    <3>2. b = [a EXCEPT !.unpaid_blocks = @ + 1]
      BY <1>0, <1>1, <2>1 DEF CountedBlock, ProducerTable
    <3> HIDE DEF a, b
    <3>3. b \in ProducerRow /\ SamePay(a, b) BY <3>1, <3>2 DEF ProducerRow, SamePay
    <3>4. /\ PaidRow(b) /\ VotesIn(b) = VotesIn(a) /\ ShareIn(b) = ShareIn(a)
          /\ RateIn(b) = RateIn(a)
      BY <3>1, <3>3, SameIn
    <3> QED BY <3>4 DEF a, b
  <2>2. CASE ~ (q = p /\ producers[p] # None)
    <3>1. producers'[q] = producers[q] BY <1>0, <1>1, <2>2 DEF CountedBlock, ProducerTable
    <3> QED BY <2>0, <3>1
  <2> QED BY <2>1, <2>2
<1>3. Totals(gstate, producers') BY <1>0, <1>2, TotalsStay
<1>4. /\ Tables'.voters = Tables.voters /\ Totals(Tables'.gstate, Tables'.producers)
      /\ \A q \in Candidates : VotesIn(Tables'.producers[q]) = VotesIn(Tables.producers[q])
  BY <1>1, <1>2, <1>3, TablesAre
<1> QED BY <1>0, <1>4, VotesStay

ClaimedGlobal(g, row) ==
  TotalUpdated(g, ShareNow(row), IF Lapsed(row) THEN row.total_votes ELSE 0)

\* A claim takes the share of one producer out of the total, and counts its
\* votes in the rate again if it had lapsed.
LEMMA ClaimedTotals ==
  ASSUME NEW g, NEW pt, Totals(g, pt), NEW p \in Candidates, pt[p] # None,
         now \in 0 .. MaxDay,
         NEW qt, qt[p] = Claimed(pt[p]), \A q \in Candidates : q # p => qt[q] = pt[q]
  PROVE  /\ Totals(ClaimedGlobal(g, pt[p]), qt)
         /\ \A q \in Candidates : VotesIn(qt[q]) = VotesIn(pt[q])
<1> DEFINE a == pt[p]   b == Claimed(a)
           lost == ShareNow(a)   rate == IF Lapsed(a) THEN a.total_votes ELSE 0
<1>1. /\ a \in ProducerRow /\ PaidRow(a) /\ PaidRows(pt) /\ a # None
      /\ g \in GlobalState /\ g.total_producer_vote_weight = VotesInAll(pt)
      /\ TotalShareNow(g) = SharesInAll(pt)
      /\ g.total_vpay_share_change_rate = RatesInAll(pt)
  BY DEF Totals, PaidRows, PaidRow
<1>2. b = [a EXCEPT !.unpaid_blocks = 0, !.last_claim_time = now,
                    !.votepay_share = 0, !.last_votepay_share_update = now]
  BY DEF Claimed
<1> HIDE DEF a, b
<1>3. /\ b \in ProducerRow /\ b.total_votes = a.total_votes /\ b.votepay_share = 0
      /\ b.last_claim_time = now /\ b.last_votepay_share_update = now
  BY <1>1, <1>2 DEF ProducerRow
<1>4. b # None
  <2>1. b \in AnyProducer BY <1>3 DEF ProducerRow, AnyProducer
  <2> QED BY <2>1, NoRow
<1>5. PaidRow(b) BY <1>3 DEF PaidRow
<1>6. ~ Lapsed(b) /\ ShareNow(b) = 0
  <2>1. ~ Lapsed(b) BY <1>3, VotingAssumption DEF Lapsed
  <2>2. now - b.last_votepay_share_update = 0 /\ b.total_votes * 0 = 0
    BY <1>3 DEF ProducerRow
  <2> QED BY <1>3, <2>1, <2>2 DEF ShareNow
<1>7. /\ ShareIn(a) \in Nat /\ RateIn(a) \in Nat /\ ShareIn(a) = lost
      /\ RateIn(b) = RateIn(a) + rate /\ ShareIn(b) = 0 /\ VotesIn(b) = VotesIn(a)
      /\ a.total_votes \in Nat /\ RateIn(b) \in Nat
  <2>1. ShareIn(a) \in Nat /\ RateIn(a) \in Nat /\ RateIn(b) \in Nat BY <1>1, <1>5, InRowNat
  <2>2. a.total_votes \in Nat BY <1>1 DEF ProducerRow
  <2> QED BY <1>1, <1>3, <1>4, <1>6, <2>1, <2>2 DEF ShareIn, RateIn, VotesIn
<1>8. \A q \in Candidates : VotesIn(qt[q]) = VotesIn(pt[q])
  BY <1>7 DEF a, b
<1>9. PaidRows(qt) BY <1>1, <1>5 DEF PaidRows, b, a
<1>10. VotesInAll(qt) = VotesInAll(pt) BY <1>8 DEF VotesInAll
<1> HIDE DEF lost, rate
<1> DEFINE fs == [q \in Candidates |-> ShareIn(pt[q])]   hs == [q \in Candidates |-> ShareIn(qt[q])]
           fr == [q \in Candidates |-> RateIn(pt[q])]    hr == [q \in Candidates |-> RateIn(qt[q])]
<1>11. /\ fs[p] = lost /\ hs[p] = 0 /\ fr[p] = RateIn(a) /\ hr[p] = RateIn(a) + rate
  BY <1>7 DEF a, b
<1>12. \A q \in Candidates : fs[q] \in Int /\ hs[q] \in Int /\ fr[q] \in Int /\ hr[q] \in Int
  BY <1>1, <1>9, InRowNat DEF PaidRows
<1>13. \A q \in Candidates \ {p} : hs[q] = fs[q] /\ hr[q] = fr[q] OBVIOUS
<1>14. /\ SharesInAll(pt) = SumFunctionOnSet(fs, Candidates)
       /\ SharesInAll(qt) = SumFunctionOnSet(hs, Candidates)
       /\ RatesInAll(pt) = SumFunctionOnSet(fr, Candidates)
       /\ RatesInAll(qt) = SumFunctionOnSet(hr, Candidates)
  BY DEF SharesInAll, RatesInAll
<1> HIDE DEF fs, hs, fr, hr
<1>15. /\ SumFunctionOnSet(hs, Candidates) = SumFunctionOnSet(fs, Candidates) - fs[p] + hs[p]
       /\ SumFunctionOnSet(hr, Candidates) = SumFunctionOnSet(fr, Candidates) - fr[p] + hr[p]
  BY <1>12, <1>13, VotersFinite, SumUpdate
<1>16. /\ SharesInAll(pt) \in Nat /\ RatesInAll(pt) \in Nat /\ VotesInAll(pt) \in Nat
       /\ SharesInAll(qt) \in Nat /\ RatesInAll(qt) \in Nat
  BY <1>1, <1>9, InAllNat
<1>17. rate \in Int /\ lost \in Int BY <1>7 DEF rate
<1>18. /\ SharesInAll(qt) = SharesInAll(pt) - lost
       /\ RatesInAll(qt) = RatesInAll(pt) + rate
  BY <1>7, <1>11, <1>14, <1>15, <1>16, <1>17
<1> DEFINE w == VotesInAll(pt)
           h == TotalUpdated(g, lost, rate)
           hw == [h EXCEPT !.total_producer_vote_weight = w]
<1>19. hw = h BY <1>1 DEF TotalUpdated, GlobalState
<1> HIDE DEF w, h
<1>20. /\ TotalShareNow(g) - lost \in Nat /\ g.total_vpay_share_change_rate + rate \in Nat
       /\ w \in Nat
  BY <1>1, <1>16, <1>18 DEF w
<1>21. /\ hw \in GlobalState /\ hw.total_producer_vote_weight = w
       /\ TotalShareNow(hw) = TotalShareNow(g) - lost
       /\ hw.total_vpay_share_change_rate = g.total_vpay_share_change_rate + rate
  BY <1>1, <1>17, <1>20, UpdatedIs DEF h
<1>22. Totals(h, qt) BY <1>1, <1>9, <1>10, <1>18, <1>19, <1>21 DEF Totals, w
<1> QED BY <1>8, <1>22 DEF h, lost, rate, a, ClaimedGlobal

LEMMA ClaimBalanced ==
  ASSUME SystemInv, SystemInv', Balanced(Tables), NEW p \in Candidates, Claimrewards(p)
  PROVE  Balanced(Tables')
<1>0. /\ producers \in ProducerTable /\ now \in 0 .. MaxDay /\ Good(Tables')
      /\ Totals(gstate, producers)
  BY VotersParts, TablesAre, BalancedIs DEF SystemInv, VotersOK, Good, Tallied
<1>1. /\ producers[p] # None /\ voters' = voters /\ gstate' = SharesClaimed(producers[p])
      /\ producers' = [producers EXCEPT ![p] = Claimed(producers[p])]
  BY DEF Claimrewards
<1>2. /\ producers'[p] = Claimed(producers[p])
      /\ \A q \in Candidates : q # p => producers'[q] = producers[q]
  BY <1>0, <1>1 DEF ProducerTable
<1>3. /\ Totals(gstate', producers')
      /\ \A q \in Candidates : VotesIn(producers'[q]) = VotesIn(producers[q])
  <2>1. gstate' = ClaimedGlobal(gstate, producers[p]) BY <1>1 DEF SharesClaimed, ClaimedGlobal
  <2> DEFINE pt == producers   qt == producers'
  <2>2. /\ Totals(gstate, pt) /\ pt[p] # None /\ qt[p] = Claimed(pt[p])
        /\ \A q \in Candidates : q # p => qt[q] = pt[q]
    BY <1>0, <1>1, <1>2
  <2> HIDE DEF pt, qt
  <2>3. /\ Totals(ClaimedGlobal(gstate, pt[p]), qt)
        /\ \A q \in Candidates : VotesIn(qt[q]) = VotesIn(pt[q])
    BY ONLY <1>0, <2>2, p \in Candidates, ClaimedTotals
  <2> QED BY <2>1, <2>3 DEF pt, qt
<1>4. /\ Tables'.voters = Tables.voters /\ Totals(Tables'.gstate, Tables'.producers)
      /\ \A q \in Candidates : VotesIn(Tables'.producers[q]) = VotesIn(Tables.producers[q])
  BY <1>1, <1>3, TablesAre
<1> QED BY <1>0, <1>4, VotesStay

LEMMA PayBalanced ==
  ASSUME SystemInv, SystemInv', Balanced(Tables), PayStep
  PROVE  Balanced(Tables')
BY OnblockBalanced, ClaimBalanced DEF PayStep

\* A day: shares grow by the votes of those who have not lapsed, and the total by
\* the rate.
ShareOn(row, d) ==
  IF row = None THEN 0
  ELSE IF Lapsed(row) THEN row.votepay_share
  ELSE row.votepay_share + row.total_votes * (d - row.last_votepay_share_update)
TotalOn(g, d) == g.total_producer_votepay_share
  + g.total_vpay_share_change_rate * (d - g.last_vpay_state_update)

\* What grows by b a day since day c, on day d.
GrownTo(a, b, c, d) == a + b * (d - c)

LEMMA GrowthIs ==
  \A a, b, c \in Nat : \A d \in Int : GrownTo(a, b, c, d + 1) = GrownTo(a, b, c, d) + b
<1> SUFFICES ASSUME NEW a \in Nat, NEW b \in Nat, NEW c \in Nat, NEW d \in Int
             PROVE  a + b * ((d + 1) - c) = (a + b * (d - c)) + b
  BY DEF GrownTo
<1>1. PICK e \in Int : e = d - c OBVIOUS
<1>2. (d + 1) - c = e + 1 BY <1>1
<1>3. b * (e + 1) = b * e + b OBVIOUS
<1>4. b * e \in Int OBVIOUS
<1> QED BY <1>1, <1>2, <1>3, <1>4

LEMMA ShareGrows ==
  ASSUME NEW row, PaidRow(row), now \in 0 .. MaxDay
  PROVE  /\ ShareOn(row, now) = ShareIn(row)
         /\ ShareOn(row, now + 1) = ShareIn(row) + RateIn(row)
<1>0. now \in Int OBVIOUS
<1>1. CASE row = None BY <1>1 DEF ShareOn, ShareIn, RateIn
<1>2. CASE row # None
  <2>1. /\ row.total_votes \in Nat /\ row.votepay_share \in Nat
        /\ row.last_votepay_share_update \in Nat
    BY <1>2 DEF PaidRow, ProducerRow
  <2>2. GrownTo(row.votepay_share, row.total_votes, row.last_votepay_share_update, now + 1)
         = GrownTo(row.votepay_share, row.total_votes, row.last_votepay_share_update, now)
             + row.total_votes
    BY ONLY <1>0, <2>1, GrowthIs
  <2> QED BY <1>2, <2>1, <2>2 DEF GrownTo, ShareOn, ShareIn, RateIn, ShareNow
<1> QED BY <1>1, <1>2

SharesOn(pt, d) == SumFunctionOnSet([p \in Candidates |-> ShareOn(pt[p], d)], Candidates)

LEMMA TotalGrows ==
  ASSUME NEW g, NEW pt, Totals(g, pt), now \in 0 .. MaxDay
  PROVE  TotalOn(g, now + 1) = SharesOn(pt, now + 1)
<1>t. now \in Int OBVIOUS
<1>0. /\ g \in GlobalState /\ PaidRows(pt)
      /\ TotalShareNow(g) = SharesInAll(pt)
      /\ g.total_vpay_share_change_rate = RatesInAll(pt)
  BY DEF Totals
<1>1. TotalOn(g, now + 1) = TotalShareNow(g) + g.total_vpay_share_change_rate
  <2>1. /\ g.total_producer_votepay_share \in Nat /\ g.total_vpay_share_change_rate \in Nat
        /\ g.last_vpay_state_update \in Nat
    BY <1>0 DEF GlobalState
  <2>2. GrownTo(g.total_producer_votepay_share, g.total_vpay_share_change_rate,
              g.last_vpay_state_update, now + 1)
         = GrownTo(g.total_producer_votepay_share, g.total_vpay_share_change_rate,
                 g.last_vpay_state_update, now)
             + g.total_vpay_share_change_rate
    BY ONLY <1>t, <2>1, GrowthIs
  <2> QED BY <2>2 DEF GrownTo, TotalOn, TotalShareNow
<1> DEFINE f == [p \in Candidates |-> ShareIn(pt[p])]
           k == [p \in Candidates |-> RateIn(pt[p])]
           h == [p \in Candidates |-> ShareOn(pt[p], now + 1)]
<1>2. \A p \in Candidates : f[p] \in Int /\ k[p] \in Int /\ h[p] = f[p] + k[p]
  BY <1>0, InRowNat, ShareGrows DEF PaidRows
<1> HIDE DEF f, k, h
<1>3. SumFunctionOnSet(h, Candidates)
        = SumFunctionOnSet(f, Candidates) + SumFunctionOnSet(k, Candidates)
  BY <1>2, VotersFinite, SumPlus
<1> QED BY <1>0, <1>1, <1>3 DEF SharesOn, SharesInAll, RatesInAll, f, k, h

\* The totals on the next day, or in the next state of the same day.
LEMMA TotalsNext ==
  ASSUME NEW g, NEW pt, Totals(g, pt), now \in 0 .. MaxDay, now' = now \/ now' = now + 1
  PROVE  /\ g \in GlobalState /\ g.total_producer_vote_weight = VotesInAll(pt)
         /\ g.total_vpay_share_change_rate = RatesInAll(pt)
         /\ TotalOn(g, now') = SharesOn(pt, now')
         /\ \A p \in Candidates : pt[p] # None =>
              pt[p] \in ProducerRow /\ pt[p].last_votepay_share_update <= now'
<1>1. /\ g \in GlobalState /\ g.total_producer_vote_weight = VotesInAll(pt)
      /\ g.total_vpay_share_change_rate = RatesInAll(pt) /\ PaidRows(pt)
      /\ TotalShareNow(g) = SharesInAll(pt)
  BY DEF Totals
<1>2. TotalOn(g, now') = SharesOn(pt, now')
  <2>1. CASE now' = now
    <3>1. \A p \in Candidates : ShareOn(pt[p], now) = ShareIn(pt[p])
      BY <1>1, ShareGrows DEF PaidRows
    <3>2. SharesOn(pt, now) = SharesInAll(pt) BY <3>1 DEF SharesOn, SharesInAll
    <3>3. TotalOn(g, now) = TotalShareNow(g) BY DEF TotalOn, TotalShareNow
    <3> QED BY <1>1, <2>1, <3>2, <3>3
  <2>2. CASE now' = now + 1 BY <2>2, TotalGrows
  <2> QED BY <2>1, <2>2
<1>3. \A p \in Candidates : pt[p] # None =>
        pt[p] \in ProducerRow /\ pt[p].last_votepay_share_update <= now'
  <2> SUFFICES ASSUME NEW p \in Candidates, pt[p] # None
               PROVE  pt[p] \in ProducerRow /\ pt[p].last_votepay_share_update <= now'
    OBVIOUS
  <2>1. pt[p] \in ProducerRow /\ pt[p].last_votepay_share_update <= now
    BY <1>1 DEF PaidRows, PaidRow
  <2>2. pt[p].last_votepay_share_update \in Int BY <2>1 DEF ProducerRow
  <2> QED BY <2>1, <2>2
<1> QED BY <1>1, <1>2, <1>3

\* Balanced, with the shares at the day of the clock.
TotalsToday ==
  /\ gstate \in GlobalState /\ gstate.total_producer_vote_weight = VotesInAll(producers)
  /\ gstate.total_vpay_share_change_rate = RatesInAll(producers)
  /\ TotalOn(gstate, now) = SharesOn(producers, now)
  /\ \A p \in Candidates : producers[p] # None =>
       producers[p] \in ProducerRow /\ producers[p].last_votepay_share_update <= now
BalancedToday ==
  /\ Good(Tables) /\ FairRows(voters) /\ TotalsToday
  /\ \A p \in Candidates : producers[p] # None =>
       producers[p].total_votes = GivenTo(voters, None, None, p)
  /\ \A x \in Voters : voters[x] # None =>
       voters[x].proxied_vote_weight = EntrustedTo(voters, None, None, x)

LEMMA TodayBalanced == SystemInv /\ BalancedToday => Balanced(Tables)
<1> SUFFICES ASSUME SystemInv, BalancedToday PROVE Balanced(Tables)
  OBVIOUS
<1>0. now \in 0 .. MaxDay /\ TotalsToday BY DEF SystemInv, VotersOK, BalancedToday
<1>1. PaidRows(producers) BY <1>0 DEF TotalsToday, PaidRows, PaidRow
<1>2. SharesOn(producers, now) = SharesInAll(producers)
  <2>1. \A p \in Candidates : ShareOn(producers[p], now) = ShareIn(producers[p])
    BY <1>0, <1>1, ShareGrows DEF PaidRows
  <2> QED BY <2>1 DEF SharesOn, SharesInAll
<1>3. TotalOn(gstate, now) = TotalShareNow(gstate) BY DEF TotalOn, TotalShareNow
<1>4. Totals(gstate, producers) BY <1>0, <1>1, <1>2, <1>3 DEF TotalsToday, Totals
<1>5. Tallied(Tables, None, None, None) BY <1>4, TablesAre DEF Tallied, BalancedToday
<1> QED BY <1>5, BalancedIs, TablesAre DEF BalancedToday

LEMMA BalancedStep ==
  SystemInv /\ SystemInv' /\ StakesNat' /\ Balanced(Tables) /\ [Next]_vars => BalancedToday'
<1> SUFFICES ASSUME SystemInv, SystemInv', StakesNat', Balanced(Tables), [Next]_vars
             PROVE  BalancedToday'
  OBVIOUS
<1>0. now \in 0 .. MaxDay /\ now' \in 0 .. MaxDay /\ (now' = now \/ now' = now + 1)
  BY DEF SystemInv, VotersOK, Next, vars, VotingOnly, StakingStep, RefundStep, RamStep, AdminStep,
         NameStep, BidrefundCall, Newaccount, PayStep, Tick
<1>1. Balanced(Tables')
  <2>1. CASE VotingOnly BY <2>1, VotingBalanced DEF VotingOnly, SystemInv
  <2>2. CASE StakingStep BY <2>2, StakingBalanced
  <2>3. CASE PayStep BY <2>3, PayBalanced
  <2>4. CASE UNCHANGED votingVars
    <3>1. Tables' = Tables BY <2>4 DEF votingVars, Tables
    <3> QED BY <3>1
  <2>5. \/ VotingOnly \/ StakingStep \/ PayStep \/ UNCHANGED votingVars
    BY DEF Next, vars, RefundStep, RamStep, AdminStep, NameStep, BidrefundCall, Newaccount, Tick
  <2> QED BY <2>1, <2>2, <2>3, <2>4, <2>5
<1>2. /\ Good(Tables') /\ FairRows(voters') /\ Totals(gstate', producers')
      /\ \A p \in Candidates : producers'[p] # None =>
           producers'[p].total_votes = GivenTo(voters', None, None, p)
      /\ \A x \in Voters : voters'[x] # None =>
           voters'[x].proxied_vote_weight = EntrustedTo(voters', None, None, x)
  BY <1>1, BalancedIs, TablesAre DEF Tallied
<1>3. TotalsToday'
  <2>1. /\ gstate' \in GlobalState /\ gstate'.total_producer_vote_weight = VotesInAll(producers')
        /\ gstate'.total_vpay_share_change_rate = RatesInAll(producers')
        /\ TotalOn(gstate', now') = SharesOn(producers', now')
        /\ \A p \in Candidates : producers'[p] # None =>
             producers'[p] \in ProducerRow /\ producers'[p].last_votepay_share_update <= now'
    BY <1>0, <1>2, TotalsNext
  <2> QED BY <2>1 DEF TotalsToday, VotesInAll, RatesInAll, VotesIn, RateIn, Lapsed, TotalOn,
                      SharesOn, ShareOn
<1>4. Good(Tables)' BY <1>2 DEF Good, Linked
<1>5. FairRows(voters)' BY <1>2 DEF FairRows, FairRow
<1> QED BY <1>2, <1>3, <1>4, <1>5 DEF BalancedToday, GivenTo, EntrustedTo, RowOf, Gives, Entrusts

LEMMA InitBalanced == Init => Balanced(Tables)
<1> SUFFICES ASSUME Init PROVE Balanced(Tables)
  OBVIOUS
<1>1. /\ producers = [p \in Candidates |-> None] /\ voters = [v \in Voters |-> None]
      /\ gstate = [total_activated_stake |-> 0, thresh_activated_stake_time |-> None,
                   total_producer_vote_weight |-> 0, total_producer_votepay_share |-> 0,
                   total_vpay_share_change_rate |-> 0, last_vpay_state_update |-> 0]
      /\ now = 0
  BY DEF Init, VotingInit, CoreInit
<1>2. Good(Tables) BY InitInv DEF SystemInv, VotersOK
<1>3. FairRows(voters) BY <1>1 DEF FairRows, FairRow
<1>4. /\ VotesInAll(producers) = 0 /\ SharesInAll(producers) = 0 /\ RatesInAll(producers) = 0
      /\ PaidRows(producers)
  <2> DEFINE f == [p \in Candidates |-> VotesIn(producers[p])]
             h == [p \in Candidates |-> ShareIn(producers[p])]
             k == [p \in Candidates |-> RateIn(producers[p])]
  <2>1. \A p \in Candidates : f[p] = 0 /\ h[p] = 0 /\ k[p] = 0
    BY <1>1 DEF VotesIn, ShareIn, RateIn
  <2> HIDE DEF f, h, k
  <2>2. /\ SumFunctionOnSet(f, Candidates) = 0 /\ SumFunctionOnSet(h, Candidates) = 0
        /\ SumFunctionOnSet(k, Candidates) = 0
    BY <2>1, VotersFinite, SumZero
  <2>3. PaidRows(producers) BY <1>1 DEF PaidRows, PaidRow
  <2> QED BY <2>2, <2>3 DEF VotesInAll, SharesInAll, RatesInAll, f, h, k
<1>5. gstate \in GlobalState /\ TotalShareNow(gstate) = 0
  <2>1. gstate \in GlobalState BY <1>1, CoreAssumption DEF GlobalState
  <2>2. TotalShareNow(gstate) = 0 + 0 * (0 - 0) BY <1>1 DEF TotalShareNow
  <2> QED BY <2>1, <2>2
<1>6. Totals(gstate, producers) BY <1>1, <1>4, <1>5 DEF Totals
<1>7. Tallied(Tables, None, None, None) BY <1>1, <1>6, TablesAre DEF Tallied
<1> QED BY <1>2, <1>3, <1>7, TablesAre, BalancedIs

\* The sums of the tallies, over those who count.
LEMMA LastWeightIs ==
  ASSUME NEW S \in SUBSET Voters, NEW g, FairRows(voters),
         \A v \in S : voters[v] # None /\ g[v] = voters[v].last_vote_weight,
         \A v \in Voters \ S : g[v] = 0
  PROVE  LastWeight(S) = SumFunctionOnSet(g, Voters)
<1> DEFINE f == [v \in S |-> voters[v].last_vote_weight]
<1>1. \A v \in S : voters[v].last_vote_weight \in Int BY DEF FairRows, FairRow, EvenNat
<1>2. \A v \in S : f[v] \in Int /\ g[v] = f[v] BY <1>1
<1>3. LastWeight(S) = SumFunctionOnSet(f, S) BY DEF LastWeight, SumFunction
<1> HIDE DEF f
<1> QED BY <1>2, <1>3, VotersFinite, SumPart

LEMMA BalancedWeights == Balanced(Tables) => VotesAreWeights
<1> SUFFICES ASSUME Balanced(Tables) PROVE VotesAreWeights
  OBVIOUS
<1>1. /\ Good(Tables) /\ FairRows(voters) /\ Tallied(Tables, None, None, None)
      /\ producers \in ProducerTable
  BY BalancedIs, TablesAre, VotersParts
<1>2. \A v \in Voters : RowOf(voters, None, None, v) = voters[v] BY NoneNoVoter DEF RowOf
<1>3. ASSUME NEW p \in Registered
      PROVE  producers[p].total_votes = LastWeight({v \in Known : p \in voters[v].producers})
  <2> DEFINE g == [v \in Voters |-> Gives(RowOf(voters, None, None, v), p)]
             S == {v \in Known : p \in voters[v].producers}
  <2>1. producers[p].total_votes = SumFunctionOnSet(g, Voters)
    BY <1>1, TablesAre DEF Registered, Tallied, GivenTo
  <2>2. /\ S \in SUBSET Voters
        /\ \A v \in S : voters[v] # None /\ g[v] = voters[v].last_vote_weight
        /\ \A v \in Voters \ S : g[v] = 0
    BY <1>2 DEF Known, Gives
  <2> HIDE DEF g, S
  <2>3. LastWeight(S) = SumFunctionOnSet(g, Voters) BY <1>1, <2>2, LastWeightIs
  <2> QED BY <2>1, <2>3 DEF S
<1>4. ASSUME NEW x \in Known
      PROVE  voters[x].proxied_vote_weight = LastWeight({v \in Known : voters[v].proxy = x})
  <2> DEFINE g == [v \in Voters |-> Entrusts(RowOf(voters, None, None, v), x)]
             S == {v \in Known : voters[v].proxy = x}
  <2>1. voters[x].proxied_vote_weight = SumFunctionOnSet(g, Voters)
    BY <1>1, TablesAre DEF Known, Tallied, EntrustedTo
  <2>2. /\ S \in SUBSET Voters
        /\ \A v \in S : voters[v] # None /\ g[v] = voters[v].last_vote_weight
        /\ \A v \in Voters \ S : g[v] = 0
    BY <1>2 DEF Known, Entrusts
  <2> HIDE DEF g, S
  <2>3. LastWeight(S) = SumFunctionOnSet(g, Voters) BY <1>1, <2>2, LastWeightIs
  <2> QED BY <2>1, <2>3 DEF S
<1>5. gstate.total_producer_vote_weight
        = SumFunction([p \in Registered |-> producers[p].total_votes])
  <2> DEFINE f == [p \in Registered |-> producers[p].total_votes]
             g == [p \in Candidates |-> VotesIn(producers[p])]
  <2>1. gstate.total_producer_vote_weight = SumFunctionOnSet(g, Candidates)
    BY <1>1, TablesAre DEF Tallied, Totals, VotesInAll
  <2>2. \A p \in Registered : producers[p] # None /\ producers[p].total_votes \in Int
    BY <1>1 DEF Registered, ProducerTable, AnyProducer
  <2>3. /\ Registered \in SUBSET Candidates
        /\ \A p \in Registered : f[p] \in Int /\ g[p] = f[p]
        /\ \A p \in Candidates \ Registered : g[p] = 0
    BY <2>2 DEF Registered, VotesIn
  <2>4. SumFunction(f) = SumFunctionOnSet(f, Registered) BY DEF SumFunction
  <2> HIDE DEF f, g
  <2>5. SumFunctionOnSet(f, Registered) = SumFunctionOnSet(g, Candidates)
    BY <2>3, VotersFinite, SumPart
  <2> QED BY <2>1, <2>4, <2>5 DEF f
<1> QED BY <1>3, <1>4, <1>5 DEF VotesAreWeights

LEMMA BalancedAlways == Spec => []Balanced(Tables)
<1> QED BY InitBalanced, StakesAreNat, BalancedStep, TodayBalanced, SystemAlways, PTL DEF Spec

\* The tallies that votes, stakes and proxies change by differences are the sums
\* of the last weights of the voters who list a producer or have a proxy, also when
\* propagate_weight_change stops early (update_votes, propagate_weight_change).
THEOREM TalliesAreWeights == Spec => []VotesAreWeights
<1> QED BY BalancedAlways, BalancedWeights, PTL


\* So are the shares.
\* Pay leaves the voters and the activated stake alone.
LEMMA PayActive ==
  ASSUME Good(Tables), PayStep
  PROVE  voters' = voters /\ SameActive(Tables, Tables')
<1>1. voters' = voters /\ (gstate' = gstate \/ \E row : gstate' = SharesClaimed(row))
  BY DEF PayStep, Onblock, Claimrewards
<1>2. gstate \in AnyGlobal BY VotersParts
<1>3. /\ gstate'.total_activated_stake = gstate.total_activated_stake
      /\ gstate'.thresh_activated_stake_time = gstate.thresh_activated_stake_time
  BY <1>1, <1>2 DEF SharesClaimed, TotalUpdated, AnyGlobal
<1> QED BY <1>1, <1>3, TablesAre DEF SameActive

LEMMA ActivationStep ==
  ASSUME SystemInv, SystemInv', StakesNat', Balanced(Tables), Ready(Tables), [Next]_vars
  PROVE  Activates(Tables, Tables')
<1>1. CASE VotingOnly BY <1>1, VotingBalanced DEF VotingOnly, SystemInv
<1>2. CASE StakingStep BY <1>2, StakingBalanced
<1>3. CASE PayStep
  <2>1. Balanced(Tables') BY <1>3, PayBalanced
  <2>2. voters' = voters /\ SameActive(Tables, Tables')
    BY <1>3, PayActive, BalancedIs
  <2>3. \A x \in Voters : Heard(Tables.voters[x]) <= Heard(Tables'.voters[x])
    BY <2>2, HeardNat, BalancedIs, TablesAre
  <2> QED BY <2>1, <2>2, <2>3, HeardStep
<1>4. CASE UNCHANGED votingVars
  <2>1. Tables' = Tables BY <1>4 DEF votingVars, Tables
  <2> QED BY <2>1 DEF Activates
<1>5. \/ VotingOnly \/ StakingStep \/ PayStep \/ UNCHANGED votingVars
  BY DEF Next, vars, RefundStep, RamStep, AdminStep, NameStep, BidrefundCall, Newaccount, Tick
<1> QED BY <1>1, <1>2, <1>3, <1>4, <1>5

LEMMA ReadyStep ==
  SystemInv /\ SystemInv' /\ StakesNat' /\ Balanced(Tables) /\ Ready(Tables) /\ [Next]_vars
    => Ready(Tables)'
<1> SUFFICES ASSUME SystemInv, SystemInv', StakesNat', Balanced(Tables), Ready(Tables), [Next]_vars
             PROVE  Ready(Tables)'
  OBVIOUS
<1>1. Ready(Tables') BY ActivationStep DEF Activates
<1> QED BY <1>1 DEF Ready, Activation, ActiveStake, HeardIn, Heard, Speaks

LEMMA InitReady == Init => Ready(Tables)
<1> SUFFICES ASSUME Init PROVE Ready(Tables)
  OBVIOUS
<1>1. ActiveStake(Tables) = 0 BY TablesAre DEF Init, VotingInit, ActiveStake
<1>2. FairRows(voters) BY InitBalanced, BalancedIs, TablesAre
<1>3. \A x \in Voters : Heard(voters[x]) <= Heard(voters[x]) BY <1>2, HeardNat
<1>4. HeardIn(voters) \in Nat BY <1>2, <1>3, HeardKept
<1> QED BY <1>1, <1>4, TablesAre, VotingAssumption DEF Ready

\* What is heard is the stake of those whose last weight is above 0.
HeardIsStake == StakeOf({v \in Known : voters[v].last_vote_weight > 0}) = HeardIn(voters)

LEMMA HeardIs == Balanced(Tables) => HeardIsStake
<1> SUFFICES ASSUME Balanced(Tables) PROVE HeardIsStake
  OBVIOUS
<1> DEFINE S == {v \in Known : voters[v].last_vote_weight > 0}
           f == [v \in S |-> voters[v].staked]
           g == [v \in Voters |-> Heard(voters[v])]
<1>1. FairRows(voters) BY BalancedIs, TablesAre
<1>2. S \in SUBSET Voters BY DEF Known
<1>3. \A v \in S : f[v] \in Int /\ g[v] = f[v]
  BY <1>1 DEF Known, Heard, Speaks, FairRows, FairRow
<1>4. \A v \in Voters \ S : g[v] = 0 BY DEF Known, Heard, Speaks
<1>5. StakeOf(S) = SumFunctionOnSet(f, S) BY DEF StakeOf, SumFunction
<1>6. HeardIn(voters) = SumFunctionOnSet(g, Voters) BY DEF HeardIn
<1> HIDE DEF f, g, S
<1>7. SumFunctionOnSet(f, S) = SumFunctionOnSet(g, Voters)
  BY <1>2, <1>3, <1>4, VotersFinite, SumPart
<1>8. StakeOf(S) = HeardIn(voters) BY <1>5, <1>6, <1>7
<1> QED BY <1>8 DEF S, HeardIsStake

LEMMA ActivationIsHeard ==
  SystemInv /\ SystemInv' /\ StakesNat' /\ Balanced(Tables) /\ HeardIsStake' /\ Ready(Tables)
  /\ [Next]_vars
    => [gstate'.thresh_activated_stake_time # gstate.thresh_activated_stake_time
         => StakeOf({v \in Known : voters[v].last_vote_weight > 0})' >= MinActivatedStake]_gstate
<1> SUFFICES ASSUME SystemInv, SystemInv', StakesNat', Balanced(Tables), HeardIsStake',
                    Ready(Tables), [Next]_vars,
                    gstate'.thresh_activated_stake_time # gstate.thresh_activated_stake_time
             PROVE  StakeOf({v \in Known : voters[v].last_vote_weight > 0})' >= MinActivatedStake
  OBVIOUS
<1>1. MinActivatedStake <= HeardIn(Tables'.voters)
  BY ActivationStep, TablesAre DEF Activates, Activation
<1>2. HeardIn(Tables'.voters) = HeardIn(voters)' BY TablesAre DEF HeardIn, Heard, Speaks
<1>3. StakeOf({v \in Known : voters[v].last_vote_weight > 0})' = HeardIn(voters)'
  BY DEF HeardIsStake
<1> QED BY <1>1, <1>2, <1>3

\* The chain is activated only when the stake of those who have voted suffices: until
\* then nobody unstakes, a first vote counts the stake of its voter once, and no
\* propagation takes the last weight of a voter with a stake to 0 (update_votes).
THEOREM ActivationNeedsStake == Spec => ActivationIsStaked
<1>1. Spec => []Ready(Tables)
  BY InitReady, ReadyStep, StakesAreNat, BalancedAlways, SystemAlways, PTL DEF Spec
<1>2. Spec => []HeardIsStake BY BalancedAlways, HeardIs, PTL
<1> QED BY <1>1, <1>2, ActivationIsHeard, StakesAreNat, BalancedAlways, SystemAlways, PTL
           DEF Spec, ActivationIsStaked

\* Days make a token weigh more, and pay moves no votes.
LEMMA FreshStep ==
  SystemInv /\ SystemInv' /\ StakesNat' /\ Balanced(Tables) /\ FreshBut(voters, None) /\ [Next]_vars
    => FreshBut(voters, None)'
<1> SUFFICES ASSUME SystemInv, SystemInv', StakesNat', Balanced(Tables), FreshBut(voters, None),
                    [Next]_vars
             PROVE  FreshBut(voters, None)'
  OBVIOUS
<1>0. now \in 0 .. MaxDay /\ now' \in 0 .. MaxDay /\ (now' = now \/ now' = now + 1)
  BY DEF SystemInv, VotersOK, Next, vars, VotingOnly, StakingStep, RefundStep, RamStep, AdminStep,
         NameStep, BidrefundCall, Newaccount, PayStep, Tick
<1>1. FreshBut(voters', None)
  <2>1. CASE VotingOnly BY <2>1, VotingFresh DEF VotingOnly, SystemInv
  <2>2. CASE StakingStep BY <2>2, StakingBalanced
  <2>3. CASE PayStep
    <3>1. voters' = voters BY <2>3, PayActive, BalancedIs
    <3> QED BY <3>1
  <2>4. CASE UNCHANGED votingVars
    <3>1. voters' = voters BY <2>4 DEF votingVars
    <3> QED BY <3>1
  <2>5. \/ VotingOnly \/ StakingStep \/ PayStep \/ UNCHANGED votingVars
    BY DEF Next, vars, RefundStep, RamStep, AdminStep, NameStep, BidrefundCall, Newaccount, Tick
  <2> QED BY <2>1, <2>2, <2>3, <2>4, <2>5
<1>2. Factor[now] \in Nat /\ Factor[now'] \in Nat /\ Factor[now] <= Factor[now']
  <2>1. Factor[now] \in Nat /\ Factor[now'] \in Nat BY <1>0, FactorGrows
  <2>2. CASE now' = now BY <2>1, <2>2
  <2>3. CASE now' = now + 1
    <3>1. now' > 0 /\ now' - 1 = now BY <1>0, <2>3
    <3>2. Factor[now' - 1] <= Factor[now'] BY <1>0, <3>1, VotingAssumption
    <3> QED BY <2>1, <3>1, <3>2
  <2> QED BY <1>0, <2>2, <2>3
<1>3. ASSUME NEW x \in Voters, Votes(voters'[x])
      PROVE  /\ Factor[0] * voters'[x].staked <= Own(voters'[x])
             /\ Own(voters'[x]) <= Factor[now'] * voters'[x].staked
  <2> DEFINE row == voters'[x]   s == row.staked   a == Factor[now]   b == Factor[now']
  <2>1. row # None /\ row \in AnyVoter
    <3>1. voters' \in VoterTable BY VotersParts DEF SystemInv, VotersOK, VoterTable, Good, State, Tables
    <3> QED BY <1>3, <3>1 DEF Votes, VoterTable
  <2>2. s \in Nat BY <2>1 DEF StakesNat, StakeIn
  <2>3. Factor[0] * s <= Own(row) /\ Own(row) <= a * s
    BY <1>1, <1>3, NoneNoVoter DEF FreshBut, Fresh
  <2>4. Own(row) \in Int
    <3> HIDE DEF row
    <3> QED BY <2>1 DEF Own, Part, AnyVoter
  <2> HIDE DEF row, s, a, b
  <2>5. a \in Nat /\ b \in Nat /\ a <= b BY <1>2 DEF a, b
  <2>6. a * s <= b * s /\ a * s \in Nat /\ b * s \in Nat BY <2>2, <2>5, Scaled
  <2>7. Own(row) <= b * s BY <2>3, <2>4, <2>6
  <2> QED BY <2>3, <2>7 DEF row, s, b
<1> QED BY <1>3 DEF FreshBut, Fresh, Votes, Own, Part

LEMMA InitFresh == Init => FreshBut(voters, None)
BY DEF Init, VotingInit, FreshBut, Fresh, Votes

\* A voter's part of the votes of p: its own weight where it lists p, and its last
\* weight where its proxy, as long as that is one, lists p.
Direct(p, v) == IF voters[v] # None /\ p \in voters[v].producers THEN Own(voters[v]) ELSE 0
Held(p, v) == IF voters[v] # None /\ p \in voters[v].producers THEN Part(voters[v]) ELSE 0
Holders(p) == {v \in Known : p \in voters[v].producers /\ voters[v].is_proxy}
LastIn(v) == IF voters[v] = None THEN 0 ELSE voters[v].last_vote_weight
ProxyIn(v) == IF voters[v] = None THEN None ELSE voters[v].proxy
ByProxy(p, v) == IF ProxyIn(v) \in Holders(p) THEN LastIn(v) ELSE 0
SpokenStake(p, v) == IF v \in SpeakFor(p) THEN voters[v].staked ELSE 0

\* What holders have of their principals is what these have given them.
LEMMA HeldIsGiven ==
  ASSUME Balanced(Tables), NEW p \in Candidates
  PROVE  SumFunctionOnSet([v \in Voters |-> Held(p, v)], Voters)
           = SumFunctionOnSet([v \in Voters |-> ByProxy(p, v)], Voters)
<1> DEFINE T == Holders(p)
           b == [v \in Voters |-> Held(p, v)]
           h == [v \in T |-> voters[v].proxied_vote_weight]
           g == [v \in Voters |-> LastIn(v)]
           k == [v \in Voters |-> ProxyIn(v)]
           m == [v \in Voters |-> ByProxy(p, v)]
<1>0. /\ FairRows(voters)
      /\ \A x \in Voters : voters[x] # None =>
           voters[x].proxied_vote_weight = EntrustedTo(voters, None, None, x)
  BY BalancedIs, TablesAre DEF Tallied
<1>1. T \in SUBSET Voters /\ IsFiniteSet(Voters) /\ IsFiniteSet(T)
  BY VotersFinite, FS_Subset DEF Holders, Known
<1>2. \A v \in Voters : g[v] \in Int BY <1>0 DEF FairRows, FairRow, EvenNat, LastIn
<1>3. ASSUME NEW v \in T PROVE h[v] = Getting(Voters, g, k, v) /\ h[v] \in Int
  <2> DEFINE e == [x \in Voters |-> Entrusts(RowOf(voters, None, None, x), v)]
             j == [x \in Voters |-> IF k[x] = v THEN g[x] ELSE 0]
  <2>1. v \in Voters /\ voters[v] # None /\ v # None BY <1>1, NoneNoVoter DEF Holders, Known
  <2>2. ASSUME NEW x \in Voters PROVE e[x] = j[x]
    BY <2>1, NoneNoVoter DEF Entrusts, RowOf, LastIn, ProxyIn
  <2>3. h[v] = SumFunctionOnSet(e, Voters) BY <1>0, <2>1 DEF EntrustedTo
  <2>4. Getting(Voters, g, k, v) = SumFunctionOnSet(j, Voters) BY DEF Getting
  <2>5. h[v] \in Int BY <1>0, <2>1 DEF FairRows, FairRow, AnyVoter
  <2> HIDE DEF e, j, h
  <2>6. SumFunctionOnSet(e, Voters) = SumFunctionOnSet(j, Voters) BY <1>1, <2>2, SumEqual
  <2> QED BY <2>3, <2>4, <2>5, <2>6
<1>4. \A v \in T : b[v] = h[v] BY <1>1 DEF Held, Holders, Known, Part
<1>5. \A v \in Voters \ T : b[v] = 0 BY DEF Held, Holders, Known, Part
<1>6. GettingAll(Voters, g, k, T) = SumFunctionOnSet(m, Voters)
  <2> DEFINE j == [x \in Voters |-> IF k[x] \in T THEN g[x] ELSE 0]
  <2>1. \A x \in Voters : j[x] = m[x] BY DEF ByProxy
  <2>2. GettingAll(Voters, g, k, T) = SumFunctionOnSet(j, Voters) BY DEF GettingAll
  <2> HIDE DEF j, m
  <2> QED BY <1>1, <2>1, <2>2, SumEqual
<1> HIDE DEF T, b, h, g, k, m
<1>7. SumFunctionOnSet(h, T) = SumFunctionOnSet(b, Voters)
  BY <1>1, <1>3, <1>4, <1>5, SumPart
<1>8. SumFunctionOnSet(h, T) = GettingAll(Voters, g, k, T) BY <1>1, <1>2, <1>3, SumGroups
<1>9. SumFunctionOnSet(b, Voters) = SumFunctionOnSet(m, Voters) BY <1>6, <1>7, <1>8
<1> QED BY <1>9 DEF b, m

\* Voter by voter: what speaks for p is worth its stake on some day.
LEMMA WorthStake ==
  ASSUME SystemInv, Balanced(Tables), FreshBut(voters, None), NEW p \in Candidates,
         NEW v \in Voters
  PROVE  /\ Direct(p, v) \in Int /\ ByProxy(p, v) \in Int /\ SpokenStake(p, v) \in Nat
         /\ Factor[0] * SpokenStake(p, v) <= Direct(p, v) + ByProxy(p, v)
         /\ Direct(p, v) + ByProxy(p, v) <= Factor[now] * SpokenStake(p, v)
<1> DEFINE row == voters[v]   a == Factor[0]   b == Factor[now]
<1>0. /\ FairRow(row) /\ Linked(Tables) /\ ProxyRule(voters) /\ now \in 0 .. MaxDay
      /\ Fresh(row) /\ a \in Nat /\ b \in Nat
  <2>1. FairRows(voters) /\ Good(Tables) BY BalancedIs, TablesAre
  <2>2. now \in 0 .. MaxDay /\ ProxyRule(voters) BY DEF SystemInv, VotersOK
  <2>3. Fresh(row) BY NoneNoVoter DEF FreshBut
  <2> QED BY <2>1, <2>2, <2>3, FactorGrows DEF FairRows, Good
<1>1. \A s : s = 0 => a * s = 0 /\ b * s = 0 BY <1>0
<1>2. CASE row = None
  <2>1. Direct(p, v) = 0 /\ SpokenStake(p, v) = 0 BY <1>2 DEF Direct, SpokenStake, SpeakFor, Known
  <2>2. ByProxy(p, v) = 0 BY <1>2 DEF ByProxy, LastIn
  <2> HIDE DEF a, b
  <2> QED BY <1>1, <2>1, <2>2 DEF a, b
<1>3. CASE row # None /\ p \in row.producers
  <2>1. row.proxy = None /\ row.staked \in Nat /\ Own(row) \in Int
    BY <1>0, <1>3 DEF FairRow, Own, Part, AnyVoter
  <2>2. Direct(p, v) = Own(row) BY <1>3 DEF Direct
  <2>3. ByProxy(p, v) = 0 BY <2>1, NoneNoVoter DEF ByProxy, ProxyIn, Holders, Known
  <2>4. SpokenStake(p, v) = row.staked BY <1>3 DEF SpokenStake, SpeakFor, Known
  <2>5. a * row.staked <= Own(row) /\ Own(row) <= b * row.staked
    BY <1>0, <1>3 DEF Fresh, Votes
  <2> HIDE DEF row, a, b
  <2>6. Direct(p, v) + ByProxy(p, v) = Own(row) BY <2>1, <2>2, <2>3
  <2> QED BY <2>1, <2>2, <2>3, <2>4, <2>5, <2>6 DEF a, b
<1>4. CASE row # None /\ p \notin row.producers /\ row.proxy \in Holders(p)
  <2>1. /\ row.proxy # None /\ row.staked \in Nat /\ row.last_vote_weight \in Int
    BY <1>0, <1>4, NoneNoVoter DEF FairRow, AnyVoter, Holders, Known
  <2>2. Own(row) = row.last_vote_weight
    <3>1. ~ row.is_proxy BY <1>0, <1>4, <2>1 DEF ProxyRule
    <3> QED BY <2>1, <3>1 DEF Own, Part
  <2>3. Direct(p, v) = 0 BY <1>4 DEF Direct
  <2>4. ByProxy(p, v) = row.last_vote_weight BY <1>4 DEF ByProxy, ProxyIn, LastIn
  <2>5. SpokenStake(p, v) = row.staked BY <1>4, <2>1 DEF SpokenStake, SpeakFor, Known, Holders
  <2>6. a * row.staked <= Own(row) /\ Own(row) <= b * row.staked
    BY <1>0, <1>4, <2>1 DEF Fresh, Votes
  <2> HIDE DEF row, a, b
  <2>7. Direct(p, v) + ByProxy(p, v) = Own(row) BY <2>1, <2>2, <2>3, <2>4
  <2> QED BY <2>1, <2>2, <2>3, <2>4, <2>5, <2>6, <2>7 DEF a, b
<1>5. CASE row # None /\ p \notin row.producers /\ row.proxy \notin Holders(p)
  <2>1. Direct(p, v) = 0 BY <1>5 DEF Direct
  <2>2. ByProxy(p, v) = 0 BY <1>5 DEF ByProxy, ProxyIn
  <2>3. v \notin SpeakFor(p)
    <3> SUFFICES ASSUME row.proxy # None, voters[row.proxy].is_proxy,
                        p \in voters[row.proxy].producers
                 PROVE  FALSE
      BY <1>5 DEF SpeakFor
    <3>1. row.proxy \in Voters BY <1>0, <1>5, VotersFinite DEF FairRow, AnyVoter
    <3>2. voters[row.proxy] # None BY <1>0, <1>5, TablesAre DEF Linked
    <3> QED BY <1>5, <3>1, <3>2 DEF Holders, Known
  <2>4. SpokenStake(p, v) = 0 BY <2>3 DEF SpokenStake
  <2> HIDE DEF a, b
  <2> QED BY <1>1, <2>1, <2>2, <2>4 DEF a, b
<1> QED BY <1>2, <1>3, <1>4, <1>5

LEMMA FreshBacked ==
  SystemInv /\ Balanced(Tables) /\ FreshBut(voters, None) => VotesAreBacked
<1> SUFFICES ASSUME SystemInv, Balanced(Tables), FreshBut(voters, None), NEW p \in Registered
             PROVE  /\ producers[p].total_votes >= Factor[0] * StakeOf(SpeakFor(p))
                    /\ producers[p].total_votes <= Factor[now] * StakeOf(SpeakFor(p))
  BY DEF VotesAreBacked
<1> DEFINE gives == [v \in Voters |-> Gives(RowOf(voters, None, None, v), p)]
           direct == [v \in Voters |-> Direct(p, v)]
           held == [v \in Voters |-> Held(p, v)]
           byproxy == [v \in Voters |-> ByProxy(p, v)]
           both == [v \in Voters |-> Direct(p, v) + ByProxy(p, v)]
           s == [v \in Voters |-> SpokenStake(p, v)]
           S == SpeakFor(p)
           stakes == [v \in S |-> voters[v].staked]
           low == [v \in Voters |-> Factor[0] * SpokenStake(p, v)]
           high == [v \in Voters |-> Factor[now] * SpokenStake(p, v)]
<1>0. /\ p \in Candidates /\ FairRows(voters) /\ now \in 0 .. MaxDay
      /\ producers[p].total_votes = SumFunctionOnSet(gives, Voters)
      /\ Factor[0] \in Int /\ Factor[now] \in Int
  <2>1. p \in Candidates /\ producers[p] # None BY DEF Registered
  <2>2. FairRows(voters) /\ producers[p].total_votes = GivenTo(voters, None, None, p)
    BY <2>1, BalancedIs, TablesAre DEF Tallied
  <2>3. now \in 0 .. MaxDay BY DEF SystemInv, VotersOK
  <2>4. Factor[0] \in Nat /\ Factor[now] \in Nat BY <2>3, FactorGrows
  <2> QED BY <2>1, <2>2, <2>3, <2>4 DEF GivenTo
<1>1. ASSUME NEW v \in Voters
      PROVE  /\ direct[v] \in Int /\ held[v] \in Int /\ byproxy[v] \in Int /\ s[v] \in Nat
             /\ gives[v] = direct[v] + held[v] /\ both[v] = direct[v] + byproxy[v]
             /\ both[v] \in Int /\ low[v] = Factor[0] * s[v] /\ high[v] = Factor[now] * s[v]
             /\ low[v] <= both[v] /\ both[v] <= high[v]
  <2>1. /\ Direct(p, v) \in Int /\ ByProxy(p, v) \in Int /\ SpokenStake(p, v) \in Nat
        /\ Factor[0] * SpokenStake(p, v) <= Direct(p, v) + ByProxy(p, v)
        /\ Direct(p, v) + ByProxy(p, v) <= Factor[now] * SpokenStake(p, v)
    BY <1>0, WorthStake
  <2>2. Held(p, v) \in Int /\ Gives(RowOf(voters, None, None, v), p) = Direct(p, v) + Held(p, v)
    <3>1. RowOf(voters, None, None, v) = voters[v] BY NoneNoVoter DEF RowOf
    <3>2. CASE voters[v] # None /\ p \in voters[v].producers
      <4>1. voters[v].last_vote_weight \in Int /\ Part(voters[v]) \in Int
        BY <1>0, <3>2 DEF FairRows, FairRow, AnyVoter, Part
      <4>2. /\ Gives(voters[v], p) = voters[v].last_vote_weight
            /\ Direct(p, v) = voters[v].last_vote_weight - Part(voters[v])
            /\ Held(p, v) = Part(voters[v])
        BY <3>2 DEF Gives, Direct, Held, Own
      <4> QED BY <3>1, <4>1, <4>2
    <3>3. CASE ~ (voters[v] # None /\ p \in voters[v].producers)
      BY <3>1, <3>3 DEF Gives, Direct, Held
    <3> QED BY <3>2, <3>3
  <2> QED BY <2>1, <2>2
<1>2. StakeOf(S) = SumFunctionOnSet(stakes, S) BY DEF StakeOf, SumFunction
<1>3. S \in SUBSET Voters /\ \A v \in S : stakes[v] \in Int /\ s[v] = stakes[v]
  BY <1>0 DEF SpeakFor, Known, SpokenStake, FairRows, FairRow
<1>4. \A v \in Voters \ S : s[v] = 0 BY DEF SpokenStake
<1>5. SumFunctionOnSet(held, Voters) = SumFunctionOnSet(byproxy, Voters) BY <1>0, HeldIsGiven
<1> HIDE DEF gives, direct, held, byproxy, both, s, S, stakes, low, high
<1>6. StakeOf(S) = SumFunctionOnSet(s, Voters) BY <1>2, <1>3, <1>4, VotersFinite, SumPart
<1>7. SumFunctionOnSet(gives, Voters)
        = SumFunctionOnSet(direct, Voters) + SumFunctionOnSet(held, Voters)
  BY <1>1, VotersFinite, SumPlus
<1>8. SumFunctionOnSet(both, Voters)
        = SumFunctionOnSet(direct, Voters) + SumFunctionOnSet(byproxy, Voters)
  BY <1>1, VotersFinite, SumPlus
<1>9. \A v \in Voters : low[v] \in Int /\ high[v] \in Int
  <2>1. \A a \in Int : \A b \in Nat : a * b \in Int OBVIOUS
  <2> QED BY <1>0, <1>1, <2>1
<1>10. SumFunctionOnSet(low, Voters) <= SumFunctionOnSet(both, Voters)
  BY <1>1, <1>9, VotersFinite, SumAtMost
<1>11. SumFunctionOnSet(both, Voters) <= SumFunctionOnSet(high, Voters)
  BY <1>1, <1>9, VotersFinite, SumAtMost
<1>12. \A v \in Voters : s[v] \in Int BY <1>1
<1>13. SumFunctionOnSet(low, Voters) = Factor[0] * SumFunctionOnSet(s, Voters)
  BY <1>0, <1>1, <1>12, VotersFinite, SumScaled
<1>14. SumFunctionOnSet(high, Voters) = Factor[now] * SumFunctionOnSet(s, Voters)
  BY <1>0, <1>1, <1>12, VotersFinite, SumScaled
<1>15. producers[p].total_votes = SumFunctionOnSet(both, Voters) BY <1>0, <1>5, <1>7, <1>8
<1>16. SumFunctionOnSet(both, Voters) \in Int BY <1>1, VotersFinite, SumInt
<1>17. /\ Factor[0] * StakeOf(S) <= producers[p].total_votes
       /\ producers[p].total_votes <= Factor[now] * StakeOf(S)
  BY <1>6, <1>10, <1>11, <1>13, <1>14, <1>15
<1>18. SumFunctionOnSet(low, Voters) \in Int BY <1>9, VotersFinite, SumInt
<1>19. Factor[0] * StakeOf(S) \in Int /\ producers[p].total_votes \in Int
  BY <1>6, <1>13, <1>15, <1>16, <1>18
<1>20. producers[p].total_votes >= Factor[0] * StakeOf(S) BY <1>17, <1>19
<1> QED BY <1>17, <1>20 DEF S

\* A producer has the votes of tokens that are staked now and speak for it, at a
\* weight of some day until now, whatever was unstaked, given to a proxy that
\* resigned, or voted anew: every propagation comes to the end of its chain of
\* proxies (update_votes, propagate_weight_change, regproxy, changebw).
THEOREM VotesStayBacked == Spec => []VotesAreBacked
<1>1. Spec => []FreshBut(voters, None)
  BY InitFresh, FreshStep, StakesAreNat, BalancedAlways, SystemAlways, PTL DEF Spec
<1> QED BY <1>1, FreshBacked, BalancedAlways, SystemAlways, PTL

LEMMA BalancedShares == SystemInv /\ Balanced(Tables) => SharesAgree
<1> SUFFICES ASSUME SystemInv, Balanced(Tables) PROVE SharesAgree
  OBVIOUS
<1>0. now \in 0 .. MaxDay BY DEF SystemInv, VotersOK
<1>1. /\ PaidRows(producers) /\ TotalShareNow(gstate) = SharesInAll(producers)
      /\ gstate.total_vpay_share_change_rate = RatesInAll(producers)
  BY BalancedIs, TablesAre DEF Tallied, Totals
<1> DEFINE fs == [p \in Registered |-> ShareNow(producers[p])]
           fr == [p \in Registered |->
                    IF Lapsed(producers[p]) THEN 0 ELSE producers[p].total_votes]
           gs == [p \in Candidates |-> ShareIn(producers[p])]
           gr == [p \in Candidates |-> RateIn(producers[p])]
<1>2. \A p \in Candidates : gs[p] = ShareIn(producers[p]) /\ gr[p] = RateIn(producers[p])
  OBVIOUS
<1>3. /\ \A p \in Registered : gs[p] = fs[p] /\ gr[p] = fr[p] /\ p \in Candidates
      /\ \A p \in Candidates \ Registered : gs[p] = 0 /\ gr[p] = 0
      /\ Registered \in SUBSET Candidates
  BY DEF Registered, ShareIn, RateIn
<1>4. /\ SumFunction(fs) = SumFunctionOnSet(fs, Registered)
      /\ SumFunction(fr) = SumFunctionOnSet(fr, Registered)
  BY DEF SumFunction
<1>5. \A p \in Candidates : gs[p] \in Int /\ gr[p] \in Int
  BY <1>0, <1>1, InRowNat DEF PaidRows
<1>6. \A p \in Registered : fs[p] \in Int /\ fr[p] \in Int BY <1>3, <1>5
<1>7. /\ SharesInAll(producers) = SumFunctionOnSet(gs, Candidates)
      /\ RatesInAll(producers) = SumFunctionOnSet(gr, Candidates)
  BY DEF SharesInAll, RatesInAll
<1> HIDE DEF fs, fr, gs, gr
<1>8. /\ SumFunctionOnSet(fs, Registered) = SumFunctionOnSet(gs, Candidates)
      /\ SumFunctionOnSet(fr, Registered) = SumFunctionOnSet(gr, Candidates)
  <2>1. /\ \A p \in Registered : fs[p] \in Int /\ gs[p] = fs[p]
        /\ \A p \in Candidates \ Registered : gs[p] = 0
    BY <1>3, <1>6
  <2>2. /\ \A p \in Registered : fr[p] \in Int /\ gr[p] = fr[p]
        /\ \A p \in Candidates \ Registered : gr[p] = 0
    BY <1>3, <1>6
  <2>3. Registered \in SUBSET Candidates BY <1>3
  <2> QED BY <2>1, <2>2, <2>3, VotersFinite, SumPart
<1> QED BY <1>1, <1>4, <1>7, <1>8 DEF SharesAgree, fs, fr

\* The total of the shares, kept by a rate, is that of the producers' rows, and the
\* rate is the votes of those whose shares grow, also when shares lapse and lapsed
\* producers claim (update_votes, propagate_weight_change, claimrewards).
THEOREM SharesAlwaysAgree == Spec => []SharesAgree
<1> QED BY BalancedAlways, SystemAlways, BalancedShares, PTL
-----------------------------------------------------------------------------
(***************************************************************************)
(* The balances, and the buckets from which producers are paid.            *)
(***************************************************************************)
UnpaidInAll(pt) == SumFunctionOnSet([p \in Candidates |-> UnpaidIn(pt[p])], Candidates)

CashOK ==
  /\ core \in [Accounts -> Nat] /\ supply \in Nat /\ pay \in PayState
  /\ core["eosio.bpay"] = pay.perblock_bucket /\ core["eosio.vpay"] = pay.pervote_bucket
  /\ pay.total_unpaid_blocks = UnpaidInAll(producers)
ChainOK ==
  /\ revision \in {0, 1} /\ schedule \subseteq Candidates /\ minute \in BOOLEAN
  /\ last_close \in (0 .. MaxDay) \cup {None}
  /\ created \subseteq NewNames
  /\ deferred \in [Voters -> Nat \cup {None}]

LEMMA PayersAre ==
  /\ Users \subseteq Accounts /\ SystemAccounts \subseteq Accounts
  /\ "eosio.stake" \in SystemAccounts /\ "eosio.ram" \in SystemAccounts
  /\ "eosio.ramfee" \in SystemAccounts /\ "eosio.names" \in SystemAccounts
  /\ "eosio.bpay" \in SystemAccounts /\ "eosio.vpay" \in SystemAccounts
  /\ "eosio.saving" \in SystemAccounts
  /\ \A a \in Users : a \notin SystemAccounts
  /\ Voters \subseteq Users /\ Candidates \subseteq Users /\ Bidders \subseteq Users
BY CoreAssumption, VotingAssumption, NameAssumption DEF Accounts, SystemAccounts

\* A payment that its payer can make leaves no balance negative.
LEMMA PaidNat ==
  ASSUME NEW m \in [Accounts -> Nat], NEW a \in Accounts, NEW b \in Accounts, a # b,
         NEW n \in Nat, n <= m[a]
  PROVE  /\ Paid(m, a, b, n) \in [Accounts -> Nat]
         /\ Paid(m, a, b, n)[a] = m[a] - n /\ Paid(m, a, b, n)[b] = m[b] + n
         /\ \A x \in Accounts : (x # a /\ x # b) => Paid(m, a, b, n)[x] = m[x]
<1> DEFINE mm == Paid(m, a, b, n)
<1>1. /\ mm = [x \in Accounts |-> mm[x]] /\ mm[a] = m[a] - n /\ mm[b] = m[b] + n
      /\ \A x \in Accounts : (x # a /\ x # b) => mm[x] = m[x]
  BY PaidIs
<1> HIDE DEF mm
<1>2. \A x \in Accounts : mm[x] \in Nat BY <1>1
<1>3. mm \in [Accounts -> Nat] BY <1>1, <1>2
<1> QED BY <1>1, <1>3 DEF mm

LEMMA CashFrame ==
  ASSUME CashOK, core' \in [Accounts -> Nat], UNCHANGED <<supply, pay>>,
         core'["eosio.bpay"] = core["eosio.bpay"], core'["eosio.vpay"] = core["eosio.vpay"],
         \A p \in Candidates : UnpaidIn(producers'[p]) = UnpaidIn(producers[p])
  PROVE  CashOK'
<1>1. UnpaidInAll(producers') = UnpaidInAll(producers) BY DEF UnpaidInAll
<1>2. pay'.total_unpaid_blocks = UnpaidInAll(producers') BY <1>1 DEF CashOK
<1>3. UnpaidInAll(producers)' = UnpaidInAll(producers') BY DEF UnpaidInAll, UnpaidIn
<1> QED BY <1>2, <1>3 DEF CashOK

\* A payment by a user to the accounts that do not pay producers, or back.
LEMMA CashPaid ==
  ASSUME CashOK, NEW a \in Accounts, NEW b \in Accounts, a # b, NEW n \in Nat, n <= core[a],
         core' = Paid(core, a, b, n),
         {a, b} \cap {"eosio.bpay", "eosio.vpay"} = {}, UNCHANGED <<supply, pay, producers>>
  PROVE  CashOK'
<1>1. core \in [Accounts -> Nat] BY DEF CashOK
<1>2. /\ core' \in [Accounts -> Nat]
      /\ \A x \in Accounts : (x # a /\ x # b) => core'[x] = core[x]
  BY <1>1, PaidNat
<1>3. core'["eosio.bpay"] = core["eosio.bpay"] /\ core'["eosio.vpay"] = core["eosio.vpay"]
  BY <1>2, PayersAre
<1> QED BY <1>2, <1>3, CashFrame

LEMMA InitCash == Init => CashOK /\ ChainOK
<1> SUFFICES ASSUME Init PROVE CashOK /\ ChainOK
  OBVIOUS
<1>0. /\ CoreInit /\ VotingInit /\ StakingInit /\ NameInit /\ PayInit
  BY DEF Init
<1>1. core \in [Accounts -> Nat] /\ core["eosio.bpay"] = 0 /\ core["eosio.vpay"] = 0
  BY <1>0, PayersAre, CoreAssumption DEF CoreInit
<1>2. supply \in Nat
  <2>1. DOMAIN Genesis = Users /\ \A a \in Users : Genesis[a] \in Nat /\ IsFiniteSet(Users)
    BY CoreAssumption
  <2>2. SumFunctionOnSet(Genesis, Users) \in Nat BY <2>1, CoreAssumption, SumNat
  <2> QED BY <1>0, <2>1, <2>2 DEF PayInit, SumFunction
<1>3. UnpaidInAll(producers) = 0
  <2> DEFINE f == [p \in Candidates |-> UnpaidIn(producers[p])]
  <2>1. \A p \in Candidates : f[p] = 0 BY <1>0 DEF VotingInit, UnpaidIn
  <2> HIDE DEF f
  <2>2. SumFunctionOnSet(f, Candidates) = 0 BY <2>1, VotersFinite, SumZero
  <2> QED BY <2>2 DEF UnpaidInAll, f
<1>4. CashOK BY <1>0, <1>1, <1>2, <1>3 DEF CashOK, PayInit, PayState
<1>5. ChainOK BY <1>0 DEF ChainOK, PayInit, NameInit, StakingInit
<1> QED BY <1>4, <1>5

LEMMA ChangebwCash ==
  ASSUME SystemInv, CashOK, ChainOK, NEW source \in Voters, NEW v \in Voters,
         NEW r \in Receivers, NEW delta \in AnyAmounts, Changebw(source, v, r, delta),
         UNCHANGED <<now, ram, nameVars, payVars>>
  PROVE  CashOK' /\ ChainOK'
<1> DEFINE touched == TotalOf(delta) < 0 \/ (source = v /\ v = r)
           row == Settled(v, delta, touched)
           owed == TotalOf(Owed(v, delta, touched))
           due == Rescheduled(v, delta, touched)
<1>1. /\ deferred' = [deferred EXCEPT ![v] = due]
      /\ owed > 0 => CanPay(core, source, owed)
      /\ core' = IF owed > 0 THEN Paid(core, source, "eosio.stake", owed) ELSE core
      /\ Become(Restaked(v, TotalOf(delta)))
  BY DEF Changebw
<1>2. \A p \in Candidates : UnpaidIn(producers'[p]) = UnpaidIn(producers[p])
  <2>1. TotalOf(delta) \in Int /\ VotersOK BY AmountsAre DEF SystemInv
  <2> QED BY <1>1, <2>1, RestakedKeeps
<1>3. owed \in Nat
  <2>1. Pending(v) \in AnyAmounts BY PendingIs, AmountsAre DEF SystemInv, StakesOK
  <2>2. Owed(v, delta, touched) \in Amounts BY <2>1, AmountOps DEF Owed
  <2> QED BY <2>2, AmountsAre
<1>4. due \in Nat \cup {None}
  BY StakingAssumption DEF Rescheduled, SystemInv, VotersOK
<1> HIDE DEF touched, row, owed, due
<1>5. /\ core' \in [Accounts -> Nat] /\ core'["eosio.bpay"] = core["eosio.bpay"]
      /\ core'["eosio.vpay"] = core["eosio.vpay"]
  <2>1. core \in [Accounts -> Nat] BY DEF CashOK
  <2>2. CASE owed > 0
    <3>1. /\ source \in Accounts /\ "eosio.stake" \in Accounts /\ source # "eosio.stake"
          /\ source # "eosio.bpay" /\ source # "eosio.vpay"
          /\ "eosio.bpay" \in Accounts /\ "eosio.vpay" \in Accounts
      BY PayersAre
    <3>2. owed <= core[source] /\ core' = Paid(core, source, "eosio.stake", owed)
      BY <1>1, <2>2 DEF CanPay
    <3>3. /\ core' \in [Accounts -> Nat]
          /\ \A x \in Accounts : (x # source /\ x # "eosio.stake") => core'[x] = core[x]
      BY ONLY <1>3, <2>1, <3>1, <3>2, PaidNat
    <3> QED BY <3>1, <3>3
  <2>3. CASE ~ (owed > 0) BY <1>1, <2>1, <2>3
  <2> QED BY <2>2, <2>3
<1>6. CashOK' BY <1>2, <1>5, CashFrame DEF payVars
<1>7. ChainOK' BY <1>1, <1>4 DEF ChainOK, payVars, nameVars
<1> QED BY <1>6, <1>7

LEMMA StakingCash ==
  ASSUME SystemInv, CashOK, ChainOK, StakingStep
  PROVE  CashOK' /\ ChainOK'
<1>0. UNCHANGED <<now, ram, nameVars, payVars>> BY DEF StakingStep
<1>1. ASSUME NEW source \in Voters, NEW r \in Receivers, NEW q \in StakeQty,
             NEW transfer \in BOOLEAN, Delegatebw(source, r, q, transfer)
      PROVE  CashOK' /\ ChainOK'
  <2>1. q \in AnyAmounts BY StakingAssumption, AmountsAre
  <2>2. \E v \in Voters : Changebw(source, v, r, q) BY <1>1 DEF Delegatebw
  <2> QED BY <1>0, <2>1, <2>2, ChangebwCash
<1>2. ASSUME NEW v \in Voters, NEW r \in Receivers, NEW q \in UnstakeQty, Undelegatebw(v, r, q)
      PROVE  CashOK' /\ ChainOK'
  <2> DEFINE delta == Minus(Nothing, q)
  <2>1. q \in AnyAmounts /\ Nothing \in AnyAmounts BY StakingAssumption, AmountsAre
  <2>2. delta \in AnyAmounts BY <2>1, AmountOps
  <2>3. Changebw(v, v, r, delta) BY <1>2 DEF Undelegatebw
  <2> HIDE DEF delta
  <2> QED BY <1>0, <2>2, <2>3, ChangebwCash
<1> QED BY <1>1, <1>2 DEF StakingStep

LEMMA RefundCash ==
  ASSUME SystemInv, CashOK, ChainOK, RefundStep
  PROVE  CashOK' /\ ChainOK'
<1>1. UNCHANGED <<now, votingVars, delband, userres, limits, ram, nameVars, payVars>>
  BY DEF RefundStep
<1>2. PICK v \in Voters : /\ \/ CanRefund(v) /\ Refunded(v)
                             \/ UNCHANGED <<core, refunds>>
                          /\ deferred' = deferred \/ deferred' = [deferred EXCEPT ![v] = None]
  BY DEF RefundStep, Refund, RunRefund
<1>3. CASE CanRefund(v) /\ Refunded(v)
  <2> DEFINE n == TotalOf(refunds[v].amount)
  <2>1. refunds[v] # None /\ refunds[v] \in RefundRow BY <1>3 DEF CanRefund, SystemInv, StakesOK
  <2>2. n \in Nat BY <2>1, AmountsAre DEF RefundRow
  <2>3. core' = Paid(core, "eosio.stake", v, n) /\ n <= core["eosio.stake"]
    BY <1>3 DEF CanRefund, Refunded, CanPay
  <2> HIDE DEF n
  <2>4. /\ v \in Accounts /\ "eosio.stake" \in Accounts /\ v # "eosio.stake"
        /\ {"eosio.stake", v} \cap {"eosio.bpay", "eosio.vpay"} = {}
    BY PayersAre
  <2>5. UNCHANGED <<supply, pay, producers>> BY <1>1 DEF payVars, votingVars
  <2>6. CashOK' BY ONLY CashOK, <2>2, <2>3, <2>4, <2>5, CashPaid
  <2> QED BY <1>1, <1>2, <2>6 DEF ChainOK, payVars, nameVars
<1>4. CASE UNCHANGED <<core, refunds>>
  <2>1. CashOK' BY <1>1, <1>4, CashFrame DEF payVars, votingVars, CashOK
  <2> QED BY <1>1, <1>2, <2>1 DEF ChainOK, payVars, nameVars
<1> QED BY <1>2, <1>3, <1>4


LEMMA FeePart == \A n \in Nat : n > 0 => FeeOf(n) \in Nat /\ FeeOf(n) <= n
BY DEF FeeOf

LEMMA BuyramCash ==
  ASSUME SystemInv, CashOK, NEW payer \in Users, NEW r \in Receivers, NEW quant \in Nat,
         Buyram(payer, r, quant), UNCHANGED <<now, votingVars, payVars>>
  PROVE  CashOK'
<1> DEFINE fee == FeeOf(quant)   n == quant - fee
           mid == Paid(core, payer, "eosio.ram", n)
<1>1. /\ n > 0 /\ quant <= core[payer]
      /\ core' = Paid(mid, payer, "eosio.ramfee", fee)
  BY DEF Buyram
<1>2. fee \in Nat BY FeeIs
<1>3. n \in Nat /\ n + fee = quant BY <1>1, <1>2
<1> HIDE DEF fee, n
<1>4. core \in [Accounts -> Nat] BY DEF CashOK
<1>5. /\ payer \in Accounts /\ "eosio.ram" \in Accounts /\ "eosio.ramfee" \in Accounts
      /\ payer # "eosio.ram" /\ payer # "eosio.ramfee"
      /\ payer # "eosio.bpay" /\ payer # "eosio.vpay"
      /\ "eosio.bpay" \in Accounts /\ "eosio.vpay" \in Accounts
  BY PayersAre
<1>6. n <= core[payer] /\ core[payer] \in Nat BY <1>1, <1>2, <1>3, <1>4, <1>5
<1>7. /\ mid \in [Accounts -> Nat] /\ mid[payer] = core[payer] - n
      /\ \A x \in Accounts : (x # payer /\ x # "eosio.ram") => mid[x] = core[x]
  BY ONLY <1>3, <1>4, <1>5, <1>6, PaidNat
<1> HIDE DEF mid
<1>8. fee <= mid[payer] BY <1>1, <1>2, <1>3, <1>6, <1>7
<1>9. /\ core' \in [Accounts -> Nat]
      /\ \A x \in Accounts : (x # payer /\ x # "eosio.ramfee") => core'[x] = mid[x]
  BY ONLY <1>1, <1>2, <1>5, <1>7, <1>8, PaidNat
<1>10. core'["eosio.bpay"] = core["eosio.bpay"] /\ core'["eosio.vpay"] = core["eosio.vpay"]
  BY <1>5, <1>7, <1>9
<1> QED BY <1>9, <1>10, CashFrame DEF payVars, votingVars

LEMMA SellramCash ==
  ASSUME SystemInv, CashOK, NEW r \in Receivers \cap Users, NEW bytes \in RamBytes,
         Sellram(r, bytes), UNCHANGED <<now, votingVars, payVars>>
  PROVE  CashOK'
<1> DEFINE m == Grown(ram)   n == Convert(bytes, m.base, m.quote)   fee == FeeOf(n)
           mid == Paid(core, "eosio.ram", r, n)
<1>1. /\ n > 1 /\ n <= core["eosio.ram"] /\ core' = Paid(mid, r, "eosio.ramfee", fee)
  BY DEF Sellram
<1>2. n \in Nat
  <2>1. m \in RamMarketState BY MarketIs, GrownIs
  <2> HIDE DEF m
  <2>2. m.base \in Nat /\ m.quote \in Nat /\ bytes \in Nat /\ bytes > 0
    BY <2>1, RamAssumption DEF RamMarketState
  <2>3. m.base + bytes > 0 BY <2>2
  <2> QED BY <2>2, <2>3, ConvertIs
<1> HIDE DEF m, n
<1>3. fee \in Nat /\ fee <= n BY <1>1, <1>2, FeePart
<1> HIDE DEF fee
<1>4. core \in [Accounts -> Nat] BY DEF CashOK
<1>5. /\ r \in Accounts /\ "eosio.ram" \in Accounts /\ "eosio.ramfee" \in Accounts
      /\ r # "eosio.ram" /\ r # "eosio.ramfee" /\ r # "eosio.bpay" /\ r # "eosio.vpay"
      /\ "eosio.bpay" \in Accounts /\ "eosio.vpay" \in Accounts
  BY PayersAre
<1>6. /\ mid \in [Accounts -> Nat] /\ mid[r] = core[r] + n
      /\ \A x \in Accounts : (x # "eosio.ram" /\ x # r) => mid[x] = core[x]
  BY ONLY <1>1, <1>2, <1>4, <1>5, PaidNat
<1>7. core' = Paid(mid, r, "eosio.ramfee", fee) BY <1>1
<1> HIDE DEF mid
<1>8. fee <= mid[r] BY <1>2, <1>3, <1>4, <1>5, <1>6
<1>9. /\ core' \in [Accounts -> Nat]
      /\ \A x \in Accounts : (x # r /\ x # "eosio.ramfee") => core'[x] = mid[x]
  BY ONLY <1>3, <1>5, <1>6, <1>7, <1>8, PaidNat
<1>10. core'["eosio.bpay"] = core["eosio.bpay"] /\ core'["eosio.vpay"] = core["eosio.vpay"]
  BY <1>5, <1>6, <1>9
<1> QED BY <1>9, <1>10, CashFrame DEF payVars, votingVars

LEMMA RamCash ==
  ASSUME SystemInv, CashOK, RamStep
  PROVE  CashOK'
<1>0. UNCHANGED <<now, votingVars, payVars>> BY DEF RamStep
<1>1. ASSUME NEW payer \in Users, NEW r \in Receivers, NEW bytes \in RamBytes,
             Buyrambytes(payer, r, bytes)
      PROVE  CashOK'
  <2>1. bytes \in Nat /\ ram.base \in Nat /\ ram.quote \in Nat /\ ram.base + bytes > 0
    BY MarketIs, RamAssumption
  <2>2. Convert(bytes, ram.base, ram.quote) \in Nat BY <2>1, ConvertIs
  <2>3. Buyram(payer, r, Convert(bytes, ram.base, ram.quote)) BY <1>1 DEF Buyrambytes
  <2> QED BY <1>0, <2>2, <2>3, BuyramCash
<1> QED BY <1>0, <1>1, BuyramCash, SellramCash, RamAssumption DEF RamStep

LEMMA BidnameCash ==
  ASSUME CashOK, NEW n \in Names, NEW b \in Bidders, NEW amount \in BidQty,
         Bidname(b, n, amount), UNCHANGED <<votingVars, payVars>>
  PROVE  CashOK'
<1>1. amount \in Nat /\ amount <= core[b] /\ core' = Paid(core, b, "eosio.names", amount)
  BY NameAssumption DEF Bidname, CanPay
<1>2. /\ b \in Accounts /\ "eosio.names" \in Accounts /\ b # "eosio.names"
      /\ {b, "eosio.names"} \cap {"eosio.bpay", "eosio.vpay"} = {}
  BY PayersAre
<1>3. UNCHANGED <<supply, pay, producers>> BY DEF payVars, votingVars
<1> QED BY ONLY CashOK, <1>1, <1>2, <1>3, CashPaid

LEMMA BidRefundedCash ==
  ASSUME SystemInv, CashOK, NEW n \in Names, NEW b \in Bidders,
         \/ CanPay(core, "eosio.names", bidrefunds[n][b]) /\ BidRefunded(n, b)
         \/ UNCHANGED <<core, bidrefunds>>,
         UNCHANGED <<votingVars, payVars>>
  PROVE  CashOK'
<1>1. CASE CanPay(core, "eosio.names", bidrefunds[n][b]) /\ BidRefunded(n, b)
  <2>1. /\ bidrefunds[n][b] \in Nat /\ bidrefunds[n][b] <= core["eosio.names"]
        /\ core' = Paid(core, "eosio.names", b, bidrefunds[n][b])
    BY <1>1 DEF BidRefunded, CanPay, SystemInv, NamesOK
  <2>2. /\ b \in Accounts /\ "eosio.names" \in Accounts /\ b # "eosio.names"
        /\ {"eosio.names", b} \cap {"eosio.bpay", "eosio.vpay"} = {}
    BY PayersAre
  <2>3. UNCHANGED <<supply, pay, producers>> BY DEF payVars, votingVars
  <2> QED BY ONLY CashOK, <2>1, <2>2, <2>3, CashPaid
<1>2. CASE UNCHANGED <<core, bidrefunds>>
  BY <1>2, CashFrame DEF payVars, votingVars, CashOK
<1> QED BY <1>1, <1>2

LEMMA NamesCash ==
  ASSUME SystemInv, CashOK, ChainOK,
         NameStep \/ \E n \in Names, b \in Bidders : BidrefundCall(n, b)
  PROVE  CashOK' /\ ChainOK'
<1>1. UNCHANGED <<votingVars, stakingVars, payVars>> BY DEF NameStep, BidrefundCall
<1>2. created' = created
  BY DEF NameStep, Bidname, Bidrefund, BidrefundCall, RunBidrefund
<1>3. ChainOK' BY <1>1, <1>2 DEF ChainOK, stakingVars, payVars
<1>4. CashOK'
  BY <1>1, BidnameCash, BidRefundedCash
     DEF NameStep, Bidrefund, BidrefundCall, RunBidrefund
<1> QED BY <1>3, <1>4

\* Nothing is paid, and no blocks are counted.
LEMMA UnpaidFrame ==
  ASSUME CashOK, UNCHANGED <<core, supply, pay>>,
         \A p \in Candidates : UnpaidIn(producers'[p]) = UnpaidIn(producers[p])
  PROVE  CashOK'
BY CashFrame DEF CashOK

LEMMA VotingCash ==
  ASSUME SystemInv, CashOK, ChainOK, VotingOnly
  PROVE  CashOK' /\ ChainOK'
<1>1. VotingStep /\ UNCHANGED <<core, now, stakingVars, ram, nameVars, payVars>> BY DEF VotingOnly
<1>2. Voted BY <1>1, VotingKeeps DEF SystemInv
<1>3. CashOK' BY <1>1, <1>2, UnpaidFrame DEF Voted, payVars
<1> QED BY <1>1, <1>3 DEF ChainOK, stakingVars, nameVars, payVars

LEMMA AdminCash ==
  ASSUME CashOK, ChainOK, AdminStep
  PROVE  CashOK' /\ ChainOK'
<1>1. /\ UNCHANGED <<core, votingVars, nameVars, supply, pay, schedule, minute, last_close, deferred>>
      /\ revision' = revision \/ revision' = 1
  BY DEF AdminStep, stakingVars, payVars, Updtrevision
<1>2. CashOK' BY <1>1, UnpaidFrame DEF votingVars
<1> QED BY <1>1, <1>2 DEF ChainOK, nameVars

LEMMA NewaccountCash ==
  ASSUME CashOK, ChainOK, NEW creator, NEW n \in NewNames, Newaccount(creator, n)
  PROVE  CashOK' /\ ChainOK'
<1>1. UNCHANGED <<core, votingVars, deferred, payVars>> /\ created' = created \cup {n}
  BY DEF Newaccount, Created
<1>2. CashOK' BY <1>1, UnpaidFrame DEF votingVars, payVars
<1> QED BY <1>1, <1>2 DEF ChainOK, payVars

LEMMA TickCash ==
  ASSUME CashOK, ChainOK, Tick
  PROVE  CashOK' /\ ChainOK'
<1>1. /\ UNCHANGED <<core, votingVars, stakingVars, nameVars, supply, pay, revision, schedule, last_close>>
      /\ minute' = TRUE
  BY DEF Tick
<1>2. CashOK' BY <1>1, UnpaidFrame DEF votingVars
<1> QED BY <1>1, <1>2 DEF ChainOK, stakingVars, nameVars

\* The blocks of one producer change.
LEMMA UnpaidWritten ==
  ASSUME Balanced(Tables), NEW p \in Candidates, NEW n \in Nat, UnpaidIn(producers'[p]) = n,
         \A q \in Candidates : q # p => producers'[q] = producers[q]
  PROVE  /\ UnpaidInAll(producers)' = UnpaidInAll(producers) - UnpaidIn(producers[p]) + n
         /\ UnpaidIn(producers[p]) \in Nat /\ UnpaidInAll(producers) \in Nat
         /\ UnpaidIn(producers[p]) <= UnpaidInAll(producers)
<1> DEFINE f == [q \in Candidates |-> UnpaidIn(producers[q])]
           g == [q \in Candidates |-> UnpaidIn(producers'[q])]
<1>1. \A q \in Candidates : UnpaidIn(producers[q]) \in Nat
  <2>1. PaidRows(producers) BY BalancedIs, TablesAre DEF Tallied, Totals
  <2> QED BY <2>1 DEF PaidRows, PaidRow, ProducerRow, UnpaidIn
<1>2. /\ \A q \in Candidates : f[q] \in Nat /\ g[q] \in Int /\ f[q] \in Int
      /\ \A q \in Candidates \ {p} : g[q] = f[q]
      /\ f[p] = UnpaidIn(producers[p]) /\ g[p] = n
  BY <1>1
<1>3. UnpaidInAll(producers) = SumFunctionOnSet(f, Candidates) BY DEF UnpaidInAll
<1>4. UnpaidInAll(producers)' = SumFunctionOnSet(g, Candidates) BY DEF UnpaidInAll, UnpaidIn
<1> HIDE DEF f, g
<1>5. SumFunctionOnSet(g, Candidates) = SumFunctionOnSet(f, Candidates) - f[p] + g[p]
  BY <1>2, VotersFinite, SumUpdate
<1>6. SumFunctionOnSet(f, Candidates) \in Nat /\ f[p] <= SumFunctionOnSet(f, Candidates)
  BY <1>2, VotersFinite, SumNat
<1> QED BY <1>1, <1>2, <1>3, <1>4, <1>5, <1>6

LEMMA OnblockCash ==
  ASSUME SystemInv, Balanced(Tables), CashOK, ChainOK, NEW p, Onblock(p),
         UNCHANGED <<now, stakingVars, ram>>
  PROVE  CashOK' /\ ChainOK'
<1>1. /\ CountedBlock(p) /\ UNCHANGED <<supply, revision, created, core, deferred>>
      /\ schedule' = schedule \/ schedule' \subseteq Candidates
      /\ minute' = FALSE /\ (last_close' = last_close \/ last_close' = now)
  BY DEF Onblock, stakingVars, UpdateSchedule, CloseName
<1>2. now \in 0 .. MaxDay /\ producers \in ProducerTable
  BY VotersParts DEF SystemInv, VotersOK
<1>3. ChainOK' BY <1>1, <1>2 DEF ChainOK
<1> DEFINE time == IF pay.last_pervote_bucket_fill = None THEN now
                   ELSE pay.last_pervote_bucket_fill
<1>4. /\ pay \in PayState /\ time \in (0 .. MaxDay) \cup {None}
      /\ pay.total_unpaid_blocks = UnpaidInAll(producers)
      /\ pay.total_unpaid_blocks \in Nat
  BY <1>2 DEF CashOK, PayState
<1>5. [pay EXCEPT !.last_pervote_bucket_fill = IF @ = None THEN now ELSE @]
        = [pay EXCEPT !.last_pervote_bucket_fill = time]
  OBVIOUS
<1> HIDE DEF time
<1>6. CASE p \in Candidates /\ producers[p] # None
  <2>1. /\ pay' = [pay EXCEPT !.last_pervote_bucket_fill = time,
                              !.total_unpaid_blocks = pay.total_unpaid_blocks + 1]
        /\ producers' = [producers EXCEPT ![p] =
                           [producers[p] EXCEPT !.unpaid_blocks = @ + 1]]
    BY <1>1, <1>4, <1>5, <1>6 DEF CountedBlock, PayState
  <2>2. producers[p] \in AnyProducer BY <1>2, <1>6 DEF ProducerTable
  <2>3. /\ producers'[p] # None
        /\ producers'[p].unpaid_blocks = producers[p].unpaid_blocks + 1
        /\ \A q \in Candidates : q # p => producers'[q] = producers[q]
    <3> DEFINE row == [producers[p] EXCEPT !.unpaid_blocks = @ + 1]
    <3>1. row \in AnyProducer /\ row.unpaid_blocks = producers[p].unpaid_blocks + 1
      BY <2>2 DEF AnyProducer
    <3> HIDE DEF row
    <3>2. producers' = [producers EXCEPT ![p] = row] BY <2>1 DEF row
    <3> QED BY <1>2, <1>6, <3>1, <3>2, NoRow DEF ProducerTable
  <2>4. PaidRows(producers) BY BalancedIs, TablesAre DEF Tallied, Totals
  <2>5. UnpaidIn(producers[p]) \in Nat /\ UnpaidIn(producers'[p]) = UnpaidIn(producers[p]) + 1
    BY <1>6, <2>3, <2>4 DEF UnpaidIn, PaidRows, PaidRow, ProducerRow
  <2>6. UnpaidInAll(producers)' = UnpaidInAll(producers) + 1
    <3>1. UnpaidIn(producers'[p]) \in Nat BY <2>5
    <3>2. /\ UnpaidInAll(producers) \in Nat
          /\ UnpaidInAll(producers)' = UnpaidInAll(producers) - UnpaidIn(producers[p])
                                         + UnpaidIn(producers'[p])
      BY <1>6, <2>3, <3>1, UnpaidWritten
    <3> QED BY <2>5, <3>2
  <2>7. /\ pay' \in PayState /\ pay'.perblock_bucket = pay.perblock_bucket
        /\ pay'.pervote_bucket = pay.pervote_bucket
        /\ pay'.total_unpaid_blocks = pay.total_unpaid_blocks + 1
    <3> DEFINE n == pay.total_unpaid_blocks + 1
    <3>1. n \in Nat BY <1>4
    <3> HIDE DEF n
    <3>2. pay' = [pay EXCEPT !.last_pervote_bucket_fill = time, !.total_unpaid_blocks = n]
      BY <2>1 DEF n
    <3>3. /\ pay' \in PayState /\ pay'.perblock_bucket = pay.perblock_bucket
          /\ pay'.pervote_bucket = pay.pervote_bucket /\ pay'.total_unpaid_blocks = n
      BY <1>4, <3>1, <3>2 DEF PayState
    <3> QED BY <3>3 DEF n
  <2>8. CashOK' BY <1>1, <1>4, <2>6, <2>7 DEF CashOK
  <2> QED BY <1>3, <2>8
<1>7. CASE ~ (p \in Candidates /\ producers[p] # None)
  <2>1. pay' = [pay EXCEPT !.last_pervote_bucket_fill = time] /\ producers' = producers
    BY <1>1, <1>5, <1>7 DEF CountedBlock
  <2>2. /\ pay' \in PayState /\ pay'.perblock_bucket = pay.perblock_bucket
        /\ pay'.pervote_bucket = pay.pervote_bucket
        /\ pay'.total_unpaid_blocks = pay.total_unpaid_blocks
    BY <1>4, <2>1 DEF PayState
  <2>3. UnpaidInAll(producers)' = UnpaidInAll(producers) BY <2>1 DEF UnpaidInAll
  <2>4. CashOK' BY <1>1, <1>4, <2>2, <2>3 DEF CashOK
  <2> QED BY <1>3, <2>4
<1> QED BY <1>6, <1>7

\* What is issued, and how it is divided.
LEMMA InflationIs ==
  ASSUME CashOK, Filling, now \in 0 .. MaxDay
  PROVE  /\ Inflation \in Nat /\ ToProducers \in Nat /\ ToProducers <= Inflation
         /\ ToBlocks \in Nat /\ ToVotes \in Nat
<1>1. /\ supply \in Nat /\ DailyRate \in Nat /\ pay.last_pervote_bucket_fill # None
      /\ pay.last_pervote_bucket_fill < now
      /\ pay.last_pervote_bucket_fill \in Int
  BY PayAssumption DEF CashOK, PayState, Filling
<1>2. now - pay.last_pervote_bucket_fill \in Nat BY <1>1
<1>3. DailyRate * supply \in Nat BY <1>1, MulNat
<1>4. DailyRate * supply * (now - pay.last_pervote_bucket_fill) \in Nat
  BY <1>2, <1>3, MulNat
<1>5. Inflation \in Nat BY <1>1, <1>4, DivIs DEF Inflation
<1> HIDE DEF Inflation
<1>6. \A n \in Nat : n \div 5 \in Nat /\ n \div 5 <= n /\ n \div 4 \in Nat /\ n \div 4 <= n
  OBVIOUS
<1>7. ToProducers \in Nat /\ ToProducers <= Inflation BY <1>5, <1>6 DEF ToProducers
<1>8. ToBlocks \in Nat /\ ToBlocks <= ToProducers BY <1>6, <1>7 DEF ToBlocks
<1> HIDE DEF ToBlocks, ToProducers
<1> QED BY <1>5, <1>7, <1>8 DEF ToVotes

\* Inflation goes to the accounts that pay as it goes to the buckets.
LEMMA FilledIs ==
  ASSUME CashOK, now \in 0 .. MaxDay
  PROVE  /\ Issued \in [Accounts -> Nat] /\ Fill \in PayState
         /\ Issued["eosio.bpay"] = Fill.perblock_bucket
         /\ Issued["eosio.vpay"] = Fill.pervote_bucket
         /\ Fill.total_unpaid_blocks = pay.total_unpaid_blocks
<1>1. /\ core \in [Accounts -> Nat] /\ pay \in PayState
      /\ core["eosio.bpay"] = pay.perblock_bucket /\ core["eosio.vpay"] = pay.pervote_bucket
  BY DEF CashOK
<1>2. CASE ~ Filling BY <1>1, <1>2 DEF Issued, Fill
<1>3. CASE Filling
  <2> DEFINE s == Inflation - ToProducers
  <2>1. s \in Nat /\ ToBlocks \in Nat /\ ToVotes \in Nat
    BY <1>3, InflationIs
  <2>2. /\ Issued = [core EXCEPT !["eosio.saving"] = @ + s,
                       !["eosio.bpay"] = @ + ToBlocks, !["eosio.vpay"] = @ + ToVotes]
        /\ Fill = [pay EXCEPT !.pervote_bucket = @ + ToVotes,
                              !.perblock_bucket = @ + ToBlocks, !.last_pervote_bucket_fill = now]
    BY <1>3 DEF Issued, Fill
  <2> HIDE DEF s, ToBlocks, ToVotes, Issued, Fill
  <2>3. /\ Issued \in [Accounts -> Nat]
        /\ Issued["eosio.bpay"] = core["eosio.bpay"] + ToBlocks
        /\ Issued["eosio.vpay"] = core["eosio.vpay"] + ToVotes
    BY <1>1, <2>1, <2>2, PayersAre
  <2>4. /\ Fill \in PayState /\ Fill.perblock_bucket = pay.perblock_bucket + ToBlocks
        /\ Fill.pervote_bucket = pay.pervote_bucket + ToVotes
        /\ Fill.total_unpaid_blocks = pay.total_unpaid_blocks
    <3> DEFINE q == pay.pervote_bucket + ToVotes   b == pay.perblock_bucket + ToBlocks
    <3>1. q \in Nat /\ b \in Nat BY <1>1, <2>1 DEF PayState
    <3>2. Fill = [pay EXCEPT !.pervote_bucket = q, !.perblock_bucket = b,
                             !.last_pervote_bucket_fill = now]
      BY <2>2
    <3> HIDE DEF q, b
    <3>3. /\ Fill \in PayState /\ Fill.perblock_bucket = b /\ Fill.pervote_bucket = q
          /\ Fill.total_unpaid_blocks = pay.total_unpaid_blocks
      BY <1>1, <3>1, <3>2 DEF PayState
    <3> QED BY <3>3 DEF q, b
  <2> QED BY <1>1, <2>3, <2>4
<1> QED BY <1>2, <1>3

\* What a producer is paid is a part of the buckets.
LEMMA PartsAre ==
  ASSUME SystemInv, Balanced(Tables), CashOK, NEW filled \in PayState,
         NEW p \in Candidates, producers[p] # None
  PROVE  /\ BlockPay(filled, producers[p]) \in Nat /\ VotePay(filled, producers[p]) \in Nat
         /\ producers[p].unpaid_blocks \in Nat
<1> DEFINE row == producers[p]
<1>1. /\ PaidRow(row) /\ PaidRows(producers) /\ gstate.total_producer_vote_weight \in Nat
      /\ now \in 0 .. MaxDay
  <2>1. Totals(gstate, producers) /\ now \in 0 .. MaxDay
    BY BalancedIs, TablesAre DEF Tallied, SystemInv, VotersOK
  <2> QED BY <2>1 DEF Totals, PaidRows, GlobalState
<1>2. /\ row.unpaid_blocks \in Nat /\ row.total_votes \in Nat /\ ShareNow(row) \in Nat
  BY <1>1, InRowNat DEF PaidRow, ProducerRow, ShareIn
<1>3. /\ filled.pervote_bucket \in Nat /\ filled.perblock_bucket \in Nat
      /\ filled.total_unpaid_blocks \in Nat
  BY DEF PayState
<1>4. AtLeast0(TotalShareNow(gstate)) \in Nat
  <2>1. TotalShareNow(gstate) = SharesInAll(producers)
    BY BalancedIs, TablesAre DEF Tallied, Totals
  <2>2. SharesInAll(producers) \in Nat BY <1>1, InAllNat
  <2> QED BY <2>1, <2>2, AtLeast0Nat
<1> HIDE DEF row
<1>5. BlockPay(filled, row) \in Nat
  <2>1. filled.perblock_bucket * row.unpaid_blocks \in Nat BY <1>2, <1>3, MulNat
  <2>2. \A n \in Nat : filled.total_unpaid_blocks # 0 => n \div filled.total_unpaid_blocks \in Nat
    BY <1>3, DivIs
  <2> QED BY <2>1, <2>2 DEF BlockPay
<1>6. ASSUME NEW shares \in Nat PROVE VotePayOf(filled, row, shares) \in Nat
  <2>1. filled.pervote_bucket * row.total_votes \in Nat /\ ShareNow(row) * filled.pervote_bucket \in Nat
    BY <1>2, <1>3, MulNat
  <2>2. \A n, d \in Nat : d # 0 => n \div d \in Nat BY DivIs
  <2>3. ASSUME gstate.total_producer_vote_weight # 0
        PROVE  (filled.pervote_bucket * row.total_votes) \div gstate.total_producer_vote_weight \in Nat
    BY <1>1, <2>1, <2>2, <2>3
  <2>4. ASSUME shares # 0 PROVE (ShareNow(row) * filled.pervote_bucket) \div shares \in Nat
    BY <1>6, <2>1, <2>2, <2>4
  <2> QED BY <1>3, <2>3, <2>4 DEF VotePayOf
<1>7. VotePay(filled, row) \in Nat
  <2>1. VotePayOf(filled, row, AtLeast0(TotalShareNow(gstate))) \in Nat BY <1>4, <1>6
  <2> QED BY <2>1 DEF VotePay
<1> QED BY <1>2, <1>5, <1>7 DEF row

\* A payment out of a bucket that its account can make.
LEMMA PaidOutNat ==
  ASSUME NEW m \in [Accounts -> Nat], NEW a \in Accounts, NEW b \in Accounts, a # b,
         NEW n \in Nat, n <= m[a]
  PROVE  /\ PaidOut(m, a, b, n) \in [Accounts -> Nat] /\ PaidOut(m, a, b, n)[a] = m[a] - n
         /\ \A x \in Accounts : (x # a /\ x # b) => PaidOut(m, a, b, n)[x] = m[x]
<1>1. CASE n = 0
  <2>1. m[a] \in Nat OBVIOUS
  <2> QED BY <1>1, <2>1 DEF PaidOut
<1>2. CASE n # 0
  <2>1. PaidOut(m, a, b, n) = Paid(m, a, b, n) BY <1>2 DEF PaidOut
  <2> QED BY <2>1, PaidNat
<1> QED BY <1>1, <1>2

LEMMA ClaimCash ==
  ASSUME SystemInv, Balanced(Tables), CashOK, ChainOK, NEW p \in Candidates, Claimrewards(p),
         UNCHANGED <<now, stakingVars, ram>>
  PROVE  CashOK' /\ ChainOK'
<1> DEFINE row == producers[p]   filled == Fill   out == Issued
           forBlocks == BlockPay(filled, row)   forVotes == VotePay(filled, row)
           mid == PaidOut(out, "eosio.bpay", p, forBlocks)
<1>1. /\ row # None
      /\ supply' = IF Filling THEN supply + Inflation ELSE supply
      /\ pay' = [filled EXCEPT !.pervote_bucket = @ - forVotes,
                               !.perblock_bucket = @ - forBlocks,
                               !.total_unpaid_blocks = @ - row.unpaid_blocks]
      /\ forBlocks <= out["eosio.bpay"] /\ forVotes <= out["eosio.vpay"]
      /\ core' = PaidOut(mid, "eosio.vpay", p, forVotes)
      /\ producers' = [producers EXCEPT ![p] = Claimed(row)]
      /\ UNCHANGED <<revision, schedule, minute, last_close, created, deferred>>
  BY DEF Claimrewards, stakingVars
<1>2. now \in 0 .. MaxDay /\ producers \in ProducerTable
  BY VotersParts DEF SystemInv, VotersOK
<1>3. ChainOK' BY <1>1 DEF ChainOK
<1>4. /\ out \in [Accounts -> Nat] /\ filled \in PayState
      /\ out["eosio.bpay"] = filled.perblock_bucket /\ out["eosio.vpay"] = filled.pervote_bucket
      /\ filled.total_unpaid_blocks = pay.total_unpaid_blocks
  BY <1>2, FilledIs
<1>5. supply' \in Nat
  <2>1. supply \in Nat BY DEF CashOK
  <2>2. Filling => Inflation \in Nat BY <1>2, InflationIs
  <2> HIDE DEF Filling, Inflation
  <2> QED BY <1>1, <2>1, <2>2
<1>6. forBlocks \in Nat /\ forVotes \in Nat /\ row.unpaid_blocks \in Nat
  BY <1>1, <1>4, PartsAre
<1>7. Claimed(row) # None /\ Claimed(row).unpaid_blocks = 0
  BY <1>1, <1>2, ClaimedIs, NoRow DEF ProducerTable
<1>8. /\ producers'[p] = Claimed(row)
      /\ \A q \in Candidates : q # p => producers'[q] = producers[q]
  BY <1>1, <1>2 DEF ProducerTable
<1>9. /\ UnpaidInAll(producers)' = pay.total_unpaid_blocks - row.unpaid_blocks
      /\ row.unpaid_blocks <= pay.total_unpaid_blocks /\ pay.total_unpaid_blocks \in Nat
  <2>1. UnpaidIn(producers'[p]) = 0 /\ UnpaidIn(producers[p]) = row.unpaid_blocks
    BY <1>1, <1>7, <1>8 DEF UnpaidIn
  <2>2. pay.total_unpaid_blocks = UnpaidInAll(producers) BY DEF CashOK
  <2>3. /\ UnpaidInAll(producers)' = UnpaidInAll(producers) - UnpaidIn(producers[p]) + 0
        /\ UnpaidIn(producers[p]) <= UnpaidInAll(producers) /\ UnpaidInAll(producers) \in Nat
    BY <1>8, <2>1, UnpaidWritten
  <2> QED BY <1>6, <2>1, <2>2, <2>3
<1> HIDE DEF row, filled, out, forBlocks, forVotes
<1>10. /\ pay' \in PayState /\ pay'.pervote_bucket = filled.pervote_bucket - forVotes
       /\ pay'.perblock_bucket = filled.perblock_bucket - forBlocks
       /\ pay'.total_unpaid_blocks = pay.total_unpaid_blocks - row.unpaid_blocks
  <2> DEFINE a == filled.pervote_bucket - forVotes
             b == filled.perblock_bucket - forBlocks
             c == filled.total_unpaid_blocks - row.unpaid_blocks
  <2>1. a \in Nat /\ b \in Nat /\ c \in Nat
    BY <1>1, <1>4, <1>6, <1>9 DEF PayState
  <2>2. pay' = [filled EXCEPT !.pervote_bucket = a, !.perblock_bucket = b,
                              !.total_unpaid_blocks = c]
    BY <1>1
  <2>3. c = pay.total_unpaid_blocks - row.unpaid_blocks BY <1>4
  <2> HIDE DEF a, b, c
  <2>4. /\ pay' \in PayState /\ pay'.pervote_bucket = a /\ pay'.perblock_bucket = b
        /\ pay'.total_unpaid_blocks = c
    BY <1>4, <2>1, <2>2 DEF PayState
  <2> QED BY <2>3, <2>4 DEF a, b
<1>11. /\ p \in Accounts /\ "eosio.bpay" \in Accounts /\ "eosio.vpay" \in Accounts
       /\ p # "eosio.bpay" /\ p # "eosio.vpay"
  BY PayersAre
<1>12. /\ mid \in [Accounts -> Nat] /\ mid["eosio.bpay"] = out["eosio.bpay"] - forBlocks
       /\ mid["eosio.vpay"] = out["eosio.vpay"]
  BY <1>1, <1>4, <1>6, <1>11, PaidOutNat
<1> HIDE DEF mid
<1>13. /\ core' \in [Accounts -> Nat] /\ core'["eosio.vpay"] = mid["eosio.vpay"] - forVotes
       /\ core'["eosio.bpay"] = mid["eosio.bpay"]
  <2>1. forVotes <= mid["eosio.vpay"] BY <1>1, <1>12
  <2>2. "eosio.bpay" # "eosio.vpay" OBVIOUS
  <2> QED BY <1>1, <1>6, <1>11, <1>12, <2>1, <2>2, PaidOutNat
<1>14. CashOK' BY <1>4, <1>5, <1>9, <1>10, <1>12, <1>13 DEF CashOK
<1> QED BY <1>3, <1>14

LEMMA CashStep ==
  SystemInv /\ Balanced(Tables) /\ CashOK /\ ChainOK /\ [Next]_vars => CashOK' /\ ChainOK'
<1> SUFFICES ASSUME SystemInv, Balanced(Tables), CashOK, ChainOK, [Next]_vars
             PROVE  CashOK' /\ ChainOK'
  OBVIOUS
<1>1. CASE RamStep
  <2>1. ChainOK' BY <1>1 DEF RamStep, ChainOK, nameVars, payVars
  <2> QED BY <1>1, <2>1, RamCash
<1>2. CASE PayStep BY <1>2, OnblockCash, ClaimCash DEF PayStep
<1>3. CASE UNCHANGED vars
  <2>1. CashOK' BY <1>3, UnpaidFrame DEF vars, votingVars, payVars
  <2> QED BY <1>3, <2>1 DEF vars, ChainOK, stakingVars, nameVars, payVars
<1>4. CASE NameStep \/ \E n \in Names, b \in Bidders : BidrefundCall(n, b) BY <1>4, NamesCash
<1> QED BY <1>1, <1>2, <1>3, <1>4, VotingCash, StakingCash, RefundCash, AdminCash,
           NewaccountCash, TickCash DEF Next

LEMMA CashAlways == Spec => [](CashOK /\ ChainOK)
<1> QED BY InitCash, CashStep, SystemAlways, BalancedAlways, PTL DEF Spec

LEMMA CashFunds == SystemInv /\ Balanced(Tables) /\ CashOK => BucketsAreFunded
<1> SUFFICES ASSUME SystemInv, Balanced(Tables), CashOK PROVE BucketsAreFunded
  OBVIOUS
<1> DEFINE f == [p \in Registered |-> producers[p].unpaid_blocks]
           g == [p \in Candidates |-> UnpaidIn(producers[p])]
<1>1. PaidRows(producers) BY BalancedIs, TablesAre DEF Tallied, Totals
<1>2. \A p \in Registered : f[p] \in Int
  BY <1>1 DEF Registered, PaidRows, PaidRow, ProducerRow
<1>3. /\ Registered \in SUBSET Candidates
      /\ \A p \in Registered : f[p] \in Int /\ g[p] = f[p]
      /\ \A p \in Candidates \ Registered : g[p] = 0
  BY <1>2 DEF Registered, UnpaidIn
<1>4. SumFunction(f) = SumFunctionOnSet(f, Registered) BY DEF SumFunction
<1>5. UnpaidInAll(producers) = SumFunctionOnSet(g, Candidates) BY DEF UnpaidInAll
<1> HIDE DEF f, g
<1>6. SumFunctionOnSet(f, Registered) = SumFunctionOnSet(g, Candidates)
  BY <1>3, VotersFinite, SumPart
<1>7. pay.total_unpaid_blocks = SumFunction(f) BY <1>4, <1>5, <1>6 DEF CashOK
<1> QED BY <1>7 DEF CashOK, BucketsAreFunded, f

\* The buckets that pay producers are what the paying accounts have, and the blocks
\* that share one of them are those of the producers' rows, through every order of
\* blocks, claims and fillings (onblock, claimrewards).
THEOREM BucketsFunded == Spec => []BucketsAreFunded
<1> QED BY CashAlways, SystemAlways, BalancedAlways, CashFunds, PTL

LEMMA CashTypes == SystemInv /\ Balanced(Tables) /\ CashOK /\ ChainOK => SystemTypeOK
<1> SUFFICES ASSUME SystemInv, Balanced(Tables), CashOK, ChainOK PROVE SystemTypeOK
  OBVIOUS
<1>1. /\ voters \in VoterTable /\ producers \in ProducerTable /\ now \in 0 .. MaxDay
      /\ FairRows(voters) /\ Totals(gstate, producers) /\ Tallied(Tables, None, None, None)
  BY BalancedIs, TablesAre, VotersParts DEF Tallied, SystemInv, VotersOK
<1>2. producers \in [Candidates -> ProducerRow \cup {None}]
  BY <1>1 DEF Totals, PaidRows, PaidRow, ProducerTable
<1>3. voters \in [Voters -> VoterRow \cup {None}]
  <2>1. ASSUME NEW v \in Voters, voters[v] # None PROVE voters[v] \in VoterRow
    <3>1. /\ voters[v] \in AnyVoter /\ voters[v].staked \in Nat
          /\ voters[v].last_vote_weight \in Nat /\ voters[v].producers \in Ballots
      BY <1>1, <2>1 DEF FairRows, FairRow, EvenNat
    <3>2. voters[v].proxied_vote_weight \in Nat
      <4>1. voters[v].proxied_vote_weight = EntrustedTo(voters, None, None, v)
        BY <1>1, <2>1, TablesAre DEF Tallied
      <4>2. EntrustedTo(voters, None, None, v) \in Nat
        <5>1. FairRow(None) BY DEF FairRow
        <5> QED BY <1>1, <5>1, GivenNat
      <4> QED BY <4>1, <4>2
    <3> QED BY <3>1, <3>2 DEF AnyVoter, VoterRow
  <2> QED BY <1>1, <2>1 DEF VoterTable
<1>4. gstate \in GlobalState BY <1>1 DEF Totals
<1> QED BY <1>1, <1>2, <1>3, <1>4
        DEF SystemInv, StakesOK, DelegatedOK, MarketOK, NamesOK, CashOK, ChainOK, SystemTypeOK

\* No balance, stake, bucket, tally of votes, quota or market balance is ever
\* negative, although they all change by differences (all handlers of
\* decentralbank.system).
THEOREM SystemTypeCorrect == Spec => []SystemTypeOK
<1> QED BY CashAlways, SystemAlways, BalancedAlways, CashTypes, PTL
-----------------------------------------------------------------------------
(***************************************************************************)
(* Staking is the abstract pool: every step of the contract is a step of   *)
(* it.                                                                     *)
(***************************************************************************)
RefundsReal == \A v \in Voters : refunds[v] # None => refunds[v].amount # Nothing

\* A row of refunds says as much as the pair of what is pending and since when.
SinceIn(row) == IF row = None THEN 0 ELSE row.request_time

\* What a stake takes from the pending refund of its owner.
Taken(v, delta, touched) ==
  TotalOf(Pending(v)) - TotalOf(AmountIn(Settled(v, delta, touched)))

LEMMA FlooredTotal ==
  ASSUME NEW q \in Amounts, NEW d \in Amounts
  PROVE  /\ TotalOf(Floored(Minus(q, d))) <= TotalOf(q)
         /\ TotalOf(Floored(Minus(q, d))) \in Nat
<1>1. /\ q["net"] \in Nat /\ q["cpu"] \in Nat /\ d["net"] \in Nat /\ d["cpu"] \in Nat
      /\ "net" \in Kinds /\ "cpu" \in Kinds
  BY AmountsAre DEF Kinds
<1>2. \A a, b \in Nat : AtLeast0(a - b) \in Nat /\ AtLeast0(a - b) <= a BY DEF AtLeast0
<1>3. /\ Floored(Minus(q, d))["net"] = AtLeast0(q["net"] - d["net"])
      /\ Floored(Minus(q, d))["cpu"] = AtLeast0(q["cpu"] - d["cpu"])
  BY <1>1 DEF Floored, Minus
<1>4. /\ AtLeast0(q["net"] - d["net"]) \in Nat /\ AtLeast0(q["net"] - d["net"]) <= q["net"]
      /\ AtLeast0(q["cpu"] - d["cpu"]) \in Nat /\ AtLeast0(q["cpu"] - d["cpu"]) <= q["cpu"]
  BY <1>1, <1>2
<1>5. \A a, b, c, d1 \in Nat : a <= b /\ c <= d1 => a + c \in Nat /\ a + c <= b + d1 OBVIOUS
<1> QED BY <1>1, <1>3, <1>4, <1>5 DEF TotalOf

\* A stake: what it takes from the refund of its owner it does not pay, and a refund
\* that it leaves keeps its time.
LEMMA StakeTakes ==
  ASSUME refunds \in [Voters -> RefundRow \cup {None}], RefundsReal, now \in 0 .. MaxDay,
         NEW v \in Voters, NEW delta \in Amounts, delta # Nothing, NEW touched \in BOOLEAN
  PROVE  LET row == Settled(v, delta, touched)
             n == TotalOf(delta)   m == Taken(v, delta, touched)
         IN /\ row \in RefundRow \cup {None} /\ (row # None => row.amount # Nothing)
            /\ n \in Nat /\ n > 0 /\ m \in 0 .. n /\ m <= TotalOf(Pending(v))
            /\ TotalOf(Owed(v, delta, touched)) = n - m
            /\ ~ touched => m = 0
            /\ TotalOf(AmountIn(row)) = TotalOf(Pending(v)) - m
            /\ SinceIn(row) = IF TotalOf(Pending(v)) = m THEN 0 ELSE SinceIn(refunds[v])
<1> DEFINE row == Settled(v, delta, touched)   n == TotalOf(delta)
           m == Taken(v, delta, touched)   owed == TotalOf(Owed(v, delta, touched))
<1>1. /\ delta \in AnyAmounts /\ n \in Nat /\ n > 0
      /\ Pending(v) \in Amounts /\ TotalOf(Pending(v)) \in Nat
  BY AmountsAre, PendingIs
<1>2. row \in RefundRow \cup {None} /\ owed \in Nat
      /\ owed = n - TotalOf(Pending(v)) + TotalOf(AmountIn(row))
  BY <1>1, SettledIs
<1>3. AmountIn(row) \in Amounts /\ TotalOf(AmountIn(row)) \in Nat
  BY <1>2, AmountsAre DEF AmountIn, RefundRow
<1>4. m = TotalOf(Pending(v)) - TotalOf(AmountIn(row)) BY DEF Taken
<1>5. /\ TotalOf(AmountIn(row)) <= TotalOf(Pending(v))
      /\ ~ touched => row = refunds[v]
      /\ row # None => row.amount # Nothing /\ refunds[v] # None
                       /\ row.request_time = refunds[v].request_time
  <2>1. CASE ~ touched
    <3>1. row = refunds[v] BY <2>1 DEF Settled
    <3>2. AmountIn(row) = Pending(v) BY <3>1 DEF AmountIn, Pending
    <3> QED BY <1>1, <2>1, <3>1, <3>2 DEF RefundsReal
  <2>2. CASE touched
    <3> DEFINE left == Floored(Minus(Pending(v), delta))
               time == refunds[v].request_time
    <3>1. ~ (n < 0) BY <1>1
    <3>2. row = IF left = Nothing THEN None ELSE [amount |-> left, request_time |-> time]
      BY <2>2, <3>1 DEF Settled
    <3>3. TotalOf(left) <= TotalOf(Pending(v)) /\ TotalOf(left) \in Nat BY <1>1, FlooredTotal
    <3>4. left # Nothing => refunds[v] # None
      <4> SUFFICES ASSUME refunds[v] = None PROVE left = Nothing
        OBVIOUS
      <4>1. Pending(v) = Nothing BY DEF Pending
      <4>2. left \in Amounts BY <1>1, AmountOps, AmountsAre
      <4>3. TotalOf(left) = 0 BY <3>3, <4>1, AmountsAre
      <4> HIDE DEF left
      <4> QED BY <4>2, <4>3, AmountsAre
    <3> HIDE DEF left, time, row
    <3>5. CASE left = Nothing
      <4>1. row = None /\ AmountIn(row) = Nothing BY <3>2, <3>5 DEF AmountIn
      <4> QED BY <1>1, <2>2, <4>1, AmountsAre
    <3>6. CASE left # Nothing
      <4>1. /\ row = [amount |-> left, request_time |-> time] BY <3>2, <3>6
      <4>2. row.amount = left /\ row.request_time = time BY <4>1
      <4>3. row # None
        <5>1. left \in Amounts BY <1>1, AmountOps, AmountsAre DEF left
        <5>2. time \in 0 .. MaxDay BY <3>4, <3>6 DEF time, RefundRow
        <5>3. row \in RefundRow BY <4>1, <5>1, <5>2 DEF RefundRow
        <5> QED BY <5>3, NoNoneRow
      <4>4. AmountIn(row) = left BY <4>2, <4>3 DEF AmountIn
      <4> QED BY <2>2, <3>3, <3>4, <3>6, <4>2, <4>4 DEF time
    <3> QED BY <3>5, <3>6
  <2> QED BY <2>1, <2>2
<1>6. refunds[v] # None => TotalOf(Pending(v)) > 0
  <2>1. ASSUME refunds[v] # None PROVE Pending(v) # Nothing BY <2>1 DEF RefundsReal, Pending
  <2> QED BY <1>1, <2>1, AmountsAre
<1>7. row # None => TotalOf(AmountIn(row)) > 0
  <2>1. ASSUME row # None PROVE AmountIn(row) # Nothing BY <1>5, <2>1 DEF AmountIn
  <2> QED BY <1>3, <2>1, AmountsAre
<1>8. row = None => TotalOf(AmountIn(row)) = 0 BY AmountsAre DEF AmountIn
<1>9. SinceIn(row) = IF TotalOf(Pending(v)) = m THEN 0 ELSE SinceIn(refunds[v])
  <2> HIDE DEF row, m
  <2>1. TotalOf(Pending(v)) = m <=> row = None BY <1>1, <1>3, <1>4, <1>7, <1>8
  <2> QED BY <1>5, <2>1 DEF SinceIn
<1>10. ~ touched => m = 0
  <2> SUFFICES ASSUME ~ touched PROVE m = 0
    OBVIOUS
  <2>1. AmountIn(row) = Pending(v) BY <1>5 DEF AmountIn, Pending
  <2> QED BY <1>1, <1>4, <2>1
<1> HIDE DEF row, n, m, owed
<1>11. m \in 0 .. n /\ m <= TotalOf(Pending(v)) /\ owed = n - m
       /\ TotalOf(AmountIn(row)) = TotalOf(Pending(v)) - m
  BY <1>1, <1>2, <1>3, <1>4, <1>5
<1> QED BY <1>1, <1>2, <1>5, <1>9, <1>10, <1>11 DEF row, n, m, owed

\* An unstake: all of it is on its way back, from today.
LEMMA UnstakeAdds ==
  ASSUME refunds \in [Voters -> RefundRow \cup {None}], now \in 0 .. MaxDay,
         NEW v \in Voters, NEW q \in Amounts, q # Nothing, NEW delta, delta = Minus(Nothing, q),
         NEW touched \in BOOLEAN, touched
  PROVE  LET row == Settled(v, delta, touched)
         IN /\ row \in RefundRow /\ row.amount # Nothing /\ row.request_time = now
            /\ TotalOf(Owed(v, delta, touched)) = 0
            /\ TotalOf(AmountIn(row)) = TotalOf(Pending(v)) + TotalOf(q)
            /\ TotalOf(delta) = 0 - TotalOf(q) /\ TotalOf(q) \in Nat /\ TotalOf(q) > 0
<1> DEFINE row == Settled(v, delta, touched)   left == Floored(Minus(Pending(v), delta))
           owed == Owed(v, delta, touched)
<1>1. /\ Nothing \in AnyAmounts /\ q \in AnyAmounts /\ Pending(v) \in Amounts
      /\ Pending(v) \in AnyAmounts /\ TotalOf(q) \in Nat /\ TotalOf(q) > 0
      /\ TotalOf(Pending(v)) \in Nat /\ TotalOf(Nothing) = 0
  BY AmountsAre, PendingIs
<1>2. delta \in AnyAmounts /\ TotalOf(delta) = 0 - TotalOf(q) BY <1>1, AmountOps
<1>3. \A k \in Kinds : delta[k] = 0 - q[k] /\ q[k] \in Nat /\ Pending(v)[k] \in Nat
  BY <1>1 DEF Minus, Nothing, Amounts
<1>4. \A k \in Kinds : /\ Minus(Pending(v), delta)[k] = Pending(v)[k] + q[k]
                       /\ Minus(Pending(v), delta)[k] >= 0
                       /\ owed[k] = 0
  <2>1. \A a, b \in Nat : /\ AtLeast0((0 - a) - b) = 0
                          /\ b - (0 - a) = b + a /\ b - (0 - a) >= 0
    BY DEF AtLeast0
  <2>2. \A k \in Kinds : /\ Minus(Pending(v), delta)[k] = Pending(v)[k] - delta[k]
                         /\ owed[k] = AtLeast0(delta[k] - Pending(v)[k])
    BY DEF Owed, Floored, Minus
  <2> HIDE DEF owed
  <2>3. ASSUME NEW k \in Kinds
        PROVE  /\ Minus(Pending(v), delta)[k] = Pending(v)[k] + q[k]
               /\ Minus(Pending(v), delta)[k] >= 0 /\ owed[k] = 0
    <3>1. /\ AtLeast0((0 - q[k]) - Pending(v)[k]) = 0
          /\ Pending(v)[k] - (0 - q[k]) = Pending(v)[k] + q[k]
          /\ Pending(v)[k] - (0 - q[k]) >= 0
      BY <1>3, <2>1, <2>3
    <3> QED BY <1>3, <2>2, <2>3, <3>1
  <2> QED BY <2>3
<1>5. "net" \in Kinds /\ "cpu" \in Kinds BY DEF Kinds
<1>6. TotalOf(owed) = 0
  <2>1. owed["net"] = 0 /\ owed["cpu"] = 0 BY <1>4, <1>5
  <2> HIDE DEF owed
  <2> QED BY <2>1 DEF TotalOf
<1>7. left \in Amounts /\ TotalOf(left) = TotalOf(Minus(Pending(v), delta))
  <2>1. Minus(Pending(v), delta) \in AnyAmounts BY <1>1, <1>2, AmountOps
  <2>2. /\ Minus(Pending(v), delta)["net"] >= 0 /\ Minus(Pending(v), delta)["cpu"] >= 0
    BY <1>4, <1>5
  <2> QED BY <2>1, <2>2, AmountOps
<1>8. TotalOf(Minus(Pending(v), delta)) = TotalOf(Pending(v)) + TotalOf(q)
  <2>1. TotalOf(Minus(Pending(v), delta)) = TotalOf(Pending(v)) - TotalOf(delta)
    BY <1>1, <1>2, AmountOps
  <2> QED BY <1>1, <1>2, <2>1
<1> HIDE DEF left, owed
<1>9. left # Nothing BY <1>1, <1>7, <1>8
<1>10. TotalOf(delta) < 0 BY <1>1, <1>2
<1>11. row = [amount |-> left, request_time |-> now]
  BY <1>9, <1>10 DEF Settled, left
<1> HIDE DEF row
<1>12. row \in RefundRow /\ row.amount = left /\ row.request_time = now
  BY <1>7, <1>11 DEF RefundRow
<1>13. AmountIn(row) = left BY <1>12, NoNoneRow DEF AmountIn
<1> QED BY <1>1, <1>2, <1>6, <1>7, <1>8, <1>9, <1>12, <1>13 DEF row, owed

\* What the pool's variables are here.
Purse == [v \in Voters |-> core[v]]
StakedNow == [v \in Voters |-> StakedBy(v)]
PendingNow == [v \in Voters |-> TotalOf(Pending(v))]
SinceNow == [v \in Voters |-> IF refunds[v] = None THEN 0 ELSE refunds[v].request_time]

\* Every payment leaves each purse a number.
LEMMA PursesAre ==
  ASSUME CashOK
  PROVE  /\ [v \in Voters |-> core[v]] \in [Voters -> Nat]
         /\ \A v \in Voters : core[v] \in Nat /\ v \in Accounts
BY PayersAre DEF CashOK

\* What the barred variables are, row by row.
LEMMA PoolIs ==
  /\ \A v \in Voters : TotalOf(Pending(v)) = TotalOf(AmountIn(refunds[v]))
  /\ \A v \in Voters : (IF refunds[v] = None THEN 0 ELSE refunds[v].request_time)
                         = SinceIn(refunds[v])
BY DEF Pending, AmountIn, SinceIn

\* Where no stake moves, nothing does in the pool.
LEMMA PoolElsewhere ==
  ASSUME SystemInv, SystemInv', CashOK', UNCHANGED <<delband, refunds, now>>
  PROVE  Pool!PoolNext
<1>1. /\ StakedInAll' = StakedInAll /\ PendingInAll' = PendingInAll
      /\ \A v \in Voters : /\ StakedBy(v)' = StakedBy(v) /\ Pending(v)' = Pending(v)
                           /\ TotalOf(Pending(v))' = TotalOf(Pending(v))
  BY DEF StakedInAll, PendingInAll, StakedBy, StakedFor, Pending, TotalOf
<1>2. core'["eosio.stake"] = core["eosio.stake"]
  <2>1. /\ core["eosio.stake"] = StakedInAll + PendingInAll
        /\ core'["eosio.stake"] = StakedInAll' + PendingInAll'
    BY DEF SystemInv, StakesOK, StakesAreFunded
  <2> QED BY <1>1, <2>1
<1>3. [v \in Voters |-> core'[v]] \in [Voters -> Nat]
  BY PayersAre DEF CashOK
<1>4. Pool!Elsewhere BY <1>1, <1>2, <1>3 DEF Pool!Elsewhere
<1> QED BY <1>4 DEF Pool!PoolNext

LEMMA StakedNat ==
  ASSUME NEW d \in [Receivers -> Amounts]
  PROVE  SumFunction([r \in Receivers |-> TotalOf(d[r])]) \in Nat
<1> DEFINE f == [r \in Receivers |-> TotalOf(d[r])]
<1>1. DOMAIN f = Receivers /\ \A r \in Receivers : f[r] \in Nat BY AmountsAre
<1> HIDE DEF f
<1>2. SumFunction(f) \in Nat BY <1>1, SumNat, StakingAssumption DEF SumFunction
<1> QED BY <1>2 DEF f

LEMMA OneWritten ==
  ASSUME NEW S, NEW f, NEW g, f = [x \in S |-> f[x]], g = [x \in S |-> g[x]],
         NEW a \in S, NEW y, g[a] = y, \A x \in S : x # a => g[x] = f[x]
  PROVE  g = [f EXCEPT ![a] = y]
OBVIOUS

\* What a change of a stake does, as the pool sees it.
LEMMA ChangebwPool ==
  ASSUME SystemInv, CashOK, NEW source \in Voters, NEW v \in Voters, NEW r \in Receivers,
         NEW delta \in AnyAmounts, Changebw(source, v, r, delta),
         NEW touched, touched = (TotalOf(delta) < 0 \/ (source = v /\ v = r)),
         NEW row, row = Settled(v, delta, touched), row \in RefundRow \cup {None},
         NEW owed \in Nat, owed = TotalOf(Owed(v, delta, touched))
  PROVE  /\ owed <= core[source]
         /\ core'["eosio.stake"] = core["eosio.stake"] + owed
         /\ Purse' = [Purse EXCEPT ![source] = core[source] - owed]
         /\ StakedNow' = [StakedNow EXCEPT ![v] = StakedBy(v) + TotalOf(delta)]
         /\ PendingNow' = [PendingNow EXCEPT ![v] = TotalOf(AmountIn(row))]
         /\ SinceNow' = [SinceNow EXCEPT ![v] = SinceIn(row)]
         /\ StakedBy(v)' = StakedBy(v) + TotalOf(delta) /\ StakedBy(v)' \in Nat
         /\ refunds' = [refunds EXCEPT ![v] = row]
<1>1. /\ Delegate(v, r, delta) /\ refunds' = [refunds EXCEPT ![v] = row]
      /\ owed > 0 => CanPay(core, source, owed)
      /\ core' = IF owed > 0 THEN Paid(core, source, "eosio.stake", owed) ELSE core
  BY DEF Changebw
<1>2. /\ refunds \in [Voters -> RefundRow \cup {None}] /\ StakesOK /\ DelegatedOK
      /\ core \in [Accounts -> Nat]
  BY DEF SystemInv, StakesOK, CashOK
<1>3. /\ source \in Accounts /\ "eosio.stake" \in Accounts /\ source # "eosio.stake"
      /\ \A x \in Voters : x \in Accounts /\ x # "eosio.stake"
  BY PayersAre
<1>4. core[source] \in Nat /\ core["eosio.stake"] \in Nat BY <1>2, <1>3
<1>5. /\ owed <= core[source]
      /\ core'[source] = core[source] - owed
      /\ core'["eosio.stake"] = core["eosio.stake"] + owed
      /\ \A x \in Voters : x # source => core'[x] = core[x]
  <2>1. CASE owed > 0
    <3>1. owed <= core[source] /\ core' = Paid(core, source, "eosio.stake", owed)
      BY <1>1, <2>1 DEF CanPay
    <3>2. /\ core'[source] = core[source] - owed
          /\ core'["eosio.stake"] = core["eosio.stake"] + owed
          /\ \A x \in Accounts : (x # source /\ x # "eosio.stake") => core'[x] = core[x]
      BY ONLY owed \in Nat, <1>2, <1>3, <3>1, PaidNat
    <3> QED BY <1>3, <3>1, <3>2
  <2>2. CASE ~ (owed > 0)
    <3>1. owed = 0 /\ core' = core BY <1>1, <2>2
    <3> QED BY <1>4, <3>1
  <2> QED BY <2>1, <2>2
<1>6. /\ \A x \in Voters : x # v => StakedBy(x)' = StakedBy(x)
      /\ StakedBy(v)' = StakedBy(v) + TotalOf(delta)
      /\ delband' \in [Voters -> [Receivers -> Amounts]]
  BY <1>1, <1>2, DelegateIs
<1>7. StakedBy(v)' \in Nat
  <2>1. delband'[v] \in [Receivers -> Amounts] BY <1>6
  <2>2. SumFunction([y \in Receivers |-> TotalOf(delband'[v][y])]) \in Nat
    BY <2>1, StakedNat
  <2> QED BY <2>2 DEF StakedBy, StakedFor, TotalOf
<1>8. /\ \A x \in Voters : x # v => refunds'[x] = refunds[x]
      /\ refunds'[v] = row
  BY <1>1, <1>2
<1>9. /\ \A x \in Voters : x # v => TotalOf(Pending(x))' = TotalOf(Pending(x))
      /\ TotalOf(Pending(v))' = TotalOf(AmountIn(row))
  BY <1>8 DEF Pending, AmountIn, TotalOf
<1>10. Purse' = [Purse EXCEPT ![source] = core[source] - owed]
  <2>1. Purse = [x \in Voters |-> Purse[x]] /\ Purse' = [x \in Voters |-> Purse'[x]]
    BY DEF Purse
  <2>2. Purse'[source] = core[source] - owed /\ \A x \in Voters : x # source => Purse'[x] = Purse[x]
    BY <1>5 DEF Purse
  <2> QED BY ONLY source \in Voters, <2>1, <2>2, OneWritten
<1>11. StakedNow' = [StakedNow EXCEPT ![v] = StakedBy(v) + TotalOf(delta)]
  <2>1. StakedNow = [x \in Voters |-> StakedNow[x]] /\ StakedNow' = [x \in Voters |-> StakedNow'[x]]
    BY DEF StakedNow
  <2>2. StakedNow'[v] = StakedBy(v) + TotalOf(delta) /\ \A x \in Voters : x # v => StakedNow'[x] = StakedNow[x]
    BY <1>6 DEF StakedNow
  <2> QED BY ONLY v \in Voters, <2>1, <2>2, OneWritten
<1>12. PendingNow' = [PendingNow EXCEPT ![v] = TotalOf(AmountIn(row))]
  <2>1. PendingNow = [x \in Voters |-> PendingNow[x]] /\ PendingNow' = [x \in Voters |-> PendingNow'[x]]
    BY DEF PendingNow
  <2>2. PendingNow'[v] = TotalOf(AmountIn(row)) /\ \A x \in Voters : x # v => PendingNow'[x] = PendingNow[x]
    BY <1>9 DEF PendingNow
  <2> QED BY ONLY v \in Voters, <2>1, <2>2, OneWritten
<1>13. SinceNow' = [SinceNow EXCEPT ![v] = SinceIn(row)]
  <2>1. SinceNow = [x \in Voters |-> SinceNow[x]] /\ SinceNow' = [x \in Voters |-> SinceNow'[x]]
    BY DEF SinceNow
  <2>2. SinceNow'[v] = SinceIn(row) /\ \A x \in Voters : x # v => SinceNow'[x] = SinceNow[x]
    BY <1>8 DEF SinceNow, SinceIn
  <2> QED BY ONLY v \in Voters, <2>1, <2>2, OneWritten
<1> QED BY <1>1, <1>5, <1>6, <1>7, <1>10, <1>11, <1>12, <1>13

StakeFor(payer, v, n, m) == Pool!Stake(payer, v, n, m)

LEMMA StakedPool ==
  ASSUME SystemInv, CashOK, RefundsReal, NEW source \in Voters, NEW v \in Voters,
         NEW r \in Receivers, NEW q \in StakeQty, Changebw(source, v, r, q), UNCHANGED now
  PROVE  Pool!PoolNext /\ RefundsReal'
<1> DEFINE touched == TotalOf(q) < 0 \/ (source = v /\ v = r)
           row == Settled(v, q, touched)   owed == TotalOf(Owed(v, q, touched))
           n == TotalOf(q)   m == Taken(v, q, touched)
<1>1. /\ q \in Amounts /\ q # Nothing /\ q \in AnyAmounts /\ touched \in BOOLEAN
      /\ refunds \in [Voters -> RefundRow \cup {None}] /\ now \in 0 .. MaxDay
  BY StakingAssumption, AmountsAre DEF SystemInv, StakesOK, VotersOK
<1>2. n \in Nat /\ ~ (n < 0) BY <1>1, AmountsAre
<1>3. touched => source = v BY <1>2
<1>4. touched = (TotalOf(q) < 0 \/ (source = v /\ v = r)) OBVIOUS
<1> HIDE DEF touched
<1>5. /\ row \in RefundRow \cup {None} /\ (row # None => row.amount # Nothing)
      /\ n > 0 /\ m \in 0 .. n /\ m <= TotalOf(Pending(v))
      /\ owed = n - m /\ (~ touched => m = 0)
      /\ TotalOf(AmountIn(row)) = TotalOf(Pending(v)) - m
      /\ SinceIn(row) = IF TotalOf(Pending(v)) = m THEN 0 ELSE SinceIn(refunds[v])
  BY <1>1, StakeTakes
<1>6. owed \in Nat BY <1>2, <1>5
<1>7. row = Settled(v, q, touched) /\ owed = TotalOf(Owed(v, q, touched)) OBVIOUS
<1> HIDE DEF row, owed, n, m
<1>8. /\ owed <= core[source]
      /\ Purse' = [Purse EXCEPT ![source] = core[source] - owed]
      /\ core'["eosio.stake"] = core["eosio.stake"] + owed
      /\ StakedNow' = [StakedNow EXCEPT ![v] = StakedBy(v) + n]
      /\ PendingNow' = [PendingNow EXCEPT ![v] = TotalOf(AmountIn(row))]
      /\ SinceNow' = [SinceNow EXCEPT ![v] = SinceIn(row)]
      /\ refunds' = [refunds EXCEPT ![v] = row]
  BY <1>1, <1>4, <1>5, <1>6, <1>7, ChangebwPool DEF n
<1>9. RefundsReal' BY <1>1, <1>5, <1>8 DEF RefundsReal
<1>10. /\ Purse[source] = core[source] /\ StakedNow[v] = StakedBy(v)
       /\ PendingNow[v] = TotalOf(Pending(v)) /\ SinceNow[v] = SinceIn(refunds[v])
       /\ core[source] \in Nat /\ TotalOf(Pending(v)) \in Nat
  BY <1>1, PursesAre, PendingIs DEF Purse, StakedNow, PendingNow, SinceNow, SinceIn
<1>11. /\ n > 0 /\ m \in 0 .. n /\ core'["eosio.stake"] = core["eosio.stake"] + (n - m)
       /\ m > 0 => source = v /\ m <= PendingNow[v]
       /\ n - m <= Purse[source]
       /\ Purse' = [Purse EXCEPT ![source] = Purse[source] - (n - m)]
       /\ StakedNow' = [StakedNow EXCEPT ![v] = StakedNow[v] + n]
       /\ PendingNow' = [PendingNow EXCEPT ![v] = PendingNow[v] - m]
       /\ SinceNow' = [SinceNow EXCEPT ![v] =
                         IF PendingNow[v] = m THEN 0 ELSE SinceNow[v]]
  BY <1>2, <1>3, <1>5, <1>8, <1>10
<1>12. StakeFor(source, v, n, m)
  BY <1>11 DEF StakeFor, Pool!Stake, Purse, StakedNow, PendingNow, SinceNow
<1>13. n \in 1 .. Purse[source] + PendingNow[v] BY <1>2, <1>5, <1>10, <1>11
<1>14. \E k \in 1 .. Purse[source] + PendingNow[v] : \E j \in 0 .. k : StakeFor(source, v, k, j)
  BY <1>5, <1>12, <1>13
<1>15. Pool!PoolNext BY <1>14 DEF Pool!PoolNext, StakeFor, Purse, PendingNow
<1> QED BY <1>9, <1>15

LEMMA UnstakedPool ==
  ASSUME SystemInv, CashOK, RefundsReal, NEW v \in Voters, NEW r \in Receivers,
         NEW q \in UnstakeQty, NEW delta, delta = Minus(Nothing, q),
         Changebw(v, v, r, delta), UNCHANGED now
  PROVE  Pool!PoolNext /\ RefundsReal'
<1> DEFINE touched == TotalOf(delta) < 0 \/ (v = v /\ v = r)
           row == Settled(v, delta, touched)   owed == TotalOf(Owed(v, delta, touched))
           n == TotalOf(q)
<1>1. /\ q \in Amounts /\ q # Nothing /\ q \in AnyAmounts /\ Nothing \in AnyAmounts
      /\ refunds \in [Voters -> RefundRow \cup {None}] /\ now \in 0 .. MaxDay
      /\ delband \in [Voters -> [Receivers -> Amounts]]
  BY StakingAssumption, AmountsAre DEF SystemInv, StakesOK, VotersOK
<1>2. delta \in AnyAmounts BY <1>1, AmountOps
<1>2a. touched /\ touched \in BOOLEAN
  <2>1. TotalOf(delta) = TotalOf(Nothing) - TotalOf(q) BY <1>1, AmountOps
  <2>2. TotalOf(Nothing) = 0 /\ TotalOf(q) \in Nat /\ TotalOf(q) > 0 BY <1>1, AmountsAre
  <2>3. \A a \in Nat : a > 0 => 0 - a < 0 OBVIOUS
  <2>4. TotalOf(delta) < 0 BY <2>1, <2>2, <2>3
  <2> QED BY <2>4
<1>2b. touched = (TotalOf(delta) < 0 \/ (v = v /\ v = r)) OBVIOUS
<1> HIDE DEF touched
<1>3. /\ row \in RefundRow /\ row.amount # Nothing /\ row.request_time = now
      /\ owed = 0 /\ TotalOf(AmountIn(row)) = TotalOf(Pending(v)) + n
      /\ TotalOf(delta) = 0 - n /\ n \in Nat /\ n > 0
  BY <1>1, <1>2a, UnstakeAdds
<1>4. row = Settled(v, delta, touched) /\ owed = TotalOf(Owed(v, delta, touched))
  OBVIOUS
<1> HIDE DEF row, owed, n
<1>5. row \in RefundRow \cup {None} /\ owed \in Nat BY <1>3
<1>6. /\ Purse' = [Purse EXCEPT ![v] = core[v] - owed]
      /\ core'["eosio.stake"] = core["eosio.stake"] + owed
      /\ StakedNow' = [StakedNow EXCEPT ![v] = StakedBy(v) + TotalOf(delta)]
      /\ PendingNow' = [PendingNow EXCEPT ![v] = TotalOf(AmountIn(row))]
      /\ SinceNow' = [SinceNow EXCEPT ![v] = SinceIn(row)]
      /\ refunds' = [refunds EXCEPT ![v] = row]
      /\ StakedBy(v)' = StakedBy(v) + TotalOf(delta) /\ StakedBy(v)' \in Nat
  BY <1>1, <1>2, <1>2b, <1>4, <1>5, ChangebwPool
<1>7. RefundsReal' BY <1>1, <1>3, <1>6 DEF RefundsReal
<1>8. /\ Purse[v] = core[v] /\ StakedNow[v] = StakedBy(v)
      /\ PendingNow[v] = TotalOf(Pending(v)) /\ SinceIn(row) = now
      /\ core[v] \in Nat /\ core["eosio.stake"] \in Nat /\ StakedBy(v) \in Nat
  BY <1>1, <1>3, PursesAre, PayersAre, StakesAre, NoNoneRow
     DEF Purse, StakedNow, PendingNow, SinceIn, CashOK
<1>9. Purse' = Purse
  <2>1. core[v] - owed = Purse[v] BY <1>3, <1>8
  <2>2. [Purse EXCEPT ![v] = Purse[v]] = Purse BY DEF Purse
  <2> QED BY <1>6, <2>1, <2>2
<1>10. /\ n \in 1 .. StakedNow[v] /\ core'["eosio.stake"] = core["eosio.stake"]
       /\ StakedNow' = [StakedNow EXCEPT ![v] = StakedNow[v] - n]
       /\ PendingNow' = [PendingNow EXCEPT ![v] = PendingNow[v] + n]
       /\ SinceNow' = [SinceNow EXCEPT ![v] = now]
  <2>1. StakedBy(v) + TotalOf(delta) = StakedNow[v] - n BY <1>3, <1>8
  <2>2. n <= StakedNow[v] BY <1>3, <1>6, <1>8
  <2>3. core["eosio.stake"] + owed = core["eosio.stake"] BY <1>3, <1>8
  <2>4. n \in 1 .. StakedNow[v] BY <1>3, <1>8, <2>2
  <2> QED BY <1>3, <1>6, <1>8, <2>1, <2>3, <2>4
<1>11. Pool!Unstake(v, n)
  BY <1>9, <1>10 DEF Pool!Unstake, Purse, StakedNow, PendingNow, SinceNow
<1> QED BY <1>7, <1>10, <1>11 DEF Pool!PoolNext, StakedNow

LEMMA PaidPool ==
  ASSUME SystemInv, CashOK, RefundsReal, NEW v \in Voters, CanRefund(v), Refunded(v),
         UNCHANGED <<now, delband>>
  PROVE  Pool!PoolNext /\ RefundsReal'
<1> DEFINE n == TotalOf(Pending(v))
<1>1. /\ refunds[v] # None /\ refunds[v].request_time + RefundDelay <= now
      /\ Pending(v) = refunds[v].amount /\ n <= core["eosio.stake"]
      /\ core' = Paid(core, "eosio.stake", v, n) /\ refunds' = [refunds EXCEPT ![v] = None]
  BY DEF CanRefund, CanPay, Refunded, Pending
<1>2. /\ refunds \in [Voters -> RefundRow \cup {None}] /\ n \in Nat
      /\ core \in [Accounts -> Nat]
  BY PendingIs DEF SystemInv, StakesOK, CashOK
<1>3. n > 0
  <2>1. Pending(v) # Nothing /\ Pending(v) \in Amounts
    BY <1>1, <1>2, PendingIs DEF RefundsReal
  <2> QED BY <2>1, AmountsAre
<1> HIDE DEF n
<1>4. /\ v \in Accounts /\ "eosio.stake" \in Accounts /\ v # "eosio.stake"
      /\ \A x \in Voters : x \in Accounts /\ x # "eosio.stake"
  BY PayersAre
<1>5. /\ core'["eosio.stake"] = core["eosio.stake"] - n /\ core'[v] = core[v] + n
      /\ \A x \in Voters : x # v => core'[x] = core[x]
  <2>1. /\ core'["eosio.stake"] = core["eosio.stake"] - n /\ core'[v] = core[v] + n
        /\ \A x \in Accounts : (x # "eosio.stake" /\ x # v) => core'[x] = core[x]
    BY ONLY <1>1, <1>2, <1>4, PaidNat
  <2> QED BY <1>4, <2>1
<1>6. Purse' = [Purse EXCEPT ![v] = Purse[v] + n]
  <2>1. Purse = [x \in Voters |-> Purse[x]] /\ Purse' = [x \in Voters |-> Purse'[x]]
    BY DEF Purse
  <2>2. Purse'[v] = Purse[v] + n /\ \A x \in Voters : x # v => Purse'[x] = Purse[x]
    BY <1>5 DEF Purse
  <2> QED BY ONLY v \in Voters, <2>1, <2>2, OneWritten
<1>7. /\ refunds'[v] = None /\ \A x \in Voters : x # v => refunds'[x] = refunds[x]
  BY <1>1, <1>2
<1>8. PendingNow' = [PendingNow EXCEPT ![v] = 0]
  <2>1. PendingNow = [x \in Voters |-> PendingNow[x]] /\ PendingNow' = [x \in Voters |-> PendingNow'[x]]
    BY DEF PendingNow
  <2>2. PendingNow'[v] = 0 /\ \A x \in Voters : x # v => PendingNow'[x] = PendingNow[x]
    <3>1. Pending(v)' = Nothing BY <1>7 DEF Pending
    <3>2. PendingNow'[v] = TotalOf(Pending(v)') BY DEF PendingNow, TotalOf
    <3>3. \A x \in Voters : x # v => PendingNow'[x] = PendingNow[x]
      BY <1>7 DEF PendingNow, Pending, TotalOf
    <3> QED BY <3>1, <3>2, <3>3, AmountsAre
  <2> QED BY ONLY v \in Voters, <2>1, <2>2, OneWritten
<1>9. SinceNow' = [SinceNow EXCEPT ![v] = 0]
  <2>1. SinceNow = [x \in Voters |-> SinceNow[x]] /\ SinceNow' = [x \in Voters |-> SinceNow'[x]]
    BY DEF SinceNow
  <2>2. SinceNow'[v] = 0 /\ \A x \in Voters : x # v => SinceNow'[x] = SinceNow[x]
    BY <1>7 DEF SinceNow
  <2> QED BY ONLY v \in Voters, <2>1, <2>2, OneWritten
<1>10. StakedNow' = StakedNow BY DEF StakedNow, StakedBy, StakedFor
<1>11. /\ PendingNow[v] = n /\ SinceNow[v] = refunds[v].request_time
  BY <1>1 DEF PendingNow, SinceNow, n
<1>12. Pool!Pay(v)
  BY <1>1, <1>3, <1>5, <1>6, <1>8, <1>9, <1>10, <1>11
     DEF Pool!Pay, Purse, StakedNow, PendingNow, SinceNow
<1>13. RefundsReal' BY <1>7 DEF RefundsReal
<1> QED BY <1>12, <1>13 DEF Pool!PoolNext

LEMMA PoolStays ==
  ASSUME SystemInv, SystemInv', CashOK', RefundsReal, UNCHANGED <<delband, refunds, now>>
  PROVE  [Pool!PoolNext]_(Pool!poolVars) /\ RefundsReal'
<1>1. Pool!PoolNext BY PoolElsewhere
<1>2. RefundsReal' BY DEF RefundsReal
<1> QED BY <1>1, <1>2

LEMMA PoolStep ==
  SystemInv /\ SystemInv' /\ CashOK /\ CashOK' /\ RefundsReal /\ [Next]_vars
    => [Pool!PoolNext]_(Pool!poolVars) /\ RefundsReal'
<1> SUFFICES ASSUME SystemInv, SystemInv', CashOK, CashOK', RefundsReal, [Next]_vars
             PROVE  [Pool!PoolNext]_(Pool!poolVars) /\ RefundsReal'
  OBVIOUS
<1>1. CASE StakingStep
  <2>0. UNCHANGED now BY <1>1 DEF StakingStep
  <2>1. ASSUME NEW source \in Voters, NEW r \in Receivers, NEW q \in StakeQty,
               NEW transfer \in BOOLEAN, Delegatebw(source, r, q, transfer)
        PROVE  Pool!PoolNext /\ RefundsReal'
    <3>1. CASE transfer
      <4>1. r \in Voters /\ Changebw(source, r, r, q) BY <2>1, <3>1 DEF Delegatebw
      <4> QED BY <2>0, <4>1, StakedPool
    <3>2. CASE ~ transfer
      <4>1. Changebw(source, source, r, q) BY <2>1, <3>2 DEF Delegatebw
      <4> QED BY <2>0, <4>1, StakedPool
    <3> QED BY <3>1, <3>2
  <2>2. ASSUME NEW v \in Voters, NEW r \in Receivers, NEW q \in UnstakeQty, Undelegatebw(v, r, q)
        PROVE  Pool!PoolNext /\ RefundsReal'
    <3> DEFINE delta == Minus(Nothing, q)
    <3>1. Changebw(v, v, r, delta) BY <2>2 DEF Undelegatebw
    <3>2. delta = Minus(Nothing, q) OBVIOUS
    <3> HIDE DEF delta
    <3> QED BY <2>0, <3>1, <3>2, UnstakedPool
  <2>3. Pool!PoolNext /\ RefundsReal' BY <1>1, <2>1, <2>2 DEF StakingStep
  <2> QED BY <2>3
<1>2. CASE RefundStep
  <2>1. UNCHANGED <<now, delband>> BY <1>2 DEF RefundStep
  <2>2. PICK v \in Voters : \/ CanRefund(v) /\ Refunded(v)
                            \/ UNCHANGED <<core, refunds>>
    BY <1>2 DEF RefundStep, Refund, RunRefund
  <2>3. CASE CanRefund(v) /\ Refunded(v)
    <3>1. Pool!PoolNext /\ RefundsReal' BY <2>1, <2>3, PaidPool
    <3> QED BY <3>1
  <2>4. CASE UNCHANGED <<core, refunds>> BY <2>1, <2>4, PoolStays
  <2> QED BY <2>2, <2>3, <2>4
<1>3. CASE Tick
  <2>1. UNCHANGED <<core, delband, refunds>> BY <1>3 DEF Tick, stakingVars
  <2>2. CASE now' = now BY <2>1, <2>2, PoolStays
  <2>3. CASE now' # now
    <3>1. now < MaxDay /\ now' = now + 1 BY <1>3, <2>3 DEF Tick
    <3>2. /\ Purse' = Purse /\ StakedNow' = StakedNow /\ PendingNow' = PendingNow
          /\ SinceNow' = SinceNow
      BY <2>1 DEF Purse, StakedNow, PendingNow, SinceNow, StakedBy, StakedFor, Pending, TotalOf
    <3>3. Pool!NextDay
      BY <2>1, <3>1, <3>2 DEF Pool!NextDay, Purse, StakedNow, PendingNow, SinceNow
    <3>4. Pool!PoolNext BY <3>3 DEF Pool!PoolNext
    <3>5. RefundsReal' BY <2>1 DEF RefundsReal
    <3> QED BY <3>4, <3>5
  <2> QED BY <2>2, <2>3
<1>4. CASE UNCHANGED <<delband, refunds, now>> BY <1>4, PoolStays
<1>5. RamStep => UNCHANGED <<delband, refunds, now>>
  BY DEF RamStep, Buyrambytes, Buyram, Sellram, WithBytes
<1>6. AdminStep => UNCHANGED <<delband, refunds, now>>
  BY DEF AdminStep, stakingVars, Setalimits, Setram, Setramrate
<1>7. /\ VotingOnly => UNCHANGED <<delband, refunds, now>>
      /\ NameStep => UNCHANGED <<delband, refunds, now>>
      /\ (\E n \in Names, b \in Bidders : BidrefundCall(n, b)) => UNCHANGED <<delband, refunds, now>>
      /\ (\E creator \in Creators, n \in NewNames : Newaccount(creator, n))
            => UNCHANGED <<delband, refunds, now>>
      /\ PayStep => UNCHANGED <<delband, refunds, now>>
      /\ UNCHANGED vars => UNCHANGED <<delband, refunds, now>>
  BY DEF VotingOnly, NameStep, BidrefundCall, Newaccount, PayStep, vars, stakingVars
<1> QED BY <1>1, <1>2, <1>3, <1>4, <1>5, <1>6, <1>7 DEF Next

LEMMA PoolStarts == Init => Pool!PoolInit /\ RefundsReal
<1> SUFFICES ASSUME Init PROVE Pool!PoolInit /\ RefundsReal
  OBVIOUS
<1>1. /\ CoreInit /\ StakingInit BY DEF Init
<1>2. /\ delband = [v \in Voters |-> [r \in Receivers |-> Nothing]]
      /\ refunds = [v \in Voters |-> None] /\ now = 0
  BY <1>1 DEF StakingInit, CoreInit
<1>3. CashOK BY InitCash
<1>4. [v \in Voters |-> core[v]] \in [Voters -> Nat] /\ core["eosio.stake"] = 0
  BY <1>1, <1>3, PursesAre, PayersAre DEF CoreInit
<1>5. ASSUME NEW v \in Voters PROVE StakedBy(v) = 0 /\ TotalOf(Pending(v)) = 0
  <2> DEFINE f == [r \in Receivers |-> StakedFor(v, r)]
  <2>1. DOMAIN f = Receivers /\ \A r \in Receivers : f[r] = 0
    BY <1>2, AmountsAre DEF StakedFor
  <2> HIDE DEF f
  <2>2. SumFunction(f) = 0 BY <2>1, SumZero, StakingAssumption DEF SumFunction
  <2>3. Pending(v) = Nothing BY <1>2 DEF Pending
  <2> QED BY <2>2, <2>3, AmountsAre DEF StakedBy, f
<1>6. Pool!PoolInit BY <1>2, <1>4, <1>5 DEF Pool!PoolInit
<1>7. RefundsReal BY <1>2 DEF RefundsReal
<1> QED BY <1>6, <1>7

\* The contract implements StakePool: what is unstaked is paid to its owner once, no
\* sooner than three days after the last unstake, by hand or by the deferred call,
\* and only the owner's own stakes take from it (changebw, refund).
THEOREM StakingIsPool == Spec => ImplementsStakePool
<1> QED BY PoolStarts, PoolStep, CashAlways, SystemAlways, PTL
        DEF Spec, ImplementsStakePool, Pool!PoolSpec
-----------------------------------------------------------------------------
(***************************************************************************)
(* Refunds that are due: a refund was asked for in the past, and its       *)
(* deferred call comes no earlier than it may be paid. Only a change of    *)
(* the stake and the payment of the refund write either.                   *)
(***************************************************************************)
RefundInTime(row, due, today) ==
  row # None => /\ row.request_time <= today
                /\ due # None => row.request_time + RefundDelay <= due
RefundsInTime == \A v \in Voters : RefundInTime(refunds[v], deferred[v], now)

\* The refund that a change of the stake leaves was asked for in the past.
ChangeInTime(v, delta, touched) ==
  Settled(v, delta, touched) # None =>
    /\ Settled(v, delta, touched) \in RefundRow
    /\ Settled(v, delta, touched).request_time <= now

LEMMA StakeInTime ==
  ASSUME SystemInv, RefundsReal, RefundsInTime, NEW v \in Voters, NEW q \in StakeQty,
         NEW touched \in BOOLEAN
  PROVE  ChangeInTime(v, q, touched)
<1> DEFINE row == Settled(v, q, touched)   n == TotalOf(q)   m == Taken(v, q, touched)
<1>1. /\ q \in Amounts /\ q # Nothing
      /\ refunds \in [Voters -> RefundRow \cup {None}] /\ now \in 0 .. MaxDay
  BY StakingAssumption, AmountsAre DEF SystemInv, StakesOK, VotersOK
<1>2. /\ row \in RefundRow \cup {None}
      /\ SinceIn(row) = IF TotalOf(Pending(v)) = m THEN 0 ELSE SinceIn(refunds[v])
  BY <1>1, StakeTakes
<1>3. SinceIn(refunds[v]) <= now BY <1>1 DEF RefundsInTime, RefundInTime, SinceIn
<1>4. SinceIn(row) <= now
  <2> HIDE DEF row, m
  <2> QED BY <1>1, <1>2, <1>3
<1>5. row # None => row \in RefundRow /\ row.request_time <= now
  <2> HIDE DEF row
  <2> QED BY <1>2, <1>4 DEF SinceIn
<1> QED BY <1>5 DEF ChangeInTime

LEMMA UnstakeInTime ==
  ASSUME SystemInv, NEW v \in Voters, NEW q \in UnstakeQty
  PROVE  /\ Minus(Nothing, q) \in AnyAmounts /\ TotalOf(Minus(Nothing, q)) < 0
         /\ ChangeInTime(v, Minus(Nothing, q), TRUE)
<1> DEFINE delta == Minus(Nothing, q)   row == Settled(v, delta, TRUE)
<1>1. /\ q \in Amounts /\ q # Nothing /\ q \in AnyAmounts /\ Nothing \in AnyAmounts
      /\ refunds \in [Voters -> RefundRow \cup {None}] /\ now \in 0 .. MaxDay
  BY StakingAssumption, AmountsAre DEF SystemInv, StakesOK, VotersOK
<1>2. delta \in AnyAmounts BY <1>1, AmountOps
<1>3. delta = Minus(Nothing, q) OBVIOUS
<1> HIDE DEF delta
<1>4. /\ row \in RefundRow /\ row.request_time = now
      /\ TotalOf(delta) = 0 - TotalOf(q) /\ TotalOf(q) \in Nat /\ TotalOf(q) > 0
  BY <1>1, <1>3, UnstakeAdds
<1>5. TotalOf(delta) < 0
  <2>1. \A a \in Nat : a > 0 => 0 - a < 0 OBVIOUS
  <2> QED BY <1>4, <2>1
<1>6. row.request_time <= now
  <2> HIDE DEF row
  <2> QED BY <1>1, <1>4
<1> QED BY <1>2, <1>4, <1>5, <1>6 DEF ChangeInTime, delta

\* A refund that a change of the stake writes is put off, and any other loses its
\* deferred call.
LEMMA ChangebwInTime ==
  ASSUME SystemInv, RefundsInTime, NEW source \in Voters, NEW v \in Voters, NEW r \in Receivers,
         NEW delta, Changebw(source, v, r, delta), UNCHANGED now,
         NEW touched, touched = (TotalOf(delta) < 0 \/ (source = v /\ v = r)),
         ChangeInTime(v, delta, touched), ChainOK
  PROVE  RefundsInTime'
<1> DEFINE row == Settled(v, delta, touched)   due == Rescheduled(v, delta, touched)
<1>1. /\ refunds' = [refunds EXCEPT ![v] = row] /\ deferred' = [deferred EXCEPT ![v] = due]
  BY DEF Changebw
<1>2. /\ row # None => row \in RefundRow /\ row.request_time <= now
      /\ due = IF touched /\ row # None THEN now + RefundDelay ELSE None
  BY DEF ChangeInTime, Rescheduled
<1> HIDE DEF row, due
<1>3. /\ refunds \in [Voters -> RefundRow \cup {None}] /\ now \in 0 .. MaxDay
      /\ deferred \in [Voters -> Nat \cup {None}] /\ RefundDelay \in Nat /\ MaxDay \in Nat
  BY StakingAssumption, CoreAssumption DEF SystemInv, StakesOK, VotersOK, ChainOK
<1>4. /\ refunds'[v] = row /\ deferred'[v] = due
      /\ \A x \in Voters : x # v => refunds'[x] = refunds[x] /\ deferred'[x] = deferred[x]
  BY <1>1, <1>3
<1>5. RefundInTime(row, due, now)
  <2> SUFFICES ASSUME row # None
               PROVE  /\ row.request_time <= now
                      /\ due # None => row.request_time + RefundDelay <= due
    BY DEF RefundInTime
  <2>1. row.request_time \in Int /\ row.request_time <= now BY <1>2, <1>3 DEF RefundRow
  <2>2. due # None => due = now + RefundDelay BY <1>2
  <2> QED BY <1>3, <2>1, <2>2
<1> QED BY <1>4, <1>5 DEF RefundsInTime

\* Paying leaves no refund, and a lost call no day.
LEMMA RefundStepInTime ==
  ASSUME SystemInv, ChainOK, RefundsInTime, RefundStep
  PROVE  RefundsInTime'
<1>1. UNCHANGED now BY DEF RefundStep
<1>2. PICK v \in Voters : /\ refunds' = [refunds EXCEPT ![v] = None] \/ refunds' = refunds
                          /\ deferred' = [deferred EXCEPT ![v] = None] \/ deferred' = deferred
  BY DEF RefundStep, Refund, RunRefund, Refunded
<1>3. /\ refunds \in [Voters -> RefundRow \cup {None}]
      /\ deferred \in [Voters -> Nat \cup {None}]
  BY DEF SystemInv, StakesOK, ChainOK
<1>4. \A x \in Voters : /\ refunds'[x] = refunds[x] \/ refunds'[x] = None
                        /\ deferred'[x] = deferred[x] \/ deferred'[x] = None
  BY <1>2, <1>3
<1> QED BY <1>1, <1>4 DEF RefundsInTime, RefundInTime

LEMMA InTimeStep ==
  SystemInv /\ ChainOK /\ RefundsReal /\ RefundsInTime /\ [Next]_vars => RefundsInTime'
<1> SUFFICES ASSUME SystemInv, ChainOK, RefundsReal, RefundsInTime, [Next]_vars
             PROVE  RefundsInTime'
  OBVIOUS
<1>1. CASE StakingStep
  <2>0. UNCHANGED now BY <1>1 DEF StakingStep
  <2>1. ASSUME NEW source \in Voters, NEW v \in Voters, NEW r \in Receivers, NEW q \in StakeQty,
               Changebw(source, v, r, q)
        PROVE  RefundsInTime'
    <3> DEFINE touched == TotalOf(q) < 0 \/ (source = v /\ v = r)
    <3>1. touched \in BOOLEAN /\ touched = (TotalOf(q) < 0 \/ (source = v /\ v = r)) OBVIOUS
    <3> HIDE DEF touched
    <3>2. ChangeInTime(v, q, touched) BY <3>1, StakeInTime
    <3> QED BY <2>0, <2>1, <3>1, <3>2, ChangebwInTime
  <2>2. ASSUME NEW source \in Voters, NEW r \in Receivers, NEW q \in StakeQty,
               NEW transfer \in BOOLEAN, Delegatebw(source, r, q, transfer)
        PROVE  RefundsInTime'
    <3>1. CASE transfer
      <4>1. r \in Voters /\ Changebw(source, r, r, q) BY <2>2, <3>1 DEF Delegatebw
      <4> QED BY <2>1, <4>1
    <3>2. CASE ~ transfer
      <4>1. Changebw(source, source, r, q) BY <2>2, <3>2 DEF Delegatebw
      <4> QED BY <2>1, <4>1
    <3> QED BY <3>1, <3>2
  <2>3. ASSUME NEW v \in Voters, NEW r \in Receivers, NEW q \in UnstakeQty, Undelegatebw(v, r, q)
        PROVE  RefundsInTime'
    <3> DEFINE delta == Minus(Nothing, q)
    <3>1. Changebw(v, v, r, delta) BY <2>3 DEF Undelegatebw
    <3>2. TotalOf(delta) < 0 /\ ChangeInTime(v, delta, TRUE) BY UnstakeInTime
    <3> HIDE DEF delta
    <3>3. TRUE = (TotalOf(delta) < 0 \/ (v = v /\ v = r)) BY <3>2
    <3> QED BY <2>0, <3>1, <3>2, <3>3, ChangebwInTime
  <2> QED BY <1>1, <2>2, <2>3 DEF StakingStep
<1>2. CASE RefundStep BY <1>2, RefundStepInTime
<1>3. CASE Tick
  <2>1. UNCHANGED <<refunds, deferred>> /\ (now' = now \/ now' = now + 1)
    BY <1>3 DEF Tick, stakingVars
  <2>2. /\ refunds \in [Voters -> RefundRow \cup {None}] /\ now \in Int
    BY DEF SystemInv, StakesOK, VotersOK
  <2>3. ASSUME NEW v \in Voters PROVE RefundInTime(refunds[v], deferred[v], now)'
    <3>1. RefundInTime(refunds[v], deferred[v], now) BY DEF RefundsInTime
    <3>2. refunds[v] # None => refunds[v].request_time \in Int BY <2>2 DEF RefundRow
    <3>3. refunds[v] # None => refunds[v].request_time <= now'
      BY <2>1, <2>2, <3>1, <3>2 DEF RefundInTime
    <3> QED BY <2>1, <3>1, <3>3 DEF RefundInTime
  <2> QED BY <2>3 DEF RefundsInTime
<1>4. CASE UNCHANGED <<refunds, deferred, now>>
  BY <1>4 DEF RefundsInTime, RefundInTime
<1>5. RamStep => UNCHANGED <<refunds, deferred, now>> BY DEF RamStep
<1>6. AdminStep => UNCHANGED <<refunds, deferred, now>> BY DEF AdminStep, stakingVars
<1>7. /\ VotingOnly => UNCHANGED <<refunds, deferred, now>>
      /\ NameStep => UNCHANGED <<refunds, deferred, now>>
      /\ (\E n \in Names, b \in Bidders : BidrefundCall(n, b))
            => UNCHANGED <<refunds, deferred, now>>
      /\ (\E creator \in Creators, n \in NewNames : Newaccount(creator, n))
            => UNCHANGED <<refunds, deferred, now>>
      /\ PayStep => UNCHANGED <<refunds, deferred, now>>
      /\ UNCHANGED vars => UNCHANGED <<refunds, deferred, now>>
  BY DEF VotingOnly, NameStep, BidrefundCall, Newaccount, PayStep, vars, stakingVars
<1> QED BY <1>1, <1>2, <1>3, <1>4, <1>5, <1>6, <1>7 DEF Next

LEMMA InTimeStarts == Init => RefundsInTime
BY DEF Init, StakingInit, RefundsInTime, RefundInTime

\* The stake account has what any one voter has on its way back.
LEMMA OneIsFunded ==
  ASSUME SystemInv, NEW v \in Voters
  PROVE  TotalOf(Pending(v)) <= core["eosio.stake"]
<1>1. /\ refunds \in [Voters -> RefundRow \cup {None}]
      /\ delband \in [Voters -> [Receivers -> Amounts]]
      /\ core["eosio.stake"] = StakedInAll + PendingInAll
  BY DEF SystemInv, StakesOK, StakesAreFunded
<1>2. /\ StakedInAll = SumFunction(StakedRows) /\ PendingInAll = SumFunction(PendingRows)
      /\ \A x \in Voters : StakedBy(x) \in Nat
  BY <1>1, StakesAre
<1>3. DOMAIN StakedRows = Voters /\ \A x \in Voters : StakedRows[x] \in Nat
  BY <1>2 DEF StakedRows
<1>4. DOMAIN PendingRows = Voters /\ \A x \in Voters : PendingRows[x] \in Nat
  BY <1>1, PendingIs DEF PendingRows
<1>5. PendingRows[v] = TotalOf(Pending(v)) BY DEF PendingRows
<1> HIDE DEF StakedRows, PendingRows
<1>6. SumFunction(StakedRows) \in Nat BY <1>3, SumNat, VotersFinite DEF SumFunction
<1>7. SumFunction(PendingRows) \in Nat /\ PendingRows[v] <= SumFunction(PendingRows)
  BY <1>4, SumNat, VotersFinite DEF SumFunction
<1>8. PendingRows[v] \in Nat BY <1>4
<1> QED BY <1>1, <1>2, <1>5, <1>6, <1>7, <1>8

LEMMA InTimePays == SystemInv /\ ChainOK /\ RefundsReal /\ RefundsInTime => DueRefundsPay
<1> SUFFICES ASSUME SystemInv, ChainOK, RefundsReal, RefundsInTime, NEW v \in Voters,
                    deferred[v] # None, deferred[v] <= now, refunds[v] # None
             PROVE  CanRefund(v)
  BY DEF DueRefundsPay
<1>1. /\ refunds[v] \in RefundRow /\ deferred[v] \in Nat /\ now \in Int /\ RefundDelay \in Nat
      /\ refunds \in [Voters -> RefundRow \cup {None}]
  BY StakingAssumption DEF SystemInv, StakesOK, VotersOK, ChainOK
<1>2. refunds[v].request_time + RefundDelay <= deferred[v] /\ refunds[v].request_time \in Int
  BY <1>1 DEF RefundsInTime, RefundInTime, RefundRow
<1>3. Pending(v) = refunds[v].amount /\ Pending(v) # Nothing /\ Pending(v) \in Amounts
  BY <1>1, PendingIs DEF Pending, RefundsReal
<1>4. TotalOf(Pending(v)) > 0 BY <1>3, AmountsAre
<1>5. CanPay(core, "eosio.stake", TotalOf(refunds[v].amount))
  BY <1>3, <1>4, OneIsFunded DEF CanPay
<1>6. refunds[v].request_time + RefundDelay <= now BY <1>1, <1>2
<1> QED BY <1>5, <1>6 DEF CanRefund

\* A deferred refund that is due is never early and never unfunded, whatever stakes,
\* unstakes and refunds by hand came in between: running it pays the pending refund
\* in full (changebw, refund).
THEOREM DueRefundsArePaid == Spec => []DueRefundsPay
<1>1. RefundsReal /\ SystemInv /\ SystemInv' /\ CashOK /\ CashOK' /\ [Next]_vars => RefundsReal'
  BY PoolStep
<1> QED BY <1>1, PoolStarts, InTimeStarts, InTimeStep, InTimePays, CashAlways, SystemAlways,
           PTL DEF Spec
=============================================================================
