# DecentralBank: a verification project

DecentralBank is a set of EOSIO smart contracts in C++.  Its core is Maker: a
contract in which owners lock collateral in collateralised debt positions
(CDPs), draw a stablecoin against them, are liquidated by auction when the
collateral loses its value, and vote with the IQ token on the types of CDP that
exist.  Around it stand four token contracts (IQ, seigniorage shares, bonds, the
system token) and a copy of the EOSIO system contract (stakes and votes,
producers and their pay, the market of RAM, auctions of names).

This directory holds TLA+ specifications translated from that source, the TLC
configurations that check them on small instances, and TLAPS proofs of the
results that hold for every instance.  Paths are relative to `src/`; `cpp` and
`hpp` stand for `Maker/daiqcontract.cpp` and `Maker/daiqcontract.hpp`; files without
a directory are in `decentralbank.system/`.

    tlc -config MCCdp.cfg MCCdp          # check one instance
    tlapm Cdp_proof.tla                  # check the proofs of one module

## 1. Inventory

What all contracts have in common is the EOSIO execution model, and the models
rest on it:

* An **action** is atomic.  A failed `eosio_assert`, in the action, in a
  contract it notifies or in an action it sends inline, reverts everything.  In
  the models a failed assertion is the absence of a step.
* Actions of different accounts **interleave** in any order.  All that persists
  between them are multi-index tables.
* A **deferred transaction** is a step of its own, some time after its delay.
  The chain takes it off the queue before it runs; if it fails it is lost.
* `multi_index::modify` changes the cached row in place, so a reference taken
  before it reads the new value after it.
* Integer division by zero traps, which reverts the action like an assertion.

| Component | State | Operations | Correct when |
|---|---|---|---|
| CDP engine: tables and price feeds (`cpp:684-820`) | `stat` (types, and proposed parameters in the scope of their proposer), `feed`, `accounts` | `upfeed`, `sub_balance`, `add_balance` | no balance is negative or mixes tokens of two contracts; prices follow what is fed |
| CDP engine: positions (`cpp:43-326, 722-791`) | `cdp` | `open`, `lock`, `bail`, `draw`, `wipe`, `shut`, `settle`, `deposit`, `withdraw`, `close` | what the contract holds is what users may claim; the totals of a type are the sums over its positions; no owner can dip below the liquidation ratio |
| CDP engine: auctions (`cpp:363-520`) | `bid` | `liquify` | losers are refunded, winners get what they bid for, bids stay in the currency asked |
| CDP engine: referenda (`cpp:328-361, 522-682`) | `prop`, parameters in `stat`, stakes in `accounts`, the deferred queue | `propose`, `vote`, `referended` | a proposal ends in a strict majority and takes effect only with it; all staked IQ comes back; every session ends |
| IQ token (`Maker/everipediaiq.cpp`) | `stat`, `accounts` | `create`, `issue`, `transfer`, `burn`, `epartpropose`, `epartvote` | supply = sum of balances ≤ maximum; stakes arrive |
| Seigniorage shares (`SeigniorageShares/eosio.token.cpp`), system token (`decentralbank.system/eosio.token.cpp`, the same file but for an include) | the same | `create`, `issue`, `retire`, `transfer`, `open`, `close` | the same |
| Bonds (`Bonds/bond.cpp`) | `bondstats`, `accounts`, `bonds` | `create`, `issue`, `transfer`; `create_bond` is private and unused | the same |
| System: voting (`voting.cpp`) | `producers`, `producers2`, `voters`, totals in `global`, `global2`, `global3` | `regproducer`, `unregprod`, `rmvproducer`, `voteproducer`, `regproxy`, the propagation of weights | a producer's votes are the weights of those who vote for it, through proxies too, and no more than is staked; chains of proxies end |
| System: resources (`delegate_bandwidth.cpp`, `exchange_state.cpp`) | `delband`, `userres`, `refunds`, the chain's limits and deferred calls; `rammarket` | `delegatebw`, `undelegatebw`, `refund`; `buyram`, `buyrambytes`, `sellram`, `setram`, `setramrate`, `setalimits` | what is staked or on its way back is in the stake account, and is paid once; the four records of a stake agree; RAM is neither lost nor sold twice, and nobody gains from rounding |
| System: pay, names, parameters (`producer_pay.cpp`, `eosio.system.cpp`, `native.hpp`) | buckets and counts in `global`, `namebids`, `bidrefunds` | `onblock`, `claimrewards`, `updtrevision`, `bidname`, `bidrefund`, `newaccount`; `setparams`, `setpriv`, `setabi` | the accounts that pay cover the buckets; running totals of shares agree with the rows; bids are funded and whoever is outbid is paid |
| Helpers (`libraries/`), scripts, `.abi` files, documents | none | string helper, set-up | not modelled |

**Interactions.**  A `transfer` at a token contract notifies Maker, whose
`transfer` handler is `deposit` (`cpp:722-743`, dispatched at `cpp:822-830`); if
that fails so does the transfer.  `withdraw` sends an inline `transfer` back.
`issue` of the tokens credits the issuer and pays on in an inline `transfer`.
`epartpropose` and `epartvote` send a stake and an inline call to the article
contract `eparticlectr`, which is not in the repository.  `propose` and
`referended` send deferred calls of `referended`, `undelegatebw` of `refund`, and
`bidname` of `bidrefund`.  `changebw` ends in `update_votes`, so that every stake
moves votes, also those of the proxies behind it; `update_votes` and
`claimrewards` share the totals of the pay by votes; `onblock` closes name
auctions, and `newaccount` erases what they leave.  All system actions pay by
inline transfers of the core token.  Maker's `transfer` action is
declared but is not in the dispatch list of `apply` (`cpp:828`), so it cannot be
called and is not modelled.

**What is hard here.**  Actions of many accounts on shared totals; an auction
whose rounds change lot and currency, against clocks; deferred calls that can
collide, fail and be lost; state that a deferred call finds changed; rows that
are found by a part of their key only (symbol code without precision, token
symbol without token contract, proposals and types in one table, votes and
balances in one table); truncating integer arithmetic; tallies and totals that
change by differences over many actions; deferred refunds racing refunds by hand.  `PROJECT.json` lists
each hazard at its line with the properties that guard against it.

## 2. Modules

    DaiqTables ── Cdp ── Liquidation          Ledger  (abstract)
         │                                       ▲ implements
         └── Referendum ── implements Ballot   Tokens
                                                 ├── IqToken ─────┐
                                                 ├── SharesToken ─┼── TokenTables
                                                 └── BondToken ───┘

    CoreToken ─┬─ Voting ─┬─ Staking ── RamMarket ─┬─ SystemContract ── MCSystem
               │          └─ ProducerPay ──────────┘        │ implements
               └─ NameAuction ─┘                        StakePool  (abstract)

The modules of proofs stand beside these, each with the theorems of one component:

    Sums ─┬─ DaiqTables_proof ─┬─ Cdp_proof ── Liquidation_proof
          │                    └─ Referendum_proof
          ├─ Tokens_proof
          └─ Voting_proof ── System_proof

**Conventions.**  A table is a function from its keys to a row, or `None`.  Tables
with two keys are curried (`cdp[t][o]`).  A time stamp is kept as the *age* of its
row, because the code only reads `now()` minus a stamp, and `Tick` actions age
all rows by a second up to the age from which nothing changes any more.  Amounts
are integers in the units of their token.  A symbol of `DaiqTables` stands for a
symbol code with its precision.  Operators called "faulty variant" are what a
plausible bug would make of the operator below them; nothing uses them but the
mutation check, in which a run must find its property violated.

* **`DaiqTables`**: `stat`, `feed`, `acnt` (the `accounts` table), the two balance
  helpers, `upfeed`, and the ageing of prices.  `Debit`/`Credit` are functions on
  the balance table and `CanDebit`/`CanCredit` their assertions, so that an action
  which calls several helpers composes them.
* **`Cdp`**: one action for each owner action, `settle`, `deposit`, `withdraw` and
  `close`, the variables `cdp` and `vault`.  `vault[c][s]` is what this contract
  holds of symbol `s` at token contract `c`; it is external state and stands for
  the contract's row in that token's ledger.  `close` erases through a copy of
  the row, which is undefined: it aborts (no step) or works (the step).
* **`Liquidation`**: `liquify` as `FirstBid`, `Outbid` and `NewRound`, its three
  branches, each with the common tail `Conclude`; variable `bid`.
* **`Referendum`**: `propose`, `vote`, `referended`, and the deferred queue of the
  chain: `RunDeferred` takes a due call off the queue and runs it, or drops it when
  it fails.  Kept apart from positions: both use `stat` and `acnt`, but no position
  action reads a proposal and `MajoritiesDecide` covers that the type of a referendum is there.
* **`Ballot`**: what a referendum promises, without scopes, deferred calls or clocks.
* **`TokenTables`**, **`IqToken`**, **`SharesToken`**, **`BondToken`**: the tables the token
  contracts share, and each contract's actions.  `issue` is a single step with its
  inline transfer, because either failing reverts both.
* **`Tokens`**: an account that runs one of the three, chosen at the start.
* **`Ledger`**: what a token promises: mint, destroy, move.
* **`Sums`**: facts about the sum of a function over a finite set (the community
  module's `SumFunctionOnSet`), proved by minimal counterexample because induction
  over sets needs a theorem with an operator parameter.
* **`CoreToken`**: what the system contract uses of the core token, balances and
  payments, and the clock.  Time stamps are kept as days here, because the guards
  compare them with one another and not only with the present.
* **`Voting`**: producers, voters, proxies.  `update_votes` and
  `propagate_weight_change` change three tables in many small steps of one action, so
  they are functions on a record of the tables (`Tables`, `Become`): `UpdateVotes` is
  the one, `Hop` a call of the other and `Propagate` the chain of its calls.
  `Voteproducer` and `Changebw` use the same `UpdateVotes`, as in the code.
* **`Staking`**: `changebw` as `Changebw` with its four parts (`Delegate`, `Settled` and
  `Owed`, `Rescheduled`, `Restaked`), the refund by hand and by the chain's deferred
  call.
* **`RamMarket`**: trades, grants and growth of RAM.  With both connector weights 1/2
  the two halves of a Bancor trade are `to * n / (from + n)`, rounded down:
  `convert_to_exchange` issues `R(sqrt(1 + T/C) - 1)` with `T` already in `C`, and
  `convert_from_exchange` gives `C((1 + E/R)^2 - 1)` for it.
* **`NameAuction`**, **`ProducerPay`**: bids, refunds and new accounts; blocks, schedules,
  claims.
* **`SystemContract`**: all of these with the clock; each of its steps says what it
  leaves alone.
* **`StakePool`**: what staking promises.  `ImplementsStakePool` maps the tables to it:
  what a voter has delegated in all is `staked`, its row of `refunds` is `pending`,
  and votes, RAM, names and pay are `Elsewhere`.
* **`DaiqTables_proof`**, **`Cdp_proof`**, **`Liquidation_proof`**, **`Referendum_proof`**,
  **`Tokens_proof`**, **`Voting_proof`**, **`System_proof`**: theorems and their lemmas
  (section 4).
* **`MCCdp`**, **`MCLiquidation`**, **`MCReferendum`**, **`MCTokens`**, **`MCSystem`**: values of
  the constants.  The five `cfg` files of `MCSystem` give the parts that a run is not
  about empty sets of inputs.

## 3. Runs

### Passing

| Run | Question | Instance |
|---|---|---|
| `cdp` | Can any order of owner actions, deposits from the real and from a worthless token contract, settlement and price feeds lose a token, let a total drift, or let an owner dip below the ratio? | two owners, one type, EOS at two contracts; each amount is half of what an owner can have, so positions are filled, drawn to their limit, wiped, shut and reopened |
| `liquidation` | Do the rows of an auction stay in step, are losers refunded, do bids raise one target and does the total of a type cover what live positions owe, through all rounds? | starts from an empty live type, whose positions are taken over when `upfeed` takes the price to zero, or from a settled type with two drawn positions and a stale price of zero: bids that fall short, meet the debt, exceed it; shortfalls sold for IQ, surpluses asked in IQ; symmetric users |
| `referendum` | Do votes and stakes agree, is each voter's IQ kept, can a majority always be carried out, are parameters and calls those of the session, is a referendum a ballot? | two types, two voters of unequal stake, new, changed, settling and invalid proposals; clock of two ticks |
| `ref_live` | Does every session get its referendum, and does every session with a majority end? | one type, so that no two ties can collide; the contract's account may call `referended` early |
| `tokens` | Do the token contracts keep supply and balances equal and rows in order, and do they implement `Ledger`? | each of the three contracts, two holders and the article contract, a code in two precisions |
| `voting` | Do tallies that change by differences stay what the rows say, and do proxies end? | three voters with a token each, two of them proxies, one producer that may leave and come back; the weight of a token doubles on the second day; the chain is activated when all three have voted |
| `staking` | Is every token staked or on its way back paid once, to its owner? Do the records of a stake agree, is no deferred refund too early, and is staking a `StakePool`? | two users, each for both; two pairs of net and cpu at once, each kind unstaked on its own, so that a refund is taken back in parts; a delay of one day, which a second unstake restarts |
| `ram` | Do quota, market, size and stake agree, and does rounding favour the market? | trades of two sizes by amount and by bytes, a grant, two rates with a word of growth that wraps, an account created on the way |
| `pay` | Do the running totals of shares agree with the producers' rows, and do accounts cover the buckets? | two producers, ballots for both, one or nobody, four days with the code's claim window of three, both revisions, 23% of the supply issued a day, so that the divisions leave remainders |
| `names` | Are bids funded, and is whoever was outbid paid? | two bidders, two names and one below a suffix, three amounts; accounts created by the winner, the suffix and the system |

The properties and what they mean are stated above their definitions.  A few
that a reader should know:

* `VaultMatchesClaims` (Cdp): balances by token contract + locked collateral +
  collected fees = what the contract holds at that token contract, always.  In
  auctions it weakens to `VaultCoversClaims`, for all tokens but IQ, because a
  round that sells IQ credits IQ that the contract does not have (`cpp:469`).
* `OwnersStaySafe`: no step but a change of price takes a position from at or
  above its ratio to below it.
* `AuctionHasBid`: a position is under auction exactly while a bid stands on it,
  and then has a debt or a surplus: the code reads both rows without a check.
* `ImplementsBallot`, `ImplementsLedger`, `ImplementsStakePool`: refinements.
* `VotesAreWeights` says that the tallies are the sums over the voters' rows;
  `VotesAreBacked` says what those sums are worth: a producer's votes lie between
  the stake that speaks for it at the weight of the first day and at that of today.
* `ActivationIsStaked` is about the step that activates the chain; section 5 says
  what happens to the count afterwards.
* `MajoritiesDecide`: a session that is not tied could be decided now.  One refund that
  fails reverts a referendum with everyone's refunds, and the deferred call that tried
  is lost; so no sequence of votes, changes of vote and sessions may lead there.
* `DueRefundsPay`: the deferred call of a refund is one attempt.  Unstaking again, staking
  out of the pending refund and refunds by hand each move the request or the call; the
  call must never find the request too young, or the stake account short.
* `TotalCoversDebts`: auctions leave the total of a type above what positions owe
  (section 5), and never below what live ones do.
* `SessionsStandAlone`: neither a queued `referended` nor parameters that wait in a
  proposer's scope ever meet the session of a later proposal.  It is checked where the contract's account makes no calls; one such
  call before the queued one leaves the queued one behind.

**Bounds.**  Time is bounded by ages: `MaxAge`, `FeedFresh`, `MaxBidAge`,
`VotePeriod`; beyond each the guards of the code no longer change.  In `cdp` a
position older than one second pays the fee of that age: the fee only moves IQ.
`SecYr` is 10, so that one second already earns a fee.  `MaxAmount` is above
what deposits (`Supply`) can add up to, so no run is cut off by it, except where a
range assertion is the point.  Prices are 100 and, through `upfeed`'s smoothing
(section 5), 0; a type's parameters keep the units of the code.  The token
run scales amounts to multiples of 25000 and keeps the code's 50 and 1000.
States are counted after symmetry where a run uses it; users are then
interchangeable (no user is a feeder or proposer).

In the system runs `MaxDay` bounds the clock, `MaxUnpaid` the blocks counted,
`MaxActivated` the count of activated stake (which voting again after unstaking all
raises without end), and the supply of the core token is what users start with.
`RamWord` is 3 so that growth wraps within two days; `ClaimWindow` is 3, as in the
code.  The days that the
code requires between claims and between closings are its own.  The calls that
nobody may make in a run (no bids in `pay`, no trades in `names`) touch none of the
tables of that run's properties, except that all pay with the core token from
accounts of their own.

**Deadlock.**  It is checked everywhere except in `tokens`, where the system may
stop: all IQ may be staked with the article contract, which pays nothing in the
model.

**Fairness** (`RefFairness`, only in `ref_live`): time passes, and the chain runs
every deferred call whose delay has passed, which is what its producers do.  No
fairness is assumed of any user, nor of the contract's own account.  `FairSpec`, only
in `names`, assumes the same of the deferred calls of `bidrefund` and nothing else,
not even that time passes, as their delay is zero.

### Violations

Each of these states what a comment, document or test says and the code does not
do.  The finding in `PROJECT.json` quotes both.

| Run | Shows |
|---|---|
| `winner` | a round that ran out of time writes its lot off before paying it out: the winner gets nothing (`cpp:437-453`) |
| `tie_collision` | two ties of one proposer in one second: the second deferred call fails on its id and that session has no referendum any more (`cpp:625`) |

## 4. Proofs

**Assumptions.**  Each module names what it asks of its constants
(`TablesAssumption`, `CdpAssumption`, ..., `VotingAssumption`, `StakingAssumption`,
`NameAssumption`): finite sets of users, types and names, amounts in the range of
`asset`, `None` is no row, a type starts with empty totals and its stablecoin is not
IQ (`cpp:588` gives it another precision), weights of a token that do not fall from
one day to the next.  TLC evaluates them in the runs.  Four hypotheses are of
theorems and not of modules, because the code does not enforce them and the
theorem is false without them:

* `MoneyIsNotCollateral` (`AuctionsKeepVault`): no type takes as collateral IQ, its
  stablecoin or the token it is priced in.  `propose` does not check it; TLC finds
  `VaultCoversClaims` violated where a type's collateral is its own stablecoin.
* `NoDirectCalls` (`SessionsAlwaysStandAlone`, `ReferendumIsBallot`): the contract's own account makes no call of `referended` but
  the deferred ones.  A direct call ends a session whose deferred call stays behind
  and meets the next one.
* `UsersPropose` (`ReferendumIsBallot`): the contract's own account proposes nothing;
  such a proposal writes the law before anybody votes (section 5).
* `TiesApart` (`SessionsStayScheduled`): where a deferred call is due at a tie, no call of
  the same proposer for another type was sent in the same second, so that the id of the
  next call is free.  `tie_collision` is the behaviour it excludes.  With one type it
  always holds, which is `OneTypeStaysScheduled`, without a hypothesis on behaviours.

**How the modules of proofs build on each other.**  `Sums` and `DaiqTables_proof` are
lemmas on the operators: sums that change at one point (`SumUpdate`), and what `Debit`,
`Credit` and their assertions do to a balance table, token by token.  Every
conservation theorem is then the same argument: an action changes one or two rows,
and by `SumUpdate` the totals of those tables by the same amount.

* **`Cdp_proof`**.  `TypeCorrect`: the type invariant is inductive as it stands, by the
  assertions of the code.  `TotalMatchesDebts`: with the types, as `draw`, `wipe` and
  `shut` change the total by what they change the debt.  `VaultConserved` and
  `MoneyConserved` need `CdpInv`, which states the conservation of stablecoin for each
  user (`OwnDebtsMatch`): `wipe` and `shut` debit a row that the code finds by symbol
  only, and it is because the user owes that the row must be the contract's own
  stablecoin and not a deposit of the same symbol.  `TotalNeverShort` needs only the
  types.  `PositionsStaySafe` is an action property under `CdpInv`: a step other than
  `upfeed` that leaves a position below its ratio had found it there.
* **`Liquidation_proof`**.  `AuctionInv` (types, `AuctionHasBid`, `BidInAskedCurrency`,
  and a live position is not under auction) is inductive: the two row properties need
  one another, because `NewRound` swaps the currency that is asked.  From it come the two
  action properties `BidsPayOffOneSum` and `OutbidIsRefunded`.  `ClaimsInv` adds that
  collateral and money are apart and that feeds are priced in money; under it
  `VaultCoversClaims` is preserved by every branch of `liquify`.
  `TotalsCoverDebts` counts what live positions owe (`LiveSum`): a position that `liquify`
  has touched is gone or under auction, so that the sum falls by a debt that
  `LivePositions` keeps at 0 or more, while the total stays; owners move both alike.
* **`Referendum_proof`**.  `StakeInv` is the types with `VotesAreStaked` and `IQIsKept`,
  which speaks of every voter: what one has free and staked is what it started with.
  `MajorityInv` adds the code of the rows of IQ (`IQCode`) and `FlipHasType`: a session
  without parameters is about an existing type.  It needs no hypothesis, because proposals check the type and no session can remove one.
  From it `MajoritiesAlwaysDecide`: a refund fits into the range of an asset because the
  voter's IQ was there before it voted.
  `SessionInv` strengthens the two parts of `SessionsStandAlone` by `OneCall`: at most one call is
  queued for a type, so that the call which ends a session leaves none.
  `ReferendumIsBallot` maps every step to a move, a cast, a close or a stutter of
  `Ballot`.  `SessionsStayScheduled` strengthens `SessionScheduled` to `CallComes`: the
  session's call is queued for its deadline or later.  A call that comes too early would
  fail and be lost; a due one decides, by `MajorityInv`, or sends the next, which
  `TiesApart` keeps from failing on its id.
* **`Tokens_proof`**.  `CodesOK` is the inductive invariant, code by code: rows well
  typed and in one symbol, supply = sum of balances ≤ maximum, no empty rows where
  they are erased.  The parts need one another: `add_balance` has no check against
  the maximum of its own, and a balance stays in range because it is bounded by
  the sum, which is the supply, which `issue` bounds.  From `Changes` (every step leaves
  one code in order with an effect that a ledger has or does not see) follow the
  invariants and the refinement `TokensImplementLedger`.
  `StakesAlwaysArrive` adds that no step of the IQ contract takes from the article
  contract but its own payment, and that a stake brings what it is told of.
* **`Voting_proof`**.  Lemmas on `UpdateVotes` and `Propagate`.  The calls of
  `propagate_weight_change` are a function on their number; what the first has and each
  call keeps, the last has (`RunsKeep`, an induction on numbers by minimal
  counterexample).  So stakes, choices and links between rows survive a propagation
  of any length.  The tallies do not agree with the rows *between* the calls of one
  `update_votes`; what holds there is `Tallied`, in which the row of the voter that
  moves is replaced by two others, one for what it gives to producers and one for what
  it entrusts to a proxy, and `UpdateVotesTallied` follows the two from the old row to
  the new.  A call adds to a proxy's tally exactly what it adds to the last weight of
  the one before (`HopTallied`); the early stop of the code loses nothing, because
  weights are even, and the chain cannot reach the voter that moves
  (`ProxyAvoids`, from `NoLoop`).  `PropagateFresh`: the calls come to an end within the
  number of voters, because the voters that a call can still reach (`Leads`) become
  fewer with each (`LeadsShrink`, `RunsCount`); each call weighs its voter anew, so
  that in the end only the voter that moves may still carry a weight that is not that of
  its stake (`Fresh`, `FreshBut`).
* **`System_proof`**.  `SystemInv` is a conjunction by parts of the contract: `VotersOK`
  (rows that are named exist, proxies take no proxy, no loop), `StakesOK`, `DelegatedOK`,
  `RowsOK`, `MarketOK`, `NamesOK`, and that the three balances these speak of are
  integers.  `RowsOK` (an account that does not exist has no row of resources) is
  there because `newaccount` overwrites that row.  `changebw` is proved part by part
  (`SettledIs`, `DelegateIs`, `RestakedKeeps`): what its owner pays is the stake less what
  the pending refund gives, so that the stake account keeps `staked + pending`.
  `ProductKept` rests on one lemma about truncated division: what a trade takes out,
  `to * n div (from + n)`, leaves at least the product.
  `TalliesAreWeights` and `SharesAlwaysAgree` are one invariant on top of it, `Balanced`:
  the totals of shares change with the votes, and only as long as no tally is below 0
  is the floor of the code without effect.  When the day changes, the total grows by
  the rate and the rows by their votes, but for those that lapse (`TotalsNext`).  A claim
  takes a producer back among those that count, which needs a claim window above 0.
  `CashOK` and `ChainOK` are a third layer, for balances, buckets and the rest of the
  types: from it `BucketsFunded` and `SystemTypeCorrect`.
  `ActivationNeedsStake` rests on `Ready`: until the chain is activated, the count of
  activated stake is at most what is *heard* (`HeardIn`), the stake of the voters with a
  last weight above 0.  A first vote adds to both, a further one to neither; no
  propagation silences a voter that is heard, because its weight is at least its stake
  at the factor of the day (`HopHeard`, in `Voting_proof`); and nobody unstakes before
  the activation.  Here `None \notin 0 .. MaxDay` is needed: a day on which the chain
  is activated must not read as the time that is not set (0, the year 1970, in the code).
  `VotesStayBacked` rests on `Fresh`: the last weight of a voter, less what it holds as a
  proxy, is its stake at a factor between the first day's and today's.  What proxies hold
  is what their principals gave (`HeldIsGiven`, a sum over voters grouped by their
  proxies, `SumGroups`), so that summing up `Fresh` over those who speak for a producer
  bounds its votes.
  `StakingIsPool` maps every step to one of `StakePool`: a stake to `Stake` with what
  `Settled` takes from the refund, and so on; a row of refunds is never empty
  (`RefundsReal`), so that `refund` always pays something.  Where no stake moves, the
  stake account stays as it is because it is funded before and after the step.
  `DueRefundsArePaid` rests on `RefundsInTime`: a request lies in the past and its deferred
  call is a delay away from it or more.  An unstake that adds to a refund renews both, a
  stake that takes from it renews neither or cancels the call, and a payment removes the
  row; the funds are `StakesFunded`.

**Only model-checked**: liveness (`SessionsEnd`, `BidRefundsArrive`), which the proof
system does not reach.  `SessionsStayScheduled` with `MajoritiesAlwaysDecide` is what of
`SessionsEnd` is safety.

## 5. Disagreements met on the way, without a run

Of the CDP engine:

* `shut` adds the collateral it frees to `total_collateral` (`cpp:291`), against
  `hpp:178`, "total amount locked as collateral": `settle` then judges the type by
  collateral that is gone.  `TotalCoversLocked` is what remains true.
* A wipe is charged a hundred times the rate of `hpp:168`, "units are APR %"
  (`cpp:205-207`).
* The smoothing weights `17 / 20` and `3 / 20` are integer quotients, both 0
  (`cpp:710`), so the second price fed to a symbol sets it to 0, against
  `Maker/test.sh:489`; then `wipe` and new auction rounds divide by zero.
* A round that raises too little IQ sells the missing thousandths of IQ times the
  price as cents of stablecoin (`cpp:465`), a factor of 1000 too much, so that more
  circulates than `hpp:176` counts.
* `shut` also leaves the feeds' amounts in circulation as they were, against
  `hpp:185`; reads no price, against `hpp:85`; and charges no stability fee.
* `liquify` takes raised stablecoin off the bidder and the position and never off
  `total_stablecoin` or `total_collateral` (`cpp:405`, against `hpp:65` and `hpp:176`), so
  the global ceiling fills up for ever: two owners draw 40 each, their auctions destroy
  60, and the type counts 80 where 20 circulate.  `TotalCoversDebts` is what remains.
* `liquify` lets owners bid on their own positions, against `Maker/README.md:7`.
* `referended` needs the contract's own authority, against `hpp:56`, by which the
  proposer may call it.
* A proposal by the contract's own account shares its scope with the types in
  force and is erased in the moment it wins (`cpp:679`).
* A tie keeps the passed deadline: votes in the second period count, but a call by
  the contract's account may end it at any time.
* New parameters for a settled type make it live again (`cpp:656-669`).
* The first bid that meets the debt exactly always fails (`cpp:503-519` reads the
  row of a bid that was just made through an iterator to the end of the table).

Of the system contract:

* Any `changebw` that leaves a pending refund alone cancels its deferred call
  (`delegate_bandwidth.cpp:370-372`): an account that unstakes and then stakes for another
  one, or gets a third party's stake with the transfer flag, has a refund that no call
  comes for.  It waits until its owner asks, against `eosio.system.hpp:248-251`; so no
  liveness of refunds of stakes is stated.  What holds is that a call which is due does
  pay (`DueRefundsPay`).
* `buyrambytes` says "an exact amount of ram" (`delegate_bandwidth.cpp:86`), but `buyram`
  takes its fee from the price of that amount, so less is bought.
* `sellram` is documented in `eosio.system.hpp` with the average purchase price and
  pays the market price.
* The first vote is recognised by a last weight of zero (`voting.cpp:217-222`).  The
  comment rests on stakes that cannot be unstaked before activation; afterwards a
  voter who unstakes everything and stakes again is counted again, and one who
  registered as a proxy after staking has a weight before it votes and is never
  counted.
* "If voting for a proxy, the producer votes will not change until the proxy updates
  their own vote" (`voting.cpp:193`), and other accounts "must refresh their
  voteproducer to update the proxy's weight" (`voting.cpp:323-325`).  They need not:
  `update_votes` gives the weight to the proxy and on to its producers in the same action
  (`voting.cpp:252-261`), and so do `regproxy` and every stake
  (`propagate_weight_change`, `voting.cpp:350-407`).  `VotesAreBacked` states what the code
  does; by the comments its lower bound would fail from the vote for a proxy until the
  proxy votes.
* `regproxy` has "proxy must have something staked (existing row in voters table)" as a
  precondition (`voting.cpp:328`), and makes the row itself when there is none
  (`voting.cpp:342-346`).
* "An inline transfer from receiver" is to pay for RAM (`eosio.system.hpp:263-264`);
  `buyram` takes the payer's tokens (`delegate_bandwidth.cpp:124-127`).
* The growth of RAM is a product of 32 bits (`eosio.system.cpp:83`), which at the
  highest rate wraps when nobody trades for some nine hours; the comment at
  `eosio.system.cpp:96-100` counts on all of it.
* `newaccount` by the system's account leaves the bid on the name (`eosio.system.cpp:235`):
  the tokens stay in the names account without a claim (which is why `BidsAreFunded`
  is an inequality in the model; section 6 names another surplus).
* `buyram` sets the limit to the quota plus the gift (`delegate_bandwidth.cpp:162`) and
  `changebw` to the larger of that and what the chain has (line 286), so that a
  purchase can lower a limit which the system's account has set.

## 6. Not modelled, and why

* Wrapped 64-bit products in `wipe`'s fee and in `epartvote`'s amount: the runs
  stay below; the hazard list names them.
* Symbols of one code in two precisions inside Maker (`DaiqTables` takes a symbol as
  a unit); the token modules do model them.
* The contract's own account as a holder of balances and positions; deferred
  transactions that expire; the two calls of one proposal due in one second count
  as one; a direct call of `referended` names the proposal's real proposer.
* Prices do not age in `Referendum`: a referendum reads no price.
* RAM payers, which only the chain's accounting sees.
* `create_bond`: private, called by nothing.
* Doubles.  Weights, shares and relay tokens are floating point in the code and
  integers here.  The code floors totals at 0 against rounding errors of doubles;
  the floors are kept (`AtLeast0`), and the invariants show that exact arithmetic never
  needs them.  The epsilon of `propagate_weight_change` is one unit (`Hop`), and
  factors are even so that it drops nothing.
* The relay token of a RAM trade is truncated between the two halves (`int64_t(E)`,
  `exchange_state.cpp:12-13`), by up to one unit of `E`, which is about `R * T / 2C`: a
  small trade loses noticeably more than a large one.  The model truncates once, at the
  end, with exact integers; what the code cuts off besides stays with the market, so
  `ProductNeverFalls` leaves it out on the safe side.  Rounding of the doubles
  themselves is not modelled.  `SystemContract` starts after `init`.
* Direct transfers of the core token (`decentralbank.system/eosio.token.cpp:87-111`), by
  which anybody may send tokens to `eosio.stake`, `eosio.ram`, `eosio.names`, `eosio.bpay`
  or `eosio.vpay`.  Nothing in the system contract reads or pays out what comes that way,
  so each such account then has a surplus and never a deficit: on the chain the equalities
  of these accounts in `StakesAreFunded`, `RamIsAccounted` and `BucketsAreFunded`, and
  the theorems that state them, are to be read as "at least", with equality for what the
  system contract itself pays.  `ImplementsStakePool` likewise maps the steps of the system
  contract, and no deposit from outside.
* The vesting of account `b1`; the limits of 30 producers of a ballot and of the size
  of `setram`; keys, urls and locations of producers.
* Branches for producers without a row of `producers2`: in this code the two rows are
  made together, so they are unreachable.  `last_block_num` is only written.
* `setparams`, `setpriv`, `setabi`, and the empty handlers of `native.hpp`.
* Accounts that are created in a run hold no core tokens.
* The chain's own producers, who run deferred calls, may also let them expire.

## 7. Plan

1. Done: the CDP engine with `Ballot`, the token contracts with `Ledger`, the system
   contract with `StakePool`.  Every safety invariant, action property and refinement
   that a passing run checks is proved, `SessionScheduled` under the hypothesis that
   makes it true.
2. Left: the two hazards of wrapped 64-bit products (`cpp:205`, `Maker/everipediaiq.cpp:169`),
   which no property covers; and a model of `setparams` and of the limits that it sets,
   were they to matter to a property.
