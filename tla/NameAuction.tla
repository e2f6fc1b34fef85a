----------------------------- MODULE NameAuction ----------------------------
(***************************************************************************)
(* The auctions of short account names: bids, refunds of those who were    *)
(* outbid with the deferred calls that pay them, and the creation of the   *)
(* account.  Auctions are closed in onblock (ProducerPay).                 *)
(* Source: src/decentralbank.system/eosio.system.cpp.                      *)
(***************************************************************************)
EXTENDS CoreToken

CONSTANTS
  Bidders,  \* the users that bid and create accounts
  Names,    \* names without a dot that are too short to be created freely,
  Subnames, \* names with a dot,
  Suffix,   \* the name that each of them ends in,
  PlainNames, \* and names of 12 characters
  BidQty    \* the amounts bid

NewNames == Names \cup Subnames \cup PlainNames

ASSUME NameAssumption ==
  /\ Bidders \subseteq Users /\ IsFiniteSet(Names)
  /\ Suffix \in [Subnames -> Names] /\ Names \cap Subnames = {}
  /\ PlainNames \cap (Names \cup Subnames) = {}
  /\ NewNames \cap Accounts = {} /\ None \notin NewNames
  /\ BidQty \subseteq Nat \ {0}
  /\ None \notin [high_bidder: Bidders, high_bid: Int, last_bid_time: 0 .. MaxDay]

VARIABLES
  bids,       \* the highest bid on each name, negative when it is closed
  bidrefunds, \* what each bidder is owed of each auction
  bidcalls,   \* the deferred calls of bidrefund, by name and bidder
  created     \* the names that are accounts

nameVars == <<bids, bidrefunds, bidcalls, created>>

BidRow == [high_bidder: Bidders, high_bid: Int, last_bid_time: 0 .. MaxDay]

NameInit ==
  /\ bids = [n \in Names |-> None]
  /\ bidrefunds = [n \in Names |-> [b \in Bidders |-> 0]]
  /\ bidcalls = {}
  /\ created = {}

Outbids(amount, high) == amount - high > high \div 10

Owing(n, b, amount) == [bidrefunds EXCEPT ![n][b] = @ + amount]

\* Faulty variant of Called: only the first refund of an auction is sent.
CalledOnce(n, b) == IF \E c \in bidcalls : c[1] = n THEN bidcalls
                    ELSE bidcalls \cup {<<n, b>>}
\* A call of the same name and bidder that has not run is cancelled first.
Called(n, b) == bidcalls \cup {<<n, b>>}

Bidname(b, n, amount) ==
  /\ n \notin created
  /\ CanPay(core, b, amount)
  /\ core' = Paid(core, b, "eosio.names", amount)
  /\ bids' = [bids EXCEPT ![n] =
       [high_bidder |-> b, high_bid |-> amount, last_bid_time |-> now]]
  /\ \/ bids[n] = None /\ UNCHANGED <<bidrefunds, bidcalls>>
     \/ /\ bids[n] # None
        /\ bids[n].high_bid > 0
        /\ Outbids(amount, bids[n].high_bid)
        /\ bids[n].high_bidder # b
        /\ bidrefunds' = Owing(n, bids[n].high_bidder, bids[n].high_bid)
        /\ bidcalls' = Called(n, bids[n].high_bidder)
  /\ UNCHANGED created

\* Faulty variant of BidRefunded: the row is not erased.
RefundedAgain(n, b) ==
  /\ core' = Paid(core, "eosio.names", b, bidrefunds[n][b])
  /\ UNCHANGED bidrefunds

BidRefunded(n, b) ==
  /\ core' = Paid(core, "eosio.names", b, bidrefunds[n][b])
  /\ bidrefunds' = [bidrefunds EXCEPT ![n][b] = 0]

\* Anybody may ask for the refund of b.
Bidrefund(n, b) ==
  /\ CanPay(core, "eosio.names", bidrefunds[n][b])
  /\ BidRefunded(n, b)
  /\ UNCHANGED <<bids, bidcalls, created>>

\* The chain runs the deferred call; if the refund was made it fails.
RunBidrefund(n, b) ==
  /\ <<n, b>> \in bidcalls
  /\ bidcalls' = bidcalls \ {<<n, b>>}
  /\ IF CanPay(core, "eosio.names", bidrefunds[n][b])
     THEN BidRefunded(n, b) ELSE UNCHANGED <<core, bidrefunds>>
  /\ UNCHANGED <<bids, created>>

\* newaccount: who may create which name.  The system's account may create
\* any; it leaves a bid as it is.
MayCreate(creator, n) ==
  /\ n \notin created
  /\ \/ creator = "eosio"
     \/ n \in PlainNames /\ creator \in Users
     \/ n \in Subnames /\ creator = Suffix[n] /\ creator \in created
     \/ /\ n \in Names /\ bids[n] # None
        /\ bids[n].high_bidder = creator /\ bids[n].high_bid < 0

Created(creator, n) ==
  /\ created' = created \cup {n}
  /\ bids' = IF n \in Names /\ creator # "eosio" THEN [bids EXCEPT ![n] = None] ELSE bids
  /\ UNCHANGED <<bidrefunds, bidcalls>>
-----------------------------------------------------------------------------
(* Properties *)

BidOn(n) == IF bids[n] = None THEN 0
            ELSE IF bids[n].high_bid < 0 THEN -bids[n].high_bid ELSE bids[n].high_bid
OwedOf(n) == SumFunction(bidrefunds[n])

\* The names account can always pay those who were outbid, of all auctions,
\* and still has the highest bids, open or closed: a refund paid by hand does
\* not make the deferred one pay with the bids of others (bidname, bidrefund).
BidsAreFunded ==
  core["eosio.names"] >= SumFunction([n \in Names |-> BidOn(n) + OwedOf(n)])

\* Whoever is outbid, also twice in one auction, is paid back by the deferred
\* calls without asking (bidname).
BidRefundsArrive ==
  \A n \in Names, b \in Bidders : bidrefunds[n][b] > 0 ~> bidrefunds[n][b] = 0
=============================================================================
