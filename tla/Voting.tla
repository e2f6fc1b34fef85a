------------------------------- MODULE Voting -------------------------------
(***************************************************************************)
(* Producers, voters and proxies of the system contract, and the shares of *)
(* the pay by votes that are kept with them.  Vote weights are doubles in  *)
(* the code and integers here.  The tables producers and producers2 have   *)
(* the same keys and are one.  Source: src/decentralbank.system/voting.cpp.*)
(***************************************************************************)
EXTENDS CoreToken

CONSTANTS
  Voters,          \* the users that stake and vote
  Candidates,      \* the users that register as producers,
  Leavers,         \* and those that leave or are removed
  Proxies,         \* the voters that register as proxies
  Ballots,         \* the sets of producers that voters vote for
  Factor,          \* the weight of a staked token on each day
  ClaimWindow,     \* days for which shares grow after a claim (3)
  MinActivatedStake

ASSUME VotingAssumption ==
  /\ Voters \subseteq Users /\ Proxies \subseteq Voters
  /\ Candidates \subseteq Users /\ Leavers \subseteq Candidates
  /\ Ballots \subseteq SUBSET Candidates /\ {} \in Ballots
  \* 2^(weeks / 52) since the year 2000: all weights are multiples of an
  \* amount above the epsilon of propagate_weight_change.
  /\ Factor \in [0 .. MaxDay -> Nat \ {0}]
  /\ \A d \in 0 .. MaxDay : Factor[d] % 2 = 0 /\ (d > 0 => Factor[d - 1] <= Factor[d])
  /\ ClaimWindow \in Nat \ {0} /\ MinActivatedStake \in Nat \ {0}
  \* None is no day: a time that is not set is 0 in the code, the year 1970.
  /\ None \notin 0 .. MaxDay
  \* None is no row, whatever numbers are in it.
  /\ None \notin [total_votes: Int, is_active: BOOLEAN, unpaid_blocks: Int,
                  last_claim_time: Int, votepay_share: Int, last_votepay_share_update: Int]
  /\ None \notin [staked: Int, proxy: Proxies \cup {None}, producers: SUBSET Candidates,
                  last_vote_weight: Int, proxied_vote_weight: Int, is_proxy: BOOLEAN]

VARIABLES producers, voters, gstate

votingVars == <<producers, voters, gstate>>

ProducerRow == [total_votes: Nat, is_active: BOOLEAN, unpaid_blocks: Nat,
                last_claim_time: 0 .. MaxDay, votepay_share: Nat,
                last_votepay_share_update: 0 .. MaxDay]
VoterRow == [staked: Nat, proxy: Proxies \cup {None}, producers: Ballots,
             last_vote_weight: Nat, proxied_vote_weight: Nat, is_proxy: BOOLEAN]
GlobalState == [total_activated_stake: Nat,
                thresh_activated_stake_time: (0 .. MaxDay) \cup {None},
                total_producer_vote_weight: Nat,
                total_producer_votepay_share: Nat,
                total_vpay_share_change_rate: Nat,
                last_vpay_state_update: 0 .. MaxDay]

VotingInit ==
  /\ producers = [p \in Candidates |-> None]
  /\ voters = [v \in Voters |-> None]
  /\ gstate = [total_activated_stake |-> 0, thresh_activated_stake_time |-> None,
               total_producer_vote_weight |-> 0, total_producer_votepay_share |-> 0,
               total_vpay_share_change_rate |-> 0, last_vpay_state_update |-> 0]

\* update_votes and propagate_weight_change change all three tables: they
\* are functions on a record of them.
Tables == [producers |-> producers, voters |-> voters, gstate |-> gstate]
Become(st) ==
  /\ producers' = st.producers /\ voters' = st.voters /\ gstate' = st.gstate
-----------------------------------------------------------------------------
(* The shares of the pay by votes: weight times days. *)

\* Shares stop growing ClaimWindow after the last claim.  The first change of
\* votes after that takes the share out of the total, once.
Crossed(row) == row.last_claim_time + ClaimWindow <= now
Lapsed(row) == row.last_claim_time + ClaimWindow <= row.last_votepay_share_update
Lapses(row) == Crossed(row) /\ ~ Lapsed(row)

ShareNow(row) == IF Lapsed(row) THEN row.votepay_share
  ELSE row.votepay_share + row.total_votes * (now - row.last_votepay_share_update)

\* update_total_votepay_share: the total at the rate until now, without the
\* shares that are lost, and the new rate.
TotalShareNow(g) == g.total_producer_votepay_share
  + g.total_vpay_share_change_rate * (now - g.last_vpay_state_update)
TotalUpdated(g, lost, rate) ==
  [g EXCEPT !.total_producer_votepay_share = AtLeast0(TotalShareNow(g) - lost),
            !.total_vpay_share_change_rate = AtLeast0(@ + rate),
            !.last_vpay_state_update = now]

\* A producer whose votes change by d.  Only update_votes floors them at 0.
Counted(row, d) ==
  [row EXCEPT !.total_votes = AtLeast0(@ + d),
              !.votepay_share = IF Lapses(row) THEN 0 ELSE ShareNow(row),
              !.last_votepay_share_update = now]

\* Faulty variant of RateChange: a lapsing producer still counts in the rate.
RateOfAll(row, d) == IF Lapsed(row) THEN 0 ELSE d

RateChange(row, d) == IF Lapses(row) THEN -row.total_votes
                      ELSE IF Crossed(row) THEN 0 ELSE d

\* The loop of both functions over the producers whose votes change by delta.
CountVotes(st, delta) ==
  LET D == DOMAIN delta
      rates == [p \in D |-> RateChange(st.producers[p], delta[p])]
      lost == [p \in D |-> IF Lapses(st.producers[p])
                           THEN ShareNow(st.producers[p]) ELSE 0]
      g == TotalUpdated(st.gstate, SumFunction(lost), SumFunction(rates))
  IN [st EXCEPT
        !.producers = [p \in Candidates |->
           IF p \in D THEN Counted(st.producers[p], delta[p]) ELSE st.producers[p]],
        !.gstate = [g EXCEPT !.total_producer_vote_weight = @ + SumFunction(delta)]]
-----------------------------------------------------------------------------
(* Vote weights *)

Weight(row) == row.staked * Factor[now] +
               (IF row.is_proxy THEN row.proxied_vote_weight ELSE 0)

Proxied(row, d) == [row EXCEPT !.proxied_vote_weight = @ + d]
WithProxied(st, v, d) == [st EXCEPT !.voters[v] = Proxied(st.voters[v], d)]
Weighed(row, w) == [row EXCEPT !.last_vote_weight = w]

\* Faulty variant of Hop: the proxy's own weight is not passed on.
HopOnce(call) ==
  LET row == call.st.voters[call.at]  w == Weight(row)
      seen == [call.st EXCEPT !.voters[call.at] = Weighed(row, w)]
      d == w - row.last_vote_weight
  IN IF row.proxy # None
     THEN [st |-> WithProxied(seen, row.proxy, d), at |-> None]
     ELSE [st |-> seen, at |-> None]

\* One call of propagate_weight_change: the change of a voter's weight goes
\* to the producers, or to the proxy and from there on in the next call.
\* The assertion on proxies that have a proxy is part of ProxiesEnd.
Hop(call) ==
  LET row == call.st.voters[call.at]  w == Weight(row)
      d == w - row.last_vote_weight
      seen == [call.st EXCEPT !.voters[call.at] = Weighed(row, w)]
  IN IF d \in -1 .. 1 THEN [st |-> seen, at |-> None]
     ELSE IF row.proxy # None
     THEN [st |-> WithProxied(seen, row.proxy, d), at |-> row.proxy]
     ELSE [st |-> CountVotes(seen, [p \in row.producers |-> d]), at |-> None]

\* The calls one after the other: there are no more than voters.
Propagate(st, v) ==
  LET call[n \in 0 .. Cardinality(Voters)] ==
        IF n = 0 THEN [st |-> st, at |-> v]
        ELSE LET last == call[n - 1] IN IF last.at = None THEN last ELSE Hop(last)
  IN call[Cardinality(Voters)].st

\* A first vote activates the stake of the voter.
Activated(g, stake) ==
  LET total == g.total_activated_stake + stake
  IN [g EXCEPT !.total_activated_stake = total,
        !.thresh_activated_stake_time =
           IF @ = None /\ total >= MinActivatedStake THEN now ELSE @]
\* Faulty variant of FirstVote: every vote counts as a first one.
EveryVote(g, row) == Activated(g, row.staked)
FirstVote(g, row) == IF row.last_vote_weight <= 0 THEN Activated(g, row.staked) ELSE g

\* Takes the last weight of v from where it went, and puts its weight on the
\* proxy or the producers chosen.
UpdateVotes(st, v, proxy, chosen) ==
  LET row == st.voters[v]
      new == Weight(row)
      old == row.last_vote_weight
      st1 == [st EXCEPT !.gstate = FirstVote(st.gstate, row)]
      st2 == IF old > 0 /\ row.proxy # None
             THEN Propagate(WithProxied(st1, row.proxy, -old), row.proxy) ELSE st1
      st3 == IF proxy # None
             THEN Propagate(WithProxied(st2, proxy, new), proxy) ELSE st2
      left == IF old > 0 /\ row.proxy = None THEN row.producers ELSE {}
      delta == [p \in left \cup chosen |-> (IF p \in chosen THEN new ELSE 0)
                                         - (IF p \in left THEN old ELSE 0)]
      st4 == CountVotes(st3, delta)
  IN [st4 EXCEPT !.voters[v] =
        [st4.voters[v] EXCEPT !.last_vote_weight = new,
                              !.producers = chosen, !.proxy = proxy]]

\* Faulty variant of CanVote: a proxy may take a proxy.
ProxyCanVote(v, proxy, chosen) ==
  /\ voters[v] # None
  /\ proxy # None => /\ chosen = {} /\ v # proxy
                     /\ voters[proxy] # None /\ voters[proxy].is_proxy
  /\ \A p \in chosen : producers[p] # None /\ producers[p].is_active

CanVote(v, proxy, chosen) ==
  /\ voters[v] # None
  /\ proxy # None => /\ chosen = {} /\ v # proxy
                     /\ ~ voters[v].is_proxy
                     /\ voters[proxy] # None /\ voters[proxy].is_proxy
  /\ \A p \in chosen : producers[p] # None /\ producers[p].is_active

Voteproducer(v, proxy, chosen) ==
  /\ CanVote(v, proxy, chosen)
  /\ Become(UpdateVotes(Tables, v, proxy, chosen))

NewVoter(stake, isproxy) ==
  [staked |-> stake, proxy |-> None, producers |-> {}, last_vote_weight |-> 0,
   proxied_vote_weight |-> 0, is_proxy |-> isproxy]

\* A registered proxy weighs anew, as does one that gives it up.
Regproxy(v, isproxy) ==
  \/ /\ voters[v] = None
     /\ voters' = [voters EXCEPT ![v] = NewVoter(0, isproxy)]
     /\ UNCHANGED <<producers, gstate>>
  \/ /\ voters[v] # None
     /\ isproxy # voters[v].is_proxy
     /\ isproxy => voters[v].proxy = None
     /\ LET row == [voters[v] EXCEPT !.is_proxy = isproxy]
        IN Become(Propagate([Tables EXCEPT !.voters[v] = row], v))

NewProducer ==
  [total_votes |-> 0, is_active |-> TRUE, unpaid_blocks |-> 0,
   last_claim_time |-> now, votepay_share |-> 0, last_votepay_share_update |-> now]

\* A producer that comes back keeps its votes and its share.
Regproducer(p) ==
  /\ producers' = [producers EXCEPT ![p] =
       IF producers[p] = None THEN NewProducer ELSE [producers[p] EXCEPT !.is_active = TRUE]]
  /\ UNCHANGED <<voters, gstate>>

\* unregprod by the producer, or rmvproducer by the system's account.
Unregprod(p) ==
  /\ producers[p] # None
  /\ producers' = [producers EXCEPT ![p] = [producers[p] EXCEPT !.is_active = FALSE]]
  /\ UNCHANGED <<voters, gstate>>

VotingStep ==
  \/ \E v \in Voters :
       \/ \E proxy \in Proxies : Voteproducer(v, proxy, {})
       \/ \E chosen \in Ballots : Voteproducer(v, None, chosen)
       \/ \E isproxy \in BOOLEAN : v \in Proxies /\ Regproxy(v, isproxy)
  \/ \E p \in Candidates : Regproducer(p) \/ (p \in Leavers /\ Unregprod(p))
-----------------------------------------------------------------------------
(* Properties *)

Known == {v \in Voters : voters[v] # None}
Registered == {p \in Candidates : producers[p] # None}
LastWeight(S) == SumFunction([v \in S |-> voters[v].last_vote_weight])
StakeOf(S) == SumFunction([v \in S |-> voters[v].staked])

\* The tallies that every vote, stake and proxy changes by differences are
\* what the voters' rows say: a producer has the last weights of those who
\* list it, a proxy those of its principals, and the total is that of all
\* producers (update_votes and propagate_weight_change).
VotesAreWeights ==
  /\ \A p \in Registered : producers[p].total_votes =
        LastWeight({v \in Known : p \in voters[v].producers})
  /\ \A x \in Known : voters[x].proxied_vote_weight =
        LastWeight({v \in Known : voters[v].proxy = x})
  /\ gstate.total_producer_vote_weight =
        SumFunction([p \in Registered |-> producers[p].total_votes])

\* Those whose stake speaks for p: they list it, or their proxy does, as
\* long as it is one.
SpeakFor(p) == {v \in Known :
  \/ p \in voters[v].producers
  \/ /\ voters[v].proxy # None /\ voters[voters[v].proxy].is_proxy
     /\ p \in voters[voters[v].proxy].producers}

\* A producer has no votes but those of tokens that are staked now and speak
\* for it, at a weight of some day until now: nothing stays of what was
\* unstaked or given to a proxy that resigned, and none waits until a proxy
\* votes again, since update_votes propagates what it is given at once
\* (update_votes, propagate_weight_change; the comment of voteproducer has it
\* otherwise).
VotesAreBacked ==
  \A p \in Registered :
     /\ producers[p].total_votes >= Factor[0] * StakeOf(SpeakFor(p))
     /\ producers[p].total_votes <= Factor[now] * StakeOf(SpeakFor(p))

Principals == {v \in Known : voters[v].proxy # None}

\* propagate_weight_change ends and its assertion never fails, which would
\* undo the stake or vote of another account: no chain of proxies comes back
\* to where it began, also when proxies resign and take a proxy themselves.
ProxiesEnd ==
  /\ \A v \in Known : voters[v].is_proxy => voters[v].proxy = None
  /\ \A S \in (SUBSET Principals) \ {{}} : \E v \in S : voters[v].proxy \notin S

\* The chain is activated, which frees stakes and starts the pay, when
\* MinActivatedStake is staked by accounts that have voted: until then no
\* stake counts twice, however often its owner votes (the first vote in
\* update_votes).
ActivationIsStaked ==
  [][gstate'.thresh_activated_stake_time # gstate.thresh_activated_stake_time
       => StakeOf({v \in Known : voters[v].last_vote_weight > 0})' >= MinActivatedStake]_gstate
=============================================================================
