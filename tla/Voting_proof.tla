---------------------------- MODULE Voting_proof ---------------------------
(***************************************************************************)
(* Lemmas about the tables of voters, producers and proxies and about the  *)
(* functions on records of them.  propagate_weight_change calls itself; its*)
(* calls are a function on their number, so that what each call keeps, all *)
(* of them keep.                                                           *)
(***************************************************************************)
EXTENDS Voting, Sums

\* The tables, with numbers of any sign, and the names in them bounded.
AnyProducer == [total_votes: Int, is_active: BOOLEAN, unpaid_blocks: Int,
                last_claim_time: Int, votepay_share: Int, last_votepay_share_update: Int]
AnyVoter == [staked: Int, proxy: Proxies \cup {None}, producers: SUBSET Candidates,
             last_vote_weight: Int, proxied_vote_weight: Int, is_proxy: BOOLEAN]
AnyGlobal == [total_activated_stake: Int, thresh_activated_stake_time: Int \cup {None},
              total_producer_vote_weight: Int, total_producer_votepay_share: Int,
              total_vpay_share_change_rate: Int, last_vpay_state_update: Int]
ProducerTable == [Candidates -> AnyProducer \cup {None}]
VoterTable == [Voters -> AnyVoter \cup {None}]
State == [producers: ProducerTable, voters: VoterTable, gstate: AnyGlobal]

\* Proxies and producers that are voted for have rows.
Linked(st) ==
  \A v \in Voters : st.voters[v] # None =>
    /\ st.voters[v].proxy # None => st.voters[st.voters[v].proxy] # None
    /\ \A p \in st.voters[v].producers : st.producers[p] # None
Good(st) == st \in State /\ Linked(st)

\* Another table of the same voters, with the same stakes and choices.
SameVoter(a, b) ==
  /\ a = None <=> b = None
  /\ a # None => /\ b.staked = a.staked /\ b.is_proxy = a.is_proxy
                 /\ b.proxy = a.proxy /\ b.producers = a.producers
SameRows(st, tt) ==
  /\ \A v \in Voters : SameVoter(st.voters[v], tt.voters[v])
  /\ \A p \in Candidates :
       /\ st.producers[p] = None <=> tt.producers[p] = None
       /\ st.producers[p] # None =>
            tt.producers[p].unpaid_blocks = st.producers[p].unpaid_blocks
SameActive(st, tt) ==
  /\ tt.gstate.total_activated_stake = st.gstate.total_activated_stake
  /\ tt.gstate.thresh_activated_stake_time = st.gstate.thresh_activated_stake_time

LEMMA VotersFinite ==
  /\ IsFiniteSet(Voters) /\ IsFiniteSet(Candidates) /\ IsFiniteSet(Proxies)
  /\ Cardinality(Voters) \in Nat
  /\ Voters \subseteq Users /\ Proxies \subseteq Voters /\ Candidates \subseteq Users
BY CoreAssumption, VotingAssumption, FS_Subset, FS_CardinalityType

LEMMA FactorNat == ASSUME now \in 0 .. MaxDay PROVE Factor[now] \in Nat /\ Factor[now] \in Int
BY VotingAssumption

LEMMA NoRow == None \notin AnyProducer /\ None \notin AnyVoter
BY VotingAssumption DEF AnyProducer, AnyVoter

LEMMA NoneNoVoter == None \notin Voters /\ None \notin Candidates /\ None \notin Proxies
BY CoreAssumption, VotersFinite DEF Accounts

LEMMA LeastNat ==
  ASSUME NEW B, B \subseteq Nat, B # {}
  PROVE  \E m \in B : \A k \in B : ~ (k < m)
<1> DEFINE D == {0 .. n : n \in B}
<1>1. D \subseteq FiniteSubsetsOf(Nat) /\ D # {}
  <2>1. \A n \in B : IsFiniteSet(0 .. n) /\ 0 .. n \subseteq Nat BY FS_Interval
  <2> QED BY <2>1 DEF FiniteSubsetsOf
<1>2. \E T \in D : \A U \in D : U \subseteq T => U = T
  <2> HIDE DEF D
  <2> QED BY <1>1, MinimalSubset
<1>3. PICK m \in B : \A k \in B : 0 .. k \subseteq 0 .. m => 0 .. k = 0 .. m
  <2>1. PICK T \in D : \A U \in D : U \subseteq T => U = T BY <1>2
  <2>2. PICK m \in B : T = 0 .. m OBVIOUS
  <2>3. \A k \in B : 0 .. k \in D OBVIOUS
  <2> HIDE DEF D
  <2> QED BY <2>1, <2>2, <2>3
<1>4. ASSUME NEW k \in B, k < m PROVE FALSE
  <2>1. 0 .. k \subseteq 0 .. m BY <1>4
  <2>2. 0 .. k = 0 .. m BY <1>3, <2>1
  <2>3. m \in 0 .. m /\ m \notin 0 .. k BY <1>4
  <2> QED BY <2>2, <2>3
<1> QED BY <1>4

LEMMA WeightInt ==
  ASSUME NEW row \in AnyVoter, now \in 0 .. MaxDay
  PROVE  Weight(row) \in Int
<1>1. row.staked \in Int /\ row.proxied_vote_weight \in Int BY DEF AnyVoter
<1>2. Factor[now] \in Int BY FactorNat
<1>3. \A a, b \in Int : a * b \in Int OBVIOUS
<1> QED BY <1>1, <1>2, <1>3 DEF Weight

LEMMA AtLeast0Nat == \A n \in Int : AtLeast0(n) \in Nat /\ (n >= 0 => AtLeast0(n) = n)
BY DEF AtLeast0
-----------------------------------------------------------------------------
(***************************************************************************)
(* The calls of propagate_weight_change.                                   *)
(***************************************************************************)
\* One call, if there is one to make.
HopOn(c) == IF c.at = None THEN c ELSE Hop(c)
\* f is the first n calls from c.
Runs(f, n, c) == f = [i \in 0 .. n |-> IF i = 0 THEN c ELSE HopOn(f[i - 1])]

LEMMA RunsExist ==
  ASSUME NEW c, NEW n \in Nat
  PROVE  \E f : Runs(f, n, c)
<1> DEFINE B == {m \in Nat : ~ \E f : Runs(f, m, c)}
<1> SUFFICES ASSUME B # {} PROVE FALSE
  OBVIOUS
<1>1. PICK m \in B : \A k \in B : ~ (k < m)
  <2>1. B \subseteq Nat OBVIOUS
  <2> HIDE DEF B
  <2> QED BY <2>1, LeastNat
<1>2. CASE m = 0
  <2> DEFINE f == [i \in 0 .. m |-> c]
  <2>1. f = [i \in 0 .. m |-> IF i = 0 THEN c ELSE HopOn(f[i - 1])] BY <1>2
  <2> QED BY <1>1, <2>1 DEF Runs
<1>3. CASE m # 0
  <2>1. m - 1 \in Nat /\ m - 1 < m /\ m \in Nat BY <1>1, <1>3
  <2>2. m - 1 \notin B BY <1>1, <2>1
  <2>3. PICK g : Runs(g, m - 1, c) BY <2>1, <2>2
  <2> DEFINE f == [i \in 0 .. m |-> IF i = m THEN HopOn(g[m - 1]) ELSE g[i]]
             h == [i \in 0 .. m |-> IF i = 0 THEN c ELSE HopOn(f[i - 1])]
  <2>4. \A i \in 0 .. m : f[i] = h[i]
    <3> SUFFICES ASSUME NEW i \in 0 .. m PROVE f[i] = h[i]
      OBVIOUS
    <3>1. CASE i = m
      <4>1. f[i] = HopOn(g[m - 1]) BY <3>1
      <4>2. f[m - 1] = g[m - 1] BY <1>3, <2>1
      <4> QED BY <1>3, <3>1, <4>1, <4>2
    <3>2. CASE i # m
      <4>1. i \in 0 .. m - 1 /\ f[i] = g[i] BY <2>1, <3>2
      <4>2. g[i] = IF i = 0 THEN c ELSE HopOn(g[i - 1]) BY <2>3, <4>1 DEF Runs
      <4>3. i # 0 => i - 1 \in 0 .. m /\ i - 1 # m BY <2>1, <4>1
      <4>4. i # 0 => f[i - 1] = g[i - 1] BY <4>3
      <4> QED BY <4>1, <4>2, <4>4
    <3> QED BY <3>1, <3>2
  <2>5. f = [i \in 0 .. m |-> f[i]] /\ h = [i \in 0 .. m |-> h[i]] OBVIOUS
  <2>6. f = h
    <3> HIDE DEF f, h
    <3> QED BY <2>4, <2>5
  <2>7. Runs(f, m, c)
    <3> HIDE DEF f
    <3> QED BY <2>6 DEF Runs
  <2> QED BY <1>1, <2>7
<1> QED BY <1>2, <1>3

\* What holds of the first call and is kept by every call holds of the last.
LEMMA RunsKeep ==
  ASSUME NEW P, NEW c \in P, \A d \in P : HopOn(d) \in P,
         NEW n \in Nat, NEW f, Runs(f, n, c)
  PROVE  f[n] \in P
<1> DEFINE B == {m \in 0 .. n : f[m] \notin P}
<1>0. n \in 0 .. n OBVIOUS
<1> SUFFICES ASSUME B # {} PROVE FALSE
  BY <1>0
<1>1. PICK m \in B : \A k \in B : ~ (k < m)
  <2>1. B \subseteq Nat OBVIOUS
  <2> HIDE DEF B
  <2> QED BY <2>1, LeastNat
<1>2. f[m] = IF m = 0 THEN c ELSE HopOn(f[m - 1]) BY <1>1 DEF Runs
<1>3. m # 0 => m - 1 \in 0 .. n /\ m - 1 < m BY <1>1
<1>4. m # 0 => f[m - 1] \in P BY <1>1, <1>3
<1> QED BY <1>1, <1>2, <1>4

LEMMA Propagated ==
  ASSUME NEW P, NEW st, NEW v, [st |-> st, at |-> v] \in P, \A d \in P : HopOn(d) \in P
  PROVE  \E d \in P : Propagate(st, v) = d.st
<1> DEFINE n == Cardinality(Voters)
           c == [st |-> st, at |-> v]
           f == CHOOSE f : Runs(f, n, c)
<1>1. n \in Nat BY VotersFinite
<1>2. Runs(f, n, c)
  <2> HIDE DEF n, c
  <2> QED BY <1>1, RunsExist
<1>3. Propagate(st, v) = f[n].st
  BY DEF Propagate, Runs, HopOn
<1>4. f[n] \in P
  <2> HIDE DEF n, c, f
  <2> QED BY <1>1, <1>2, RunsKeep DEF c
<1> QED BY <1>3, <1>4
-----------------------------------------------------------------------------
(***************************************************************************)
(* What the functions on the tables keep: their types and links, and of    *)
(* each voter its stake, its choices and whether it is a proxy.            *)
(***************************************************************************)
LEMMA StateParts ==
  ASSUME NEW st \in State
  PROVE  /\ st.producers \in ProducerTable /\ st.voters \in VoterTable /\ st.gstate \in AnyGlobal
         /\ st = [producers |-> st.producers, voters |-> st.voters, gstate |-> st.gstate]
BY DEF State

LEMMA SameRowsTrans ==
  ASSUME NEW st, NEW tt, NEW uu, SameRows(st, tt), SameRows(tt, uu)
  PROVE  SameRows(st, uu)
BY DEF SameRows, SameVoter

LEMMA SameRowsRefl == \A st : SameRows(st, st)
BY DEF SameRows, SameVoter

LEMMA LinkedKept ==
  ASSUME NEW st \in State, NEW tt \in State, Linked(st), SameRows(st, tt)
  PROVE  Linked(tt)
<1> SUFFICES ASSUME NEW v \in Voters, tt.voters[v] # None
             PROVE  /\ tt.voters[v].proxy # None => tt.voters[tt.voters[v].proxy] # None
                    /\ \A p \in tt.voters[v].producers : tt.producers[p] # None
  BY DEF Linked
<1>1. /\ st.voters[v] # None /\ tt.voters[v].proxy = st.voters[v].proxy
      /\ tt.voters[v].producers = st.voters[v].producers
  BY DEF SameRows, SameVoter
<1>2. st.voters[v] \in AnyVoter BY <1>1 DEF State, VoterTable
<1>3. /\ st.voters[v].proxy \in Proxies \cup {None}
      /\ st.voters[v].producers \subseteq Candidates
  BY <1>2 DEF AnyVoter
<1>4. Proxies \subseteq Voters BY VotersFinite
<1> QED BY <1>1, <1>3, <1>4 DEF Linked, SameRows, SameVoter

\* A record of tables with another row of one voter.
LEMMA VoterWritten ==
  ASSUME NEW st \in State, NEW v \in Voters, NEW row \in AnyVoter
  PROVE  LET tt == [st EXCEPT !.voters[v] = row]
         IN  /\ tt \in State
             /\ tt.producers = st.producers /\ tt.gstate = st.gstate
             /\ tt.voters = [st.voters EXCEPT ![v] = row]
             /\ tt.voters[v] = row
             /\ \A x \in Voters : x # v => tt.voters[x] = st.voters[x]
<1> DEFINE tt == [st EXCEPT !.voters[v] = row]
<1>1. st.voters \in VoterTable BY StateParts
<1>2. /\ tt.producers = st.producers /\ tt.gstate = st.gstate
      /\ tt.voters = [st.voters EXCEPT ![v] = row]
      /\ tt = [producers |-> st.producers, voters |-> [st.voters EXCEPT ![v] = row],
               gstate |-> st.gstate]
  BY StateParts
<1>3. [st.voters EXCEPT ![v] = row] \in VoterTable BY <1>1 DEF VoterTable
<1>4. tt \in State
  <2> HIDE DEF tt
  <2> QED BY <1>2, <1>3, StateParts DEF State
<1>5. /\ tt.voters[v] = row
      /\ \A x \in Voters : x # v => tt.voters[x] = st.voters[x]
  <2> HIDE DEF tt
  <2> QED BY <1>1, <1>2 DEF VoterTable
<1> QED BY <1>2, <1>4, <1>5

LEMMA VoterWrittenSame ==
  ASSUME NEW st \in State, NEW v \in Voters, NEW row \in AnyVoter,
         st.voters[v] # None, SameVoter(st.voters[v], row), Linked(st)
  PROVE  Good([st EXCEPT !.voters[v] = row]) /\ SameRows(st, [st EXCEPT !.voters[v] = row])
<1> DEFINE tt == [st EXCEPT !.voters[v] = row]
<1>1. /\ tt \in State /\ tt.producers = st.producers /\ tt.voters[v] = row
      /\ \A x \in Voters : x # v => tt.voters[x] = st.voters[x]
  BY VoterWritten
<1> HIDE DEF tt
<1>2. SameRows(st, tt) BY <1>1 DEF SameRows, SameVoter
<1>3. Linked(tt) BY <1>1, <1>2, LinkedKept
<1> QED BY <1>1, <1>2, <1>3 DEF Good, tt

LEMMA RowOps ==
  ASSUME NEW row \in AnyVoter, NEW d \in Int
  PROVE  /\ Proxied(row, d) \in AnyVoter /\ SameVoter(row, Proxied(row, d))
         /\ Proxied(row, d).last_vote_weight = row.last_vote_weight
         /\ Proxied(row, d).proxied_vote_weight = row.proxied_vote_weight + d
         /\ Weighed(row, d) \in AnyVoter /\ SameVoter(row, Weighed(row, d))
         /\ Weighed(row, d).last_vote_weight = d
         /\ Weighed(row, d).proxied_vote_weight = row.proxied_vote_weight
<1>1. row.proxied_vote_weight + d \in Int BY DEF AnyVoter
<1>2. Proxied(row, d) \in AnyVoter /\ Weighed(row, d) \in AnyVoter
  BY <1>1 DEF Proxied, Weighed, AnyVoter
<1>3. row # None /\ Proxied(row, d) # None /\ Weighed(row, d) # None BY <1>2, NoRow
<1> QED BY <1>2, <1>3 DEF Proxied, Weighed, AnyVoter, SameVoter

\* The numbers that counting uses are integers.
LEMMA CountInts ==
  ASSUME NEW row \in AnyProducer, NEW d \in Int, now \in Int
  PROVE  /\ ShareNow(row) \in Int /\ RateChange(row, d) \in Int
         /\ Counted(row, d) \in AnyProducer
         /\ Counted(row, d).total_votes = AtLeast0(row.total_votes + d)
         /\ Counted(row, d).unpaid_blocks = row.unpaid_blocks
<1>1. /\ row.total_votes \in Int /\ row.votepay_share \in Int /\ row.last_claim_time \in Int
      /\ row.last_votepay_share_update \in Int
  BY DEF AnyProducer
<1>2. \A a, b, c \in Int : a + b * c \in Int OBVIOUS
<1>3. now - row.last_votepay_share_update \in Int BY <1>1
<1>4. ShareNow(row) \in Int BY <1>1, <1>2, <1>3 DEF ShareNow
<1>5. -row.total_votes \in Int BY <1>1
<1>6. RateChange(row, d) \in Int BY <1>5 DEF RateChange
<1>7. AtLeast0(row.total_votes + d) \in Int BY <1>1, AtLeast0Nat
<1> DEFINE s == IF Lapses(row) THEN 0 ELSE ShareNow(row)
<1>8. s \in Int BY <1>4
<1>9. Counted(row, d) = [row EXCEPT !.total_votes = AtLeast0(row.total_votes + d),
                                    !.votepay_share = s,
                                    !.last_votepay_share_update = now]
  BY DEF Counted
<1> HIDE DEF s
<1>10. Counted(row, d) \in AnyProducer BY <1>7, <1>8, <1>9 DEF AnyProducer
<1> QED BY <1>4, <1>6, <1>9, <1>10 DEF AnyProducer

LEMMA UpdatedInts ==
  ASSUME NEW g \in AnyGlobal, NEW lost \in Int, NEW rate \in Int, now \in Int
  PROVE  /\ TotalUpdated(g, lost, rate) \in AnyGlobal
         /\ TotalUpdated(g, lost, rate).total_producer_vote_weight = g.total_producer_vote_weight
         /\ TotalUpdated(g, lost, rate).total_activated_stake = g.total_activated_stake
         /\ TotalUpdated(g, lost, rate).thresh_activated_stake_time
              = g.thresh_activated_stake_time
<1>1. /\ g.total_producer_votepay_share \in Int /\ g.total_vpay_share_change_rate \in Int
      /\ g.last_vpay_state_update \in Int
  BY DEF AnyGlobal
<1>2. \A a, b, c \in Int : a + b * c \in Int OBVIOUS
<1>3. TotalShareNow(g) \in Int BY <1>1, <1>2 DEF TotalShareNow
<1> DEFINE t == AtLeast0(TotalShareNow(g) - lost)   r == AtLeast0(g.total_vpay_share_change_rate + rate)
<1>4. t \in Int /\ r \in Int BY <1>1, <1>3, AtLeast0Nat
<1>5. TotalUpdated(g, lost, rate) =
        [g EXCEPT !.total_producer_votepay_share = t, !.total_vpay_share_change_rate = r,
                  !.last_vpay_state_update = now]
  BY DEF TotalUpdated
<1> HIDE DEF t, r
<1> QED BY <1>4, <1>5 DEF AnyGlobal

\* The producers of D get the votes of delta, and the total their sum.
Counts(st, D, delta, tt) ==
  /\ tt.voters = st.voters
  /\ \A p \in Candidates : p \notin D => tt.producers[p] = st.producers[p]
  /\ \A p \in D : /\ tt.producers[p] # None
                  /\ tt.producers[p].total_votes = AtLeast0(st.producers[p].total_votes + delta[p])
                  /\ tt.producers[p].unpaid_blocks = st.producers[p].unpaid_blocks
  /\ tt.gstate.total_producer_vote_weight =
       st.gstate.total_producer_vote_weight + SumFunctionOnSet(delta, D)
  /\ SameActive(st, tt)

LEMMA CountVotesCounts ==
  ASSUME NEW st, Good(st), NEW D \in SUBSET Candidates, NEW delta \in [D -> Int],
         \A p \in D : st.producers[p] # None, now \in Int
  PROVE  /\ Good(CountVotes(st, delta)) /\ SameRows(st, CountVotes(st, delta))
         /\ Counts(st, D, delta, CountVotes(st, delta))
<1>0. st \in State /\ Linked(st) /\ DOMAIN delta = D /\ IsFiniteSet(D)
  BY VotersFinite, FS_Subset DEF Good
<1> DEFINE tt == CountVotes(st, delta)
           rates == [p \in D |-> RateChange(st.producers[p], delta[p])]
           lost == [p \in D |-> IF Lapses(st.producers[p])
                           THEN ShareNow(st.producers[p]) ELSE 0]
           g == TotalUpdated(st.gstate, SumFunction(lost), SumFunction(rates))
           prods == [p \in Candidates |->
             IF p \in D THEN Counted(st.producers[p], delta[p]) ELSE st.producers[p]]
           h == [g EXCEPT !.total_producer_vote_weight = @ + SumFunction(delta)]
<1>1. \A p \in D : st.producers[p] \in AnyProducer /\ delta[p] \in Int
  BY <1>0 DEF State, ProducerTable
<1>2. \A p \in D : rates[p] \in Int /\ lost[p] \in Int BY <1>1, CountInts
<1>16. ASSUME NEW p \in D
       PROVE  /\ Counted(st.producers[p], delta[p]) \in AnyProducer
              /\ Counted(st.producers[p], delta[p]).total_votes
                   = AtLeast0(st.producers[p].total_votes + delta[p])
              /\ Counted(st.producers[p], delta[p]).unpaid_blocks = st.producers[p].unpaid_blocks
  <2> DEFINE row == st.producers[p]   d == delta[p]
  <2>1. row \in AnyProducer /\ d \in Int BY <1>1
  <2> HIDE DEF row, d
  <2>2. /\ Counted(row, d) \in AnyProducer
        /\ Counted(row, d).total_votes = AtLeast0(row.total_votes + d)
        /\ Counted(row, d).unpaid_blocks = row.unpaid_blocks
    BY <2>1, CountInts
  <2> QED BY <2>2 DEF row, d
<1>3. SumFunction(lost) \in Int /\ SumFunction(rates) \in Int
  <2>1. DOMAIN rates = D /\ DOMAIN lost = D OBVIOUS
  <2> HIDE DEF rates, lost
  <2> QED BY <1>0, <1>2, <2>1, SumInt DEF SumFunction
<1>4. SumFunction(delta) = SumFunctionOnSet(delta, D) /\ SumFunction(delta) \in Int
  BY <1>0, <1>1, SumInt DEF SumFunction
<1>5. st.gstate \in AnyGlobal BY <1>0 DEF State
<1>6. /\ g \in AnyGlobal
      /\ g.total_producer_vote_weight = st.gstate.total_producer_vote_weight
      /\ g.total_activated_stake = st.gstate.total_activated_stake
      /\ g.thresh_activated_stake_time = st.gstate.thresh_activated_stake_time
  <2> HIDE DEF rates, lost
  <2> QED BY <1>3, <1>5, UpdatedInts
<1>7. /\ h \in AnyGlobal
      /\ h.total_producer_vote_weight
           = st.gstate.total_producer_vote_weight + SumFunctionOnSet(delta, D)
      /\ h.total_activated_stake = st.gstate.total_activated_stake
      /\ h.thresh_activated_stake_time = st.gstate.thresh_activated_stake_time
  <2> HIDE DEF g
  <2>1. g.total_producer_vote_weight + SumFunction(delta) \in Int BY <1>4, <1>6 DEF AnyGlobal
  <2> QED BY <1>4, <1>6, <2>1 DEF AnyGlobal
<1>8. /\ prods \in ProducerTable
      /\ \A p \in Candidates : p \notin D => prods[p] = st.producers[p]
      /\ \A p \in D : prods[p] = Counted(st.producers[p], delta[p])
      /\ \A p \in D : Counted(st.producers[p], delta[p]) \in AnyProducer
  <2>1. \A p \in D : Counted(st.producers[p], delta[p]) \in AnyProducer BY <1>16
  <2>2. st.producers \in ProducerTable BY <1>0, StateParts
  <2> QED BY <2>1, <2>2 DEF ProducerTable
<1>9. tt = [st EXCEPT !.producers = prods, !.gstate = h] BY <1>0 DEF CountVotes
<1> HIDE DEF tt, prods, h
<1>10. tt = [producers |-> prods, voters |-> st.voters, gstate |-> h] BY <1>0, <1>9 DEF State
<1>11. tt \in State BY <1>0, <1>7, <1>8, <1>10, StateParts DEF State
<1>12. tt.voters = st.voters /\ tt.producers = prods /\ tt.gstate = h BY <1>10
<1>13. SameRows(st, tt)
  <2>1. \A v \in Voters : SameVoter(st.voters[v], tt.voters[v]) BY <1>12 DEF SameVoter
  <2>2. \A p \in Candidates :
          /\ st.producers[p] = None <=> tt.producers[p] = None
          /\ st.producers[p] # None =>
               tt.producers[p].unpaid_blocks = st.producers[p].unpaid_blocks
    <3> SUFFICES ASSUME NEW p \in Candidates
                 PROVE  /\ st.producers[p] = None <=> prods[p] = None
                        /\ st.producers[p] # None =>
                             prods[p].unpaid_blocks = st.producers[p].unpaid_blocks
      BY <1>12
    <3>1. CASE p \notin D BY <1>8, <3>1
    <3>2. CASE p \in D
      <4>1. prods[p] = Counted(st.producers[p], delta[p]) /\ prods[p] # None
        BY <1>8, <3>2, NoRow
      <4> QED BY <1>1, <1>16, <3>2, <4>1, NoRow
    <3> QED BY <3>1, <3>2
  <2> QED BY <2>1, <2>2 DEF SameRows
<1>14. Linked(tt) BY <1>0, <1>11, <1>13, LinkedKept
<1>15. Counts(st, D, delta, tt)
  <2>1. \A p \in D : /\ tt.producers[p] # None
                     /\ tt.producers[p].total_votes
                          = AtLeast0(st.producers[p].total_votes + delta[p])
                     /\ tt.producers[p].unpaid_blocks = st.producers[p].unpaid_blocks
    BY <1>8, <1>12, <1>16, NoRow
  <2> QED BY <1>7, <1>8, <1>12, <2>1 DEF Counts, SameActive
<1> QED BY <1>11, <1>13, <1>14, <1>15 DEF Good, tt

\* One call leaves the rows, and goes on, if at all, to a voter with a row.
CallsFrom(st) ==
  {c \in [st: State, at: Voters \cup {None}] :
     /\ Linked(c.st) /\ SameRows(st, c.st) /\ SameActive(st, c.st)
     /\ c.at # None => c.st.voters[c.at] # None}

LEMMA HopCases ==
  ASSUME NEW st, Good(st), NEW v \in Voters, st.voters[v] # None, now \in 0 .. MaxDay
  PROVE  LET row == st.voters[v]
             w == Weight(row)
             d == w - row.last_vote_weight
             seen == [st EXCEPT !.voters[v] = Weighed(row, w)]
             hop == Hop([st |-> st, at |-> v])
         IN  /\ row \in AnyVoter /\ w \in Int /\ d \in Int
             /\ Good(seen) /\ SameRows(st, seen) /\ seen.voters[v] = Weighed(row, w)
             /\ seen.gstate = st.gstate /\ seen.producers = st.producers
             /\ \A x \in Voters : x # v => seen.voters[x] = st.voters[x]
             /\ \/ d \in -1 .. 1 /\ hop = [st |-> seen, at |-> None]
                \/ /\ d \notin -1 .. 1 /\ row.proxy \in Proxies
                   /\ hop = [st |-> WithProxied(seen, row.proxy, d), at |-> row.proxy]
                \/ /\ d \notin -1 .. 1 /\ row.proxy = None
                   /\ hop = [st |-> CountVotes(seen, [p \in row.producers |-> d]), at |-> None]
<1> DEFINE row == st.voters[v]
           w == Weight(row)
           d == w - row.last_vote_weight
           seen == [st EXCEPT !.voters[v] = Weighed(row, w)]
           hop == Hop([st |-> st, at |-> v])
<1>0. st \in State /\ Linked(st) BY DEF Good
<1>1. row \in AnyVoter BY <1>0 DEF State, VoterTable
<1>2. w \in Int /\ d \in Int BY <1>1, WeightInt DEF AnyVoter
<1>3. Weighed(row, w) \in AnyVoter /\ SameVoter(row, Weighed(row, w)) BY <1>1, <1>2, RowOps
<1>4. /\ Good(seen) /\ SameRows(st, seen) /\ seen.voters[v] = Weighed(row, w)
      /\ seen.gstate = st.gstate /\ seen.producers = st.producers
      /\ \A x \in Voters : x # v => seen.voters[x] = st.voters[x]
  BY <1>0, <1>3, VoterWritten, VoterWrittenSame
<1>5. row.proxy \in Proxies \cup {None} BY <1>1 DEF AnyVoter
<1>6. hop = IF d \in -1 .. 1 THEN [st |-> seen, at |-> None]
            ELSE IF row.proxy # None
            THEN [st |-> WithProxied(seen, row.proxy, d), at |-> row.proxy]
            ELSE [st |-> CountVotes(seen, [p \in row.producers |-> d]), at |-> None]
  BY DEF Hop
<1> HIDE DEF hop, seen, d, w, row
<1>7. \/ d \in -1 .. 1 /\ hop = [st |-> seen, at |-> None]
      \/ /\ d \notin -1 .. 1 /\ row.proxy \in Proxies
         /\ hop = [st |-> WithProxied(seen, row.proxy, d), at |-> row.proxy]
      \/ /\ d \notin -1 .. 1 /\ row.proxy = None
         /\ hop = [st |-> CountVotes(seen, [p \in row.producers |-> d]), at |-> None]
  BY <1>5, <1>6
<1> QED BY <1>1, <1>2, <1>4, <1>7 DEF hop, seen, d, w, row

LEMMA WithProxiedKeeps ==
  ASSUME NEW st, Good(st), NEW v \in Voters, st.voters[v] # None, NEW d \in Int
  PROVE  LET tt == WithProxied(st, v, d)
         IN  /\ Good(tt) /\ SameRows(st, tt) /\ tt.gstate = st.gstate
             /\ tt.producers = st.producers /\ tt.voters[v] = Proxied(st.voters[v], d)
             /\ \A x \in Voters : x # v => tt.voters[x] = st.voters[x]
<1>1. st \in State /\ Linked(st) BY DEF Good
<1>2. st.voters[v] \in AnyVoter BY <1>1 DEF State, VoterTable
<1>3. Proxied(st.voters[v], d) \in AnyVoter /\ SameVoter(st.voters[v], Proxied(st.voters[v], d))
  BY <1>2, RowOps
<1>4. WithProxied(st, v, d) = [st EXCEPT !.voters[v] = Proxied(st.voters[v], d)]
  BY DEF WithProxied
<1> QED BY <1>1, <1>3, <1>4, VoterWritten, VoterWrittenSame

LEMMA SameActiveRefl == \A st, tt : st.gstate = tt.gstate => SameActive(st, tt)
BY DEF SameActive

LEMMA HopKeeps ==
  ASSUME NEW st, NEW c \in CallsFrom(st), now \in 0 .. MaxDay
  PROVE  HopOn(c) \in CallsFrom(st)
<1>1. CASE c.at = None BY <1>1 DEF HopOn
<1>2. CASE c.at # None
  <2> DEFINE v == c.at   cs == c.st
             row == cs.voters[v]
             w == Weight(row)
             d == w - row.last_vote_weight
             seen == [cs EXCEPT !.voters[v] = Weighed(row, w)]
             hop == Hop(c)
  <2>1. /\ v \in Voters /\ Good(cs) /\ row # None /\ SameRows(st, cs) /\ SameActive(st, cs)
        /\ c = [st |-> cs, at |-> v]
    BY <1>2 DEF CallsFrom, Good
  <2>2. /\ row \in AnyVoter /\ w \in Int /\ d \in Int
        /\ Good(seen) /\ SameRows(cs, seen) /\ seen.voters[v] = Weighed(row, w)
        /\ seen.gstate = cs.gstate
        /\ \/ d \in -1 .. 1 /\ hop = [st |-> seen, at |-> None]
           \/ /\ d \notin -1 .. 1 /\ row.proxy \in Proxies
              /\ hop = [st |-> WithProxied(seen, row.proxy, d), at |-> row.proxy]
           \/ /\ d \notin -1 .. 1 /\ row.proxy = None
              /\ hop = [st |-> CountVotes(seen, [p \in row.producers |-> d]), at |-> None]
    <3> HIDE DEF v, cs
    <3> QED BY <2>1, HopCases
  <2>3. HopOn(c) = hop BY <1>2 DEF HopOn
  <2> HIDE DEF hop, seen, d, w
  <2>4. SameRows(st, seen) /\ SameActive(st, seen)
    BY <2>1, <2>2, SameRowsTrans DEF SameActive
  <2>5. CASE hop = [st |-> seen, at |-> None]
    BY <2>2, <2>3, <2>4, <2>5 DEF CallsFrom, Good
  <2>6. CASE row.proxy \in Proxies /\ hop = [st |-> WithProxied(seen, row.proxy, d), at |-> row.proxy]
    <3> DEFINE x == row.proxy   tt == WithProxied(seen, x, d)
    <3>1. x \in Voters /\ x # None BY <2>6, VotersFinite, NoneNoVoter
    <3>2. seen.voters[x] # None
      <4>1. cs.voters[x] # None BY <2>1, <3>1 DEF Good, Linked
      <4> QED BY <2>2, <3>1, <4>1 DEF SameRows, SameVoter
    <3>3. Good(tt) /\ SameRows(seen, tt) /\ tt.gstate = seen.gstate
      <4> HIDE DEF x
      <4> QED BY <2>2, <3>1, <3>2, WithProxiedKeeps
    <3>4. tt.voters[x] # None BY <3>1, <3>2, <3>3 DEF SameRows, SameVoter
    <3>5. hop = [st |-> tt, at |-> x] BY <2>6
    <3> HIDE DEF tt, x
    <3>6. SameRows(st, tt) /\ SameActive(st, tt)
      BY <2>4, <3>3, SameRowsTrans DEF SameActive
    <3> QED BY <2>3, <3>1, <3>3, <3>4, <3>5, <3>6 DEF CallsFrom, Good
  <2>7. CASE hop = [st |-> CountVotes(seen, [p \in row.producers |-> d]), at |-> None]
    <3> DEFINE D == row.producers   delta == [p \in D |-> d]   tt == CountVotes(seen, delta)
    <3>1. D \in SUBSET Candidates /\ delta \in [D -> Int] BY <2>2 DEF AnyVoter
    <3>2. \A p \in D : seen.producers[p] # None
      <4>1. \A p \in D : cs.producers[p] # None BY <2>1 DEF Good, Linked
      <4> QED BY <2>2, <3>1, <4>1 DEF SameRows
    <3>3. now \in Int OBVIOUS
    <3>4. Good(tt) /\ SameRows(seen, tt) /\ Counts(seen, D, delta, tt)
      <4> HIDE DEF D, delta
      <4> QED BY <2>2, <3>1, <3>2, <3>3, CountVotesCounts
    <3>5. hop = [st |-> tt, at |-> None] BY <2>7
    <3> HIDE DEF tt, delta, D
    <3>6. SameRows(st, tt) /\ SameActive(st, tt)
      BY <2>4, <3>4, SameRowsTrans DEF SameActive, Counts
    <3> QED BY <2>3, <3>4, <3>5, <3>6 DEF CallsFrom, Good
  <2> QED BY <2>2, <2>5, <2>6, <2>7
<1> QED BY <1>1, <1>2

LEMMA PropagateKeeps ==
  ASSUME NEW st, Good(st), NEW v \in Voters, st.voters[v] # None, now \in 0 .. MaxDay
  PROVE  LET tt == Propagate(st, v)
         IN  Good(tt) /\ SameRows(st, tt) /\ SameActive(st, tt)
<1>1. [st |-> st, at |-> v] \in CallsFrom(st)
  BY SameRowsRefl DEF CallsFrom, Good, SameActive
<1>2. \A c \in CallsFrom(st) : HopOn(c) \in CallsFrom(st) BY HopKeeps
<1>3. PICK c \in CallsFrom(st) : Propagate(st, v) = c.st BY <1>1, <1>2, Propagated
<1> QED BY <1>3 DEF CallsFrom, Good
-----------------------------------------------------------------------------
(***************************************************************************)
(* update_votes: the voter's choice changes and its last weight; of all    *)
(* others the choices stay.                                                *)
(***************************************************************************)
LEMMA FirstVoteInts ==
  ASSUME NEW g \in AnyGlobal, NEW row \in AnyVoter, now \in 0 .. MaxDay
  PROVE  /\ FirstVote(g, row) \in AnyGlobal
         /\ FirstVote(g, row).total_producer_vote_weight = g.total_producer_vote_weight
<1>1. g.total_activated_stake + row.staked \in Int /\ now \in Int BY DEF AnyGlobal, AnyVoter
<1> QED BY <1>1 DEF FirstVote, Activated, AnyGlobal

LEMMA GlobalWritten ==
  ASSUME NEW st \in State, NEW g \in AnyGlobal
  PROVE  LET tt == [st EXCEPT !.gstate = g]
         IN  /\ tt \in State /\ tt.gstate = g
             /\ tt.voters = st.voters /\ tt.producers = st.producers
BY DEF State

\* The tables that update_votes goes through, one after the other.
First(st, v) == [st EXCEPT !.gstate = FirstVote(st.gstate, st.voters[v])]
TakenBack(st, v) ==
  LET row == st.voters[v]
  IN IF row.last_vote_weight > 0 /\ row.proxy # None
     THEN Propagate(WithProxied(st, row.proxy, -row.last_vote_weight), row.proxy) ELSE st
Passed(st, proxy, new) ==
  IF proxy # None THEN Propagate(WithProxied(st, proxy, new), proxy) ELSE st
LeftBy(row) == IF row.last_vote_weight > 0 /\ row.proxy = None THEN row.producers ELSE {}
ChangeOf(row, new, chosen) ==
  [p \in LeftBy(row) \cup chosen |-> (IF p \in chosen THEN new ELSE 0)
                       - (IF p \in LeftBy(row) THEN row.last_vote_weight ELSE 0)]
Chooses(row, new, proxy, chosen) ==
  [row EXCEPT !.last_vote_weight = new, !.producers = chosen, !.proxy = proxy]
Moved(st, v, proxy, chosen) ==
  CountVotes(Passed(TakenBack(First(st, v), v), proxy, Weight(st.voters[v])),
             ChangeOf(st.voters[v], Weight(st.voters[v]), chosen))

LEMMA UpdateVotesIs ==
  ASSUME NEW st \in State, NEW v, NEW proxy, NEW chosen
  PROVE  UpdateVotes(st, v, proxy, chosen) =
           [Moved(st, v, proxy, chosen) EXCEPT
              !.voters[v] = Chooses(Moved(st, v, proxy, chosen).voters[v],
                                    Weight(st.voters[v]), proxy, chosen)]
<1>1. First(st, v).voters = st.voters BY DEF First, State
<1> QED BY <1>1 DEF UpdateVotes, Moved, Passed, TakenBack, First, LeftBy, ChangeOf, Chooses

\* Tables of the same voters, choices, and activation.
Keeps(st, tt) == Good(tt) /\ SameRows(st, tt) /\ SameActive(st, tt)

LEMMA KeepsTrans ==
  ASSUME NEW st, NEW tt, NEW uu, Keeps(st, tt), Keeps(tt, uu)
  PROVE  Keeps(st, uu)
BY SameRowsTrans DEF Keeps, SameActive

LEMMA PassKeeps ==
  ASSUME NEW st, Good(st), NEW x \in Voters, st.voters[x] # None, NEW d \in Int,
         now \in 0 .. MaxDay
  PROVE  Keeps(st, Propagate(WithProxied(st, x, d), x))
<1> DEFINE tt == WithProxied(st, x, d)
<1>1. Good(tt) /\ SameRows(st, tt) /\ tt.gstate = st.gstate BY WithProxiedKeeps
<1>2. Keeps(st, tt) BY <1>1, SameActiveRefl DEF Keeps, SameActive
<1>3. tt.voters[x] # None BY <1>1 DEF SameRows, SameVoter
<1> HIDE DEF tt
<1>4. Keeps(tt, Propagate(tt, x)) BY <1>1, <1>3, PropagateKeeps DEF Keeps
<1> QED BY <1>2, <1>4, KeepsTrans DEF tt

LEMMA VoterOf ==
  ASSUME NEW st, Good(st), NEW v \in Voters, st.voters[v] # None
  PROVE  /\ st.voters[v] \in AnyVoter
         /\ st.voters[v].last_vote_weight \in Int /\ -st.voters[v].last_vote_weight \in Int
         /\ st.voters[v].proxy # None =>
              /\ st.voters[v].proxy \in Voters /\ st.voters[v].proxy \in Proxies
              /\ st.voters[st.voters[v].proxy] # None
         /\ st.voters[v].producers \subseteq Candidates
         /\ \A p \in st.voters[v].producers : st.producers[p] # None
<1>1. st.voters[v] \in AnyVoter BY DEF Good, State, VoterTable
<1> QED BY <1>1, VotersFinite DEF Good, Linked, AnyVoter

LEMMA FirstKeeps ==
  ASSUME NEW st, Good(st), NEW v \in Voters, st.voters[v] # None, now \in 0 .. MaxDay
  PROVE  /\ Good(First(st, v)) /\ SameRows(st, First(st, v))
         /\ First(st, v).voters = st.voters /\ First(st, v).producers = st.producers
         /\ First(st, v).gstate = FirstVote(st.gstate, st.voters[v])
         /\ First(st, v).gstate.total_producer_vote_weight = st.gstate.total_producer_vote_weight
<1>1. st \in State /\ Linked(st) /\ st.gstate \in AnyGlobal BY DEF Good, State
<1>2. /\ FirstVote(st.gstate, st.voters[v]) \in AnyGlobal
      /\ FirstVote(st.gstate, st.voters[v]).total_producer_vote_weight
           = st.gstate.total_producer_vote_weight
  BY <1>1, VoterOf, FirstVoteInts
<1>3. /\ First(st, v) \in State
      /\ First(st, v).voters = st.voters /\ First(st, v).producers = st.producers
      /\ First(st, v).gstate = FirstVote(st.gstate, st.voters[v])
  BY <1>1, <1>2, GlobalWritten DEF First
<1>4. SameRows(st, First(st, v)) BY <1>3 DEF SameRows, SameVoter
<1>5. Linked(First(st, v)) BY <1>1, <1>3 DEF Linked
<1> QED BY <1>2, <1>3, <1>4, <1>5 DEF Good

LEMMA ChangeInts ==
  ASSUME NEW st, Good(st), NEW v \in Voters, st.voters[v] # None, NEW new \in Int,
         NEW chosen \in SUBSET Candidates, \A p \in chosen : st.producers[p] # None
  PROVE  LET D == LeftBy(st.voters[v]) \cup chosen
         IN  /\ D \in SUBSET Candidates /\ \A p \in D : st.producers[p] # None
             /\ ChangeOf(st.voters[v], new, chosen) \in [D -> Int]
<1>1. /\ LeftBy(st.voters[v]) \subseteq Candidates
      /\ \A p \in LeftBy(st.voters[v]) : st.producers[p] # None
  BY VoterOf DEF LeftBy
<1>2. st.voters[v].last_vote_weight \in Int BY VoterOf
<1>3. \A p : (IF p \in chosen THEN new ELSE 0)
              - (IF p \in LeftBy(st.voters[v]) THEN st.voters[v].last_vote_weight ELSE 0) \in Int
  BY <1>2
<1> QED BY <1>1, <1>3 DEF ChangeOf

LEMMA MovedKeeps ==
  ASSUME NEW st, Good(st), NEW v \in Voters, st.voters[v] # None, now \in 0 .. MaxDay,
         NEW proxy \in Proxies \cup {None}, proxy # None => st.voters[proxy] # None,
         NEW chosen \in SUBSET Candidates, \A p \in chosen : st.producers[p] # None
  PROVE  Keeps(First(st, v), Moved(st, v, proxy, chosen))
<1> DEFINE row == st.voters[v]   new == Weight(row)
           s1 == First(st, v)   s2 == TakenBack(s1, v)   s3 == Passed(s2, proxy, new)
<1>1. /\ Good(s1) /\ s1.voters = st.voters /\ s1.producers = st.producers /\ row = s1.voters[v]
  BY FirstKeeps
<1>2. new \in Int BY VoterOf, WeightInt
<1>3. Keeps(s1, s2)
  <2>1. CASE row.last_vote_weight > 0 /\ row.proxy # None
    <3>1. s2 = Propagate(WithProxied(s1, row.proxy, -row.last_vote_weight), row.proxy)
      BY <1>1, <2>1 DEF TakenBack
    <3>2. row.proxy \in Voters /\ s1.voters[row.proxy] # None /\ -row.last_vote_weight \in Int
      BY <1>1, <2>1, VoterOf
    <3> HIDE DEF s2, s1, row
    <3> QED BY <1>1, <3>1, <3>2, PassKeeps
  <2>2. CASE ~(row.last_vote_weight > 0 /\ row.proxy # None)
    <3>1. s2 = s1 BY <1>1, <2>2 DEF TakenBack
    <3> HIDE DEF s2, s1
    <3> QED BY <1>1, <3>1, SameRowsRefl DEF Keeps, SameActive
  <2> QED BY <2>1, <2>2
<1> HIDE DEF s2
<1>4. Keeps(s2, s3)
  <2>1. CASE proxy # None
    <3>1. s3 = Propagate(WithProxied(s2, proxy, new), proxy) BY <2>1 DEF Passed
    <3>2. proxy \in Voters BY <2>1, VotersFinite
    <3>3. s2.voters[proxy] # None BY <1>1, <1>3, <2>1, <3>2 DEF Keeps, SameRows, SameVoter
    <3> HIDE DEF new, s3
    <3> QED BY <1>2, <1>3, <3>1, <3>2, <3>3, PassKeeps DEF Keeps
  <2>2. CASE proxy = None
    <3>1. s3 = s2 BY <2>2 DEF Passed
    <3> HIDE DEF s3
    <3> QED BY <1>3, <3>1, SameRowsRefl DEF Keeps, SameActive
  <2> QED BY <2>1, <2>2
<1>5. Keeps(s1, s3)
  <2> HIDE DEF s1, s3
  <2> QED BY <1>3, <1>4, KeepsTrans
<1> DEFINE D == LeftBy(row) \cup chosen   delta == ChangeOf(row, new, chosen)
<1>6. /\ D \in SUBSET Candidates /\ \A p \in D : st.producers[p] # None
      /\ delta \in [D -> Int]
  BY <1>2, ChangeInts
<1>7. \A p \in D : s3.producers[p] # None
  <2> HIDE DEF s1, s3, D
  <2> QED BY <1>1, <1>5, <1>6 DEF Keeps, SameRows
<1>8. Keeps(s3, CountVotes(s3, delta))
  <2> HIDE DEF s3, delta, D
  <2> QED BY <1>5, <1>6, <1>7, CountVotesCounts DEF Keeps, Counts
<1>9. Moved(st, v, proxy, chosen) = CountVotes(s3, delta) BY DEF Moved, s2
<1> HIDE DEF s1, s3, delta
<1> QED BY <1>5, <1>8, <1>9, KeepsTrans DEF s1

\* The tables after update_votes.
Updated(st, v, proxy, chosen, tt) ==
  /\ Good(tt)
  /\ \A x \in Voters : x # v => SameVoter(st.voters[x], tt.voters[x])
  /\ tt.voters[v] # None /\ tt.voters[v].staked = st.voters[v].staked
  /\ tt.voters[v].is_proxy = st.voters[v].is_proxy
  /\ tt.voters[v].proxy = proxy /\ tt.voters[v].producers = chosen
  /\ tt.voters[v].last_vote_weight = Weight(st.voters[v])
  /\ \A p \in Candidates :
       /\ st.producers[p] = None <=> tt.producers[p] = None
       /\ st.producers[p] # None =>
            tt.producers[p].unpaid_blocks = st.producers[p].unpaid_blocks
  /\ SameActive(First(st, v), tt)

LEMMA UpdateVotesUpdates ==
  ASSUME NEW st, Good(st), NEW v \in Voters, st.voters[v] # None, now \in 0 .. MaxDay,
         NEW proxy \in Proxies \cup {None}, proxy # None => st.voters[proxy] # None,
         NEW chosen \in SUBSET Candidates, \A p \in chosen : st.producers[p] # None
  PROVE  Updated(st, v, proxy, chosen, UpdateVotes(st, v, proxy, chosen))
<1> DEFINE s1 == First(st, v)   m == Moved(st, v, proxy, chosen)   w == Weight(st.voters[v])
           row == Chooses(m.voters[v], w, proxy, chosen)
           tt == UpdateVotes(st, v, proxy, chosen)
<1>0. st \in State /\ w \in Int BY VoterOf, WeightInt DEF Good
<1>1. tt = [m EXCEPT !.voters[v] = row] BY <1>0, UpdateVotesIs
<1>2. Keeps(s1, m) BY MovedKeeps
<1>3. s1.voters = st.voters /\ s1.producers = st.producers /\ SameRows(st, s1)
  BY FirstKeeps
<1> HIDE DEF s1, m, w, tt
<1>4. m \in State /\ Linked(m) /\ SameRows(st, m)
  BY <1>2, <1>3, SameRowsTrans DEF Keeps, Good
<1>5. m.voters[v] \in AnyVoter /\ SameVoter(st.voters[v], m.voters[v])
  BY <1>4 DEF SameRows, SameVoter, State, VoterTable
<1>6. /\ row \in AnyVoter /\ row.staked = m.voters[v].staked
      /\ row.is_proxy = m.voters[v].is_proxy /\ row.proxy = proxy /\ row.producers = chosen
      /\ row.last_vote_weight = w
  BY <1>0, <1>5 DEF Chooses, AnyVoter
<1>7. /\ tt \in State /\ tt.producers = m.producers /\ tt.gstate = m.gstate
      /\ tt.voters[v] = row /\ \A x \in Voters : x # v => tt.voters[x] = m.voters[x]
  BY <1>1, <1>4, <1>6, VoterWritten
<1> HIDE DEF row
<1>8. row # None BY <1>6, NoRow
<1>9. \A x \in Voters : tt.voters[x] = None <=> m.voters[x] = None
  BY <1>5, <1>7, <1>8, NoRow
<1>10. Linked(tt)
  <2> SUFFICES ASSUME NEW x \in Voters, tt.voters[x] # None
               PROVE  /\ tt.voters[x].proxy # None => tt.voters[tt.voters[x].proxy] # None
                      /\ \A p \in tt.voters[x].producers : tt.producers[p] # None
    BY DEF Linked
  <2>1. CASE x # v
    <3>1. m.voters[x] # None /\ tt.voters[x] = m.voters[x] BY <1>7, <2>1
    <3>2. m.voters[x].proxy # None => m.voters[x].proxy \in Voters
      BY <1>4, <3>1, VoterOf DEF Good
    <3> QED BY <1>4, <1>7, <1>9, <3>1, <3>2 DEF Linked
  <2>2. CASE x = v
    <3>1. proxy # None => proxy \in Voters /\ m.voters[proxy] # None
      BY <1>4, VotersFinite DEF SameRows, SameVoter
    <3>2. \A p \in chosen : m.producers[p] # None BY <1>4 DEF SameRows
    <3> QED BY <1>6, <1>7, <1>9, <2>2, <3>1, <3>2
  <2> QED BY <2>1, <2>2
<1>11. SameActive(s1, tt) BY <1>2, <1>7 DEF Keeps, SameActive
<1>12. \A x \in Voters : x # v => SameVoter(st.voters[x], tt.voters[x])
  BY <1>4, <1>7 DEF SameRows
<1>13. \A p \in Candidates :
        /\ st.producers[p] = None <=> tt.producers[p] = None
        /\ st.producers[p] # None =>
             tt.producers[p].unpaid_blocks = st.producers[p].unpaid_blocks
  BY <1>4, <1>7 DEF SameRows
<1>14. Updated(st, v, proxy, chosen, tt)
  BY <1>5, <1>6, <1>7, <1>8, <1>10, <1>11, <1>12, <1>13 DEF Updated, Good, SameVoter, s1, w
<1> QED BY <1>14 DEF tt
-----------------------------------------------------------------------------
(***************************************************************************)
(* What the actions of voters and producers do to the tables.              *)
(***************************************************************************)
\* The two parts of ProxiesEnd, of any table of voters.
ProxyRule(vt) == \A v \in Voters : vt[v] # None => (vt[v].is_proxy => vt[v].proxy = None)
Led(vt) == {v \in Voters : vt[v] # None /\ vt[v].proxy # None}
NoLoop(vt) == \A S \in (SUBSET Led(vt)) \ {{}} : \E v \in S : vt[v].proxy \notin S

LEMMA ProxiesEndIs == ProxiesEnd <=> ProxyRule(voters) /\ NoLoop(voters)
BY DEF ProxiesEnd, ProxyRule, NoLoop, Led, Known, Principals

\* The stake in a row of voters.
StakeIn(row) == IF row = None THEN 0 ELSE row.staked
\* The unpaid blocks in a row of producers.
UnpaidIn(row) == IF row = None THEN 0 ELSE row.unpaid_blocks

LEMMA SameStakes ==
  ASSUME NEW a, NEW b, SameVoter(a, b)
  PROVE  StakeIn(b) = StakeIn(a)
BY DEF SameVoter, StakeIn

\* The choice of v changes, from a voter who is no proxy to an account that is,
\* or to producers; all others keep theirs.
LEMMA ChoiceKeepsOrder ==
  ASSUME NEW vt \in VoterTable, NEW wt \in VoterTable, ProxyRule(vt), NoLoop(vt),
         NEW v \in Voters, vt[v] # None, wt[v] # None,
         \A x \in Voters : x # v => SameVoter(vt[x], wt[x]),
         wt[v].is_proxy = vt[v].is_proxy,
         \/ wt[v].proxy = None
         \/ wt[v].proxy = vt[v].proxy
         \/ /\ wt[v].proxy \in Voters /\ wt[v].proxy # v /\ ~ vt[v].is_proxy
            /\ vt[wt[v].proxy] # None /\ vt[wt[v].proxy].is_proxy
  PROVE  ProxyRule(wt) /\ NoLoop(wt)
<1>1. ProxyRule(wt)
  <2> SUFFICES ASSUME NEW x \in Voters, wt[x] # None, wt[x].is_proxy PROVE wt[x].proxy = None
    BY DEF ProxyRule
  <2>1. CASE x = v
    <3>1. vt[v].is_proxy BY <2>1
    <3>2. vt[v].proxy = None BY <3>1 DEF ProxyRule
    <3> QED BY <2>1, <3>1, <3>2
  <2>2. CASE x # v BY <2>2 DEF ProxyRule, SameVoter
  <2> QED BY <2>1, <2>2
<1>2. NoLoop(wt)
  <2> SUFFICES ASSUME NEW S \in SUBSET Led(wt), S # {}, \A x \in S : wt[x].proxy \in S
               PROVE  FALSE
    BY DEF NoLoop
  <2>1. \A x \in S : x \in Voters /\ wt[x] # None /\ wt[x].proxy # None BY DEF Led
  <2>2. \A x \in S : x # v => /\ vt[x] # None /\ vt[x].proxy # None
                              /\ vt[x].proxy = wt[x].proxy
    BY <2>1 DEF SameVoter
  <2>3. CASE v \notin S
    <3>1. S \in SUBSET Led(vt) BY <2>1, <2>2, <2>3 DEF Led
    <3> QED BY <2>1, <2>2, <2>3, <3>1 DEF NoLoop
  <2>4. CASE v \in S /\ wt[v].proxy = vt[v].proxy
    <3>1. S \in SUBSET Led(vt) BY <2>1, <2>2, <2>4 DEF Led
    <3> QED BY <2>1, <2>2, <2>4, <3>1 DEF NoLoop
  <2>5. CASE v \in S /\ wt[v].proxy # vt[v].proxy
    <3> DEFINE y == wt[v].proxy
    <3>1. y \in S /\ y # None BY <2>1, <2>5
    <3>2. y \in Voters /\ y # v /\ vt[y] # None /\ vt[y].is_proxy BY <2>1, <2>5
    <3>3. vt[y].proxy = None BY <3>2 DEF ProxyRule
    <3> QED BY <2>2, <3>1, <3>2, <3>3
  <2> QED BY <2>3, <2>4, <2>5
<1> QED BY <1>1, <1>2

\* A new row, without a proxy.
LEMMA NewKeepsOrder ==
  ASSUME NEW vt \in VoterTable, NEW wt \in VoterTable, ProxyRule(vt), NoLoop(vt),
         NEW v \in Voters, wt[v] # None, wt[v].proxy = None,
         \A x \in Voters : x # v => SameVoter(vt[x], wt[x])
  PROVE  ProxyRule(wt) /\ NoLoop(wt)
<1>1. ProxyRule(wt) BY DEF ProxyRule, SameVoter
<1>2. NoLoop(wt)
  <2> SUFFICES ASSUME NEW S \in SUBSET Led(wt), S # {}, \A x \in S : wt[x].proxy \in S
               PROVE  FALSE
    BY DEF NoLoop
  <2>1. \A x \in S : x \in Voters /\ x # v /\ wt[x] # None /\ wt[x].proxy # None BY DEF Led
  <2>2. \A x \in S : vt[x] # None /\ vt[x].proxy # None /\ vt[x].proxy = wt[x].proxy
    BY <2>1 DEF SameVoter
  <2>3. S \in SUBSET Led(vt) BY <2>1, <2>2 DEF Led
  <2> QED BY <2>2, <2>3 DEF NoLoop
<1> QED BY <1>1, <1>2

LEMMA NewVoterRow ==
  ASSUME NEW n \in Int, NEW b \in BOOLEAN
  PROVE  /\ NewVoter(n, b) \in AnyVoter /\ NewVoter(n, b) # None
         /\ NewVoter(n, b).staked = n /\ NewVoter(n, b).proxy = None
         /\ NewVoter(n, b).producers = {} /\ NewVoter(n, b).is_proxy = b
         /\ NewVoter(n, b).last_vote_weight = 0 /\ NewVoter(n, b).proxied_vote_weight = 0
<1>1. NewVoter(n, b) \in AnyVoter BY DEF NewVoter, AnyVoter
<1> QED BY <1>1, NoRow DEF NewVoter

\* A record of tables becomes the state.
LEMMA BecomeIs ==
  ASSUME NEW st \in State, Become(st)
  PROVE  Tables' = st /\ voters' = st.voters /\ producers' = st.producers /\ gstate' = st.gstate
BY DEF Become, Tables, State

LEMMA TablesAre ==
  /\ Tables.voters = voters /\ Tables.producers = producers /\ Tables.gstate = gstate
  /\ Tables'.voters = voters' /\ Tables'.producers = producers' /\ Tables'.gstate = gstate'
BY DEF Tables

\* What a step of voting keeps: the stake of every voter, the blocks of every
\* producer, the rows that are there and the order of proxies.
Voted ==
  /\ Good(Tables)' /\ ProxyRule(voters') /\ NoLoop(voters')
  /\ \A v \in Voters : StakeIn(voters'[v]) = StakeIn(voters[v])
  /\ \A p \in Candidates : UnpaidIn(producers'[p]) = UnpaidIn(producers[p])

VotersOK == now \in 0 .. MaxDay /\ Good(Tables) /\ ProxyRule(voters) /\ NoLoop(voters)

LEMMA VotersParts ==
  Good(Tables) <=> /\ voters \in VoterTable /\ producers \in ProducerTable
                   /\ gstate \in AnyGlobal /\ Linked(Tables)
BY DEF Good, State, Tables

LEMMA VoteKeeps ==
  ASSUME VotersOK, NEW v \in Voters, NEW proxy \in Proxies \cup {None},
         NEW chosen \in Ballots, Voteproducer(v, proxy, chosen)
  PROVE  Voted
<1> DEFINE tt == UpdateVotes(Tables, v, proxy, chosen)
<1>1. /\ voters[v] # None
      /\ proxy # None => /\ v # proxy /\ ~ voters[v].is_proxy
                         /\ voters[proxy] # None /\ voters[proxy].is_proxy
      /\ \A p \in chosen : producers[p] # None
      /\ Become(tt)
  BY DEF Voteproducer, CanVote
<1>2. chosen \in SUBSET Candidates BY VotingAssumption
<1>3. Updated(Tables, v, proxy, chosen, tt)
  <2>1. Tables.voters[v] # None /\ (proxy # None => Tables.voters[proxy] # None)
        /\ \A p \in chosen : Tables.producers[p] # None
    BY <1>1, TablesAre
  <2> HIDE DEF tt
  <2> QED BY <1>2, <2>1, UpdateVotesUpdates DEF VotersOK, tt
<1> HIDE DEF tt
<1>4. /\ tt \in State /\ Tables' = tt /\ voters' = tt.voters /\ producers' = tt.producers
  BY <1>1, <1>3, BecomeIs DEF Updated, Good
<1>5. Good(Tables)' BY <1>3, <1>4 DEF Updated
<1>6. /\ \A x \in Voters : x # v => SameVoter(voters[x], voters'[x])
      /\ voters'[v] # None /\ voters'[v].staked = voters[v].staked
      /\ voters'[v].is_proxy = voters[v].is_proxy /\ voters'[v].proxy = proxy
  BY <1>3, <1>4, TablesAre DEF Updated
<1>7. voters \in VoterTable /\ voters' \in VoterTable BY <1>4, VotersParts DEF VotersOK, State
<1>8. ProxyRule(voters') /\ NoLoop(voters')
  <2>1. proxy # None => proxy \in Voters BY VotersFinite
  <2> QED BY <1>1, <1>6, <1>7, <2>1, ChoiceKeepsOrder DEF VotersOK
<1>9. \A x \in Voters : StakeIn(voters'[x]) = StakeIn(voters[x])
  BY <1>1, <1>6, SameStakes DEF StakeIn
<1>10. \A p \in Candidates : UnpaidIn(producers'[p]) = UnpaidIn(producers[p])
  BY <1>3, <1>4, TablesAre DEF Updated, UnpaidIn
<1> QED BY <1>5, <1>8, <1>9, <1>10 DEF Voted

LEMMA RegproxyKeeps ==
  ASSUME VotersOK, NEW v \in Voters, NEW isproxy \in BOOLEAN, Regproxy(v, isproxy)
  PROVE  Voted
<1>0. /\ Tables \in State /\ Linked(Tables) /\ voters \in VoterTable
      /\ producers \in ProducerTable /\ gstate \in AnyGlobal
  BY VotersParts DEF VotersOK, Good
<1>1. CASE /\ voters[v] = None /\ voters' = [voters EXCEPT ![v] = NewVoter(0, isproxy)]
           /\ UNCHANGED <<producers, gstate>>
  <2> DEFINE row == NewVoter(0, isproxy)
  <2>1. row \in AnyVoter /\ row # None /\ row.staked = 0 /\ row.proxy = None /\ row.producers = {}
    <3>1. 0 \in Int OBVIOUS
    <3> HIDE DEF row
    <3>2. row = NewVoter(0, isproxy) BY DEF row
    <3> QED BY ONLY <3>1, <3>2, isproxy \in BOOLEAN, NewVoterRow
  <2> HIDE DEF row
  <2>2. /\ voters' \in VoterTable /\ voters'[v] = row
        /\ \A x \in Voters : x # v => voters'[x] = voters[x]
        /\ producers' = producers /\ gstate' = gstate
    BY <1>0, <1>1, <2>1 DEF VoterTable, row
  <2>3. Linked(Tables)'
    <3> SUFFICES ASSUME NEW x \in Voters, voters'[x] # None
                 PROVE  /\ voters'[x].proxy # None => voters'[voters'[x].proxy] # None
                        /\ \A p \in voters'[x].producers : producers'[p] # None
      BY TablesAre DEF Linked
    <3>1. CASE x = v BY <2>1, <2>2, <3>1
    <3>2. CASE x # v
      <4>1. voters'[x] = voters[x] BY <2>2, <3>2
      <4>2. /\ voters[x].proxy # None => voters[x].proxy \in Voters /\ voters[voters[x].proxy] # None
            /\ \A p \in voters[x].producers : producers[p] # None
        BY <1>0, <4>1, VoterOf, TablesAre DEF Good
      <4> QED BY <2>1, <2>2, <4>1, <4>2
    <3> QED BY <3>1, <3>2
  <2>4. Good(Tables)' BY <1>0, <2>2, <2>3 DEF Good, State, Tables
  <2>5. \A x \in Voters : x # v => SameVoter(voters[x], voters'[x]) BY <2>2 DEF SameVoter
  <2>6. ProxyRule(voters') /\ NoLoop(voters')
    BY <1>0, <2>1, <2>2, <2>5, NewKeepsOrder DEF VotersOK
  <2>7. \A x \in Voters : StakeIn(voters'[x]) = StakeIn(voters[x])
    BY <1>1, <2>1, <2>2 DEF StakeIn
  <2> QED BY <2>2, <2>4, <2>6, <2>7 DEF Voted
<1>2. CASE /\ voters[v] # None /\ (isproxy => voters[v].proxy = None)
           /\ Become(Propagate([Tables EXCEPT !.voters[v] =
                                  [voters[v] EXCEPT !.is_proxy = isproxy]], v))
  <2> DEFINE row == [voters[v] EXCEPT !.is_proxy = isproxy]
             st == [Tables EXCEPT !.voters[v] = row]
             tt == Propagate(st, v)
  <2>1. /\ row \in AnyVoter /\ row # None /\ row.staked = voters[v].staked
        /\ row.proxy = voters[v].proxy /\ row.producers = voters[v].producers
        /\ row.is_proxy = isproxy
    <3>1. voters[v] \in AnyVoter BY <1>0, <1>2 DEF VoterTable
    <3>2. row \in AnyVoter BY <3>1 DEF AnyVoter
    <3> QED BY <3>1, <3>2, NoRow DEF AnyVoter
  <2> HIDE DEF row
  <2>2. /\ st \in State /\ st.producers = producers /\ st.gstate = gstate /\ st.voters[v] = row
        /\ \A x \in Voters : x # v => st.voters[x] = voters[x]
    BY <1>0, <2>1, VoterWritten, TablesAre
  <2> HIDE DEF st
  <2>3. Linked(st)
    <3> SUFFICES ASSUME NEW x \in Voters, st.voters[x] # None
                 PROVE  /\ st.voters[x].proxy # None => st.voters[st.voters[x].proxy] # None
                        /\ \A p \in st.voters[x].producers : st.producers[p] # None
      BY DEF Linked
    <3>1. /\ voters[x] # None /\ st.voters[x].proxy = voters[x].proxy
          /\ st.voters[x].producers = voters[x].producers
      BY <1>2, <2>1, <2>2
    <3>2. /\ voters[x].proxy # None => voters[x].proxy \in Voters /\ voters[voters[x].proxy] # None
          /\ \A p \in voters[x].producers : producers[p] # None
      BY <1>0, <3>1, VoterOf, TablesAre DEF Good
    <3> QED BY <2>1, <2>2, <3>1, <3>2
  <2>4. Keeps(st, tt)
    <3>1. Good(st) /\ st.voters[v] # None BY <2>1, <2>2, <2>3 DEF Good
    <3> QED BY <3>1, PropagateKeeps DEF VotersOK, Keeps
  <2>5. Become(tt) BY <1>2 DEF st, row
  <2> HIDE DEF tt
  <2>6. tt \in State /\ Tables' = tt /\ voters' = tt.voters /\ producers' = tt.producers
    BY <2>4, <2>5, BecomeIs DEF Keeps, Good
  <2>7. Good(Tables)' BY <2>4, <2>6 DEF Keeps
  <2>8. /\ \A x \in Voters : x # v => SameVoter(voters[x], voters'[x])
        /\ SameVoter(row, voters'[v])
    BY <2>2, <2>4, <2>6 DEF Keeps, SameRows
  <2>9. /\ voters'[v] # None /\ voters'[v].staked = voters[v].staked
        /\ voters'[v].proxy = voters[v].proxy /\ voters'[v].is_proxy = isproxy
    BY <2>1, <2>8 DEF SameVoter
  <2>10. ProxyRule(voters')
    <3> SUFFICES ASSUME NEW x \in Voters, voters'[x] # None, voters'[x].is_proxy
                 PROVE  voters'[x].proxy = None
      BY DEF ProxyRule
    <3>1. CASE x = v BY <1>2, <2>9, <3>1
    <3>2. CASE x # v BY <2>8, <3>2 DEF SameVoter, VotersOK, ProxyRule
    <3> QED BY <3>1, <3>2
  <2>11. NoLoop(voters')
    <3>1. \A x \in Voters : /\ voters'[x] = None <=> voters[x] = None
                            /\ voters[x] # None => voters'[x].proxy = voters[x].proxy
      BY <1>2, <2>8, <2>9 DEF SameVoter
    <3>2. Led(voters') = Led(voters) BY <3>1 DEF Led
    <3> QED BY <3>1, <3>2 DEF NoLoop, VotersOK, Led
  <2>12. \A x \in Voters : StakeIn(voters'[x]) = StakeIn(voters[x])
    BY <1>2, <2>8, <2>9, SameStakes DEF StakeIn
  <2>13. \A p \in Candidates : UnpaidIn(producers'[p]) = UnpaidIn(producers[p])
    BY <2>2, <2>4, <2>6 DEF Keeps, SameRows, UnpaidIn
  <2> QED BY <2>7, <2>10, <2>11, <2>12, <2>13 DEF Voted
<1> QED BY <1>1, <1>2, TablesAre DEF Regproxy

\* Registering and leaving change one row of the producers.
LEMMA ProducerWritten ==
  ASSUME VotersOK, NEW p \in Candidates, NEW row \in AnyProducer,
         producers' = [producers EXCEPT ![p] = row], UNCHANGED <<voters, gstate>>,
         row.unpaid_blocks = UnpaidIn(producers[p])
  PROVE  Voted
<1>0. /\ Linked(Tables) /\ voters \in VoterTable
      /\ producers \in ProducerTable /\ gstate \in AnyGlobal
  BY VotersParts DEF VotersOK
<1>1. /\ producers' \in ProducerTable /\ producers'[p] = row /\ row # None
      /\ \A x \in Candidates : x # p => producers'[x] = producers[x]
      /\ voters' = voters /\ gstate' = gstate
  BY <1>0, NoRow DEF ProducerTable
<1>2. Linked(Tables)'
  <2> SUFFICES ASSUME NEW x \in Voters, voters[x] # None
               PROVE  /\ voters[x].proxy # None => voters[voters[x].proxy] # None
                      /\ \A q \in voters[x].producers : producers'[q] # None
    BY <1>1, TablesAre DEF Linked
  <2>1. voters[x].producers \subseteq Candidates BY <1>0 DEF VoterTable, AnyVoter
  <2> QED BY <1>0, <1>1, <2>1, TablesAre DEF Linked
<1>3. Good(Tables)' BY <1>0, <1>1, <1>2 DEF Good, State, Tables
<1>4. \A x \in Candidates : UnpaidIn(producers'[x]) = UnpaidIn(producers[x])
  BY <1>1 DEF UnpaidIn
<1> QED BY <1>1, <1>3, <1>4 DEF Voted, VotersOK

LEMMA RegproducerKeeps ==
  ASSUME VotersOK, NEW p \in Candidates, Regproducer(p) \/ Unregprod(p)
  PROVE  Voted
<1>0. producers \in ProducerTable BY VotersParts DEF VotersOK
<1>1. CASE producers[p] = None
  <2>1. producers' = [producers EXCEPT ![p] = NewProducer] /\ UNCHANGED <<voters, gstate>>
    BY <1>1 DEF Regproducer, Unregprod
  <2>2. NewProducer \in AnyProducer /\ NewProducer.unpaid_blocks = UnpaidIn(producers[p])
    BY <1>1 DEF NewProducer, AnyProducer, UnpaidIn, VotersOK
  <2> QED BY <2>1, <2>2, ProducerWritten
<1>2. CASE producers[p] # None
  <2>1. producers[p] \in AnyProducer BY <1>0, <1>2 DEF ProducerTable
  <2>2. PICK b \in BOOLEAN : producers' = [producers EXCEPT ![p] = [producers[p] EXCEPT !.is_active = b]]
    BY <1>2 DEF Regproducer, Unregprod
  <2> DEFINE row == [producers[p] EXCEPT !.is_active = b]
  <2>3. row \in AnyProducer /\ row.unpaid_blocks = UnpaidIn(producers[p])
    BY <1>2, <2>1 DEF AnyProducer, UnpaidIn
  <2>4. producers' = [producers EXCEPT ![p] = row] BY <2>2
  <2>5. UNCHANGED <<voters, gstate>> BY DEF Regproducer, Unregprod
  <2> HIDE DEF row
  <2> QED BY <2>3, <2>4, <2>5, ProducerWritten
<1> QED BY <1>1, <1>2

LEMMA VotingKeeps ==
  ASSUME VotersOK, VotingStep
  PROVE  Voted
<1>1. {} \in Ballots BY VotingAssumption
<1> QED BY <1>1, VoteKeeps, RegproxyKeeps, RegproducerKeeps DEF VotingStep
-----------------------------------------------------------------------------
(***************************************************************************)
(* The tallies.  Each voter gives its last weight to the producers it      *)
(* lists, or entrusts it to its proxy.  While update_votes moves the votes *)
(* of a voter u, what u gives and what it entrusts are not yet those of    *)
(* its row: they are those of two rows g and e.                            *)
(***************************************************************************)
Gives(row, p) == IF row # None /\ p \in row.producers THEN row.last_vote_weight ELSE 0
Entrusts(row, x) == IF row # None /\ row.proxy = x THEN row.last_vote_weight ELSE 0
RowOf(vt, u, g, v) == IF v = u THEN g ELSE vt[v]
GivenTo(vt, u, g, p) ==
  SumFunctionOnSet([v \in Voters |-> Gives(RowOf(vt, u, g, v), p)], Voters)
EntrustedTo(vt, u, e, x) ==
  SumFunctionOnSet([v \in Voters |-> Entrusts(RowOf(vt, u, e, v), x)], Voters)
VotesIn(row) == IF row = None THEN 0 ELSE row.total_votes
VotesInAll(pt) == SumFunctionOnSet([p \in Candidates |-> VotesIn(pt[p])], Candidates)

\* The share of a row of producers, and its part of the rate.
ShareIn(row) == IF row = None THEN 0 ELSE ShareNow(row)
RateIn(row) == IF row = None \/ Lapsed(row) THEN 0 ELSE row.total_votes
SharesInAll(pt) == SumFunctionOnSet([p \in Candidates |-> ShareIn(pt[p])], Candidates)
RatesInAll(pt) == SumFunctionOnSet([p \in Candidates |-> RateIn(pt[p])], Candidates)
PaidRow(row) == row # None => row \in ProducerRow /\ row.last_votepay_share_update <= now
PaidRows(pt) == \A p \in Candidates : PaidRow(pt[p])

\* The totals of the global state are those of the producers.
Totals(g, pt) ==
  /\ g \in GlobalState /\ PaidRows(pt)
  /\ g.total_producer_vote_weight = VotesInAll(pt)
  /\ TotalShareNow(g) = SharesInAll(pt)
  /\ g.total_vpay_share_change_rate = RatesInAll(pt)

LEMMA InRowNat ==
  ASSUME NEW row, PaidRow(row), now \in 0 .. MaxDay
  PROVE  ShareIn(row) \in Nat /\ RateIn(row) \in Nat /\ VotesIn(row) \in Nat
<1>1. CASE row = None BY <1>1 DEF ShareIn, RateIn, VotesIn
<1>2. CASE row # None
  <2>1. /\ row.total_votes \in Nat /\ row.votepay_share \in Nat
        /\ row.last_votepay_share_update \in 0 .. MaxDay /\ row.last_votepay_share_update <= now
    BY <1>2 DEF PaidRow, ProducerRow
  <2>2. now - row.last_votepay_share_update \in Nat BY <2>1
  <2>3. \A a, b, c \in Nat : a + b * c \in Nat OBVIOUS
  <2>4. ShareNow(row) \in Nat BY <2>1, <2>2, <2>3 DEF ShareNow
  <2> QED BY <1>2, <2>1, <2>4 DEF ShareIn, RateIn, VotesIn
<1> QED BY <1>1, <1>2

LEMMA InAllNat ==
  ASSUME NEW pt, PaidRows(pt), now \in 0 .. MaxDay
  PROVE  VotesInAll(pt) \in Nat /\ SharesInAll(pt) \in Nat /\ RatesInAll(pt) \in Nat
<1> DEFINE f == [p \in Candidates |-> VotesIn(pt[p])]
           h == [p \in Candidates |-> ShareIn(pt[p])]
           k == [p \in Candidates |-> RateIn(pt[p])]
<1>1. \A p \in Candidates : f[p] \in Nat /\ h[p] \in Nat /\ k[p] \in Nat
  BY InRowNat DEF PaidRows
<1> HIDE DEF f, h, k
<1>2. /\ SumFunctionOnSet(f, Candidates) \in Nat /\ SumFunctionOnSet(h, Candidates) \in Nat
      /\ SumFunctionOnSet(k, Candidates) \in Nat
  BY <1>1, VotersFinite, SumNat
<1> QED BY <1>2 DEF VotesInAll, SharesInAll, RatesInAll, f, h, k

\* A producer whose votes change.
LEMMA CountedIn ==
  ASSUME NEW row \in ProducerRow, row.last_votepay_share_update <= now, now \in 0 .. MaxDay,
         NEW d \in Int, row.total_votes + d \in Nat
  PROVE  /\ PaidRow(Counted(row, d)) /\ Counted(row, d) # None
         /\ ShareIn(Counted(row, d))
              = ShareIn(row) - (IF Lapses(row) THEN ShareNow(row) ELSE 0)
         /\ RateIn(Counted(row, d)) = RateIn(row) + RateChange(row, d)
<1>1. /\ row.total_votes \in Nat /\ row.votepay_share \in Nat
      /\ row.last_claim_time \in 0 .. MaxDay
      /\ row.last_votepay_share_update \in 0 .. MaxDay
      /\ row \in AnyProducer /\ row # None /\ ClaimWindow \in Nat
  BY NoRow, VotingAssumption DEF ProducerRow, AnyProducer
<1>2. ShareNow(row) \in Nat
  <2>1. PaidRow(row) BY DEF PaidRow
  <2> QED BY <1>1, <2>1, InRowNat DEF ShareIn
<1> DEFINE s == IF Lapses(row) THEN 0 ELSE ShareNow(row)
           c == Counted(row, d)
<1>3. c = [row EXCEPT !.total_votes = row.total_votes + d, !.votepay_share = s,
                      !.last_votepay_share_update = now]
  <2>1. AtLeast0(row.total_votes + d) = row.total_votes + d BY <1>1, AtLeast0Nat
  <2> QED BY <2>1 DEF Counted
<1>4. s \in Nat BY <1>2
<1> HIDE DEF c, s
<1>5. /\ c \in ProducerRow /\ c.total_votes = row.total_votes + d /\ c.votepay_share = s
      /\ c.last_votepay_share_update = now /\ c.last_claim_time = row.last_claim_time
  BY <1>3, <1>4 DEF ProducerRow
<1>6. c # None
  <2>1. c \in AnyProducer BY <1>5 DEF ProducerRow, AnyProducer
  <2> QED BY <2>1, NoRow
<1>7. PaidRow(c) BY <1>5 DEF PaidRow
<1>8. Lapsed(c) <=> Crossed(row) BY <1>5 DEF Lapsed, Crossed
<1>9. Lapsed(row) => Crossed(row) BY <1>1 DEF Lapsed, Crossed
<1>10. ShareNow(c) = s
  <2>1. now - c.last_votepay_share_update = 0 BY <1>5
  <2>2. \A a, b \in Nat : a + b * 0 = a OBVIOUS
  <2> QED BY <1>4, <1>5, <2>1, <2>2 DEF ShareNow
<1>11. ShareIn(c) = ShareIn(row) - (IF Lapses(row) THEN ShareNow(row) ELSE 0)
  BY <1>1, <1>2, <1>6, <1>10 DEF ShareIn, s
<1>12. RateIn(c) = RateIn(row) + RateChange(row, d)
  BY <1>1, <1>5, <1>6, <1>8, <1>9 DEF RateIn, RateChange, Lapses
<1> QED BY <1>6, <1>7, <1>11, <1>12 DEF c

\* What counting the votes of delta takes from the total of the shares.
LostBy(pt, D) == [p \in D |-> IF Lapses(pt[p]) THEN ShareNow(pt[p]) ELSE 0]
RatesBy(pt, delta, D) == [p \in D |-> RateChange(pt[p], delta[p])]

CountedGlobal(g, pt, delta, D) ==
  LET h == TotalUpdated(g, SumFunctionOnSet(LostBy(pt, D), D),
                        SumFunctionOnSet(RatesBy(pt, delta, D), D))
  IN [h EXCEPT !.total_producer_vote_weight
                 = h.total_producer_vote_weight + SumFunctionOnSet(delta, D)]

LEMMA CountIs ==
  ASSUME NEW st \in State, NEW D \in SUBSET Candidates, NEW delta \in [D -> Int]
  PROVE  /\ \A p \in Candidates \ D : CountVotes(st, delta).producers[p] = st.producers[p]
         /\ \A p \in D : CountVotes(st, delta).producers[p] = Counted(st.producers[p], delta[p])
         /\ CountVotes(st, delta).gstate = CountedGlobal(st.gstate, st.producers, delta, D)
<1> DEFINE tt == CountVotes(st, delta)
           rates == RatesBy(st.producers, delta, D)
           lost == LostBy(st.producers, D)
           g == TotalUpdated(st.gstate, SumFunctionOnSet(lost, D), SumFunctionOnSet(rates, D))
           prods == [p \in Candidates |->
             IF p \in D THEN Counted(st.producers[p], delta[p]) ELSE st.producers[p]]
           h == [g EXCEPT !.total_producer_vote_weight = @ + SumFunction(delta)]
<1>1. DOMAIN rates = D /\ DOMAIN lost = D /\ DOMAIN delta = D BY DEF LostBy, RatesBy
<1>2. /\ SumFunction(lost) = SumFunctionOnSet(lost, D)
      /\ SumFunction(rates) = SumFunctionOnSet(rates, D)
      /\ SumFunction(delta) = SumFunctionOnSet(delta, D)
  BY <1>1 DEF SumFunction
<1>3. tt = [st EXCEPT !.producers = prods, !.gstate = h]
  BY <1>1, <1>2 DEF CountVotes, RatesBy, LostBy
<1> HIDE DEF tt, prods, h
<1>4. tt.producers = prods /\ tt.gstate = h BY <1>3 DEF State
<1>5. h = CountedGlobal(st.gstate, st.producers, delta, D)
  BY <1>2 DEF h, CountedGlobal
<1>6. /\ \A p \in Candidates \ D : prods[p] = st.producers[p]
      /\ \A p \in D : prods[p] = Counted(st.producers[p], delta[p])
  BY DEF prods
<1> QED BY <1>4, <1>5, <1>6 DEF tt

\* The totals after lost shares and a change of the rate.
LEMMA UpdatedIs ==
  ASSUME NEW g \in GlobalState, now \in 0 .. MaxDay, NEW lost \in Int, NEW rate \in Int,
         NEW w \in Nat, TotalShareNow(g) - lost \in Nat,
         g.total_vpay_share_change_rate + rate \in Nat
  PROVE  LET h == [TotalUpdated(g, lost, rate) EXCEPT !.total_producer_vote_weight = w]
         IN  /\ h \in GlobalState /\ h.total_producer_vote_weight = w
             /\ TotalShareNow(h) = TotalShareNow(g) - lost
             /\ h.total_vpay_share_change_rate = g.total_vpay_share_change_rate + rate
<1> DEFINE t == TotalShareNow(g) - lost   r == g.total_vpay_share_change_rate + rate
           h == [TotalUpdated(g, lost, rate) EXCEPT !.total_producer_vote_weight = w]
<1>1. t \in Nat /\ r \in Nat /\ AtLeast0(t) = t /\ AtLeast0(r) = r BY AtLeast0Nat
<1>2. TotalUpdated(g, lost, rate) =
        [g EXCEPT !.total_producer_votepay_share = t, !.total_vpay_share_change_rate = r,
                  !.last_vpay_state_update = now]
  BY <1>1 DEF TotalUpdated
<1>3. h = [g EXCEPT !.total_producer_votepay_share = t, !.total_vpay_share_change_rate = r,
                    !.last_vpay_state_update = now, !.total_producer_vote_weight = w]
  BY <1>2 DEF GlobalState
<1> HIDE DEF t, r, h
<1>4. /\ h \in GlobalState /\ h.total_producer_vote_weight = w
      /\ h.total_producer_votepay_share = t /\ h.last_vpay_state_update = now
      /\ h.total_vpay_share_change_rate = r
  BY <1>1, <1>3 DEF GlobalState
<1>5. TotalShareNow(h) = t
  <2>1. now - h.last_vpay_state_update = 0 BY <1>4
  <2>2. \A a, b \in Nat : a + b * 0 = a OBVIOUS
  <2> QED BY <1>1, <1>4, <2>1, <2>2 DEF TotalShareNow
<1> QED BY <1>4, <1>5 DEF h, t, r

LEMMA CountTotals ==
  ASSUME NEW st \in State, Totals(st.gstate, st.producers), now \in 0 .. MaxDay,
         NEW D \in SUBSET Candidates, NEW delta \in [D -> Int],
         \A p \in D : st.producers[p] # None /\ st.producers[p].total_votes + delta[p] \in Nat
  PROVE  Totals(CountVotes(st, delta).gstate, CountVotes(st, delta).producers)
<1> DEFINE tt == CountVotes(st, delta)
           pt == st.producers   qt == tt.producers
           rates == RatesBy(pt, delta, D)
           lost == LostBy(pt, D)
           L == SumFunctionOnSet(lost, D)   R == SumFunctionOnSet(rates, D)
           W == SumFunctionOnSet(delta, D)
           g == TotalUpdated(st.gstate, L, R)
<1>0. /\ st.gstate \in GlobalState /\ PaidRows(pt)
      /\ st.gstate.total_producer_vote_weight = VotesInAll(pt)
      /\ TotalShareNow(st.gstate) = SharesInAll(pt)
      /\ st.gstate.total_vpay_share_change_rate = RatesInAll(pt)
  BY DEF Totals
<1>1. /\ \A p \in Candidates \ D : qt[p] = pt[p]
      /\ \A p \in D : qt[p] = Counted(pt[p], delta[p])
      /\ tt.gstate = CountedGlobal(st.gstate, pt, delta, D)
  BY CountIs
<1> HIDE DEF tt, pt, qt
<1>2. ASSUME NEW p \in D
      PROVE  /\ PaidRow(qt[p])
             /\ lost[p] \in Int /\ rates[p] \in Int /\ delta[p] \in Int
             /\ VotesIn(qt[p]) = VotesIn(pt[p]) + delta[p]
             /\ ShareIn(pt[p]) = ShareIn(qt[p]) + lost[p]
             /\ RateIn(qt[p]) = RateIn(pt[p]) + rates[p]
  <2> DEFINE row == pt[p]   d == delta[p]   c == Counted(row, d)
  <2>1. /\ row \in ProducerRow /\ row.last_votepay_share_update <= now /\ row # None
        /\ d \in Int /\ row.total_votes + d \in Nat /\ PaidRow(row)
    BY <1>0 DEF PaidRows, PaidRow, pt
  <2>2. /\ lost[p] = IF Lapses(row) THEN ShareNow(row) ELSE 0
        /\ rates[p] = RateChange(row, d)
    BY DEF LostBy, RatesBy
  <2>3. qt[p] = c BY <1>1
  <2> HIDE DEF row, d, lost, rates
  <2>4. /\ PaidRow(c) /\ c # None
        /\ ShareIn(c) = ShareIn(row) - (IF Lapses(row) THEN ShareNow(row) ELSE 0)
        /\ RateIn(c) = RateIn(row) + RateChange(row, d)
    BY <2>1, CountedIn
  <2>5. row \in AnyProducer /\ now \in Int BY <2>1 DEF ProducerRow, AnyProducer
  <2>6. /\ ShareNow(row) \in Int /\ RateChange(row, d) \in Int
        /\ c.total_votes = AtLeast0(row.total_votes + d)
    BY <2>1, <2>5, CountInts
  <2>7. c.total_votes = row.total_votes + d BY <2>1, <2>6, AtLeast0Nat
  <2>8. ShareIn(row) \in Int /\ ShareIn(c) \in Int BY <2>1, <2>4, InRowNat
  <2> HIDE DEF c
  <2>9. VotesIn(c) = VotesIn(row) + d BY <2>1, <2>4, <2>7 DEF VotesIn
  <2> QED BY <2>1, <2>2, <2>3, <2>4, <2>6, <2>8, <2>9 DEF row, d
<1>3. PaidRows(qt) BY <1>0, <1>1, <1>2 DEF PaidRows
<1>4. /\ VotesInAll(pt) \in Nat /\ SharesInAll(pt) \in Nat /\ RatesInAll(pt) \in Nat
      /\ VotesInAll(qt) \in Nat /\ SharesInAll(qt) \in Nat /\ RatesInAll(qt) \in Nat
  BY <1>0, <1>3, InAllNat
<1> DEFINE fv == [p \in Candidates |-> VotesIn(pt[p])]   hv == [p \in Candidates |-> VotesIn(qt[p])]
           fs == [p \in Candidates |-> ShareIn(pt[p])]   hs == [p \in Candidates |-> ShareIn(qt[p])]
           fr == [p \in Candidates |-> RateIn(pt[p])]    hr == [p \in Candidates |-> RateIn(qt[p])]
<1>5. /\ \A p \in Candidates : fv[p] \in Int /\ hs[p] \in Int /\ fr[p] \in Int
      /\ \A p \in D : hv[p] = fv[p] + delta[p] /\ fs[p] = hs[p] + lost[p] /\ hr[p] = fr[p] + rates[p]
      /\ \A p \in Candidates \ D : hv[p] = fv[p] /\ fs[p] = hs[p] /\ hr[p] = fr[p]
  BY <1>0, <1>1, <1>2, <1>3, InRowNat DEF PaidRows
<1>6. /\ VotesInAll(pt) = SumFunctionOnSet(fv, Candidates)
      /\ VotesInAll(qt) = SumFunctionOnSet(hv, Candidates)
      /\ SharesInAll(pt) = SumFunctionOnSet(fs, Candidates)
      /\ SharesInAll(qt) = SumFunctionOnSet(hs, Candidates)
      /\ RatesInAll(pt) = SumFunctionOnSet(fr, Candidates)
      /\ RatesInAll(qt) = SumFunctionOnSet(hr, Candidates)
  BY DEF VotesInAll, SharesInAll, RatesInAll
<1> HIDE DEF fv, hv, fs, hs, fr, hr, lost, rates
<1>15. /\ \A p \in D : delta[p] \in Int /\ hv[p] = fv[p] + delta[p]
       /\ \A p \in D : lost[p] \in Int /\ fs[p] = hs[p] + lost[p]
       /\ \A p \in D : rates[p] \in Int /\ hr[p] = fr[p] + rates[p]
  BY <1>2, <1>5
<1>16. /\ \A p \in Candidates : fv[p] \in Int
       /\ \A p \in Candidates : hs[p] \in Int
       /\ \A p \in Candidates : fr[p] \in Int
       /\ \A p \in Candidates \ D : hv[p] = fv[p]
       /\ \A p \in Candidates \ D : fs[p] = hs[p]
       /\ \A p \in Candidates \ D : hr[p] = fr[p]
       /\ IsFiniteSet(Candidates)
  BY <1>5, VotersFinite
<1>7. VotesInAll(qt) = VotesInAll(pt) + W /\ W \in Int
  <2>1. \A p \in D : delta[p] \in Int /\ hv[p] = fv[p] + delta[p] BY <1>15
  <2>2. \A p \in Candidates : fv[p] \in Int BY <1>16
  <2>3. \A p \in Candidates \ D : hv[p] = fv[p] BY <1>16
  <2>4. IsFiniteSet(Candidates) BY VotersFinite
  <2>5. /\ SumFunctionOnSet(hv, Candidates)
             = SumFunctionOnSet(fv, Candidates) + SumFunctionOnSet(delta, D)
        /\ SumFunctionOnSet(delta, D) \in Int
    BY ONLY <2>1, <2>2, <2>3, <2>4, D \in SUBSET Candidates, SumShift
  <2> QED BY <1>6, <2>5 DEF W
<1>8. SharesInAll(pt) = SharesInAll(qt) + L /\ L \in Int
  <2>1. \A p \in D : lost[p] \in Int /\ fs[p] = hs[p] + lost[p] BY <1>15
  <2>2. \A p \in Candidates : hs[p] \in Int BY <1>16
  <2>3. \A p \in Candidates \ D : fs[p] = hs[p] BY <1>16
  <2>4. IsFiniteSet(Candidates) BY VotersFinite
  <2>5. /\ SumFunctionOnSet(fs, Candidates)
             = SumFunctionOnSet(hs, Candidates) + SumFunctionOnSet(lost, D)
        /\ SumFunctionOnSet(lost, D) \in Int
    BY ONLY <2>1, <2>2, <2>3, <2>4, D \in SUBSET Candidates, SumShift
  <2> QED BY <1>6, <2>5 DEF L
<1>9. RatesInAll(qt) = RatesInAll(pt) + R /\ R \in Int
  <2>1. \A p \in D : rates[p] \in Int /\ hr[p] = fr[p] + rates[p] BY <1>15
  <2>2. \A p \in Candidates : fr[p] \in Int BY <1>16
  <2>3. \A p \in Candidates \ D : hr[p] = fr[p] BY <1>16
  <2>4. IsFiniteSet(Candidates) BY VotersFinite
  <2>5. /\ SumFunctionOnSet(hr, Candidates)
             = SumFunctionOnSet(fr, Candidates) + SumFunctionOnSet(rates, D)
        /\ SumFunctionOnSet(rates, D) \in Int
    BY ONLY <2>1, <2>2, <2>3, <2>4, D \in SUBSET Candidates, SumShift
  <2> QED BY <1>6, <2>5 DEF R
<1>10. g.total_producer_vote_weight = VotesInAll(pt)
  BY <1>0 DEF TotalUpdated, GlobalState
<1> HIDE DEF L, R, W
<1> DEFINE w == VotesInAll(qt)
<1>11. tt.gstate = [g EXCEPT !.total_producer_vote_weight = w] 
  BY <1>1, <1>7, <1>10 DEF CountedGlobal, L, R, W, lost, rates
<1>12. /\ w \in Nat /\ TotalShareNow(st.gstate) - L \in Nat
       /\ st.gstate.total_vpay_share_change_rate + R \in Nat
       /\ TotalShareNow(st.gstate) - L = SharesInAll(qt)
       /\ st.gstate.total_vpay_share_change_rate + R = RatesInAll(qt)
  BY <1>0, <1>4, <1>8, <1>9
<1> HIDE DEF w
<1>13. /\ tt.gstate \in GlobalState /\ tt.gstate.total_producer_vote_weight = w
       /\ TotalShareNow(tt.gstate) = TotalShareNow(st.gstate) - L
       /\ tt.gstate.total_vpay_share_change_rate = st.gstate.total_vpay_share_change_rate + R
  BY <1>0, <1>8, <1>9, <1>11, <1>12, UpdatedIs
<1>14. Totals(tt.gstate, qt) BY <1>3, <1>12, <1>13 DEF Totals, w
<1> QED BY <1>14 DEF tt, qt

Tallied(st, u, g, e) ==
  /\ \A p \in Candidates : st.producers[p] # None =>
       st.producers[p].total_votes = GivenTo(st.voters, u, g, p)
  /\ \A x \in Voters : st.voters[x] # None =>
       st.voters[x].proxied_vote_weight = EntrustedTo(st.voters, u, e, x)
  /\ Totals(st.gstate, st.producers)

\* Weights are even, and principals list nobody.
EvenNat == {n \in Nat : n % 2 = 0}
FairRow(row) == row # None =>
  /\ row \in AnyVoter /\ row.staked \in Nat
  /\ row.last_vote_weight \in EvenNat /\ row.proxied_vote_weight % 2 = 0
  /\ row.proxy # None => row.producers = {}
  /\ row.producers \in Ballots
FairRows(vt) == \A v \in Voters : FairRow(vt[v])

\* Rows that count the same.
SameCredit(a, b) ==
  /\ a = None <=> b = None
  /\ a # None => /\ b.proxy = a.proxy /\ b.producers = a.producers
                 /\ b.last_vote_weight = a.last_vote_weight

LEMMA CreditsInt ==
  ASSUME NEW row, FairRow(row), NEW p
  PROVE  /\ Gives(row, p) \in Nat /\ Gives(row, p) \in Int
         /\ Entrusts(row, p) \in Nat /\ Entrusts(row, p) \in Int
BY DEF FairRow, Gives, Entrusts, EvenNat

LEMMA CreditsSame ==
  ASSUME NEW a, NEW b, SameCredit(a, b), NEW p
  PROVE  Gives(b, p) = Gives(a, p) /\ Entrusts(b, p) = Entrusts(a, p)
BY DEF SameCredit, Gives, Entrusts

LEMMA GivenNat ==
  ASSUME NEW vt, FairRows(vt), NEW u, NEW g, FairRow(g), NEW p
  PROVE  GivenTo(vt, u, g, p) \in Nat /\ EntrustedTo(vt, u, g, p) \in Nat
<1> DEFINE f == [v \in Voters |-> Gives(RowOf(vt, u, g, v), p)]
           h == [v \in Voters |-> Entrusts(RowOf(vt, u, g, v), p)]
<1>1. \A v \in Voters : FairRow(RowOf(vt, u, g, v)) BY DEF FairRows, RowOf
<1>2. \A v \in Voters : f[v] \in Nat /\ h[v] \in Nat BY <1>1, CreditsInt
<1> HIDE DEF f, h
<1>3. SumFunctionOnSet(f, Voters) \in Nat /\ SumFunctionOnSet(h, Voters) \in Nat
  BY <1>2, VotersFinite, SumNat
<1> QED BY <1>3 DEF f, h, GivenTo, EntrustedTo

\* One row counts otherwise than before.
LEMMA CreditMoves ==
  ASSUME NEW vt, NEW wt, FairRows(vt), FairRows(wt), NEW u, NEW g, NEW k,
         FairRow(g), FairRow(k), NEW a \in Voters,
         \A v \in Voters : v # a => SameCredit(RowOf(vt, u, g, v), RowOf(wt, u, k, v)),
         NEW p
  PROVE  /\ GivenTo(wt, u, k, p) = GivenTo(vt, u, g, p)
              - Gives(RowOf(vt, u, g, a), p) + Gives(RowOf(wt, u, k, a), p)
         /\ EntrustedTo(wt, u, k, p) = EntrustedTo(vt, u, g, p)
              - Entrusts(RowOf(vt, u, g, a), p) + Entrusts(RowOf(wt, u, k, a), p)
<1> DEFINE R(v) == RowOf(vt, u, g, v)
           Q(v) == RowOf(wt, u, k, v)
           f == [v \in Voters |-> Gives(R(v), p)]   ff == [v \in Voters |-> Gives(Q(v), p)]
           h == [v \in Voters |-> Entrusts(R(v), p)]   hh == [v \in Voters |-> Entrusts(Q(v), p)]
<1>1. \A v \in Voters : FairRow(R(v)) /\ FairRow(Q(v)) BY DEF FairRows, RowOf
<1>2. \A v \in Voters : v # a => SameCredit(R(v), Q(v)) OBVIOUS
<1>3. /\ f[a] = Gives(R(a), p) /\ ff[a] = Gives(Q(a), p)
      /\ h[a] = Entrusts(R(a), p) /\ hh[a] = Entrusts(Q(a), p)
  OBVIOUS
<1>4. /\ GivenTo(vt, u, g, p) = SumFunctionOnSet(f, Voters)
      /\ GivenTo(wt, u, k, p) = SumFunctionOnSet(ff, Voters)
      /\ EntrustedTo(vt, u, g, p) = SumFunctionOnSet(h, Voters)
      /\ EntrustedTo(wt, u, k, p) = SumFunctionOnSet(hh, Voters)
  BY DEF GivenTo, EntrustedTo
<1>5. R(a) = RowOf(vt, u, g, a) /\ Q(a) = RowOf(wt, u, k, a) OBVIOUS
<1> HIDE DEF R, Q
<1>6. \A v \in Voters : f[v] \in Int /\ ff[v] \in Int /\ h[v] \in Int /\ hh[v] \in Int
  BY <1>1, CreditsInt
<1>7. \A v \in Voters \ {a} : ff[v] = f[v] /\ hh[v] = h[v] BY <1>2, CreditsSame
<1> HIDE DEF f, ff, h, hh
<1>8. /\ SumFunctionOnSet(ff, Voters) = SumFunctionOnSet(f, Voters) - f[a] + ff[a]
      /\ SumFunctionOnSet(hh, Voters) = SumFunctionOnSet(h, Voters) - h[a] + hh[a]
  BY <1>6, <1>7, VotersFinite, SumUpdate
<1> QED BY <1>3, <1>4, <1>5, <1>8

LEMMA RowCreditMoves ==
  ASSUME NEW vt, NEW wt, FairRows(vt), FairRows(wt), NEW u, NEW g, FairRow(g),
         NEW a \in Voters, a # u, \A v \in Voters : v # a => SameCredit(vt[v], wt[v]), NEW p
  PROVE  /\ GivenTo(wt, u, g, p) = GivenTo(vt, u, g, p) - Gives(vt[a], p) + Gives(wt[a], p)
         /\ EntrustedTo(wt, u, g, p)
              = EntrustedTo(vt, u, g, p) - Entrusts(vt[a], p) + Entrusts(wt[a], p)
<1>1. \A v \in Voters : v # a => SameCredit(RowOf(vt, u, g, v), RowOf(wt, u, g, v))
  BY DEF RowOf, SameCredit
<1>2. RowOf(vt, u, g, a) = vt[a] /\ RowOf(wt, u, g, a) = wt[a] BY DEF RowOf
<1> QED BY <1>1, <1>2, CreditMoves

\* Rows that all count the same.
LEMMA CreditStays ==
  ASSUME NEW vt, NEW wt, \A v \in Voters : SameCredit(vt[v], wt[v]), NEW u, NEW g, NEW p
  PROVE  /\ GivenTo(wt, u, g, p) = GivenTo(vt, u, g, p)
         /\ EntrustedTo(wt, u, g, p) = EntrustedTo(vt, u, g, p)
<1>1. \A v \in Voters : SameCredit(RowOf(vt, u, g, v), RowOf(wt, u, g, v))
  BY DEF RowOf, SameCredit
<1>2. \A v \in Voters :
        /\ Gives(RowOf(wt, u, g, v), p) = Gives(RowOf(vt, u, g, v), p)
        /\ Entrusts(RowOf(wt, u, g, v), p) = Entrusts(RowOf(vt, u, g, v), p)
  BY <1>1, CreditsSame
<1> QED BY <1>2 DEF GivenTo, EntrustedTo

LEMMA EvenOps ==
  \A a, b \in Int : a % 2 = 0 /\ b % 2 = 0 =>
    /\ (a + b) % 2 = 0 /\ (a - b) % 2 = 0
    /\ a - b \in -1 .. 1 => a - b = 0
OBVIOUS

LEMMA WeightEven ==
  ASSUME NEW row, row # None, FairRow(row), row.proxied_vote_weight \in Nat, now \in 0 .. MaxDay
  PROVE  Weight(row) \in EvenNat
<1>1. row.staked \in Nat /\ row.proxied_vote_weight % 2 = 0 BY DEF FairRow
<1>2. PICK k \in Nat : Factor[now] = 2 * k
  <2>1. Factor[now] \in Nat /\ Factor[now] % 2 = 0 BY VotingAssumption
  <2>2. \A n \in Nat : n % 2 = 0 => n \div 2 \in Nat /\ n = 2 * (n \div 2) OBVIOUS
  <2> QED BY <2>1, <2>2
<1>3. \A a, b \in Nat : a * (2 * b) = 2 * (a * b) /\ a * b \in Nat OBVIOUS
<1>4. PICK m \in Nat : row.staked * Factor[now] = 2 * m BY <1>1, <1>2, <1>3
<1>5. Weight(row) = 2 * m + (IF row.is_proxy THEN row.proxied_vote_weight ELSE 0)
  BY <1>4 DEF Weight
<1>6. \A a, b \in Nat : b % 2 = 0 => 2 * a + b \in Nat /\ (2 * a + b) % 2 = 0 OBVIOUS
<1>7. 0 \in Nat /\ 0 % 2 = 0 OBVIOUS
<1> QED BY <1>1, <1>5, <1>6, <1>7 DEF EvenNat

\* Counting the votes of delta, where none falls below 0.
LEMMA CountExact ==
  ASSUME NEW st, Good(st), NEW D \in SUBSET Candidates, NEW delta \in [D -> Int],
         \A p \in D : st.producers[p] # None, now \in 0 .. MaxDay,
         Totals(st.gstate, st.producers),
         NEW N, \A p \in Candidates : st.producers[p] # None =>
           N[p] \in Nat /\ N[p] = st.producers[p].total_votes + (IF p \in D THEN delta[p] ELSE 0)
  PROVE  LET tt == CountVotes(st, delta)
         IN  /\ Good(tt) /\ SameRows(st, tt) /\ tt.voters = st.voters
             /\ \A p \in Candidates : tt.producers[p] # None => tt.producers[p].total_votes = N[p]
             /\ Totals(tt.gstate, tt.producers)
<1> DEFINE tt == CountVotes(st, delta)
<1>1. Good(tt) /\ SameRows(st, tt) /\ Counts(st, D, delta, tt) BY CountVotesCounts
<1>4. Totals(tt.gstate, tt.producers)
  <2>1. st \in State BY DEF Good
  <2>2. \A p \in D : st.producers[p] # None /\ st.producers[p].total_votes + delta[p] \in Nat
    OBVIOUS
  <2> QED BY <2>1, <2>2, CountTotals
<1> HIDE DEF tt
<1>2. \A p \in Candidates : /\ st.producers[p] # None <=> tt.producers[p] # None
                            /\ st.producers[p] # None => st.producers[p].total_votes \in Int
                            /\ p \in D => delta[p] \in Int
  BY <1>1 DEF SameRows, Good, State, ProducerTable, AnyProducer
<1>3. ASSUME NEW p \in Candidates, tt.producers[p] # None
      PROVE  tt.producers[p].total_votes = N[p]
  <2>1. CASE p \in D
    <3>1. tt.producers[p].total_votes = AtLeast0(st.producers[p].total_votes + delta[p])
      BY <1>1, <2>1 DEF Counts
    <3>2. N[p] \in Nat /\ N[p] = st.producers[p].total_votes + delta[p] BY <1>2, <1>3, <2>1
    <3> QED BY <3>1, <3>2, AtLeast0Nat
  <2>2. CASE p \notin D
    <3>1. tt.producers[p] = st.producers[p] BY <1>1, <2>2 DEF Counts
    <3> QED BY <1>2, <1>3, <2>2, <3>1
  <2> QED BY <2>1, <2>2
<1>5. tt.voters = st.voters BY <1>1 DEF Counts
<1> QED BY <1>1, <1>3, <1>4, <1>5 DEF tt

\* A record of tables in which the votes are counted, but for those of u.
CountedFair(st, u, g, e) ==
  /\ Good(st) /\ FairRows(st.voters) /\ FairRow(g) /\ FairRow(e) /\ Tallied(st, u, g, e)

LEMMA ProxiedNat ==
  ASSUME NEW st, NEW u, NEW g, NEW e, CountedFair(st, u, g, e),
         NEW v \in Voters, st.voters[v] # None
  PROVE  st.voters[v].proxied_vote_weight \in Nat
BY GivenNat DEF CountedFair, Tallied

\* One call of propagate_weight_change: what it adds to the last weight of v it
\* passes on in the same call.
LEMMA HopTallied ==
  ASSUME NEW st, NEW u, NEW g, NEW e, CountedFair(st, u, g, e),
         NEW v \in Voters, v # u, st.voters[v] # None, now \in 0 .. MaxDay
  PROVE  CountedFair(Hop([st |-> st, at |-> v]).st, u, g, e)
<1> DEFINE row == st.voters[v]
           w == Weight(row)
           d == w - row.last_vote_weight
           seen == [st EXCEPT !.voters[v] = Weighed(row, w)]
           hop == Hop([st |-> st, at |-> v])
           vt == st.voters
           wt == seen.voters
<1>0. /\ Good(st) /\ FairRows(vt) /\ FairRow(g) /\ FairRow(e) /\ Tallied(st, u, g, e)
      /\ FairRow(row) /\ row # None /\ row = vt[v]
  BY DEF CountedFair, FairRows
<1>1. /\ row \in AnyVoter /\ w \in Int /\ d \in Int
      /\ Good(seen) /\ SameRows(st, seen) /\ seen.voters[v] = Weighed(row, w)
      /\ seen.gstate = st.gstate /\ seen.producers = st.producers
      /\ \A x \in Voters : x # v => seen.voters[x] = st.voters[x]
      /\ \/ d \in -1 .. 1 /\ hop = [st |-> seen, at |-> None]
         \/ /\ d \notin -1 .. 1 /\ row.proxy \in Proxies
            /\ hop = [st |-> WithProxied(seen, row.proxy, d), at |-> row.proxy]
         \/ /\ d \notin -1 .. 1 /\ row.proxy = None
            /\ hop = [st |-> CountVotes(seen, [p \in row.producers |-> d]), at |-> None]
  BY <1>0, HopCases
<1>2. w \in EvenNat
  <2>1. row.proxied_vote_weight \in Nat BY <1>0, ProxiedNat
  <2> QED BY <1>0, <2>1, WeightEven
<1>3. /\ d = w - row.last_vote_weight /\ d % 2 = 0 /\ (d \in -1 .. 1 => d = 0)
      /\ row.last_vote_weight \in Int
  <2>1. w \in Int /\ w % 2 = 0 BY <1>2 DEF EvenNat
  <2>2. row.last_vote_weight \in Int /\ row.last_vote_weight % 2 = 0
    BY <1>0 DEF FairRow, EvenNat
  <2> HIDE DEF w, row
  <2>3. (w - row.last_vote_weight) % 2 = 0 BY ONLY <2>1, <2>2, EvenOps
  <2>4. w - row.last_vote_weight \in -1 .. 1 => w - row.last_vote_weight = 0
    BY ONLY <2>1, <2>2, EvenOps
  <2> QED BY <2>2, <2>3, <2>4
<1> HIDE DEF hop, d, w
<1> DEFINE wrow == Weighed(row, w)
<1>4. /\ wrow \in AnyVoter /\ SameVoter(row, wrow) /\ wrow.last_vote_weight = w
      /\ wrow.proxied_vote_weight = row.proxied_vote_weight /\ wrow # None
  BY <1>1, RowOps, NoRow
<1>5. FairRow(wrow)
  BY <1>0, <1>2, <1>4 DEF FairRow, SameVoter
<1> HIDE DEF wrow
<1>6. /\ wt[v] = wrow /\ \A x \in Voters : x # v => wt[x] = vt[x]
  BY <1>1 DEF wrow
<1> HIDE DEF seen, row
<1>7. FairRows(wt) BY <1>0, <1>5, <1>6 DEF FairRows
<1> HIDE DEF wt, vt
<1>8. ASSUME NEW p
      PROVE  /\ GivenTo(wt, u, g, p) = GivenTo(vt, u, g, p) + (IF p \in row.producers THEN d ELSE 0)
             /\ EntrustedTo(wt, u, e, p) = EntrustedTo(vt, u, e, p) + (IF row.proxy = p THEN d ELSE 0)
  <2>1. \A x \in Voters : x # v => SameCredit(vt[x], wt[x]) BY <1>6 DEF SameCredit
  <2>3. GivenTo(wt, u, g, p) = GivenTo(vt, u, g, p) - Gives(vt[v], p) + Gives(wt[v], p)
    BY <1>0, <1>7, <2>1, RowCreditMoves
  <2>4. EntrustedTo(wt, u, e, p) = EntrustedTo(vt, u, e, p) - Entrusts(vt[v], p) + Entrusts(wt[v], p)
    BY <1>0, <1>7, <2>1, RowCreditMoves
  <2>5. GivenTo(vt, u, g, p) \in Int /\ EntrustedTo(vt, u, e, p) \in Int
    BY <1>0, GivenNat
  <2>6. /\ Gives(wt[v], p) = Gives(vt[v], p) + (IF p \in row.producers THEN d ELSE 0)
        /\ Entrusts(wt[v], p) = Entrusts(vt[v], p) + (IF row.proxy = p THEN d ELSE 0)
        /\ Gives(vt[v], p) \in Int /\ Entrusts(vt[v], p) \in Int
    <3>1. w = row.last_vote_weight + d /\ w \in Int /\ row.last_vote_weight \in Int
      BY <1>1, <1>3
    <3>2. /\ Gives(vt[v], p) = IF p \in row.producers THEN row.last_vote_weight ELSE 0
          /\ Entrusts(vt[v], p) = IF row.proxy = p THEN row.last_vote_weight ELSE 0
      BY <1>0 DEF Gives, Entrusts
    <3>3. /\ Gives(wt[v], p) = IF p \in row.producers THEN w ELSE 0
          /\ Entrusts(wt[v], p) = IF row.proxy = p THEN w ELSE 0
      BY <1>0, <1>4, <1>6 DEF Gives, Entrusts, SameVoter
    <3> QED BY ONLY <1>1, <3>1, <3>2, <3>3
  <2> QED BY <1>1, <2>3, <2>4, <2>5, <2>6
<1>9. \A x \in Voters : /\ wt[x] = None <=> vt[x] = None
                        /\ wt[x] # None => /\ wt[x].proxied_vote_weight = vt[x].proxied_vote_weight
                                           /\ vt[x].proxied_vote_weight \in Int
  <2>1. \A x \in Voters : vt[x] # None => vt[x].proxied_vote_weight \in Int
    BY <1>0 DEF FairRows, FairRow, AnyVoter
  <2> QED BY <1>0, <1>4, <1>6, <2>1
<1>10. /\ Good(seen) /\ seen.voters = wt /\ st.voters = vt /\ seen.producers = st.producers
       /\ seen.gstate = st.gstate
  BY <1>1 DEF wt, vt
<1>11. CASE d \in -1 .. 1 /\ hop = [st |-> seen, at |-> None]
  <2>1. /\ \A p \in Candidates : GivenTo(wt, u, g, p) = GivenTo(vt, u, g, p)
        /\ \A x \in Voters : EntrustedTo(wt, u, e, x) = EntrustedTo(vt, u, e, x)
    <3>1. \A p : GivenTo(vt, u, g, p) \in Int /\ EntrustedTo(vt, u, e, p) \in Int
      BY <1>0, GivenNat
    <3>2. d = 0 BY <1>3, <1>11
    <3> QED BY <1>8, <3>1, <3>2
  <2>2. Tallied(seen, u, g, e) BY <1>0, <1>9, <1>10, <2>1 DEF Tallied
  <2>3. hop.st = seen BY <1>11
  <2> QED BY <1>0, <1>7, <1>10, <2>2, <2>3 DEF CountedFair, hop
<1>12. CASE row.proxy \in Proxies /\ hop = [st |-> WithProxied(seen, row.proxy, d), at |-> row.proxy]
  <2> DEFINE y == row.proxy   tt == WithProxied(seen, y, d)   zt == tt.voters
  <2>1. y \in Voters /\ y # None BY <1>12, VotersFinite, NoneNoVoter
  <2>2. wt[y] # None
    <3>1. st.voters[y] # None BY <1>0, <2>1 DEF Good, Linked, row
    <3> QED BY <1>9, <1>10, <2>1, <3>1
  <2>3. /\ Good(tt) /\ tt.gstate = seen.gstate
        /\ tt.producers = seen.producers /\ tt.voters[y] = Proxied(seen.voters[y], d)
        /\ \A x \in Voters : x # y => tt.voters[x] = seen.voters[x]
    <3> HIDE DEF y
    <3> QED BY <1>1, <1>10, <2>1, <2>2, WithProxiedKeeps
  <2>4. FairRow(wt[y]) /\ wt[y] \in AnyVoter BY <1>7, <2>1, <2>2 DEF FairRows, FairRow
  <2> DEFINE yrow == Proxied(wt[y], d)
  <2>5. /\ yrow \in AnyVoter /\ SameVoter(wt[y], yrow)
        /\ yrow.last_vote_weight = wt[y].last_vote_weight
        /\ yrow.proxied_vote_weight = wt[y].proxied_vote_weight + d /\ yrow # None
    BY <1>1, <2>4, RowOps, NoRow
  <2>6. zt[y] = yrow /\ \A x \in Voters : x # y => zt[x] = wt[x] BY <1>10, <2>3
  <2>7. hop.st = tt BY <1>12
  <2>8. tt.producers = st.producers /\ tt.gstate = st.gstate /\ zt = tt.voters BY <1>10, <2>3
  <2> HIDE DEF yrow, zt, tt
  <2>9. FairRow(yrow)
    <3>1. wt[y].proxied_vote_weight \in Int BY <2>4 DEF AnyVoter
    <3>2. yrow.proxied_vote_weight % 2 = 0
      BY <1>1, <1>3, <2>2, <2>4, <2>5, <3>1, EvenOps DEF FairRow
    <3> QED BY <2>2, <2>4, <2>5, <3>2 DEF FairRow, SameVoter
  <2>10. FairRows(zt) BY <1>7, <2>6, <2>9 DEF FairRows
  <2>11. \A x \in Voters : SameCredit(wt[x], zt[x])
    BY <2>2, <2>5, <2>6 DEF SameCredit, SameVoter
  <2>12. \A p : /\ GivenTo(zt, u, g, p) = GivenTo(wt, u, g, p)
                /\ EntrustedTo(zt, u, e, p) = EntrustedTo(wt, u, e, p)
    BY <2>11, CreditStays
  <2>13. row.producers = {} BY <1>0, <2>1 DEF FairRow
  <2>14. \A p \in Candidates : GivenTo(zt, u, g, p) = GivenTo(vt, u, g, p)
    <3> SUFFICES ASSUME NEW p \in Candidates PROVE GivenTo(zt, u, g, p) = GivenTo(vt, u, g, p)
      OBVIOUS
    <3>1. GivenTo(vt, u, g, p) \in Int BY <1>0, GivenNat
    <3> QED BY <1>8, <2>12, <2>13, <3>1
  <2>15. ASSUME NEW x \in Voters, zt[x] # None
         PROVE  zt[x].proxied_vote_weight = EntrustedTo(zt, u, e, x)
    <3>1. /\ EntrustedTo(zt, u, e, x) = EntrustedTo(vt, u, e, x) + (IF row.proxy = x THEN d ELSE 0)
          /\ EntrustedTo(vt, u, e, x) \in Int
      BY <1>0, <1>8, <2>12, GivenNat
    <3>2. vt[x] # None BY <1>9, <2>2, <2>6, <2>15
    <3>3. vt[x].proxied_vote_weight = EntrustedTo(vt, u, e, x) BY <1>0, <1>10, <3>2 DEF Tallied
    <3>4. CASE x = y BY <1>9, <2>2, <2>5, <2>6, <3>1, <3>2, <3>3, <3>4
    <3>5. CASE x # y BY <1>9, <2>6, <3>1, <3>2, <3>3, <3>5
    <3> QED BY <3>4, <3>5
  <2>16. Tallied(tt, u, g, e)
    BY <1>0, <1>10, <2>8, <2>14, <2>15 DEF Tallied
  <2> QED BY <1>0, <2>3, <2>7, <2>8, <2>10, <2>16 DEF CountedFair, tt, hop
<1>13. CASE row.proxy = None /\ hop = [st |-> CountVotes(seen, [p \in row.producers |-> d]), at |-> None]
  <2> DEFINE D == row.producers   delta == [p \in D |-> d]   tt == CountVotes(seen, delta)
             N == [p \in Candidates |-> GivenTo(wt, u, g, p)]
  <2>1. D \in SUBSET Candidates /\ delta \in [D -> Int] BY <1>1 DEF AnyVoter
  <2>2. \A p \in D : seen.producers[p] # None
    BY <1>0, <1>10, <2>1 DEF Good, Linked, row
  <2>3. ASSUME NEW p \in Candidates, seen.producers[p] # None
        PROVE  /\ N[p] \in Nat
               /\ N[p] = seen.producers[p].total_votes + (IF p \in D THEN delta[p] ELSE 0)
    <3>1. N[p] = GivenTo(wt, u, g, p) /\ N[p] \in Nat BY <1>0, <1>7, GivenNat
    <3>2. seen.producers[p].total_votes = GivenTo(vt, u, g, p) BY <1>0, <1>10, <2>3 DEF Tallied
    <3>3. p \in D => delta[p] = d OBVIOUS
    <3> QED BY <1>8, <3>1, <3>2, <3>3
  <2>4. Totals(seen.gstate, seen.producers) BY <1>0, <1>10 DEF Tallied
  <2>5. /\ Good(tt) /\ SameRows(seen, tt) /\ tt.voters = seen.voters
        /\ \A p \in Candidates : tt.producers[p] # None => tt.producers[p].total_votes = N[p]
        /\ Totals(tt.gstate, tt.producers)
    <3> HIDE DEF D, delta, N
    <3> QED BY <1>10, <2>1, <2>2, <2>3, <2>4, CountExact
  <2>6. \A p \in Candidates : N[p] = GivenTo(wt, u, g, p) OBVIOUS
  <2>7. hop.st = tt BY <1>13
  <2> HIDE DEF N, tt, D, delta
  <2>8. \A x \in Voters : wt[x] # None =>
          wt[x].proxied_vote_weight = EntrustedTo(wt, u, e, x)
    <3> SUFFICES ASSUME NEW x \in Voters, wt[x] # None
                 PROVE  wt[x].proxied_vote_weight = EntrustedTo(wt, u, e, x)
      OBVIOUS
    <3>1. row.proxy # x BY <1>13, NoneNoVoter
    <3>2. vt[x].proxied_vote_weight = EntrustedTo(vt, u, e, x) BY <1>0, <1>9, <1>10 DEF Tallied
    <3> QED BY <1>8, <1>9, <3>1, <3>2
  <2>9. Tallied(tt, u, g, e) BY <1>10, <2>5, <2>6, <2>8 DEF Tallied
  <2> QED BY <1>0, <1>7, <1>10, <2>5, <2>7, <2>9 DEF CountedFair, hop
<1> QED BY <1>1, <1>11, <1>12, <1>13

\* A voter whose stake is heard: no propagation of weights silences it.
Speaks(row) == row # None /\ row.staked > 0 /\ row.last_vote_weight > 0
StillHeard(vt, wt) == \A x \in Voters : Speaks(vt[x]) => Speaks(wt[x])

LEMMA HeardTrans ==
  ASSUME NEW vt, NEW wt, NEW zt, StillHeard(vt, wt), StillHeard(wt, zt)
  PROVE  StillHeard(vt, zt)
BY DEF StillHeard

LEMMA WeightPositive ==
  ASSUME NEW row, row # None, FairRow(row), row.proxied_vote_weight \in Nat,
         row.staked > 0, now \in 0 .. MaxDay
  PROVE  Weight(row) > 0
<1>1. row.staked \in Nat \ {0} /\ Factor[now] \in Nat \ {0} BY VotingAssumption DEF FairRow
<1>2. \A a, b \in Nat \ {0} : a * b \in Nat \ {0} OBVIOUS
<1>3. row.staked * Factor[now] \in Nat \ {0} BY <1>1, <1>2
<1>4. \A a \in Nat \ {0} : \A b \in Nat : a + b > 0 OBVIOUS
<1>5. 0 \in Nat OBVIOUS
<1> QED BY <1>3, <1>4, <1>5 DEF Weight

LEMMA CountHeard ==
  ASSUME NEW st \in State, NEW delta
  PROVE  CountVotes(st, delta).voters = st.voters
BY DEF CountVotes, State

LEMMA ProxiedHeard ==
  ASSUME NEW st, Good(st), NEW x \in Voters, st.voters[x] # None, NEW d \in Int
  PROVE  StillHeard(st.voters, WithProxied(st, x, d).voters)
<1> DEFINE tt == WithProxied(st, x, d)   row == st.voters[x]
<1>1. /\ tt.voters[x] = Proxied(row, d) /\ row \in AnyVoter
      /\ \A y \in Voters : y # x => tt.voters[y] = st.voters[y]
  BY WithProxiedKeeps, VoterOf
<1>2. /\ Proxied(row, d).staked = row.staked /\ Proxied(row, d) # None
      /\ Proxied(row, d).last_vote_weight = row.last_vote_weight
  BY <1>1, RowOps, NoRow DEF SameVoter
<1> HIDE DEF tt
<1> QED BY <1>1, <1>2 DEF StillHeard, Speaks, tt

LEMMA HopHeard ==
  ASSUME NEW st, NEW u, NEW g, NEW e, CountedFair(st, u, g, e),
         NEW v \in Voters, st.voters[v] # None, now \in 0 .. MaxDay
  PROVE  StillHeard(st.voters, Hop([st |-> st, at |-> v]).st.voters)
<1> DEFINE row == st.voters[v]
           w == Weight(row)
           d == w - row.last_vote_weight
           seen == [st EXCEPT !.voters[v] = Weighed(row, w)]
           hop == Hop([st |-> st, at |-> v])
<1>0. Good(st) /\ FairRow(row) /\ row # None BY DEF CountedFair, FairRows
<1>1. /\ row \in AnyVoter /\ w \in Int /\ d \in Int
      /\ Good(seen) /\ SameRows(st, seen) /\ seen.voters[v] = Weighed(row, w)
      /\ \A x \in Voters : x # v => seen.voters[x] = st.voters[x]
      /\ \/ d \in -1 .. 1 /\ hop = [st |-> seen, at |-> None]
         \/ /\ d \notin -1 .. 1 /\ row.proxy \in Proxies
            /\ hop = [st |-> WithProxied(seen, row.proxy, d), at |-> row.proxy]
         \/ /\ d \notin -1 .. 1 /\ row.proxy = None
            /\ hop = [st |-> CountVotes(seen, [p \in row.producers |-> d]), at |-> None]
  BY <1>0, HopCases
<1>2. row.staked > 0 => w > 0 BY <1>0, ProxiedNat, WeightPositive
<1> HIDE DEF hop, d, w
<1>3. /\ Weighed(row, w).staked = row.staked /\ Weighed(row, w) # None
      /\ Weighed(row, w).last_vote_weight = w
  BY <1>1, RowOps, NoRow DEF SameVoter
<1> HIDE DEF seen
<1>4. StillHeard(st.voters, seen.voters) BY <1>1, <1>2, <1>3 DEF StillHeard, Speaks
<1>5. StillHeard(seen.voters, hop.st.voters)
  <2>1. CASE hop = [st |-> seen, at |-> None] BY <2>1 DEF StillHeard
  <2>2. CASE /\ row.proxy \in Proxies
             /\ hop = [st |-> WithProxied(seen, row.proxy, d), at |-> row.proxy]
    <3> DEFINE y == row.proxy
    <3>1. y \in Voters /\ y # None BY <2>2, VotersFinite, NoneNoVoter
    <3>2. seen.voters[y] # None
      <4>1. st.voters[y] # None BY <1>0, <3>1 DEF Good, Linked
      <4> QED BY <1>1, <3>1, <4>1 DEF SameRows, SameVoter
    <3>3. hop.st = WithProxied(seen, y, d) BY <2>2
    <3> HIDE DEF y
    <3> QED BY <1>1, <3>1, <3>2, <3>3, ProxiedHeard
  <2>3. CASE hop = [st |-> CountVotes(seen, [p \in row.producers |-> d]), at |-> None]
    <3>1. hop.st.voters = seen.voters BY <1>1, <2>3, CountHeard DEF Good
    <3> QED BY <3>1 DEF StillHeard
  <2> QED BY <1>1, <2>1, <2>2, <2>3
<1>6. StillHeard(st.voters, hop.st.voters) BY <1>4, <1>5, HeardTrans
<1> QED BY <1>6 DEF hop

\* A set of voters whose proxies are in it too.
ClosedIn(S, vt) ==
  S \subseteq Voters /\ \A x \in S : vt[x] # None => vt[x].proxy \in S \cup {None}
\* From x no proxies lead to v.
Avoids(vt, x, v) == \E S : ClosedIn(S, vt) /\ x \in S /\ v \notin S

LEMMA ClosedKept ==
  ASSUME NEW st, NEW tt, SameRows(st, tt), NEW S, ClosedIn(S, st.voters)
  PROVE  ClosedIn(S, tt.voters)
BY DEF SameRows, SameVoter, ClosedIn

LEMMA PropagateTallied ==
  ASSUME NEW st, NEW u, NEW g, NEW e, CountedFair(st, u, g, e),
         NEW S, ClosedIn(S, st.voters), u \notin S,
         NEW v \in S, st.voters[v] # None, now \in 0 .. MaxDay
  PROVE  CountedFair(Propagate(st, v), u, g, e) /\ StillHeard(st.voters, Propagate(st, v).voters)
<1> DEFINE P == {c \in CallsFrom(st) : /\ (c.at # None => c.at \in S) /\ CountedFair(c.st, u, g, e)
                                      /\ StillHeard(st.voters, c.st.voters)}
<1>1. [st |-> st, at |-> v] \in P
  BY SameRowsRefl DEF CallsFrom, Good, SameActive, CountedFair, ClosedIn, StillHeard
<1>2. ASSUME NEW c \in P PROVE HopOn(c) \in P
  <2>1. CASE c.at = None BY <2>1 DEF HopOn
  <2>2. CASE c.at # None
    <3> DEFINE cs == c.st   a == c.at   hop == Hop(c)
    <3>1. /\ a \in S /\ a \in Voters /\ CountedFair(cs, u, g, e) /\ Good(cs) /\ cs.voters[a] # None
          /\ SameRows(st, cs) /\ c = [st |-> cs, at |-> a] /\ HopOn(c) = hop
          /\ c \in CallsFrom(st) /\ StillHeard(st.voters, cs.voters)
      BY <2>2 DEF CallsFrom, Good, ClosedIn, HopOn
    <3>2. hop = Hop([st |-> cs, at |-> a]) BY <3>1
    <3>3. hop \in CallsFrom(st) BY <3>1, HopKeeps
    <3> HIDE DEF cs, a, hop
    <3>4. CountedFair(hop.st, u, g, e) /\ StillHeard(st.voters, hop.st.voters)
      <4>1. a # u BY <3>1
      <4>2. CountedFair(hop.st, u, g, e) BY <3>1, <3>2, <4>1, HopTallied
      <4>3. StillHeard(cs.voters, hop.st.voters) BY <3>1, <3>2, HopHeard
      <4> QED BY <3>1, <4>2, <4>3, HeardTrans
    <3>5. hop.at = None \/ hop.at = cs.voters[a].proxy
      <4> DEFINE row == cs.voters[a]
                 w == Weight(row)
                 d == w - row.last_vote_weight
                 seen == [cs EXCEPT !.voters[a] = Weighed(row, w)]
      <4>1. \/ d \in -1 .. 1 /\ hop = [st |-> seen, at |-> None]
            \/ /\ d \notin -1 .. 1 /\ row.proxy \in Proxies
               /\ hop = [st |-> WithProxied(seen, row.proxy, d), at |-> row.proxy]
            \/ /\ d \notin -1 .. 1 /\ row.proxy = None
               /\ hop = [st |-> CountVotes(seen, [p \in row.producers |-> d]), at |-> None]
        BY <3>1, <3>2, HopCases
      <4> QED BY <4>1
    <3>6. cs.voters[a].proxy = st.voters[a].proxy /\ st.voters[a] # None
      BY <3>1 DEF SameRows, SameVoter
    <3>7. hop.at # None => hop.at \in S BY <3>1, <3>5, <3>6 DEF ClosedIn
    <3> QED BY <3>1, <3>3, <3>4, <3>7
  <2> QED BY <2>1, <2>2
<1> HIDE DEF P
<1>3. PICK c \in P : Propagate(st, v) = c.st BY <1>1, <1>2, Propagated
<1> QED BY <1>3 DEF P

\* What u entrusts changes, and nothing else.
LEMMA EntrustMoves ==
  ASSUME NEW st, NEW u \in Voters, NEW g, NEW e, CountedFair(st, u, g, e),
         NEW k, FairRow(k), NEW y
  PROVE  /\ EntrustedTo(st.voters, u, k, y)
              = EntrustedTo(st.voters, u, e, y) - Entrusts(e, y) + Entrusts(k, y)
         /\ GivenTo(st.voters, u, k, y) = GivenTo(st.voters, u, e, y) - Gives(e, y) + Gives(k, y)
<1> DEFINE vt == st.voters
<1>1. FairRows(vt) /\ FairRow(e) BY DEF CountedFair
<1>2. \A v \in Voters : v # u => SameCredit(RowOf(vt, u, e, v), RowOf(vt, u, k, v))
  BY DEF RowOf, SameCredit
<1>3. RowOf(vt, u, e, u) = e /\ RowOf(vt, u, k, u) = k BY DEF RowOf
<1> HIDE DEF vt
<1> QED BY <1>1, <1>2, <1>3, CreditMoves DEF vt

\* The same is entrusted to everybody by another row.
LEMMA EntrustSame ==
  ASSUME NEW st, NEW u \in Voters, NEW g, NEW e, CountedFair(st, u, g, e),
         NEW k, FairRow(k), \A y \in Voters : Entrusts(k, y) = Entrusts(e, y)
  PROVE  CountedFair(st, u, g, k)
<1>1. \A y \in Voters : EntrustedTo(st.voters, u, k, y) = EntrustedTo(st.voters, u, e, y)
  <2> SUFFICES ASSUME NEW y \in Voters
               PROVE  EntrustedTo(st.voters, u, k, y) = EntrustedTo(st.voters, u, e, y)
    OBVIOUS
  <2>1. EntrustedTo(st.voters, u, e, y) \in Nat /\ Entrusts(e, y) \in Int
    BY GivenNat, CreditsInt DEF CountedFair
  <2> QED BY <2>1, EntrustMoves
<1> QED BY <1>1 DEF CountedFair, Tallied

\* u entrusts d more to x, which passes it on.
LEMMA PassTallied ==
  ASSUME NEW st, NEW u \in Voters, NEW g, NEW e, CountedFair(st, u, g, e),
         NEW x \in Voters, st.voters[x] # None, Avoids(st.voters, x, u),
         NEW d \in Int, d % 2 = 0, now \in 0 .. MaxDay,
         NEW k, FairRow(k),
         \A y \in Voters : Entrusts(k, y) = Entrusts(e, y) + (IF y = x THEN d ELSE 0)
  PROVE  /\ CountedFair(Propagate(WithProxied(st, x, d), x), u, g, k)
         /\ SameRows(st, Propagate(WithProxied(st, x, d), x))
         /\ StillHeard(st.voters, Propagate(WithProxied(st, x, d), x).voters)
<1> DEFINE tt == WithProxied(st, x, d)   vt == st.voters   zt == tt.voters   xrow == Proxied(vt[x], d)
<1>0. /\ Good(st) /\ FairRows(vt) /\ FairRow(g) /\ FairRow(e) /\ Tallied(st, u, g, e)
      /\ FairRow(vt[x]) /\ vt[x] # None /\ vt[x] \in AnyVoter
  BY DEF CountedFair, FairRows, FairRow
<1>1. /\ Good(tt) /\ SameRows(st, tt) /\ tt.gstate = st.gstate /\ tt.producers = st.producers
      /\ zt[x] = xrow /\ \A y \in Voters : y # x => zt[y] = vt[y]
  BY <1>0, WithProxiedKeeps
<1>2. /\ xrow \in AnyVoter /\ SameVoter(vt[x], xrow)
      /\ xrow.last_vote_weight = vt[x].last_vote_weight
      /\ xrow.proxied_vote_weight = vt[x].proxied_vote_weight + d /\ xrow # None
  BY <1>0, RowOps, NoRow
<1> HIDE DEF tt, xrow
<1>3. FairRow(xrow)
  <2>1. vt[x].proxied_vote_weight \in Int /\ vt[x].proxied_vote_weight % 2 = 0
    BY <1>0 DEF AnyVoter, FairRow
  <2> HIDE DEF vt
  <2>2. xrow.proxied_vote_weight % 2 = 0 BY <1>2, <2>1, EvenOps
  <2> QED BY <1>0, <1>2, <2>2 DEF FairRow, SameVoter
<1> HIDE DEF zt, vt
<1>4. FairRows(zt) BY <1>0, <1>1, <1>3 DEF FairRows
<1>5. \A y \in Voters : SameCredit(vt[y], zt[y])
  BY <1>0, <1>1, <1>2 DEF SameCredit, SameVoter
<1>6. \A p : /\ GivenTo(zt, u, g, p) = GivenTo(vt, u, g, p)
             /\ EntrustedTo(zt, u, k, p) = EntrustedTo(vt, u, k, p)
  BY <1>5, CreditStays
<1>7. \A y \in Voters : EntrustedTo(vt, u, k, y)
                          = EntrustedTo(vt, u, e, y) + (IF y = x THEN d ELSE 0)
  <2> SUFFICES ASSUME NEW y \in Voters
               PROVE  EntrustedTo(vt, u, k, y)
                        = EntrustedTo(vt, u, e, y) + (IF y = x THEN d ELSE 0)
    OBVIOUS
  <2>1. EntrustedTo(vt, u, e, y) \in Nat /\ Entrusts(e, y) \in Int
    BY <1>0, GivenNat, CreditsInt
  <2>2. EntrustedTo(vt, u, k, y) = EntrustedTo(vt, u, e, y) - Entrusts(e, y) + Entrusts(k, y)
    BY EntrustMoves DEF vt
  <2> QED BY <2>1, <2>2
<1>8. \A y \in Voters : zt[y] # None => zt[y].proxied_vote_weight = EntrustedTo(zt, u, k, y)
  <2> SUFFICES ASSUME NEW y \in Voters, zt[y] # None
               PROVE  zt[y].proxied_vote_weight = EntrustedTo(zt, u, k, y)
    OBVIOUS
  <2>1. vt[y] # None /\ vt[y].proxied_vote_weight = EntrustedTo(vt, u, e, y)
    BY <1>0, <1>1 DEF Tallied, vt
  <2>2. EntrustedTo(vt, u, e, y) \in Nat BY <1>0, GivenNat
  <2>3. CASE y = x BY <1>1, <1>2, <1>6, <1>7, <2>1, <2>2, <2>3
  <2>4. CASE y # x BY <1>1, <1>6, <1>7, <2>1, <2>2, <2>4
  <2> QED BY <2>3, <2>4
<1>9. Tallied(tt, u, g, k)
  BY <1>0, <1>1, <1>6, <1>8 DEF Tallied, zt, vt
<1>10. CountedFair(tt, u, g, k) BY <1>0, <1>1, <1>4, <1>9 DEF CountedFair, zt
<1>11. PICK S : ClosedIn(S, vt) /\ x \in S /\ u \notin S BY DEF Avoids, vt
<1>12. ClosedIn(S, zt) BY <1>1, <1>11, ClosedKept DEF zt, vt
<1>13. CountedFair(Propagate(tt, x), u, g, k) /\ StillHeard(zt, Propagate(tt, x).voters)
  BY <1>1, <1>2, <1>10, <1>11, <1>12, PropagateTallied DEF zt
<1>14. SameRows(st, Propagate(tt, x))
  BY <1>0, PassKeeps DEF Keeps, tt, vt
<1>15. StillHeard(vt, zt) BY <1>0, ProxiedHeard DEF vt, zt, tt
<1>16. StillHeard(vt, Propagate(tt, x).voters) BY <1>13, <1>15, HeardTrans
<1> QED BY <1>13, <1>14, <1>16 DEF tt, vt

\* All votes are counted.
Balanced(st) == CountedFair(st, None, None, None)

\* Apart from the rows, the row of u itself is what it gives and entrusts.
LEMMA OwnRow ==
  ASSUME NEW st, NEW u \in Voters
  PROVE  Balanced(st) <=> CountedFair(st, u, st.voters[u], st.voters[u])
<1>1. \A v \in Voters : RowOf(st.voters, None, None, v) = RowOf(st.voters, u, st.voters[u], v)
  BY NoneNoVoter DEF RowOf
<1>2. \A p : /\ GivenTo(st.voters, None, None, p) = GivenTo(st.voters, u, st.voters[u], p)
             /\ EntrustedTo(st.voters, None, None, p) = EntrustedTo(st.voters, u, st.voters[u], p)
  BY <1>1 DEF GivenTo, EntrustedTo
<1>3. FairRow(None) BY DEF FairRow
<1>4. FairRows(st.voters) => FairRow(st.voters[u]) BY DEF FairRows
<1> QED BY <1>2, <1>3, <1>4 DEF Balanced, CountedFair, Tallied

\* The change of votes in update_votes: what u gave leaves those it listed, and
\* what it gives goes to those it chooses.
LEMMA ChangeIs ==
  ASSUME NEW row, FairRow(row), row # None, NEW new \in Int, NEW chosen, NEW k,
         k # None, k.producers = chosen, k.last_vote_weight = new, NEW p
  PROVE  /\ Gives(k, p) - Gives(row, p) =
              IF p \in LeftBy(row) \cup chosen THEN ChangeOf(row, new, chosen)[p] ELSE 0
         /\ Gives(k, p) \in Int /\ Gives(row, p) \in Int
<1>1. /\ row.last_vote_weight \in Nat /\ (row.proxy # None => row.producers = {})
  BY DEF FairRow, EvenNat
<1>2. Gives(row, p) = IF p \in LeftBy(row) THEN row.last_vote_weight ELSE 0
  BY <1>1 DEF Gives, LeftBy
<1>3. Gives(k, p) = IF p \in chosen THEN new ELSE 0 BY DEF Gives
<1>4. p \in LeftBy(row) \cup chosen => ChangeOf(row, new, chosen)[p] =
        (IF p \in chosen THEN new ELSE 0) - (IF p \in LeftBy(row) THEN row.last_vote_weight ELSE 0)
  BY DEF ChangeOf
<1> QED BY <1>1, <1>2, <1>3, <1>4

\* The row of u becomes the one by which its votes are counted.
LEMMA RowSettles ==
  ASSUME NEW st, NEW u \in Voters, NEW e, CountedFair(st, u, e, e), st.voters[u] # None,
         NEW tt, Good(tt), tt.producers = st.producers, tt.gstate = st.gstate,
         \A x \in Voters : x # u => tt.voters[x] = st.voters[x],
         SameCredit(e, tt.voters[u]), FairRow(tt.voters[u]), tt.voters[u] # None,
         tt.voters[u].proxied_vote_weight = st.voters[u].proxied_vote_weight
  PROVE  Balanced(tt)
<1> DEFINE k == tt.voters[u]   vt == st.voters   wt == tt.voters
<1>1. FairRows(wt) /\ FairRow(k) /\ wt[u] = k BY DEF CountedFair, FairRows
<1>2. \A x \in Voters : SameCredit(RowOf(vt, u, e, x), RowOf(wt, u, k, x))
  BY DEF RowOf, SameCredit
<1>3. \A x \in Voters : \A p : /\ Gives(RowOf(wt, u, k, x), p) = Gives(RowOf(vt, u, e, x), p)
                               /\ Entrusts(RowOf(wt, u, k, x), p) = Entrusts(RowOf(vt, u, e, x), p)
  BY <1>2, CreditsSame
<1>4. \A p : /\ GivenTo(wt, u, k, p) = GivenTo(vt, u, e, p)
             /\ EntrustedTo(wt, u, k, p) = EntrustedTo(vt, u, e, p)
  BY <1>3 DEF GivenTo, EntrustedTo
<1>5. \A x \in Voters : /\ wt[x] # None => vt[x] # None
                        /\ wt[x] # None => wt[x].proxied_vote_weight = vt[x].proxied_vote_weight
  OBVIOUS
<1>6. Tallied(st, u, e, e) BY DEF CountedFair
<1> HIDE DEF k
<1>7. Tallied(tt, u, k, k) BY <1>4, <1>5, <1>6 DEF Tallied
<1> QED BY <1>1, <1>7, OwnRow DEF CountedFair, k

\* A first vote changes no totals but that of the activated stake.
LEMMA FirstTotals ==
  ASSUME NEW g, NEW pt, Totals(g, pt), NEW row, row.staked \in Nat, now \in 0 .. MaxDay
  PROVE  Totals(FirstVote(g, row), pt)
<1> DEFINE h == FirstVote(g, row)
<1>1. g \in GlobalState BY DEF Totals
<1>2. g.total_activated_stake + row.staked \in Nat BY <1>1 DEF GlobalState
<1>3. /\ h \in GlobalState
      /\ h.total_producer_vote_weight = g.total_producer_vote_weight
      /\ h.total_producer_votepay_share = g.total_producer_votepay_share
      /\ h.total_vpay_share_change_rate = g.total_vpay_share_change_rate
      /\ h.last_vpay_state_update = g.last_vpay_state_update
  BY <1>1, <1>2 DEF FirstVote, Activated, GlobalState
<1> HIDE DEF h
<1>4. TotalShareNow(h) = TotalShareNow(g) BY <1>3 DEF TotalShareNow
<1>5. Totals(h, pt) BY <1>3, <1>4 DEF Totals
<1> QED BY <1>5 DEF h

LEMMA UpdateVotesTallied ==
  ASSUME NEW st, Balanced(st), NEW v \in Voters, st.voters[v] # None, now \in 0 .. MaxDay,
         NEW proxy \in Proxies \cup {None}, proxy # None => st.voters[proxy] # None,
         NEW chosen \in Ballots, \A p \in chosen : st.producers[p] # None,
         proxy # None => chosen = {} /\ Avoids(st.voters, proxy, v),
         st.voters[v].proxy # None => Avoids(st.voters, st.voters[v].proxy, v)
  PROVE  /\ Balanced(UpdateVotes(st, v, proxy, chosen))
         /\ StillHeard(st.voters, UpdateVotes(st, v, proxy, chosen).voters)
<1> DEFINE row == st.voters[v]   new == Weight(row)   old == row.last_vote_weight
           s1 == First(st, v)   s2 == TakenBack(s1, v)   s3 == Passed(s2, proxy, new)
           delta == ChangeOf(row, new, chosen)   D == LeftBy(row) \cup chosen
           s4 == CountVotes(s3, delta)
           e1 == Weighed(row, 0)
           e3 == Chooses(row, new, proxy, chosen)
           tt == UpdateVotes(st, v, proxy, chosen)
<1> chosen \in SUBSET Candidates BY VotingAssumption
<1>0. /\ Good(st) /\ st \in State /\ CountedFair(st, v, row, row) /\ FairRow(row) /\ row # None
      /\ row \in AnyVoter /\ FairRows(st.voters)
  BY OwnRow DEF Balanced, CountedFair, FairRows, FairRow, Good
<1>1. new \in EvenNat /\ new \in Int /\ new % 2 = 0 /\ old \in Nat /\ old \in Int
      /\ -old \in Int /\ (-old) % 2 = 0
  <2>1. row.proxied_vote_weight \in Nat BY <1>0, ProxiedNat
  <2>2. new \in EvenNat BY <1>0, <2>1, WeightEven
  <2>3. old \in EvenNat BY <1>0 DEF FairRow
  <2>4. \A n \in EvenNat : n \in Nat /\ n \in Int /\ n % 2 = 0 /\ -n \in Int /\ (-n) % 2 = 0
    BY DEF EvenNat
  <2> HIDE DEF new, old
  <2> QED BY <2>2, <2>3, <2>4
<1>2. /\ e1 \in AnyVoter /\ SameVoter(row, e1) /\ e1.last_vote_weight = 0
      /\ e1.proxied_vote_weight = row.proxied_vote_weight /\ e1 # None
  <2>1. 0 \in Int OBVIOUS
  <2> HIDE DEF row
  <2> QED BY <1>0, <2>1, RowOps, NoRow
<1>3. /\ e3 \in AnyVoter /\ e3 # None /\ e3.staked = row.staked /\ e3.is_proxy = row.is_proxy
      /\ e3.proxy = proxy /\ e3.producers = chosen /\ e3.last_vote_weight = new
      /\ e3.proxied_vote_weight = row.proxied_vote_weight
  <2>1. /\ e3 \in AnyVoter /\ e3.staked = row.staked /\ e3.is_proxy = row.is_proxy
        /\ e3.proxy = proxy /\ e3.producers = chosen /\ e3.last_vote_weight = new
        /\ e3.proxied_vote_weight = row.proxied_vote_weight
    BY <1>0, <1>1 DEF Chooses, AnyVoter
  <2> HIDE DEF e3
  <2> QED BY <2>1, NoRow
<1>4. /\ Good(s1) /\ s1.voters = st.voters /\ s1.producers = st.producers /\ SameRows(st, s1)
      /\ s1.gstate = FirstVote(st.gstate, row)
      /\ s1.voters[v] = row
  BY <1>0, FirstKeeps
<1>5. UpdateVotes(st, v, proxy, chosen) =
        [s4 EXCEPT !.voters[v] = Chooses(s4.voters[v], new, proxy, chosen)]
  <2>1. Moved(st, v, proxy, chosen) = s4 BY DEF Moved
  <2> HIDE DEF s4
  <2> QED BY <1>0, <2>1, UpdateVotesIs
<1> HIDE DEF s1, new, e1, e3, tt
<1>6. FairRow(e1) /\ FairRow(e3)
  <2>1. 0 \in EvenNat BY DEF EvenNat
  <2> QED BY <1>0, <1>1, <1>2, <1>3, <2>1 DEF FairRow, SameVoter
<1>7. CountedFair(s1, v, row, row)
  <2>1. Totals(s1.gstate, s1.producers)
    <3>1. Totals(st.gstate, st.producers) BY <1>0 DEF CountedFair, Tallied
    <3>2. row.staked \in Nat BY <1>0 DEF FairRow
    <3> HIDE DEF row
    <3> QED BY <1>4, <3>1, <3>2, FirstTotals
  <2> HIDE DEF row
  <2> QED BY <1>0, <1>4, <2>1 DEF CountedFair, Tallied
<1>8. CountedFair(s2, v, row, e1) /\ SameRows(s1, s2) /\ StillHeard(s1.voters, s2.voters)
  <2>1. CASE old > 0 /\ row.proxy # None
    <3>1. s2 = Propagate(WithProxied(s1, row.proxy, -old), row.proxy)
      BY <1>4, <2>1 DEF TakenBack
    <3>2. /\ row.proxy \in Voters /\ s1.voters[row.proxy] # None
          /\ Avoids(s1.voters, row.proxy, v)
      BY <1>0, <1>4, <2>1, VoterOf
    <3>3. \A y \in Voters : Entrusts(e1, y) = Entrusts(row, y) + (IF y = row.proxy THEN -old ELSE 0)
      BY <1>0, <1>1, <1>2 DEF Entrusts, SameVoter
    <3> DEFINE x == row.proxy   d == -old
    <3>4. x \in Voters /\ d \in Int /\ d % 2 = 0 /\ s1.voters[x] # None /\ Avoids(s1.voters, x, v)
          /\ s2 = Propagate(WithProxied(s1, x, d), x)
          /\ \A y \in Voters : Entrusts(e1, y) = Entrusts(row, y) + (IF y = x THEN d ELSE 0)
      BY <1>1, <3>1, <3>2, <3>3
    <3> HIDE DEF x, d, s2, row
    <3> QED BY <1>6, <1>7, <3>4, PassTallied
  <2>2. CASE ~ (old > 0 /\ row.proxy # None)
    <3>1. s2 = s1 BY <1>4, <2>2 DEF TakenBack
    <3>2. \A y \in Voters : Entrusts(e1, y) = Entrusts(row, y)
      BY <1>1, <1>2, <2>2, NoneNoVoter DEF Entrusts, SameVoter
    <3> HIDE DEF s2, row
    <3> QED BY <1>6, <1>7, <3>1, <3>2, EntrustSame, SameRowsRefl DEF StillHeard
  <2> QED BY <2>1, <2>2
<1> HIDE DEF s2
<1>9. SameRows(st, s2) BY <1>4, <1>8, SameRowsTrans
<1>10. CountedFair(s3, v, row, e3) /\ SameRows(s2, s3) /\ StillHeard(s2.voters, s3.voters)
  <2>1. CASE proxy # None
    <3>1. s3 = Propagate(WithProxied(s2, proxy, new), proxy) BY <2>1 DEF Passed
    <3>2. proxy \in Voters /\ s2.voters[proxy] # None
      BY <1>9, <2>1, VotersFinite DEF SameRows, SameVoter
    <3>3. Avoids(s2.voters, proxy, v)
      <4>1. PICK S : ClosedIn(S, st.voters) /\ proxy \in S /\ v \notin S BY <2>1 DEF Avoids
      <4>2. ClosedIn(S, s2.voters) BY <1>9, <4>1, ClosedKept
      <4> QED BY <4>1, <4>2 DEF Avoids
    <3>4. \A y \in Voters : Entrusts(e3, y) = Entrusts(e1, y) + (IF y = proxy THEN new ELSE 0)
      BY <1>1, <1>2, <1>3 DEF Entrusts
    <3> DEFINE x == proxy   d == new
    <3>5. /\ x \in Voters /\ d \in Int /\ d % 2 = 0 /\ s2.voters[x] # None /\ Avoids(s2.voters, x, v)
          /\ s3 = Propagate(WithProxied(s2, x, d), x)
          /\ \A y \in Voters : Entrusts(e3, y) = Entrusts(e1, y) + (IF y = x THEN d ELSE 0)
      BY <1>1, <3>1, <3>2, <3>3, <3>4
    <3>6. CountedFair(s2, v, row, e1) BY <1>8
    <3> HIDE DEF x, d, s3, row
    <3> QED BY <1>6, <3>5, <3>6, PassTallied
  <2>2. CASE proxy = None
    <3>1. s3 = s2 BY <2>2 DEF Passed
    <3>2. \A y \in Voters : Entrusts(e3, y) = Entrusts(e1, y)
      BY <1>2, <1>3, <2>2, NoneNoVoter DEF Entrusts
    <3> HIDE DEF s3, row
    <3> QED BY <1>6, <1>8, <3>1, <3>2, EntrustSame, SameRowsRefl DEF StillHeard
  <2> QED BY <2>1, <2>2
<1> HIDE DEF s3
<1>11. SameRows(st, s3) BY <1>9, <1>10, SameRowsTrans
<1>12. /\ D \in SUBSET Candidates /\ delta \in [D -> Int] /\ \A p \in D : s3.producers[p] # None
  <2>1. /\ D \in SUBSET Candidates /\ \A p \in D : st.producers[p] # None /\ delta \in [D -> Int]
    BY <1>0, <1>1, ChangeInts
  <2>2. /\ D \in SUBSET Candidates /\ \A p \in D : st.producers[p] # None
    BY <1>0, <1>1, ChangeInts
  <2>3. delta \in [D -> Int] BY <1>0, <1>1, ChangeInts
  <2> HIDE DEF D, delta
  <2> QED BY <1>11, <2>2, <2>3 DEF SameRows
<1> DEFINE N == [p \in Candidates |-> GivenTo(s3.voters, v, e3, p)]
<1>13. /\ Good(s3) /\ FairRows(s3.voters) /\ Tallied(s3, v, row, e3)
  BY <1>10 DEF CountedFair
<1>14. ASSUME NEW p \in Candidates, s3.producers[p] # None
       PROVE  /\ N[p] \in Nat
              /\ N[p] = s3.producers[p].total_votes + (IF p \in D THEN delta[p] ELSE 0)
  <2>1. N[p] = GivenTo(s3.voters, v, e3, p) /\ N[p] \in Nat BY <1>6, <1>13, GivenNat
  <2>2. s3.producers[p].total_votes = GivenTo(s3.voters, v, row, p) /\ GivenTo(s3.voters, v, row, p) \in Nat
    BY <1>0, <1>13, <1>14, GivenNat DEF Tallied
  <2>3. GivenTo(s3.voters, v, e3, p) = GivenTo(s3.voters, v, row, p) - Gives(row, p) + Gives(e3, p)
    <3> HIDE DEF row
    <3>2. \A x \in Voters : x # v => SameCredit(RowOf(s3.voters, v, row, x), RowOf(s3.voters, v, e3, x))
      BY DEF RowOf, SameCredit
    <3>3. RowOf(s3.voters, v, row, v) = row /\ RowOf(s3.voters, v, e3, v) = e3 BY DEF RowOf
    <3> QED BY <1>0, <1>6, <1>13, <3>2, <3>3, CreditMoves
  <2>4. /\ Gives(e3, p) - Gives(row, p) = IF p \in D THEN delta[p] ELSE 0
        /\ Gives(e3, p) \in Int /\ Gives(row, p) \in Int
    BY <1>0, <1>1, <1>3, ChangeIs
  <2> HIDE DEF N, D, delta, row
  <2> QED BY <2>1, <2>2, <2>3, <2>4
<1>15. /\ Good(s4) /\ SameRows(s3, s4) /\ s4.voters = s3.voters
       /\ \A p \in Candidates : s4.producers[p] # None => s4.producers[p].total_votes = N[p]
       /\ Totals(s4.gstate, s4.producers)
  <2>1. Totals(s3.gstate, s3.producers) BY <1>13 DEF Tallied
  <2> HIDE DEF N, D, delta
  <2> QED BY ONLY <1>12, <1>13, <1>14, <2>1, now \in 0 .. MaxDay, CountExact
<1>16. \A p \in Candidates : N[p] = GivenTo(s3.voters, v, e3, p) OBVIOUS
<1> HIDE DEF N, s4, D, delta
<1>17. CountedFair(s4, v, e3, e3)
  BY <1>6, <1>13, <1>15, <1>16 DEF CountedFair, Tallied
<1>18. SameRows(st, s4) BY <1>11, <1>15, SameRowsTrans
<1>19. tt.voters[v] = Chooses(s4.voters[v], new, proxy, chosen)
       /\ tt.producers = s4.producers /\ tt.gstate = s4.gstate /\ s4.voters[v] # None
       /\ Good(tt) /\ FairRow(s4.voters[v]) /\ s4.voters[v].staked = row.staked
       /\ \A x \in Voters : x # v => tt.voters[x] = s4.voters[x]
  <2>1. /\ s4 \in State /\ s4.voters[v] \in AnyVoter /\ s4.voters[v] # None
        /\ FairRow(s4.voters[v]) /\ s4.voters[v].staked = row.staked
    BY <1>0, <1>17, <1>18 DEF CountedFair, FairRows, FairRow, Good, SameRows, SameVoter
  <2> DEFINE r4 == s4.voters[v]   k == Chooses(r4, new, proxy, chosen)
  <2>2. k \in AnyVoter BY <1>1, <2>1 DEF Chooses, AnyVoter
  <2>3. tt = [s4 EXCEPT !.voters[v] = k] BY <1>5 DEF tt
  <2> HIDE DEF k
  <2>4. /\ tt.producers = s4.producers /\ tt.gstate = s4.gstate /\ tt.voters[v] = k
        /\ \A x \in Voters : x # v => tt.voters[x] = s4.voters[x]
    BY <2>1, <2>2, <2>3, VoterWritten
  <2>5. Good(tt) BY <1>0, UpdateVotesUpdates DEF Updated, tt
  <2> QED BY <2>1, <2>4, <2>5 DEF k
<1> DEFINE f == Chooses(s4.voters[v], new, proxy, chosen)
<1>20. /\ FairRow(f) /\ f # None /\ f.proxied_vote_weight = s4.voters[v].proxied_vote_weight
       /\ SameCredit(e3, f)
  <2>1. s4.voters[v] \in AnyVoter BY <1>19 DEF FairRow
  <2>2. /\ f \in AnyVoter /\ f.staked = s4.voters[v].staked
        /\ f.proxy = proxy /\ f.producers = chosen /\ f.last_vote_weight = new
        /\ f.proxied_vote_weight = s4.voters[v].proxied_vote_weight
    BY <1>1, <2>1 DEF Chooses, AnyVoter
  <2> HIDE DEF f
  <2>3. f # None BY <2>2, NoRow
  <2> QED BY <1>1, <1>3, <1>19, <2>2, <2>3 DEF FairRow, SameCredit
<1> HIDE DEF f
<1>21. tt.voters[v] = f BY <1>19 DEF f
<1>22. Balanced(tt)
  BY <1>17, <1>19, <1>20, <1>21, RowSettles
<1>23. StillHeard(st.voters, tt.voters)
  <2>1. StillHeard(st.voters, s4.voters)
    BY <1>4, <1>8, <1>10, <1>15, HeardTrans
  <2>2. row.staked > 0 => new > 0
    <3>1. row.proxied_vote_weight \in Nat BY <1>0, ProxiedNat
    <3> QED BY <1>0, <3>1, WeightPositive DEF new
  <2>3. /\ f.last_vote_weight = new /\ f.staked = row.staked
    BY <1>19, <1>20 DEF f, FairRow, AnyVoter, Chooses
  <2>4. Speaks(row) => Speaks(f) BY <1>20, <2>2, <2>3 DEF Speaks
  <2> QED BY <1>19, <1>21, <2>1, <2>4 DEF StillHeard
<1> QED BY <1>22, <1>23 DEF tt

\* The voters that the proxies of x lead to, and x.
Leads(vt, x) == {y \in Voters : \A S : ClosedIn(S, vt) /\ x \in S => y \in S}

LEMMA LeadsAre ==
  ASSUME NEW vt \in VoterTable, NEW x \in Voters
  PROVE  /\ ClosedIn(Leads(vt, x), vt) /\ x \in Leads(vt, x)
         /\ \A S : ClosedIn(S, vt) /\ x \in S => Leads(vt, x) \subseteq S
<1>1. ASSUME NEW y \in Leads(vt, x), vt[y] # None PROVE vt[y].proxy \in Leads(vt, x) \cup {None}
  <2>1. vt[y].proxy \in Voters \cup {None}
    BY <1>1, VotersFinite DEF Leads, VoterTable, AnyVoter
  <2>2. \A S : ClosedIn(S, vt) /\ x \in S => vt[y].proxy \in S \cup {None}
    BY <1>1 DEF Leads, ClosedIn
  <2> QED BY <2>1, <2>2 DEF Leads
<1> QED BY <1>1 DEF ClosedIn, Leads

\* The proxy of v does not lead back to v: else the voters between them would
\* all have proxies among themselves.
LEMMA OwnProxyAvoids ==
  ASSUME NEW vt \in VoterTable, NoLoop(vt), NEW v \in Voters, vt[v] # None, vt[v].proxy # None
  PROVE  Avoids(vt, vt[v].proxy, v)
<1> DEFINE y == vt[v].proxy
           S == {x \in Leads(vt, y) : v \in Leads(vt, x)}
<1>1. y \in Voters /\ y # None BY VotersFinite DEF VoterTable, AnyVoter
<1>2. ClosedIn(Leads(vt, y), vt) /\ y \in Leads(vt, y) BY <1>1, LeadsAre
<1>3. v \notin Leads(vt, y) => Avoids(vt, y, v) BY <1>2 DEF Avoids
<1>4. SUFFICES ASSUME v \in Leads(vt, y) PROVE FALSE
  BY <1>3
<1>5. ASSUME NEW x \in S PROVE vt[x] # None /\ vt[x].proxy # None /\ vt[x].proxy \in S
  <2>1. x \in Voters /\ x \in Leads(vt, y) /\ v \in Leads(vt, x) BY DEF Leads
  <2>2. CASE x = v
    <3>1. vt[x].proxy = y /\ y \in Leads(vt, y) BY <1>2, <2>2
    <3> QED BY <1>1, <1>4, <2>2, <3>1
  <2>3. CASE x # v
    <3>1. vt[x] # None /\ vt[x].proxy # None
      <4>1. SUFFICES ASSUME vt[x] = None \/ vt[x].proxy = None PROVE FALSE
        OBVIOUS
      <4>2. ClosedIn({x}, vt) BY <2>1, <4>1 DEF ClosedIn
      <4>3. Leads(vt, x) \subseteq {x} BY <2>1, <4>2, LeadsAre
      <4> QED BY <2>1, <2>3, <4>3
    <3> DEFINE z == vt[x].proxy
    <3>2. z \in Voters /\ z # None BY <2>1, <3>1, VotersFinite DEF VoterTable, AnyVoter
    <3>3. z \in Leads(vt, y) BY <1>2, <2>1, <3>1 DEF ClosedIn
    <3>4. ClosedIn(Leads(vt, z), vt) /\ z \in Leads(vt, z) BY <3>2, LeadsAre
    <3>5. ClosedIn({x} \cup Leads(vt, z), vt) BY <2>1, <3>4 DEF ClosedIn
    <3>6. Leads(vt, x) \subseteq {x} \cup Leads(vt, z) BY <2>1, <3>5, LeadsAre
    <3>7. v \in Leads(vt, z) BY <2>1, <2>3, <3>6
    <3> QED BY <3>1, <3>3, <3>7
  <2> QED BY <2>2, <2>3
<1>6. v \in S
  <2>1. ClosedIn(Leads(vt, v), vt) /\ v \in Leads(vt, v) BY LeadsAre
  <2> QED BY <1>4, <2>1
<1>7. S \in (SUBSET Led(vt)) \ {{}} BY <1>5, <1>6 DEF Led, Leads
<1> HIDE DEF S
<1> QED BY <1>5, <1>7 DEF NoLoop

\* An account that is a proxy leads to nobody.
LEMMA ProxyAvoids ==
  ASSUME NEW vt, ProxyRule(vt), NEW x \in Voters, vt[x] # None, vt[x].is_proxy, NEW v, v # x
  PROVE  Avoids(vt, x, v)
<1>1. ClosedIn({x}, vt) BY DEF ClosedIn, ProxyRule
<1> QED BY <1>1 DEF Avoids

-----------------------------------------------------------------------------
(***************************************************************************)
(* What the actions of voters and producers do to the tallies.             *)
(***************************************************************************)
LEMMA BalancedIs ==
  ASSUME NEW st
  PROVE  Balanced(st) <=> Good(st) /\ FairRows(st.voters) /\ Tallied(st, None, None, None)
BY DEF Balanced, CountedFair, FairRow

\* A voter whose row counts as before.
LEMMA VoterChanged ==
  ASSUME NEW st, Balanced(st), NEW v \in Voters, st.voters[v] # None,
         NEW tt, Good(tt), tt.producers = st.producers, tt.gstate = st.gstate,
         \A x \in Voters : x # v => tt.voters[x] = st.voters[x],
         FairRow(tt.voters[v]), tt.voters[v] # None, SameCredit(st.voters[v], tt.voters[v]),
         tt.voters[v].proxied_vote_weight = st.voters[v].proxied_vote_weight
  PROVE  Balanced(tt)
BY OwnRow, RowSettles

\* A voter who has not voted yet.
LEMMA VoterAdded ==
  ASSUME NEW st, Balanced(st), NEW v \in Voters, st.voters[v] = None,
         NEW tt, Good(tt), tt.producers = st.producers, tt.gstate = st.gstate,
         \A x \in Voters : x # v => tt.voters[x] = st.voters[x],
         NEW n \in Nat, NEW b \in BOOLEAN, tt.voters[v] = NewVoter(n, b)
  PROVE  Balanced(tt)
<1> DEFINE vt == st.voters   wt == tt.voters
<1>0. /\ Good(st) /\ FairRows(vt) /\ Tallied(st, None, None, None) /\ Linked(st)
  BY BalancedIs DEF Good
<1>1. /\ wt[v] \in AnyVoter /\ wt[v] # None /\ wt[v].staked = n /\ wt[v].proxy = None
      /\ wt[v].producers = {} /\ wt[v].last_vote_weight = 0 /\ wt[v].proxied_vote_weight = 0
  <2>1. n \in Int OBVIOUS
  <2> QED BY <2>1, NewVoterRow
<1>2. FairRow(wt[v])
  <2>1. 0 \in EvenNat /\ 0 % 2 = 0 /\ {} \in Ballots BY VotingAssumption DEF EvenNat
  <2> QED BY <1>1, <2>1 DEF FairRow
<1>3. FairRows(wt) BY <1>0, <1>2 DEF FairRows
<1>4. \A x \in Voters : RowOf(vt, None, None, x) = vt[x] /\ RowOf(wt, None, None, x) = wt[x]
  BY NoneNoVoter DEF RowOf
<1>5. \A x \in Voters : /\ \A p \in Candidates : Gives(wt[x], p) = Gives(vt[x], p)
                        /\ \A y \in Voters : Entrusts(wt[x], y) = Entrusts(vt[x], y)
  <2> SUFFICES ASSUME NEW x \in Voters
               PROVE  /\ \A p \in Candidates : Gives(wt[x], p) = Gives(vt[x], p)
                      /\ \A y \in Voters : Entrusts(wt[x], y) = Entrusts(vt[x], y)
    OBVIOUS
  <2>1. CASE x = v BY <1>1, <2>1, NoneNoVoter DEF Gives, Entrusts
  <2>2. CASE x # v BY <2>2
  <2> QED BY <2>1, <2>2
<1> HIDE DEF vt, wt
<1>6. /\ \A p \in Candidates : GivenTo(wt, None, None, p) = GivenTo(vt, None, None, p)
      /\ \A y \in Voters : EntrustedTo(wt, None, None, y) = EntrustedTo(vt, None, None, y)
  BY <1>4, <1>5 DEF GivenTo, EntrustedTo
<1>7. EntrustedTo(vt, None, None, v) = 0
  <2> DEFINE f == [x \in Voters |-> Entrusts(RowOf(vt, None, None, x), v)]
  <2>1. \A x \in Voters : Entrusts(vt[x], v) = 0
    BY <1>0, NoneNoVoter DEF Entrusts, Linked, vt
  <2>2. \A x \in Voters : f[x] = 0 BY <1>4, <2>1
  <2> HIDE DEF f
  <2>3. SumFunctionOnSet(f, Voters) = 0 BY <2>2, VotersFinite, SumZero
  <2> QED BY <2>3 DEF EntrustedTo, f
<1>8. \A x \in Voters : wt[x] # None =>
        wt[x].proxied_vote_weight = EntrustedTo(wt, None, None, x)
  <2> SUFFICES ASSUME NEW x \in Voters, wt[x] # None
               PROVE  wt[x].proxied_vote_weight = EntrustedTo(wt, None, None, x)
    OBVIOUS
  <2>1. CASE x = v BY <1>1, <1>6, <1>7, <2>1
  <2>2. CASE x # v BY <1>0, <1>6, <2>2 DEF Tallied, vt, wt
  <2> QED BY <2>1, <2>2
<1>9. Tallied(tt, None, None, None) BY <1>0, <1>6, <1>8 DEF Tallied, vt, wt
<1> QED BY <1>3, <1>9, BalancedIs DEF wt

\* What is heard and the activation of the chain.
\* The stake of those that have voted, which is theirs as long as they speak.
Heard(row) == IF Speaks(row) THEN row.staked ELSE 0
HeardIn(vt) == SumFunctionOnSet([v \in Voters |-> Heard(vt[v])], Voters)

LEMMA HeardNat == ASSUME NEW vt, FairRows(vt) PROVE \A v \in Voters : Heard(vt[v]) \in Nat
BY DEF Heard, Speaks, FairRows, FairRow

\* What is heard grows by n at least, if it does for one voter and no other is
\* heard less.
LEMMA HeardGrows ==
  ASSUME NEW vt, NEW wt, FairRows(vt), FairRows(wt), NEW v \in Voters, NEW n \in Nat,
         \A x \in Voters : Heard(vt[x]) <= Heard(wt[x]),
         Heard(vt[v]) + n <= Heard(wt[v])
  PROVE  HeardIn(vt) + n <= HeardIn(wt) /\ HeardIn(vt) \in Nat /\ HeardIn(wt) \in Nat
<1> DEFINE f == [x \in Voters |-> Heard(vt[x])]
           h == [x \in Voters |-> Heard(wt[x])]
           g == [x \in Voters |-> Heard(wt[x]) - Heard(vt[x])]
<1>1. \A x \in Voters : Heard(vt[x]) \in Nat /\ Heard(wt[x]) \in Nat BY HeardNat
<1>2. \A a, b \in Nat : a <= b => b - a \in Nat /\ b = a + (b - a) OBVIOUS
<1>3. \A x \in Voters : f[x] \in Nat /\ h[x] \in Nat /\ g[x] \in Nat /\ h[x] = f[x] + g[x]
  BY <1>1, <1>2
<1>4. n <= g[v] BY <1>1
<1>5. HeardIn(vt) = SumFunctionOnSet(f, Voters) /\ HeardIn(wt) = SumFunctionOnSet(h, Voters)
  BY DEF HeardIn
<1> HIDE DEF f, g, h
<1>6. SumFunctionOnSet(h, Voters) = SumFunctionOnSet(f, Voters) + SumFunctionOnSet(g, Voters)
  BY <1>3, VotersFinite, SumPlus
<1>7. SumFunctionOnSet(g, Voters) \in Nat /\ g[v] <= SumFunctionOnSet(g, Voters)
  BY <1>3, VotersFinite, SumNat
<1>8. SumFunctionOnSet(f, Voters) \in Nat /\ SumFunctionOnSet(h, Voters) \in Nat
  BY <1>3, VotersFinite, SumNat
<1> QED BY <1>3, <1>4, <1>5, <1>6, <1>7, <1>8

LEMMA HeardKept ==
  ASSUME NEW vt, NEW wt, FairRows(vt), FairRows(wt),
         \A x \in Voters : Heard(vt[x]) <= Heard(wt[x])
  PROVE  HeardIn(vt) <= HeardIn(wt) /\ HeardIn(vt) \in Nat /\ HeardIn(wt) \in Nat
<1>1. CASE Voters = {}
  <2> DEFINE f == [x \in Voters |-> Heard(vt[x])]   h == [x \in Voters |-> Heard(wt[x])]
  <2>1. f = h BY <1>1
  <2>2. \A x \in Voters : f[x] \in Nat BY <1>1
  <2>3. HeardIn(vt) = SumFunctionOnSet(f, Voters) /\ HeardIn(wt) = SumFunctionOnSet(h, Voters)
    BY DEF HeardIn
  <2> HIDE DEF f, h
  <2>4. SumFunctionOnSet(f, Voters) \in Nat BY <2>2, VotersFinite, SumNat
  <2> QED BY <2>1, <2>3, <2>4
<1>2. CASE Voters # {}
  <2>1. PICK v \in Voters : TRUE BY <1>2
  <2>2. 0 \in Nat /\ Heard(vt[v]) + 0 <= Heard(wt[v]) BY HeardNat
  <2>3. HeardIn(vt) + 0 <= HeardIn(wt) /\ HeardIn(vt) \in Nat /\ HeardIn(wt) \in Nat
    BY <2>2, HeardGrows
  <2> QED BY <2>3
<1> QED BY <1>1, <1>2

\* Until the chain is activated, no more is counted than is heard, and not enough.
ActiveStake(st) == st.gstate.total_activated_stake
Activation(st) == st.gstate.thresh_activated_stake_time
Ready(st) ==
  Activation(st) = None => /\ ActiveStake(st) < MinActivatedStake
                           /\ ActiveStake(st) <= HeardIn(st.voters)
\* From the one table to the other the chain is activated only if enough is heard.
Activates(st, tt) ==
  /\ Ready(tt)
  /\ Activation(tt) # Activation(st) => MinActivatedStake <= HeardIn(tt.voters)

\* A step that leaves the totals alone and silences nobody.
LEMMA HeardStep ==
  ASSUME NEW st, Balanced(st), NEW tt, Balanced(tt), Ready(st), SameActive(st, tt),
         Activation(st) = None => \A x \in Voters : Heard(st.voters[x]) <= Heard(tt.voters[x])
  PROVE  Activates(st, tt)
<1>1. FairRows(st.voters) /\ FairRows(tt.voters) /\ ActiveStake(st) \in Nat
  BY BalancedIs DEF Tallied, Totals, GlobalState, ActiveStake
<1>2. Activation(tt) = Activation(st) /\ ActiveStake(tt) = ActiveStake(st)
  BY DEF SameActive, Activation, ActiveStake
<1>3. CASE Activation(st) # None BY <1>2, <1>3 DEF Activates, Ready
<1>4. CASE Activation(st) = None
  <2>1. /\ HeardIn(st.voters) <= HeardIn(tt.voters)
        /\ HeardIn(st.voters) \in Nat /\ HeardIn(tt.voters) \in Nat
    BY <1>1, <1>4, HeardKept
  <2> QED BY <1>1, <1>2, <1>4, <2>1 DEF Activates, Ready
<1> QED BY <1>3, <1>4

\* A vote counts the stake of its voter once, when it is not heard yet.
FirstStake(row) == IF row.last_vote_weight <= 0 THEN row.staked ELSE 0

LEMMA FirstCounts ==
  ASSUME NEW st, Good(st), NEW v \in Voters, st.voters[v] # None, st.voters[v].staked \in Nat,
         Activation(st) = None, ActiveStake(st) \in Nat, now \in 0 .. MaxDay
  PROVE  /\ ActiveStake(First(st, v)) = ActiveStake(st) + FirstStake(st.voters[v])
         /\ Activation(First(st, v)) =
              IF st.voters[v].last_vote_weight <= 0
                 /\ ActiveStake(st) + FirstStake(st.voters[v]) >= MinActivatedStake
              THEN now ELSE None
<1> DEFINE row == st.voters[v]   g == st.gstate
<1>1. First(st, v).gstate = FirstVote(g, row) BY DEF First, Good, State
<1>2. g \in AnyGlobal BY DEF Good, State
<1>3. CASE row.last_vote_weight <= 0
  <2>1. FirstVote(g, row) = Activated(g, row.staked) BY <1>3 DEF FirstVote
  <2>2. /\ Activated(g, row.staked).total_activated_stake = g.total_activated_stake + row.staked
        /\ Activated(g, row.staked).thresh_activated_stake_time =
             IF g.thresh_activated_stake_time = None
                /\ g.total_activated_stake + row.staked >= MinActivatedStake
             THEN now ELSE g.thresh_activated_stake_time
    BY <1>2 DEF Activated, AnyGlobal
  <2> QED BY <1>1, <1>3, <2>1, <2>2 DEF ActiveStake, Activation, FirstStake
<1>4. CASE ~ (row.last_vote_weight <= 0)
  <2>1. FirstVote(g, row) = g BY <1>4 DEF FirstVote
  <2> QED BY <1>1, <1>4, <2>1 DEF ActiveStake, Activation, FirstStake
<1> QED BY <1>3, <1>4

LEMMA UpdateVotesActivates ==
  ASSUME NEW st, Balanced(st), Ready(st), NEW v \in Voters, st.voters[v] # None,
         now \in 0 .. MaxDay, NEW proxy, NEW chosen, NEW tt, Balanced(tt),
         Updated(st, v, proxy, chosen, tt), StillHeard(st.voters, tt.voters)
  PROVE  Activates(st, tt)
<1> DEFINE row == st.voters[v]
           n == FirstStake(row)
<1>0. /\ Good(st) /\ FairRows(st.voters) /\ FairRows(tt.voters) /\ ActiveStake(st) \in Nat
      /\ FairRow(row) /\ row.staked \in Nat /\ row.last_vote_weight \in Int
      /\ row.proxied_vote_weight \in Nat
  <2>1. Good(st) /\ FairRows(st.voters) /\ FairRows(tt.voters) /\ ActiveStake(st) \in Nat
    BY BalancedIs DEF Tallied, Totals, GlobalState, ActiveStake
  <2>2. FairRow(row) BY <2>1 DEF FairRows
  <2>3. CountedFair(st, None, None, None) BY DEF Balanced
  <2>4. row.proxied_vote_weight \in Nat BY <2>3, ProxiedNat
  <2> QED BY <2>1, <2>2, <2>4 DEF FairRow, EvenNat
<1>1. ActiveStake(tt) = ActiveStake(First(st, v)) /\ Activation(tt) = Activation(First(st, v))
  BY DEF Updated, SameActive, ActiveStake, Activation
<1>2. CASE Activation(st) # None
  <2>1. Activation(First(st, v)) = Activation(st)
    <3>1. st.gstate \in AnyGlobal BY <1>0 DEF Good, State
    <3>2. First(st, v).gstate = FirstVote(st.gstate, row) BY <1>0 DEF First, Good, State
    <3> QED BY <1>2, <3>1, <3>2 DEF Activation, FirstVote, Activated, AnyGlobal
  <2> QED BY <1>1, <1>2, <2>1 DEF Activates, Ready
<1>3. CASE Activation(st) = None
  <2>1. n \in Nat BY <1>0 DEF FirstStake
  <2>2. /\ ActiveStake(tt) = ActiveStake(st) + n
        /\ Activation(tt) = None => ActiveStake(tt) < MinActivatedStake
        /\ Activation(tt) # None => ActiveStake(tt) >= MinActivatedStake
    <3>1. /\ ActiveStake(tt) = ActiveStake(st) + n
          /\ Activation(tt) = IF row.last_vote_weight <= 0 /\ ActiveStake(st) + n >= MinActivatedStake
                              THEN now ELSE None
      BY <1>0, <1>1, <1>3, FirstCounts
    <3>2. ActiveStake(st) < MinActivatedStake BY <1>3 DEF Ready
    <3>3. row.last_vote_weight > 0 => n = 0 BY <1>0 DEF FirstStake
    <3>4. now # None BY CoreAssumption, NoneNoVoter, VotingAssumption
    <3>5. MinActivatedStake \in Nat BY VotingAssumption
    <3> HIDE DEF n, row
    <3> QED BY <1>0, <2>1, <3>1, <3>2, <3>3, <3>4, <3>5
  <2>3. \A x \in Voters : Heard(st.voters[x]) <= Heard(tt.voters[x])
    <3> SUFFICES ASSUME NEW x \in Voters PROVE Heard(st.voters[x]) <= Heard(tt.voters[x])
      OBVIOUS
    <3>1. Heard(st.voters[x]) \in Nat /\ Heard(tt.voters[x]) \in Nat BY <1>0, HeardNat
    <3>2. st.voters[x] # None => tt.voters[x].staked = st.voters[x].staked
      BY DEF Updated, SameVoter
    <3>3. Speaks(st.voters[x]) => Speaks(tt.voters[x]) /\ st.voters[x] # None
      BY DEF StillHeard, Speaks
    <3> QED BY <3>1, <3>2, <3>3 DEF Heard
  <2>4. Heard(st.voters[v]) + n <= Heard(tt.voters[v])
    <3>1. /\ tt.voters[v] # None /\ tt.voters[v].staked = row.staked
          /\ tt.voters[v].last_vote_weight = Weight(row)
      BY DEF Updated
    <3>2. CASE row.staked = 0
      <4>1. n = 0 /\ Heard(row) = 0 /\ Heard(tt.voters[v]) = 0
        BY <1>0, <3>1, <3>2 DEF Heard, Speaks, FirstStake
      <4> QED BY <4>1
    <3>3. CASE row.staked > 0
      <4>1. Weight(row) > 0 BY <1>0, <3>3, WeightPositive
      <4>2. Heard(tt.voters[v]) = row.staked BY <3>1, <3>3, <4>1 DEF Heard, Speaks
      <4>3. Heard(row) + n = row.staked BY <1>0, <3>3 DEF Heard, Speaks, FirstStake
      <4> QED BY <1>0, <4>2, <4>3
    <3> QED BY <1>0, <3>2, <3>3
  <2> HIDE DEF n
  <2>5. /\ HeardIn(st.voters) + n <= HeardIn(tt.voters)
        /\ HeardIn(st.voters) \in Nat /\ HeardIn(tt.voters) \in Nat
    BY <1>0, <2>1, <2>3, <2>4, HeardGrows
  <2>6. ActiveStake(st) <= HeardIn(st.voters) BY <1>3 DEF Ready
  <2>7. ActiveStake(tt) <= HeardIn(tt.voters) BY <1>0, <2>1, <2>2, <2>5, <2>6
  <2>8. MinActivatedStake \in Nat /\ ActiveStake(tt) \in Nat BY <1>0, <2>1, <2>2, VotingAssumption
  <2>9. Activation(tt) # Activation(st) => MinActivatedStake <= HeardIn(tt.voters)
    BY <1>3, <2>2, <2>5, <2>7, <2>8
  <2> QED BY <2>2, <2>7, <2>9 DEF Activates, Ready
<1> QED BY <1>2, <1>3

\* Producers whose votes stay; a new one has none, as nobody lists it yet.
LEMMA VotesStay ==
  ASSUME NEW st, Balanced(st), NEW tt, Good(tt), tt.voters = st.voters,
         Totals(tt.gstate, tt.producers),
         \A p \in Candidates : VotesIn(tt.producers[p]) = VotesIn(st.producers[p])
  PROVE  Balanced(tt)
<1>0. Good(st) /\ FairRows(st.voters) /\ Tallied(st, None, None, None) /\ Linked(st)
  BY BalancedIs DEF Good
<1>2. ASSUME NEW p \in Candidates, tt.producers[p] # None
      PROVE  tt.producers[p].total_votes = GivenTo(st.voters, None, None, p)
  <2>1. CASE st.producers[p] # None BY <1>0, <1>2, <2>1 DEF Tallied, VotesIn
  <2>2. CASE st.producers[p] = None
    <3> DEFINE f == [x \in Voters |-> Gives(RowOf(st.voters, None, None, x), p)]
    <3>1. \A x \in Voters : Gives(st.voters[x], p) = 0 BY <1>0, <2>2 DEF Gives, Linked
    <3>2. \A x \in Voters : f[x] = 0 BY <3>1, NoneNoVoter DEF RowOf
    <3> HIDE DEF f
    <3>3. SumFunctionOnSet(f, Voters) = 0 BY <3>2, VotersFinite, SumZero
    <3>4. GivenTo(st.voters, None, None, p) = 0 BY <3>3 DEF GivenTo, f
    <3>5. tt.producers[p].total_votes = 0 BY <1>2, <2>2 DEF VotesIn
    <3> QED BY <3>4, <3>5
  <2> QED BY <2>1, <2>2
<1>3. Tallied(tt, None, None, None) BY <1>0, <1>2 DEF Tallied
<1> QED BY <1>0, <1>3, BalancedIs

LEMMA VoteBalanced ==
  ASSUME VotersOK, Balanced(Tables), NEW v \in Voters, NEW proxy \in Proxies \cup {None},
         NEW chosen \in Ballots, Voteproducer(v, proxy, chosen)
  PROVE  Balanced(Tables') /\ (Ready(Tables) => Activates(Tables, Tables'))
<1> DEFINE tt == UpdateVotes(Tables, v, proxy, chosen)
<1>1. /\ voters[v] # None
      /\ proxy # None => /\ chosen = {} /\ v # proxy
                         /\ voters[proxy] # None /\ voters[proxy].is_proxy
      /\ \A p \in chosen : producers[p] # None
      /\ Become(tt)
  BY DEF Voteproducer, CanVote
<1>2. chosen \in SUBSET Candidates BY VotingAssumption
<1>3. /\ voters \in VoterTable /\ ProxyRule(voters) /\ NoLoop(voters) /\ now \in 0 .. MaxDay
  BY VotersParts DEF VotersOK
<1>4. proxy # None => chosen = {} /\ Avoids(voters, proxy, v)
  BY <1>1, <1>3, VotersFinite, ProxyAvoids
<1>5. voters[v].proxy # None => Avoids(voters, voters[v].proxy, v)
  BY <1>1, <1>3, OwnProxyAvoids
<1>6. Balanced(tt) /\ StillHeard(voters, tt.voters) /\ Updated(Tables, v, proxy, chosen, tt)
  <2>1. /\ Tables.voters[v] # None /\ (proxy # None => Tables.voters[proxy] # None)
        /\ \A p \in chosen : Tables.producers[p] # None
        /\ proxy # None => chosen = {} /\ Avoids(Tables.voters, proxy, v)
        /\ Tables.voters[v].proxy # None => Avoids(Tables.voters, Tables.voters[v].proxy, v)
    BY <1>1, <1>4, <1>5, TablesAre
  <2>2. Balanced(tt) /\ StillHeard(Tables.voters, tt.voters)
    BY <1>2, <1>3, <2>1, UpdateVotesTallied
  <2> HIDE DEF tt
  <2>3. Updated(Tables, v, proxy, chosen, tt)
    BY <1>2, <1>3, <2>1, UpdateVotesUpdates DEF VotersOK, tt
  <2> QED BY <2>2, <2>3, TablesAre
<1> HIDE DEF tt
<1>7. tt \in State BY <1>6, BalancedIs DEF Good
<1>8. Ready(Tables) => Activates(Tables, tt)
  BY <1>1, <1>3, <1>6, TablesAre, UpdateVotesActivates
<1> QED BY <1>1, <1>6, <1>7, <1>8, BecomeIs

LEMMA RegproxyBalanced ==
  ASSUME VotersOK, Balanced(Tables), NEW v \in Voters, NEW isproxy \in BOOLEAN,
         Regproxy(v, isproxy), Good(Tables')
  PROVE  Balanced(Tables') /\ (Ready(Tables) => Activates(Tables, Tables'))
<1>0. /\ Tables \in State /\ Linked(Tables) /\ voters \in VoterTable
      /\ producers \in ProducerTable /\ gstate \in AnyGlobal /\ FairRows(voters)
  BY VotersParts, BalancedIs, TablesAre DEF VotersOK, Good
<1>1. CASE /\ voters[v] = None /\ voters' = [voters EXCEPT ![v] = NewVoter(0, isproxy)]
           /\ UNCHANGED <<producers, gstate>>
  <2>1. /\ Tables'.voters[v] = NewVoter(0, isproxy) /\ Tables.voters[v] = None
        /\ \A x \in Voters : x # v => Tables'.voters[x] = Tables.voters[x]
        /\ Tables'.producers = Tables.producers /\ Tables'.gstate = Tables.gstate
    BY <1>0, <1>1, TablesAre DEF VoterTable
  <2>2. 0 \in Nat OBVIOUS
  <2>3. Balanced(Tables') BY <2>1, <2>2, VoterAdded
  <2>4. \A x \in Voters : Heard(voters[x]) <= Heard(Tables'.voters[x])
    <3> SUFFICES ASSUME NEW x \in Voters PROVE Heard(voters[x]) <= Heard(Tables'.voters[x])
      OBVIOUS
    <3>1. Heard(voters[x]) \in Nat /\ Heard(Tables'.voters[x]) \in Nat
      BY <1>0, <2>3, HeardNat, BalancedIs
    <3>2. x = v => Heard(voters[x]) = 0 BY <1>1 DEF Heard, Speaks
    <3> QED BY <2>1, <3>1, <3>2, TablesAre
  <2>5. SameActive(Tables, Tables') BY <2>1 DEF SameActive
  <2> QED BY <2>3, <2>4, <2>5, TablesAre, HeardStep
<1>2. CASE /\ voters[v] # None /\ (isproxy => voters[v].proxy = None)
           /\ Become(Propagate([Tables EXCEPT !.voters[v] =
                                  [voters[v] EXCEPT !.is_proxy = isproxy]], v))
  <2> DEFINE row == [voters[v] EXCEPT !.is_proxy = isproxy]
             st == [Tables EXCEPT !.voters[v] = row]
             tt == Propagate(st, v)
  <2>1. FairRow(voters[v]) /\ voters[v] \in AnyVoter BY <1>0, <1>2 DEF FairRows, FairRow
  <2>2. /\ row \in AnyVoter /\ row # None /\ SameCredit(voters[v], row) /\ FairRow(row)
        /\ row.proxied_vote_weight = voters[v].proxied_vote_weight /\ row.staked = voters[v].staked
    <3>1. row \in AnyVoter BY <2>1 DEF AnyVoter
    <3>2. /\ row.staked = voters[v].staked /\ row.proxy = voters[v].proxy
          /\ row.producers = voters[v].producers
          /\ row.last_vote_weight = voters[v].last_vote_weight
          /\ row.proxied_vote_weight = voters[v].proxied_vote_weight
      BY <2>1 DEF AnyVoter
    <3> HIDE DEF row
    <3>3. row # None BY <3>1, NoRow
    <3> QED BY <1>2, <2>1, <3>1, <3>2, <3>3 DEF SameCredit, FairRow
  <2> HIDE DEF row
  <2>3. /\ st \in State /\ st.producers = producers /\ st.gstate = gstate /\ st.voters[v] = row
        /\ \A x \in Voters : x # v => st.voters[x] = voters[x]
    BY <1>0, <2>2, VoterWritten, TablesAre
  <2>4. Become(tt) BY <1>2 DEF row
  <2> HIDE DEF st
  <2>5. Linked(st)
    <3> SUFFICES ASSUME NEW x \in Voters, st.voters[x] # None
                 PROVE  /\ st.voters[x].proxy # None => st.voters[st.voters[x].proxy] # None
                        /\ \A p \in st.voters[x].producers : st.producers[p] # None
      BY DEF Linked
    <3>1. /\ voters[x] # None /\ st.voters[x].proxy = voters[x].proxy
          /\ st.voters[x].producers = voters[x].producers
      BY <1>2, <2>2, <2>3 DEF SameCredit
    <3>2. /\ voters[x].proxy # None => voters[x].proxy \in Voters /\ voters[voters[x].proxy] # None
          /\ \A p \in voters[x].producers : producers[p] # None
      BY <1>0, <3>1, VoterOf, TablesAre DEF Good
    <3> QED BY <2>2, <2>3, <3>1, <3>2
  <2>6. Balanced(st)
    <3>1. Good(st) BY <2>3, <2>5 DEF Good
    <3> QED BY <1>2, <2>2, <2>3, <3>1, TablesAre, VoterChanged
  <2>7. Balanced(tt) /\ StillHeard(st.voters, tt.voters) /\ SameRows(st, tt) /\ SameActive(st, tt)
    <3>1. ClosedIn(Voters, st.voters)
      BY <2>3, VotersFinite DEF ClosedIn, State, VoterTable, AnyVoter
    <3>2. now \in 0 .. MaxDay BY DEF VotersOK
    <3>3. Balanced(tt) /\ StillHeard(st.voters, tt.voters)
      BY <2>2, <2>3, <2>6, <3>1, <3>2, NoneNoVoter, PropagateTallied DEF Balanced
    <3>4. SameRows(st, tt) /\ SameActive(st, tt)
      <4>1. Good(st) /\ st.voters[v] # None BY <2>2, <2>3, <2>6, BalancedIs
      <4> QED BY <3>2, <4>1, PropagateKeeps
    <3> QED BY <3>3, <3>4
  <2> HIDE DEF tt
  <2>8. tt \in State BY <2>7, BalancedIs DEF Good
  <2>9. \A x \in Voters : Heard(voters[x]) <= Heard(tt.voters[x])
    <3> SUFFICES ASSUME NEW x \in Voters PROVE Heard(voters[x]) <= Heard(tt.voters[x])
      OBVIOUS
    <3>1. Heard(voters[x]) \in Nat /\ Heard(tt.voters[x]) \in Nat
      BY <1>0, <2>7, HeardNat, BalancedIs
    <3>2. Heard(st.voters[x]) = Heard(voters[x])
      BY <1>2, <2>2, <2>3 DEF Heard, Speaks, SameCredit
    <3>3. st.voters[x] # None => tt.voters[x].staked = st.voters[x].staked
      BY <2>7 DEF SameRows, SameVoter
    <3>4. Speaks(st.voters[x]) => Speaks(tt.voters[x]) /\ st.voters[x] # None
      BY <2>7 DEF StillHeard, Speaks
    <3> QED BY <3>1, <3>2, <3>3, <3>4 DEF Heard
  <2>10. SameActive(Tables, tt) BY <2>3, <2>7, TablesAre DEF SameActive
  <2>11. Ready(Tables) => Activates(Tables, tt) BY <2>7, <2>9, <2>10, TablesAre, HeardStep
  <2> QED BY <2>4, <2>7, <2>8, <2>11, BecomeIs
<1> QED BY <1>1, <1>2, TablesAre DEF Regproxy

\* Rows with the same votes and the same share.
SamePay(a, b) ==
  /\ b.total_votes = a.total_votes /\ b.votepay_share = a.votepay_share
  /\ b.last_claim_time = a.last_claim_time
  /\ b.last_votepay_share_update = a.last_votepay_share_update

LEMMA SameIn ==
  ASSUME NEW a \in ProducerRow, PaidRow(a), NEW b \in ProducerRow, SamePay(a, b)
  PROVE  /\ PaidRow(b) /\ a # None /\ b # None /\ VotesIn(b) = VotesIn(a)
         /\ ShareIn(b) = ShareIn(a) /\ RateIn(b) = RateIn(a)
<1>1. a # None /\ b # None
  <2>1. a \in AnyProducer /\ b \in AnyProducer BY DEF ProducerRow, AnyProducer
  <2> QED BY <2>1, NoRow
<1>2. PaidRow(b) BY <1>1 DEF PaidRow, SamePay
<1>3. Lapsed(b) = Lapsed(a) BY DEF Lapsed, SamePay
<1>4. ShareNow(b) = ShareNow(a) BY <1>3 DEF ShareNow, SamePay
<1> QED BY <1>1, <1>2, <1>3, <1>4 DEF VotesIn, ShareIn, RateIn, SamePay

LEMMA TotalsStay ==
  ASSUME NEW g, NEW pt, NEW qt, Totals(g, pt),
         \A p \in Candidates : /\ PaidRow(qt[p]) /\ VotesIn(qt[p]) = VotesIn(pt[p])
                               /\ ShareIn(qt[p]) = ShareIn(pt[p]) /\ RateIn(qt[p]) = RateIn(pt[p])
  PROVE  Totals(g, qt)
<1>1. /\ VotesInAll(qt) = VotesInAll(pt) /\ SharesInAll(qt) = SharesInAll(pt)
      /\ RatesInAll(qt) = RatesInAll(pt)
  BY DEF VotesInAll, SharesInAll, RatesInAll
<1> QED BY <1>1 DEF Totals, PaidRows

LEMMA NewProducerIn ==
  ASSUME now \in 0 .. MaxDay
  PROVE  /\ PaidRow(NewProducer) /\ NewProducer # None /\ VotesIn(NewProducer) = 0
         /\ ShareIn(NewProducer) = 0 /\ RateIn(NewProducer) = 0
<1> DEFINE row == NewProducer
<1>1. /\ row \in ProducerRow /\ row.total_votes = 0 /\ row.votepay_share = 0
      /\ row.last_votepay_share_update = now
  BY DEF NewProducer, ProducerRow
<1> HIDE DEF row
<1>2. row # None
  <2>1. row \in AnyProducer BY <1>1 DEF ProducerRow, AnyProducer
  <2> QED BY <2>1, NoRow
<1>3. PaidRow(row) BY <1>1 DEF PaidRow
<1>4. ShareNow(row) = 0
  <2>1. now - row.last_votepay_share_update = 0 BY <1>1
  <2> QED BY <1>1, <2>1 DEF ShareNow
<1> QED BY <1>1, <1>2, <1>3, <1>4 DEF VotesIn, ShareIn, RateIn, row

LEMMA RegproducerBalanced ==
  ASSUME VotersOK, Balanced(Tables), NEW p \in Candidates, Regproducer(p) \/ Unregprod(p),
         Good(Tables')
  PROVE  Balanced(Tables') /\ (Ready(Tables) => Activates(Tables, Tables'))
<1>0. /\ producers \in ProducerTable /\ now \in 0 .. MaxDay /\ Totals(gstate, producers)
  BY VotersParts, BalancedIs, TablesAre DEF VotersOK, Tallied
<1>1. voters' = voters /\ gstate' = gstate BY DEF Regproducer, Unregprod
<1>2. ASSUME NEW q \in Candidates
      PROVE  /\ PaidRow(producers'[q]) /\ VotesIn(producers'[q]) = VotesIn(producers[q])
             /\ ShareIn(producers'[q]) = ShareIn(producers[q])
             /\ RateIn(producers'[q]) = RateIn(producers[q])
  <2>0. PaidRow(producers[q]) BY <1>0 DEF Totals, PaidRows
  <2>1. CASE q # p
    <3>1. producers'[q] = producers[q] BY <1>0, <2>1 DEF Regproducer, Unregprod, ProducerTable
    <3> QED BY <2>0, <3>1
  <2>2. CASE q = p /\ producers[p] = None
    <3>1. producers'[q] = NewProducer
      BY <1>0, <2>2 DEF Regproducer, Unregprod, ProducerTable
    <3>2. VotesIn(producers[q]) = 0 /\ ShareIn(producers[q]) = 0 /\ RateIn(producers[q]) = 0
      BY <2>2 DEF VotesIn, ShareIn, RateIn
    <3> QED BY <1>0, <3>1, <3>2, NewProducerIn
  <2>3. CASE q = p /\ producers[p] # None
    <3> DEFINE a == producers[q]   b == producers'[q]
    <3>1. a \in ProducerRow BY <2>0, <2>3 DEF PaidRow
    <3>2. PICK active \in BOOLEAN : b = [a EXCEPT !.is_active = active]
      BY <1>0, <2>3 DEF Regproducer, Unregprod, ProducerTable
    <3>3. PaidRow(a) BY <2>0
    <3> HIDE DEF a, b
    <3>4. b \in ProducerRow /\ SamePay(a, b) BY <3>1, <3>2 DEF ProducerRow, SamePay
    <3>5. /\ PaidRow(b) /\ VotesIn(b) = VotesIn(a) /\ ShareIn(b) = ShareIn(a)
          /\ RateIn(b) = RateIn(a)
      BY <3>1, <3>3, <3>4, SameIn
    <3> QED BY <3>5 DEF a, b
  <2> QED BY <2>1, <2>2, <2>3
<1>3. Totals(gstate, producers') BY <1>0, <1>2, TotalsStay
<1>4. /\ Tables'.voters = Tables.voters /\ Totals(Tables'.gstate, Tables'.producers)
      /\ \A q \in Candidates : VotesIn(Tables'.producers[q]) = VotesIn(Tables.producers[q])
  BY <1>1, <1>2, <1>3, TablesAre
<1>5. Balanced(Tables') BY <1>4, VotesStay
<1>6. \A x \in Voters : Heard(Tables.voters[x]) <= Heard(Tables'.voters[x])
  BY <1>4, BalancedIs, HeardNat
<1>7. SameActive(Tables, Tables') BY <1>1, TablesAre DEF SameActive
<1> QED BY <1>5, <1>6, <1>7, HeardStep

LEMMA VotingBalanced ==
  ASSUME VotersOK, Balanced(Tables), VotingStep
  PROVE  Balanced(Tables') /\ (Ready(Tables) => Activates(Tables, Tables'))
<1>1. {} \in Ballots BY VotingAssumption
<1>2. Good(Tables') BY VotingKeeps DEF Voted
<1> QED BY <1>1, <1>2, VoteBalanced, RegproxyBalanced, RegproducerBalanced DEF VotingStep

-----------------------------------------------------------------------------
(***************************************************************************)
(* The weight of a voter who votes is that of its stake, on some day, and  *)
(* what it holds as a proxy: propagate_weight_change comes to an end.      *)
(***************************************************************************)
Part(row) == IF row.is_proxy THEN row.proxied_vote_weight ELSE 0
Own(row) == row.last_vote_weight - Part(row)
Votes(row) == row # None /\ (row.producers # {} \/ row.proxy # None)
Fresh(row) == Votes(row) => /\ Factor[0] * row.staked <= Own(row)
                            /\ Own(row) <= Factor[now] * row.staked
FreshBut(vt, u) == \A x \in Voters : x # u => Fresh(vt[x])
Whole(vt) == \A x \in Voters : vt[x] # None => vt[x].staked \in Nat

LEMMA FactorGrows == \A d \in 0 .. MaxDay : Factor[0] \in Nat /\ Factor[d] \in Nat /\ Factor[0] <= Factor[d]
<1> DEFINE B == {d \in 0 .. MaxDay : ~ (Factor[0] <= Factor[d])}
<1>0. \A d \in 0 .. MaxDay : d \in Nat /\ 0 \in 0 .. MaxDay /\ Factor[d] \in Nat
  BY CoreAssumption, VotingAssumption
<1>1. SUFFICES ASSUME B # {} PROVE FALSE
  BY <1>0
<1>2. PICK m \in B : \A k \in B : ~ (k < m)
  <2>1. B \subseteq Nat BY <1>0
  <2> HIDE DEF B
  <2> QED BY <1>1, <2>1, LeastNat
<1>3. m # 0 BY <1>0, <1>2
<1>4. m - 1 \in 0 .. MaxDay /\ m - 1 < m BY <1>2, <1>3, CoreAssumption
<1>5. Factor[0] <= Factor[m - 1] BY <1>2, <1>4
<1>6. Factor[m - 1] <= Factor[m] /\ m > 0 BY <1>2, <1>3, VotingAssumption
<1> QED BY <1>0, <1>2, <1>4, <1>5, <1>6

LEMMA Scaled == \A a, b, s \in Nat : a <= b => a * s <= b * s /\ a * s \in Nat /\ b * s \in Nat
<1> SUFFICES ASSUME NEW a \in Nat, NEW b \in Nat, NEW s \in Nat, a <= b
             PROVE  a * s <= b * s /\ a * s \in Nat /\ b * s \in Nat
  OBVIOUS
<1>1. PICK c \in Nat : b = a + c
  <2>1. b - a \in Nat /\ b = a + (b - a) OBVIOUS
  <2> QED BY <2>1
<1>2. b * s = a * s + c * s BY <1>1
<1>3. a * s \in Nat /\ c * s \in Nat OBVIOUS
<1> QED BY <1>2, <1>3

\* A voter who is weighed today.
LEMMA WeighedFresh ==
  ASSUME now \in 0 .. MaxDay, NEW row, row.staked \in Nat, NEW n \in Int, Part(row) = n,
         row.last_vote_weight = row.staked * Factor[now] + n
  PROVE  Fresh(row)
<1> DEFINE a == Factor[0]   b == Factor[now]   s == row.staked
<1>1. a \in Nat /\ b \in Nat /\ a <= b BY FactorGrows
<1>2. a * s <= b * s /\ a * s \in Nat /\ b * s \in Nat BY <1>1, Scaled
<1>3. s * b = b * s BY <1>1
<1>4. Own(row) = b * s
  <2>1. Own(row) = (s * b + n) - n BY DEF Own
  <2>2. \A k, m \in Int : (k + m) - m = k OBVIOUS
  <2> HIDE DEF a, b, s
  <2> QED BY <1>2, <1>3, <2>1, <2>2
<1> HIDE DEF a, b, s
<1>5. a * s <= Own(row) /\ Own(row) <= b * s BY <1>2, <1>4
<1> QED BY <1>5 DEF Fresh, a, b, s

\* One call weighs the voter it is made for, and at most one other row changes:
\* that of its proxy, for which the next call is made.
LEMMA HopFresh ==
  ASSUME NEW st, Good(st), Whole(st.voters), NEW v \in Voters, st.voters[v] # None,
         now \in 0 .. MaxDay, NEW u,
         \A x \in Voters : x # v /\ x # u => Fresh(st.voters[x])
  PROVE  /\ \A x \in Voters : x # Hop([st |-> st, at |-> v]).at /\ x # u
              => Fresh(Hop([st |-> st, at |-> v]).st.voters[x])
         /\ Hop([st |-> st, at |-> v]).at \in {None, st.voters[v].proxy}
<1> DEFINE row == st.voters[v]
           w == Weight(row)
           d == w - row.last_vote_weight
           seen == [st EXCEPT !.voters[v] = Weighed(row, w)]
           hop == Hop([st |-> st, at |-> v])
<1>1. /\ row \in AnyVoter /\ w \in Int /\ d \in Int
      /\ Good(seen) /\ SameRows(st, seen) /\ seen.voters[v] = Weighed(row, w)
      /\ \A x \in Voters : x # v => seen.voters[x] = st.voters[x]
      /\ \/ d \in -1 .. 1 /\ hop = [st |-> seen, at |-> None]
         \/ /\ d \notin -1 .. 1 /\ row.proxy \in Proxies
            /\ hop = [st |-> WithProxied(seen, row.proxy, d), at |-> row.proxy]
         \/ /\ d \notin -1 .. 1 /\ row.proxy = None
            /\ hop = [st |-> CountVotes(seen, [p \in row.producers |-> d]), at |-> None]
  BY HopCases
<1>2. Fresh(Weighed(row, w))
  <2> DEFINE new == Weighed(row, w)   n == Part(row)
  <2>1. /\ new.staked = row.staked /\ new.last_vote_weight = w /\ Part(new) = n
    BY <1>1 DEF Weighed, AnyVoter, Part
  <2>2. row.staked \in Nat BY DEF Whole
  <2>3. n \in Int BY <1>1 DEF AnyVoter, Part
  <2>4. w = row.staked * Factor[now] + n BY DEF Weight, Part
  <2> HIDE DEF w, n, row, new
  <2>5. Fresh(new) BY <2>1, <2>2, <2>3, <2>4, WeighedFresh
  <2> QED BY <2>5 DEF new
<1> HIDE DEF hop, d, w, seen
<1>3. \A x \in Voters : x # u => Fresh(seen.voters[x]) BY <1>1, <1>2
<1>4. /\ \A x \in Voters : x # hop.at /\ x # u => Fresh(hop.st.voters[x])
      /\ hop.at \in {None, row.proxy}
  <2>1. CASE hop = [st |-> seen, at |-> None] BY <1>3, <2>1
  <2>2. CASE /\ row.proxy \in Proxies
             /\ hop = [st |-> WithProxied(seen, row.proxy, d), at |-> row.proxy]
    <3> DEFINE y == row.proxy
    <3>1. y \in Voters /\ y # None BY <2>2, VotersFinite, NoneNoVoter
    <3>2. seen.voters[y] # None
      <4>1. st.voters[y] # None BY <3>1 DEF Good, Linked
      <4> QED BY <1>1, <3>1, <4>1 DEF SameRows, SameVoter
    <3>3. hop.st = WithProxied(seen, y, d) /\ hop.at = y BY <2>2
    <3> HIDE DEF y
    <3>4. \A x \in Voters : x # y => hop.st.voters[x] = seen.voters[x]
      BY <1>1, <3>1, <3>2, <3>3, WithProxiedKeeps
    <3> QED BY <1>3, <3>3, <3>4 DEF y
  <2>3. CASE hop = [st |-> CountVotes(seen, [p \in row.producers |-> d]), at |-> None]
    <3>1. hop.st.voters = seen.voters BY <1>1, <2>3, CountHeard DEF Good
    <3> QED BY <1>3, <2>3, <3>1
  <2> QED BY <1>1, <2>1, <2>2, <2>3
<1> QED BY <1>4 DEF hop

\* Each proxy leads to fewer voters than those it speaks for.
LEMMA LeadsShrink ==
  ASSUME NEW vt \in VoterTable, NoLoop(vt), NEW x \in Voters, vt[x] # None, vt[x].proxy # None
  PROVE  /\ IsFiniteSet(Leads(vt, x)) /\ Cardinality(Leads(vt, x)) \in Nat
         /\ Cardinality(Leads(vt, vt[x].proxy)) \in Nat
         /\ Cardinality(Leads(vt, vt[x].proxy)) + 1 <= Cardinality(Leads(vt, x))
<1> DEFINE y == vt[x].proxy   L == Leads(vt, x)   M == Leads(vt, y)
<1>1. y \in Voters BY VotersFinite DEF VoterTable, AnyVoter
<1>2. ClosedIn(L, vt) /\ x \in L BY LeadsAre
<1>3. y \in L BY <1>1, <1>2, NoneNoVoter DEF ClosedIn
<1>4. M \subseteq L BY <1>1, <1>2, <1>3, LeadsAre
<1>5. x \notin M
  <2>1. PICK S : ClosedIn(S, vt) /\ y \in S /\ x \notin S BY OwnProxyAvoids DEF Avoids
  <2> QED BY <1>1, <2>1, LeadsAre
<1>6. IsFiniteSet(L) BY VotersFinite, FS_Subset DEF Leads
<1> HIDE DEF L, M
<1>7. IsFiniteSet(M) BY <1>4, <1>6, FS_Subset
<1>8. IsFiniteSet(M \cup {x}) /\ Cardinality(M \cup {x}) = Cardinality(M) + 1
  BY <1>5, <1>7, FS_AddElement
<1>9. Cardinality(M \cup {x}) <= Cardinality(L) BY <1>2, <1>4, <1>6, FS_Subset
<1>10. Cardinality(L) \in Nat /\ Cardinality(M) \in Nat BY <1>6, <1>7, FS_CardinalityType
<1> QED BY <1>6, <1>8, <1>9, <1>10 DEF L, M

\* As RunsKeep, of what holds by the number of calls.
LEMMA RunsCount ==
  ASSUME NEW Q, NEW c \in Q[0], \A m \in Nat : \A d \in Q[m] : HopOn(d) \in Q[m + 1],
         NEW n \in Nat, NEW f, Runs(f, n, c)
  PROVE  f[n] \in Q[n]
<1> DEFINE B == {m \in 0 .. n : f[m] \notin Q[m]}
<1>0. n \in 0 .. n OBVIOUS
<1> SUFFICES ASSUME B # {} PROVE FALSE
  BY <1>0
<1>1. PICK m \in B : \A k \in B : ~ (k < m)
  <2>1. B \subseteq Nat OBVIOUS
  <2> HIDE DEF B
  <2> QED BY <2>1, LeastNat
<1>2. f[m] = IF m = 0 THEN c ELSE HopOn(f[m - 1]) BY <1>1 DEF Runs
<1>3. CASE m = 0 BY <1>1, <1>2, <1>3
<1>4. CASE m # 0
  <2>1. m - 1 \in 0 .. n /\ m - 1 < m /\ m - 1 \in Nat /\ (m - 1) + 1 = m BY <1>1, <1>4
  <2>2. f[m - 1] \in Q[m - 1] BY <1>1, <2>1
  <2>3. HopOn(f[m - 1]) \in Q[(m - 1) + 1] BY <2>1, <2>2
  <2> QED BY <1>1, <1>2, <1>4, <2>1, <2>3
<1> QED BY <1>3, <1>4

\* After all calls, every voter but u is fresh: no call is left to make.
LEMMA PropagateFresh ==
  ASSUME NEW st, Good(st), Whole(st.voters), NoLoop(st.voters), NEW v \in Voters,
         st.voters[v] # None, now \in 0 .. MaxDay, NEW u,
         \A x \in Voters : x # v /\ x # u => Fresh(st.voters[x])
  PROVE  FreshBut(Propagate(st, v).voters, u)
<1> DEFINE n == Cardinality(Voters)
           len(x) == Cardinality(Leads(st.voters, x))
           P(m) == {c \in CallsFrom(st) :
                      /\ \A x \in Voters : x # c.at /\ x # u => Fresh(c.st.voters[x])
                      /\ c.at # None => m + len(c.at) <= n}
           Q == [m \in Nat |-> P(m)]
           c0 == [st |-> st, at |-> v]
           f == CHOOSE f : Runs(f, n, c0)
<1>0. st.voters \in VoterTable BY DEF Good, State
<1>1. n \in Nat /\ \A x \in Voters : len(x) \in Nat /\ 1 <= len(x) /\ len(x) <= n
  <2>1. n \in Nat BY VotersFinite
  <2> SUFFICES ASSUME NEW x \in Voters PROVE len(x) \in Nat /\ 1 <= len(x) /\ len(x) <= n
    BY <2>1
  <2> DEFINE L == Leads(st.voters, x)
  <2>2. x \in L BY <1>0, LeadsAre
  <2>3. L \subseteq Voters /\ IsFiniteSet(L) BY VotersFinite, FS_Subset DEF Leads
  <2>4. Cardinality(L) \in Nat /\ Cardinality(L) <= n BY <2>3, VotersFinite, FS_CardinalityType, FS_Subset
  <2> HIDE DEF L
  <2>5. Cardinality(L) # 0 BY <2>2, <2>3, FS_EmptySet
  <2>6. 1 <= Cardinality(L) BY <2>4, <2>5
  <2> QED BY <2>4, <2>6 DEF L
<1>2. c0 \in Q[0]
  <2>1. c0 \in CallsFrom(st) BY SameRowsRefl DEF CallsFrom, Good, SameActive
  <2>2. 0 + len(v) <= n BY <1>1
  <2> HIDE DEF len, n
  <2> QED BY <2>1, <2>2
<1>3. ASSUME NEW m \in Nat, NEW c \in Q[m] PROVE HopOn(c) \in Q[m + 1]
  <2>0. c \in P(m) /\ Q[m + 1] = P(m + 1) OBVIOUS
  <2>1. CASE c.at = None BY <2>0, <2>1 DEF HopOn
  <2>2. CASE c.at # None
    <3> DEFINE cs == c.st   a == c.at   hop == Hop(c)
    <3>1. /\ a \in Voters /\ Good(cs) /\ cs.voters[a] # None /\ SameRows(st, cs)
          /\ c = [st |-> cs, at |-> a] /\ HopOn(c) = hop /\ c \in CallsFrom(st)
          /\ \A x \in Voters : x # a /\ x # u => Fresh(cs.voters[x])
          /\ m + len(a) <= n
      <4> HIDE DEF len, n
      <4> QED BY <2>0, <2>2 DEF CallsFrom, Good, HopOn
    <3>2. hop = Hop([st |-> cs, at |-> a]) BY <3>1
    <3>3. hop \in CallsFrom(st) BY <3>1, HopKeeps
    <3>4. Whole(cs.voters) BY <3>1 DEF Whole, SameRows, SameVoter
    <3>5. st.voters[a] # None /\ cs.voters[a].proxy = st.voters[a].proxy
      BY <3>1 DEF SameRows, SameVoter
    <3> HIDE DEF cs, a, hop, Q, len, n
    <3>6. /\ \A x \in Voters : x # hop.at /\ x # u => Fresh(hop.st.voters[x])
          /\ hop.at \in {None, st.voters[a].proxy}
      BY <3>1, <3>2, <3>4, <3>5, HopFresh
    <3>7. hop.at # None => (m + 1) + len(hop.at) <= n
      <4> SUFFICES ASSUME hop.at # None PROVE (m + 1) + len(hop.at) <= n
        OBVIOUS
      <4>1. hop.at = st.voters[a].proxy BY <3>6
      <4>2. len(hop.at) \in Nat /\ len(a) \in Nat /\ len(hop.at) + 1 <= len(a)
        BY <1>0, <3>1, <3>5, <4>1, LeadsShrink DEF len
      <4> QED BY <1>1, <3>1, <4>2
    <3>8. hop \in P(m + 1) BY <3>3, <3>6, <3>7
    <3> QED BY <2>0, <3>1, <3>8
  <2> QED BY <2>1, <2>2
<1>4. Runs(f, n, c0)
  <2> HIDE DEF n, c0
  <2> QED BY <1>1, RunsExist
<1>5. Propagate(st, v) = f[n].st BY DEF Propagate, Runs, HopOn
<1>6. f[n] \in Q[n]
  <2> HIDE DEF n, c0, f, Q
  <2> QED BY <1>1, <1>2, <1>3, <1>4, RunsCount
<1>7. f[n] \in P(n) BY <1>1, <1>6
<1> HIDE DEF f, n, len
<1>8. f[n].at = None
  <2> SUFFICES ASSUME f[n].at # None PROVE FALSE
    OBVIOUS
  <2>1. f[n].at \in Voters /\ n + len(f[n].at) <= n BY <1>7 DEF CallsFrom
  <2> QED BY <1>1, <2>1
<1> QED BY <1>5, <1>7, <1>8, NoneNoVoter DEF FreshBut

\* No loop appears where all keep their proxies.
LEMMA SameRowsNoLoop ==
  ASSUME NEW st, NEW tt, SameRows(st, tt), NoLoop(st.voters)
  PROVE  NoLoop(tt.voters)
<1>1. Led(tt.voters) = Led(st.voters) BY DEF SameRows, SameVoter, Led
<1>2. \A x \in Led(st.voters) : tt.voters[x].proxy = st.voters[x].proxy
  BY DEF SameRows, SameVoter, Led
<1> QED BY <1>1, <1>2 DEF NoLoop

LEMMA PassFresh ==
  ASSUME NEW st, Good(st), Whole(st.voters), NoLoop(st.voters), NEW x \in Voters,
         st.voters[x] # None, NEW d \in Int, now \in 0 .. MaxDay, NEW u, FreshBut(st.voters, u)
  PROVE  FreshBut(Propagate(WithProxied(st, x, d), x).voters, u)
<1> DEFINE tt == WithProxied(st, x, d)
<1>1. /\ Good(tt) /\ SameRows(st, tt)
      /\ \A y \in Voters : y # x => tt.voters[y] = st.voters[y]
  BY WithProxiedKeeps
<1> HIDE DEF tt
<1>2. tt.voters[x] # None /\ Whole(tt.voters) BY <1>1 DEF SameRows, SameVoter, Whole
<1>3. NoLoop(tt.voters) BY <1>1, SameRowsNoLoop
<1>4. \A y \in Voters : y # x /\ y # u => Fresh(tt.voters[y]) BY <1>1 DEF FreshBut
<1>5. FreshBut(Propagate(tt, x).voters, u) BY <1>1, <1>2, <1>3, <1>4, PropagateFresh
<1> QED BY <1>5 DEF tt

\* A voter that moves is weighed itself, and its votes are taken and passed on to
\* the end of the chains.
LEMMA UpdateVotesFresh ==
  ASSUME NEW st, Good(st), Whole(st.voters), ProxyRule(st.voters), NoLoop(st.voters),
         NEW v \in Voters, st.voters[v] # None, now \in 0 .. MaxDay,
         NEW proxy \in Proxies \cup {None}, proxy # None => st.voters[proxy] # None,
         NEW chosen \in SUBSET Candidates, \A p \in chosen : st.producers[p] # None,
         proxy # None => ~ st.voters[v].is_proxy,
         FreshBut(st.voters, v)
  PROVE  FreshBut(UpdateVotes(st, v, proxy, chosen).voters, None)
<1> DEFINE row == st.voters[v]   new == Weight(row)
           s1 == First(st, v)   s2 == TakenBack(s1, v)   s3 == Passed(s2, proxy, new)
           m == Moved(st, v, proxy, chosen)   e == Chooses(m.voters[v], new, proxy, chosen)
           tt == UpdateVotes(st, v, proxy, chosen)
<1>1. /\ Good(s1) /\ s1.voters = st.voters /\ s1.producers = st.producers /\ SameRows(st, s1)
      /\ st \in State
  BY FirstKeeps DEF Good
<1>2. new \in Int /\ row \in AnyVoter BY VoterOf, WeightInt
<1>3. row.is_proxy => row.proxy = None /\ proxy = None BY DEF ProxyRule
<1>4. /\ Keeps(s1, s2) /\ FreshBut(s2.voters, v) /\ (row.is_proxy => s2.voters = st.voters)
  <2>1. CASE row.last_vote_weight > 0 /\ row.proxy # None
    <3> DEFINE x == row.proxy   d == -row.last_vote_weight
    <3>1. s2 = Propagate(WithProxied(s1, x, d), x) BY <1>1, <2>1 DEF TakenBack
    <3>2. x \in Voters /\ s1.voters[x] # None /\ d \in Int BY <1>1, <2>1, VoterOf
    <3>3. ~ row.is_proxy BY <1>3, <2>1
    <3> HIDE DEF x, d, s2, s1, row
    <3>4. Keeps(s1, s2) BY <1>1, <3>1, <3>2, PassKeeps
    <3>5. FreshBut(s2.voters, v) BY <1>1, <3>1, <3>2, PassFresh
    <3> QED BY <3>3, <3>4, <3>5
  <2>2. CASE ~(row.last_vote_weight > 0 /\ row.proxy # None)
    <3>1. s2 = s1 BY <1>1, <2>2 DEF TakenBack
    <3> HIDE DEF s2, s1, row
    <3> QED BY <1>1, <3>1, SameRowsRefl DEF Keeps, SameActive
  <2> QED BY <2>1, <2>2
<1> HIDE DEF s2
<1>5. SameRows(st, s2) /\ Good(s2)
  <2> HIDE DEF s1
  <2> QED BY <1>1, <1>4, SameRowsTrans DEF Keeps
<1>6. Keeps(s2, s3) /\ FreshBut(s3.voters, v) /\ (row.is_proxy => s3.voters = st.voters)
  <2>1. CASE proxy # None
    <3>1. s3 = Propagate(WithProxied(s2, proxy, new), proxy) BY <2>1 DEF Passed
    <3>2. proxy \in Voters BY <2>1, VotersFinite
    <3>3. s2.voters[proxy] # None BY <1>5, <2>1, <3>2 DEF SameRows, SameVoter
    <3>4. Whole(s2.voters) BY <1>5 DEF SameRows, SameVoter, Whole
    <3>5. NoLoop(s2.voters) BY <1>5, SameRowsNoLoop
    <3>6. ~ row.is_proxy BY <1>3, <2>1
    <3> HIDE DEF new, s3, row
    <3>7. Keeps(s2, s3) BY <1>2, <1>5, <3>1, <3>2, <3>3, PassKeeps
    <3>8. FreshBut(s3.voters, v) BY <1>2, <1>4, <1>5, <3>1, <3>2, <3>3, <3>4, <3>5, PassFresh
    <3> QED BY <3>6, <3>7, <3>8
  <2>2. CASE proxy = None
    <3>1. s3 = s2 BY <2>2 DEF Passed
    <3> HIDE DEF s3, row
    <3> QED BY <1>4, <1>5, <3>1, SameRowsRefl DEF Keeps, SameActive
  <2> QED BY <2>1, <2>2
<1>7. m.voters = s3.voters
  <2>1. m = CountVotes(s3, ChangeOf(row, new, chosen)) BY DEF Moved, s2
  <2> HIDE DEF s3, m, new, row
  <2> QED BY <1>6, <2>1, CountHeard DEF Keeps, Good
<1>8. /\ m \in State /\ m.voters[v] \in AnyVoter /\ SameVoter(row, m.voters[v])
  <2>1. Keeps(s1, m) BY MovedKeeps
  <2> HIDE DEF s1, m
  <2>2. m \in State /\ SameRows(st, m) BY <1>1, <2>1, SameRowsTrans DEF Keeps, Good
  <2> QED BY <2>2 DEF SameRows, SameVoter, State, VoterTable
<1>9. /\ e \in AnyVoter /\ e.staked = row.staked /\ e.is_proxy = row.is_proxy
      /\ e.last_vote_weight = new /\ e.proxied_vote_weight = m.voters[v].proxied_vote_weight
  <2>1. /\ e \in AnyVoter /\ e.staked = m.voters[v].staked /\ e.is_proxy = m.voters[v].is_proxy
        /\ e.last_vote_weight = new /\ e.proxied_vote_weight = m.voters[v].proxied_vote_weight
    <3> HIDE DEF m, new
    <3> QED BY <1>2, <1>8 DEF Chooses, AnyVoter
  <2> HIDE DEF e, m, new
  <2> QED BY <1>8, <2>1 DEF SameVoter
<1>10. /\ tt.voters[v] = e /\ \A x \in Voters : x # v => tt.voters[x] = m.voters[x]
  <2>1. tt = [m EXCEPT !.voters[v] = e] BY <1>1, UpdateVotesIs
  <2> HIDE DEF tt, m, e
  <2> QED BY <1>8, <1>9, <2>1, VoterWritten
<1>11. Fresh(e)
  <2> DEFINE n == Part(row)
  <2>1. Part(e) = n
    <3> HIDE DEF e, m, s3
    <3> QED BY <1>6, <1>7, <1>9 DEF Part
  <2>2. new = row.staked * Factor[now] + n BY DEF Weight, Part
  <2>3. row.staked \in Nat BY DEF Whole
  <2>4. n \in Int BY <1>2 DEF AnyVoter, Part
  <2> HIDE DEF e, n, new, row
  <2> QED BY <1>9, <2>1, <2>2, <2>3, <2>4, WeighedFresh
<1> HIDE DEF e, m, s3, tt
<1>12. FreshBut(tt.voters, None) BY <1>6, <1>7, <1>10, <1>11 DEF FreshBut
<1> QED BY <1>12 DEF tt

LEMMA VoteFresh ==
  ASSUME VotersOK, Balanced(Tables), FreshBut(voters, None), NEW v \in Voters,
         NEW proxy \in Proxies \cup {None}, NEW chosen \in Ballots, Voteproducer(v, proxy, chosen)
  PROVE  FreshBut(voters', None)
<1> DEFINE tt == UpdateVotes(Tables, v, proxy, chosen)
<1>1. /\ voters[v] # None
      /\ proxy # None => ~ voters[v].is_proxy /\ voters[proxy] # None
      /\ \A p \in chosen : producers[p] # None
      /\ Become(tt)
  BY DEF Voteproducer, CanVote
<1>2. chosen \in SUBSET Candidates BY VotingAssumption
<1>3. /\ ProxyRule(voters) /\ NoLoop(voters) /\ now \in 0 .. MaxDay /\ Good(Tables)
  BY DEF VotersOK
<1>4. Whole(voters) BY BalancedIs, TablesAre DEF Whole, FairRows, FairRow
<1>5. FreshBut(voters, v) BY NoneNoVoter DEF FreshBut
<1>6. FreshBut(tt.voters, None)
  <2>1. /\ Tables.voters[v] # None /\ (proxy # None => Tables.voters[proxy] # None)
        /\ \A p \in chosen : Tables.producers[p] # None
        /\ Whole(Tables.voters) /\ ProxyRule(Tables.voters) /\ NoLoop(Tables.voters)
        /\ proxy # None => ~ Tables.voters[v].is_proxy
        /\ FreshBut(Tables.voters, v)
    BY <1>1, <1>3, <1>4, <1>5, TablesAre
  <2> QED BY <1>2, <1>3, <2>1, UpdateVotesFresh
<1>7. voters' = tt.voters BY <1>1 DEF Become
<1> QED BY <1>6, <1>7

LEMMA RegproxyFresh ==
  ASSUME VotersOK, Balanced(Tables), FreshBut(voters, None), NEW v \in Voters,
         NEW isproxy \in BOOLEAN, Regproxy(v, isproxy)
  PROVE  FreshBut(voters', None)
<1>0. /\ Tables \in State /\ Linked(Tables) /\ voters \in VoterTable /\ NoLoop(voters)
      /\ now \in 0 .. MaxDay
  BY VotersParts DEF VotersOK, Good
<1>1. CASE voters[v] = None /\ voters' = [voters EXCEPT ![v] = NewVoter(0, isproxy)]
  <2> DEFINE new == NewVoter(0, isproxy)
  <2>1. ~ Votes(new) BY DEF Votes, NewVoter
  <2>2. voters'[v] = new /\ \A x \in Voters : x # v => voters'[x] = voters[x]
    BY <1>0, <1>1 DEF VoterTable
  <2> HIDE DEF new
  <2> QED BY <2>1, <2>2 DEF FreshBut, Fresh
<1>2. CASE /\ voters[v] # None
           /\ Become(Propagate([Tables EXCEPT !.voters[v] =
                                  [voters[v] EXCEPT !.is_proxy = isproxy]], v))
  <2> DEFINE row == [voters[v] EXCEPT !.is_proxy = isproxy]
             st == [Tables EXCEPT !.voters[v] = row]
             tt == Propagate(st, v)
  <2>1. voters[v] \in AnyVoter /\ Whole(voters)
    BY <1>0, <1>2, BalancedIs, TablesAre DEF VoterTable, Whole, FairRows, FairRow
  <2>2. /\ row \in AnyVoter /\ row.staked = voters[v].staked /\ row.proxy = voters[v].proxy
        /\ row.producers = voters[v].producers
    BY <2>1 DEF AnyVoter
  <2> HIDE DEF row
  <2>3. /\ st \in State /\ st.producers = producers /\ st.voters[v] = row /\ row # None
        /\ \A x \in Voters : x # v => st.voters[x] = voters[x]
    BY <1>0, <2>2, VoterWritten, TablesAre, NoRow
  <2>4. voters' = tt.voters BY <1>2 DEF row, Become
  <2> HIDE DEF st
  <2>5. \A x \in Voters : /\ st.voters[x] = None <=> voters[x] = None
                          /\ voters[x] # None => /\ st.voters[x].proxy = voters[x].proxy
                                                 /\ st.voters[x].producers = voters[x].producers
                                                 /\ st.voters[x].staked = voters[x].staked
    BY <1>2, <2>2, <2>3
  <2>6. Good(st)
    <3> SUFFICES ASSUME NEW x \in Voters, st.voters[x] # None
                 PROVE  /\ st.voters[x].proxy # None => st.voters[st.voters[x].proxy] # None
                        /\ \A p \in st.voters[x].producers : st.producers[p] # None
      BY <2>3 DEF Good, Linked
    <3>1. /\ voters[x].proxy # None => voters[x].proxy \in Voters /\ voters[voters[x].proxy] # None
          /\ \A p \in voters[x].producers : producers[p] # None
      BY <1>0, <2>5, VoterOf, TablesAre DEF Good
    <3> QED BY <2>3, <2>5, <3>1
  <2>7. Whole(st.voters) BY <2>1, <2>5 DEF Whole
  <2>8. NoLoop(st.voters)
    <3>1. Led(st.voters) = Led(voters) /\ \A x \in Led(voters) : st.voters[x].proxy = voters[x].proxy
      BY <2>5 DEF Led
    <3> QED BY <1>0, <3>1 DEF NoLoop
  <2>9. \A x \in Voters : x # v /\ x # None => Fresh(st.voters[x]) BY <2>3 DEF FreshBut
  <2>10. FreshBut(tt.voters, None) BY <1>0, <2>3, <2>6, <2>7, <2>8, <2>9, PropagateFresh
  <2> QED BY <2>4, <2>10
<1> QED BY <1>1, <1>2 DEF Regproxy

LEMMA VotingFresh ==
  ASSUME VotersOK, Balanced(Tables), FreshBut(voters, None), VotingStep
  PROVE  FreshBut(voters', None)
<1>1. {} \in Ballots BY VotingAssumption
<1>2. ASSUME NEW p \in Candidates, Regproducer(p) \/ Unregprod(p) PROVE FreshBut(voters', None)
  <2>1. voters' = voters BY <1>2 DEF Regproducer, Unregprod
  <2> QED BY <2>1
<1> QED BY <1>1, <1>2, VoteFresh, RegproxyFresh DEF VotingStep
=============================================================================
