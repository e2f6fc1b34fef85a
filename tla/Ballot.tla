------------------------------- MODULE Ballot -------------------------------
(***************************************************************************)
(* What a referendum promises, without proposals' scopes, deferred calls,  *)
(* deadlines or token contracts: at most one motion per CDP type is voted  *)
(* on at a time; a vote stakes the voter's IQ; the motion ends in a strict *)
(* majority, takes effect only if that majority is in favour, and gives    *)
(* every voter back exactly the IQ staked on it.                           *)
(***************************************************************************)
EXTENDS Integers

CONSTANTS Voters, Types, None, Flip, Motions, Laws, Stakes

VARIABLES
  law,    \* the parameters in force for each type and whether it is live
  ballot, \* the motion being voted on for each type, with its votes
  free,   \* IQ a voter is free to use
  stake   \* IQ a voter has staked on the motion for a type

ballotVars == <<law, ballot, free, stake>>

BallotInit ==
  /\ law \in [Types -> Laws \cup {None}]
  /\ ballot = [t \in Types |-> None]
  /\ free \in [Voters -> Nat]
  /\ stake = [t \in Types |-> [v \in Voters |-> 0]]

Move(t, m) ==
  /\ ballot[t] = None
  /\ m = Flip => law[t] # None
  /\ ballot' = [ballot EXCEPT ![t] = [motion |-> m, yay |-> 0, nay |-> 0]]
  /\ UNCHANGED <<law, free, stake>>

Counted(b, against, q) ==
  IF against THEN [b EXCEPT !.nay = @ + q] ELSE [b EXCEPT !.yay = @ + q]

Cast(t, v, against, q) ==
  /\ ballot[t] # None
  /\ q <= free[v]
  /\ free' = [free EXCEPT ![v] = @ - q]
  /\ stake' = [stake EXCEPT ![t][v] = @ + q]
  /\ ballot' = [ballot EXCEPT ![t] = Counted(@, against, q)]
  /\ UNCHANGED law

\* The effect of a motion that has won.
Effect(l, m) == IF m = Flip THEN [l EXCEPT !.live = ~@] ELSE [live |-> TRUE, par |-> m]

Close(t) ==
  /\ ballot[t] # None /\ ballot[t].yay # ballot[t].nay
  /\ law' = IF ballot[t].yay > ballot[t].nay
            THEN [law EXCEPT ![t] = Effect(@, ballot[t].motion)] ELSE law
  /\ free' = [v \in Voters |-> free[v] + stake[t][v]]
  /\ stake' = [stake EXCEPT ![t] = [v \in Voters |-> 0]]
  /\ ballot' = [ballot EXCEPT ![t] = None]

BallotNext ==
  \/ \E t \in Types, m \in Motions \cup {Flip} : Move(t, m)
  \/ \E t \in Types, v \in Voters, against \in BOOLEAN, q \in Stakes :
       Cast(t, v, against, q)
  \/ \E t \in Types : Close(t)

BallotSpec == BallotInit /\ [][BallotNext]_ballotVars
=============================================================================
