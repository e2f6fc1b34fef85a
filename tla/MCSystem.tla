------------------------------ MODULE MCSystem ------------------------------
(***************************************************************************)
(* Small instances of SystemContract.  Each run gives the parts that it is *)
(* not about empty sets of inputs: in the runs of resources and names one  *)
(* vote for nobody activates the chain.  Days stand for days, minutes of a *)
(* day are one, and bytes, tokens and weights are small.                   *)
(***************************************************************************)
EXTENDS SystemContract, TLC

CONSTANTS u1, u2, u3, u4

ProxySymmetry == Permutations(Proxies)

Empty == [x \in {} |-> x]
\* Amounts of net and cpu
Q(net, cpu) == [k \in Kinds |-> IF k = "net" THEN net ELSE cpu]
One == {Q(1, 0)}
Both == {Q(1, 0), Q(0, 1)}
All == {Q(100, 0)}
OnePair == {Q(1, 1)}

Genesis1 == [u \in Users |-> 1]
FirstHas(n, m) == [u \in Users |-> IF u = u1 THEN n ELSE m]
Genesis40 == FirstHas(4, 0)
Genesis100 == FirstHas(100, 0)
Genesis32 == [u \in Users |-> IF u = u1 THEN 3 ELSE IF u = u2 THEN 2 ELSE 1]
Genesis71 == FirstHas(7, 1)

\* The weight of a token doubles on the second day.
Doubling == [d \in 0 .. MaxDay |-> IF d = 0 THEN 2 ELSE 4]
Constant == [d \in 0 .. MaxDay |-> 2]

BallotsNone == {{}}
BallotsOne == {{}, {u4}}
BallotsPay == {{}, {u2}, {u2, u3}}
SuffixA == [n \in Subnames |-> "a"]
=============================================================================
