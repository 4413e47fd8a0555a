----------------------------- MODULE ShareBags -----------------------------
(***************************************************************************)
(* The share aggregators of src/blockchain: NSharesBagBanyan (notarization *)
(* shares with the fast-path counter), NSharesBag (ICC's notarization      *)
(* shares) and FSharesBag (finalization shares).  A bag is a value; Add is split into the new bag and the       *)
(* flags Add returns, computed from the bag after insertion.               *)
(*                                                                         *)
(* votes maps block id -> voter -> share in the code; only len() of the    *)
(* inner map is ever read, so it is kept as the set of <<block, voter>>    *)
(* pairs (a second share of a voter for a block overwrites the first, as   *)
(* the map assignment does).                                               *)
(***************************************************************************)
EXTENDS Integers, FiniteSets

CONSTANTS N, F, P

\* The distinct voters a bag holds for block id.
Voters(votes, id) == {pair[2] : pair \in {q \in votes : q[1] = id}}

\* NewNSharesBagBanyan: no votes, every per-height fast counter at 0.
NBagInit(Heights) == [votes |-> {}, fast |-> [h \in Heights |-> 0]]

\* NSharesBagBanyan.Add, the insertion: the voter is recorded for the
\* block, and a rank -1 share bumps the fast counter of its height.  The
\* counter counts insertions, not distinct voters.
NBagAdd(bag, ns) ==
    [votes |-> bag.votes \cup {<<ns.block, ns.voter>>},
     fast  |-> IF ns.rank = -1
                 THEN [bag.fast EXCEPT ![ns.height] = @ + 1]
                 ELSE bag.fast]

\* First result of NSharesBagBanyan.Add, on the bag after insertion.
NBagNotarized(bag, ns) == Cardinality(Voters(bag.votes, ns.block)) * 2 > N + F

\* Fault-injected fast-path test: one rank -1 share short of n - p.
NBagFastFinalizedOneShort(bag, ns) ==
    ns.rank = -1 /\ bag.fast[ns.height] >= N - P - 1

\* Second result of NSharesBagBanyan.Add, on the bag after insertion.
NBagFastFinalized(bag, ns) ==
    ns.rank = -1 /\ bag.fast[ns.height] >= N - P

\* NSharesBag.Add, the insertion (ICC's notarization shares): the voter
\* is recorded for the block.
NSharesBagAdd(bag, ns) == bag \cup {<<ns.block, ns.voter>>}

\* NSharesBag.superMajority, the result of Add on the bag after insertion.
NSharesBagBuilt(bag, id) == Cardinality(Voters(bag, id)) > (N * 2) \div 3

\* FSharesBag.Add, the insertion.
FBagAdd(bag, fs) == bag \cup {<<fs.block, fs.voter>>}

\* Fault-injected quorum test: at least, instead of more than, 2n/3.
FBagBuiltOneShort(bag, id) == Cardinality(Voters(bag, id)) >= (N * 2) \div 3

\* FSharesBag.superMajority (integer division as in q.total*2/3).
FBagBuilt(bag, id) == Cardinality(Voters(bag, id)) > (N * 2) \div 3

=============================================================================
