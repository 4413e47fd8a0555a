------------------------------- MODULE Banyan -------------------------------
(***************************************************************************)
(* The Banyan safety engine (src/protocol/banyan.go) of one replica: its  *)
(* handlers as operators from a replica state record s to the next one.   *)
(* The record holds the Banyan struct, its block store (bc) and bags, and *)
(* the fields of its LocalTimeout (curHeight, newHeightChan).  The        *)
(* handlers call each other (ProcessBlock -> ProcessNotarizationShare ->  *)
(* ProcessFinalizationShare -> TryToShip), and each runs to completion;   *)
(* what a handler broadcasts collects in the field out.  BanyanSystem     *)
(* runs N of them behind the replica driver and the network of            *)
(* ReplicaNet.                                                             *)
(*                                                                         *)
(* A block's id is the block record itself: the id hashes height, rank,   *)
(* proposer, parent and a random payload, and an honest leader proposes   *)
(* once per (height, rank): its payload is written 0, and only the rival  *)
(* blocks of an equivocating leader (ReplicaNet) differ in it.            *)
(***************************************************************************)
EXTENDS Integers, Sequences, FiniteSets, ShareBags, Rotation, LocalTimeout,
        Shipping, Messages

CONSTANTS
    Genesis,     \* crypto.MakeID("genesis")
    None         \* the zero crypto.Identifier of an absent map entry

-----------------------------------------------------------------------------
(* Replica state *)

InitReplica ==
    [bc            |-> {},
     nBag          |-> NBagInit(Heights),
     fBag          |-> {},
     headHeight    |-> 0,
     headId        |-> Genesis,
     sentNRank     |-> [h \in Heights |-> 0],
     sentNSharesNo |-> [h \in Heights |-> 0],
     sentNShareId  |-> [h \in Heights |-> None],
     sentFShare    |-> {},
     isNotarized   |-> {},
     isFinalized   |-> {},
     lastShipped   |-> Genesis,
     shipQueue     |-> {},
     committed     |-> <<>>,
     echoed        |-> {},
     curHeight     |-> 1,
     newHeightChan |-> <<>>,
     out           |-> <<>>]

\* Banyan.ProcessFinalizationShare.  Signatures of honest replicas always
\* verify, so the verification branch never drops a share here.
ProcessFinalizationShare(s, fs) ==
    IF fs.block \in s.isFinalized THEN s
    ELSE LET s1 == [s EXCEPT !.fBag = FBagAdd(@, fs)]
         IN  IF FBagBuilt(s1.fBag, fs.block)
               THEN TryToShip([s1 EXCEPT !.isFinalized = @ \cup {fs.block}],
                              fs.block)
               ELSE s1

\* The finalization-share decision shared by ProcessBlock and
\* ProcessNotarizationShare: only if the one notarization share sent at
\* height h was for id, and no finalization share was sent at h yet.
MaybeSendFShare(s, self, h, rk, id) ==
    IF /\ h \notin s.sentFShare
       /\ s.sentNSharesNo[h] = 1
       /\ s.sentNShareId[h] = id
      THEN LET fs == FShare(h, rk, self, id)
           IN  ProcessFinalizationShare(
                   [s EXCEPT !.sentFShare = @ \cup {h}, !.out = Append(@, fs)], fs)
      ELSE s

\* The notarization branch of ProcessNotarizationShare: record it, move
\* the head up and open the next height, then try to finalize.
OnNotarized(s, self, ns) ==
    LET s1 == [s EXCEPT !.isNotarized = @ \cup {ns.block}]
        s2 == IF s1.headHeight < ns.height
                THEN HeightIncreased([s1 EXCEPT !.headHeight = ns.height,
                                                !.headId     = ns.block],
                                     ns.height + 1)
                ELSE s1
    IN  MaybeSendFShare(s2, self, ns.height, ns.rank, ns.block)

\* Banyan.ProcessNotarizationShare
ProcessNotarizationShare(s, self, ns) ==
    IF \/ ns.block \in s.isFinalized
       \/ ns.block \in s.isNotarized /\ ns.rank # -1
      THEN s
      ELSE LET bag == NBagAdd(s.nBag, ns)
               s1  == [s EXCEPT !.nBag = bag]
               s2  == IF ns.block \notin s.isNotarized /\ NBagNotarized(bag, ns)
                        THEN OnNotarized(s1, self, ns)
                        ELSE s1
           IN  IF NBagFastFinalized(bag, ns)
                 THEN TryToShip([s2 EXCEPT !.isFinalized = @ \cup {ns.block}],
                                ns.block)
                 ELSE s2

\* Fault-injected vote decision: a replica votes for any block above its
\* head, whatever it already voted for at that height.
ShouldVoteAnyRank(s, b) == s.headHeight < b.height

\* The notarization-share decision of ProcessBlock.
ShouldVote(s, b) ==
    /\ s.headHeight < b.height
    /\ \/ s.sentNSharesNo[b.height] = 0
       \/ s.sentNRank[b.height] > b.rank

\* Fault-injected Vote: sentNRank records the share's rank (-1 on a fast
\* vote) instead of the block's rank.
VoteRecordsShareRank(s, self, b) ==
    LET h  == b.height
        ns == NShare(h, IF b.rank = 0 /\ s.sentNSharesNo[h] = 0 THEN -1 ELSE b.rank,
                     self, b)
    IN  ProcessNotarizationShare(
            [s EXCEPT !.sentNSharesNo[h] = @ + 1,
                      !.sentNRank[h]     = ns.rank,
                      !.sentNShareId[h]  = b,
                      !.out              = Append(@, ns)], self, ns)

\* The share ProcessBlock emits: rank -1 marks a first vote at this height
\* for a rank-0 block.
Vote(s, self, b) ==
    LET h  == b.height
        ns == NShare(h, IF b.rank = 0 /\ s.sentNSharesNo[h] = 0 THEN -1 ELSE b.rank,
                     self, b)
    IN  ProcessNotarizationShare(
            [s EXCEPT !.sentNSharesNo[h] = @ + 1,
                      !.sentNRank[h]     = b.rank,
                      !.sentNShareId[h]  = b,
                      !.out              = Append(@, ns)], self, ns)

\* Banyan.ProcessBlock.  A block from a non-leader is rejected before it is
\* stored; an invalid signature is only logged, so a forged block is
\* processed like any other.
ProcessBlock(s, self, b) ==
    IF b \in s.bc \/ ~IsLeader(N, b.proposer, b.height, b.rank) THEN s
    ELSE LET s1 == IF b \notin s.echoed /\ b.height > s.headHeight
                     THEN [s EXCEPT !.echoed = @ \cup {b},
                                    !.out    = Append(@, BlockMsg(b))]
                     ELSE s
             s2 == [s1 EXCEPT !.bc = @ \cup {b}]
             s3 == IF b \in s2.shipQueue THEN TryToShip(s2, b) ELSE s2
             s4 == IF ShouldVote(s3, b) THEN Vote(s3, self, b) ELSE s3
         IN  IF b \in s4.isNotarized
               THEN MaybeSendFShare(s4, self, b.height, b.rank, b)
               ELSE s4

\* Fault-injected MakeProposal: the block extends the last shipped block
\* instead of the notarized head.
MakeProposalOnShipped(s, self, h, rk) ==
    [height |-> h, rank |-> rk, proposer |-> self, prev |-> s.lastShipped,
     payload |-> 0]

\* Banyan.MakeProposal: a block on top of the current head.
MakeProposal(s, self, h, rk) ==
    [height |-> h, rank |-> rk, proposer |-> self, prev |-> s.headId,
     payload |-> 0]

\* A message that receiver state s would drop without any change: a block
\* already stored (ProcessBlock's first line), a share for a finalized
\* block, a non-fast-path share for a notarized block.
IsNoOp(s, m) ==
    CASE m.type = "block"  -> m.block \in s.bc
      [] m.type = "nshare" -> \/ m.block \in s.isFinalized
                              \/ m.block \in s.isNotarized /\ m.rank # -1
      [] m.type = "fshare" -> m.block \in s.isFinalized

=============================================================================
