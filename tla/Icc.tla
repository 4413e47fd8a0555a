-------------------------------- MODULE Icc --------------------------------
(***************************************************************************)
(* The ICC safety engine (src/protocol/icc_actually.go) of one replica:   *)
(* its handlers as operators on a replica state record, as in Banyan.     *)
(* ICC differs from Banyan in three places: a replica votes for every     *)
(* valid block above its head, whatever its rank (no rank -1 fast path),  *)
(* notarization needs more than 2n/3 shares of the plain NSharesBag, and  *)
(* a share for an already notarized block is dropped at once.  IccSystem  *)
(* runs N of them behind the driver and network of ReplicaNet.            *)
(***************************************************************************)
EXTENDS Integers, Sequences, FiniteSets, ShareBags, Rotation, LocalTimeout,
        Shipping, Messages

CONSTANTS
    Genesis,     \* crypto.MakeID("genesis")
    None         \* the zero crypto.Identifier of an absent map entry

\* NewIcc, with its LocalTimeout's fields.
InitReplica ==
    [bc            |-> {},
     nBag          |-> {},
     fBag          |-> {},
     headHeight    |-> 0,
     headId        |-> Genesis,
     sentNSharesNo |-> [h \in Heights |-> 0],
     sentNShareId  |-> [h \in Heights |-> None],
     sentFShare    |-> {},
     isNotarized   |-> {},
     isFinalized   |-> {},
     lastShipped   |-> Genesis,
     shipQueue     |-> {},
     committed     |-> <<>>,
     echoed        |-> {},
     curHeight     |-> 1,
     newHeightChan |-> <<>>,
     out           |-> <<>>]

\* Icc.ProcessFinalizationShare (honest signatures always verify).
ProcessFinalizationShare(s, fs) ==
    IF fs.block \in s.isFinalized THEN s
    ELSE LET s1 == [s EXCEPT !.fBag = FBagAdd(@, fs)]
         IN  IF FBagBuilt(s1.fBag, fs.block)
               THEN TryToShip([s1 EXCEPT !.isFinalized = @ \cup {fs.block}],
                              fs.block)
               ELSE s1

\* Fault-injected finalization-share rule: the count of notarization
\* shares sent at h is not checked, only which block the last one was for.
MaybeSendFShareAnyCount(s, self, h, rk, id) ==
    IF h \notin s.sentFShare /\ s.sentNShareId[h] = id
      THEN LET fs == FShare(h, rk, self, id)
           IN  ProcessFinalizationShare(
                   [s EXCEPT !.sentFShare = @ \cup {h}, !.out = Append(@, fs)], fs)
      ELSE s

\* The finalization-share rule of both handlers: only for the one block
\* this replica sent a notarization share for at height h, and once.
MaybeSendFShare(s, self, h, rk, id) ==
    IF /\ h \notin s.sentFShare
       /\ s.sentNSharesNo[h] = 1
       /\ s.sentNShareId[h] = id
      THEN LET fs == FShare(h, rk, self, id)
           IN  ProcessFinalizationShare(
                   [s EXCEPT !.sentFShare = @ \cup {h}, !.out = Append(@, fs)], fs)
      ELSE s

\* Icc.ProcessNotarizationShare: a share for a notarized block is dropped;
\* otherwise it goes into the bag, and once the bag is built the block is
\* notarized, the head moves up and the finalization rule runs.
ProcessNotarizationShare(s, self, ns) ==
    IF ns.block \in s.isNotarized THEN s
    ELSE LET s1 == [s EXCEPT !.nBag = NSharesBagAdd(@, ns)]
             s2 == [s1 EXCEPT !.isNotarized = @ \cup {ns.block}]
             s3 == IF s2.headHeight < ns.height
                     THEN HeightIncreased([s2 EXCEPT !.headHeight = ns.height,
                                                     !.headId     = ns.block],
                                          ns.height + 1)
                     ELSE s2
         IN  IF ~NSharesBagBuilt(s1.nBag, ns.block) THEN s1
             ELSE MaybeSendFShare(s3, self, ns.height, ns.rank, ns.block)

\* Fault-injected Vote: the share bookkeeping is indexed by the pacemaker's
\* current height instead of the block's height.
VoteAtCurHeight(s, self, b) ==
    LET ns == NShare(b.height, b.rank, self, b)
    IN  ProcessNotarizationShare(
            [s EXCEPT !.sentNSharesNo[s.curHeight] = @ + 1,
                      !.sentNShareId[s.curHeight]  = b,
                      !.out                        = Append(@, ns)], self, ns)

\* The notarization share ProcessBlock sends for block b.
Vote(s, self, b) ==
    LET ns == NShare(b.height, b.rank, self, b)
    IN  ProcessNotarizationShare(
            [s EXCEPT !.sentNSharesNo[b.height] = @ + 1,
                      !.sentNShareId[b.height]  = b,
                      !.out                     = Append(@, ns)], self, ns)

\* Icc.ProcessBlock: a block from a non-leader is rejected before it is
\* stored; an invalid signature is only logged.
ProcessBlock(s, self, b) ==
    IF b \in s.bc \/ ~IsLeader(N, b.proposer, b.height, b.rank) THEN s
    ELSE LET s1 == IF b \notin s.echoed /\ b.height > s.headHeight
                     THEN [s EXCEPT !.echoed = @ \cup {b},
                                    !.out    = Append(@, BlockMsg(b))]
                     ELSE s
             s2 == [s1 EXCEPT !.bc = @ \cup {b}]
             s3 == IF b \in s2.shipQueue THEN TryToShip(s2, b) ELSE s2
             s4 == IF s3.headHeight < b.height THEN Vote(s3, self, b) ELSE s3
         IN  IF b \in s4.isNotarized
               THEN MaybeSendFShare(s4, self, b.height, b.rank, b)
               ELSE s4

\* Fault-injected MakeProposal: the block extends the last shipped block
\* instead of the notarized head.
MakeProposalOnShipped(s, self, h, rk) ==
    [height |-> h, rank |-> rk, proposer |-> self, prev |-> s.lastShipped,
     payload |-> 0]

\* Icc.MakeProposal: a block on top of the current head.
MakeProposal(s, self, h, rk) ==
    [height |-> h, rank |-> rk, proposer |-> self, prev |-> s.headId,
     payload |-> 0]

\* A message receiver state s would drop without any change: a stored
\* block, a share for a notarized block, a finalization share for a
\* finalized block.
IsNoOp(s, m) ==
    CASE m.type = "block"  -> m.block \in s.bc
      [] m.type = "nshare" -> m.block \in s.isNotarized
      [] m.type = "fshare" -> m.block \in s.isFinalized

=============================================================================
