---------------------------- MODULE ProposalRace ----------------------------
(***************************************************************************)
(* One Banyan replica at one height while two goroutines run its handlers *)
(* at once (src/replica/replica.go): the driver runs ProcessBlock on its  *)
(* own proposal (proposeBlock), and the event loop runs ProcessBlock on   *)
(* the block of the rank-0 leader and then ProcessNotarizationShare on    *)
(* the shares of its peers.  Nothing orders the two: the Banyan struct's  *)
(* maps are shared without a lock, a data race.  Its outcomes are modelled *)
(* as the interleavings of the handlers' reads and writes: each statement *)
(* of the vote decision of ProcessBlock is a step of its own, and          *)
(* sentNSharesNo[h] += 1 is a read and a write.  (The Go runtime may also *)
(* stop the process on a concurrent map write; that outcome ends every    *)
(* behaviour and is left out.)                                             *)
(*                                                                         *)
(* The rest of the replica is its environment: which of the two blocks    *)
(* the peers' shares notarize, and when, is free, and notarization is     *)
(* handled by the event loop between two of its events.                   *)
(***************************************************************************)
EXTENDS Integers, FiniteSets

CONSTANTS
    B0,          \* the block of the rank-0 leader, received by the event loop
    B1,          \* this replica's own rank-1 proposal, run by the driver
    None         \* the zero id of an absent sentNShareId entry

Blocks == {B0, B1}
Rank(b) == IF b = B0 THEN 0 ELSE 1

\* The goroutine that runs ProcessBlock on each block.
Runner == [g \in {"driver", "loop"} |-> IF g = "driver" THEN B1 ELSE B0]

VARIABLES
    headHeight,     \* 0 below the height, 1 once a block of it is notarized
    sentNSharesNo,  \* sentNSharesNo[h]
    sentNRank,      \* sentNRank[h]
    sentNShareId,   \* sentNShareId[h]
    sentFShare,     \* h \in sentFShare
    isNotarized,    \* the blocks of height h notarized
    pc,             \* pc[g]: the statement goroutine g runs next
    cnt,            \* cnt[g]: the value of sentNSharesNo[h] g has read for +=
    shareRank,      \* shareRank[g]: the rank of the share g is making
    nShares,        \* this replica's notarization shares sent at h: <<block, rank>>
    fShares         \* the blocks this replica sent a finalization share for

vars == <<headHeight, sentNSharesNo, sentNRank, sentNShareId, sentFShare,
          isNotarized, pc, cnt, shareRank, nShares, fShares>>
shared == <<headHeight, sentNSharesNo, sentNRank, sentNShareId, sentFShare,
            isNotarized, nShares, fShares>>

Init ==
    /\ headHeight = 0
    /\ sentNSharesNo = 0 /\ sentNRank = 0 /\ sentNShareId = None
    /\ sentFShare = FALSE
    /\ isNotarized = {}
    /\ pc = [g \in DOMAIN Runner |-> IF g = "driver" THEN "vote" ELSE "idle"]
    /\ cnt = [g \in DOMAIN Runner |-> 0]
    /\ shareRank = [g \in DOMAIN Runner |-> 0]
    /\ nShares = {}
    /\ fShares = {}

\* The event loop takes the rank-0 leader's block off eventChan.
LoopReceive ==
    /\ pc["loop"] = "idle"
    /\ pc' = [pc EXCEPT !["loop"] = "vote"]
    /\ UNCHANGED <<shared, cnt, shareRank>>

\* ProcessBlock: should I send a notarization share?
VoteDecision(g) ==
    LET b == Runner[g]
    IN  /\ pc[g] = "vote"
        /\ pc' = [pc EXCEPT ![g] =
                    IF /\ headHeight < 1
                       /\ sentNSharesNo = 0 \/ sentNRank > Rank(b)
                    THEN "rank" ELSE "fshare"]
        /\ UNCHANGED <<shared, cnt, shareRank>>

\* shareRank is -1 on a first vote for a rank-0 block.
ShareRank(g) ==
    LET b == Runner[g]
    IN  /\ pc[g] = "rank"
        /\ shareRank' = [shareRank EXCEPT ![g] =
                           IF Rank(b) = 0 /\ sentNSharesNo = 0 THEN -1 ELSE Rank(b)]
        /\ pc' = [pc EXCEPT ![g] = "read"]
        /\ UNCHANGED <<shared, cnt>>

\* sentNSharesNo[h] += 1, the read ...
CountRead(g) ==
    /\ pc[g] = "read"
    /\ cnt' = [cnt EXCEPT ![g] = sentNSharesNo]
    /\ pc' = [pc EXCEPT ![g] = "write"]
    /\ UNCHANGED <<shared, shareRank>>

\* ... and the write; then sentNRank and sentNShareId.
CountWrite(g) ==
    /\ pc[g] = "write"
    /\ sentNSharesNo' = cnt[g] + 1
    /\ pc' = [pc EXCEPT ![g] = "record"]
    /\ UNCHANGED <<headHeight, sentNRank, sentNShareId, sentFShare, isNotarized,
                   nShares, fShares, cnt, shareRank>>

Record(g) ==
    /\ pc[g] = "record"
    /\ sentNRank' = Rank(Runner[g])
    /\ sentNShareId' = Runner[g]
    /\ pc' = [pc EXCEPT ![g] = "send"]
    /\ UNCHANGED <<headHeight, sentNSharesNo, sentFShare, isNotarized, nShares,
                   fShares, cnt, shareRank>>

\* Broadcast(notarizationShare), then ProcessNotarizationShare on it; its
\* own share does not complete a quorum for a block the peers hold.
SendShare(g) ==
    /\ pc[g] = "send"
    /\ nShares' = nShares \cup {<<Runner[g], shareRank[g]>>}
    /\ pc' = [pc EXCEPT ![g] = "fshare"]
    /\ UNCHANGED <<headHeight, sentNSharesNo, sentNRank, sentNShareId, sentFShare,
                   isNotarized, fShares, cnt, shareRank>>

\* The finalization-share rule: only for the block of this replica's one
\* notarization share at h, and once.
MayFShare(b) ==
    /\ ~sentFShare /\ sentNSharesNo = 1 /\ sentNShareId = b

SendFShare(b) ==
    /\ sentFShare' = TRUE
    /\ fShares' = fShares \cup {b}

\* ProcessBlock: should I send a finalization share?
FShareDecision(g) ==
    LET b == Runner[g]
    IN  /\ pc[g] = "fshare"
        /\ IF b \in isNotarized /\ MayFShare(b)
             THEN SendFShare(b)
             ELSE UNCHANGED <<sentFShare, fShares>>
        /\ pc' = [pc EXCEPT ![g] = "done"]
        /\ UNCHANGED <<headHeight, sentNSharesNo, sentNRank, sentNShareId,
                       isNotarized, nShares, cnt, shareRank>>

\* The event loop, between two events, runs ProcessNotarizationShare on
\* the peer's share that completes the quorum of block b: b is notarized,
\* the head moves to h, and the finalization-share rule runs.
LoopNotarize(b) ==
    /\ pc["loop"] \in {"idle", "done"}
    /\ b \notin isNotarized
    /\ isNotarized' = isNotarized \cup {b}
    /\ headHeight' = 1
    /\ IF MayFShare(b) THEN SendFShare(b) ELSE UNCHANGED <<sentFShare, fShares>>
    /\ UNCHANGED <<sentNSharesNo, sentNRank, sentNShareId, nShares, pc, cnt, shareRank>>

\* Both handlers have returned; the peers' shares may notarize no more.
Finished ==
    /\ \A g \in DOMAIN Runner : pc[g] = "done"
    /\ UNCHANGED vars

Next ==
    \/ LoopReceive
    \/ \E b \in Blocks : LoopNotarize(b)
    \/ \E g \in DOMAIN Runner :
         \/ VoteDecision(g) \/ ShareRank(g) \/ CountRead(g) \/ CountWrite(g)
         \/ Record(g) \/ SendShare(g) \/ FShareDecision(g)
    \/ Finished

Spec == Init /\ [][Next]_vars

-----------------------------------------------------------------------------

\* A replica that sends a finalization share for a block has sent no
\* notarization share for any other block at that height, before or after:
\* the rule the finalization-share decision of ProcessBlock and
\* ProcessNotarizationShare enforces with sentNSharesNo[h] = 1, and that
\* FinalizedExcludesOtherNotarized rests on.
FShareOnlyAfterSingleVote ==
    \A f \in fShares : \A s \in nShares : s[1] = f

=============================================================================
