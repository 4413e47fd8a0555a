----------------------------- MODULE ReplicaNet -----------------------------
(***************************************************************************)
(* N replicas of src/replica/replica.go, each running a safety engine     *)
(* (Banyan or ICC) behind the replica driver and its LocalTimeout,        *)
(* connected by a reliable broadcast network that keeps each link in      *)
(* order (src/socket/socket.go).  The engine is a parameter: its handlers *)
(* are operators from a replica state record to the next one, run to      *)
(* completion in one step, which collect what they broadcast in the field *)
(* out.  The record also holds the LocalTimeout's curHeight and           *)
(* newHeightChan, and committed, what TryToShip sent on the committed     *)
(* channel.                                                                *)
(***************************************************************************)
EXTENDS Integers, Sequences, FiniteSets, SequencesExt, Rotation, Messages

CONSTANTS
    N,           \* config n
    Silent,      \* Byzantine replicas: socket.silence, they never send
    Equivocators, \* Byzantine replicas that send rival blocks
    RivalPayloads, \* the payloads rival blocks differ in (MakeBlock fills it
                   \* with random bytes, the id hashes it); an honest
                   \* proposal's one payload is 0
    MaxHeight,   \* no proposal above this height
    MaxRank,     \* MaxRank[h]: the rank timer stops escalating here at h
    Genesis,     \* crypto.MakeID("genesis")
    InitReplica,                    \* the engine's constructor
    ProcessBlock(_, _, _),          \* (state, self, block)
    ProcessNotarizationShare(_, _, _),  \* (state, self, share)
    ProcessFinalizationShare(_, _), \* (state, share)
    MakeProposal(_, _, _, _),       \* (state, self, height, rank)
    IsNoOp(_, _)                    \* (state, message): dropped unchanged

\* The replicas whose state is modelled.  A silent replica's Send drops
\* every message, so nothing it does reaches another replica; an
\* equivocator's only messages are the rival blocks of Equivocate.  Their
\* own state is left out and the properties speak of the others.
Active == (1..N) \ (Silent \cup Equivocators)


VARIABLES
    rep,   \* rep[r]: state of replica r's engine, store, bags and pacemaker
    drv,   \* drv[r]: replica r's driver goroutine (ListenLocalEvent)
    net,   \* net[r][p]: messages p sent to r, not yet received, in order
    sent   \* every message ever broadcast (history, read by properties)

vars == <<rep, drv, net, sent>>

\* Replica r's handler produced the replica state new: store it, append
\* what it sent to its link to every peer (Socket.Broadcast, in the order
\* the handler sent it), and take the received message, if any, off the
\* head of the link from sender.  A message the receiver's state makes a
\* no-op stays one (stores, notarized and finalized sets only grow), so it
\* is taken out of the inbox instead of being received later.
ApplyWith(r, new, sender, received) ==
    LET s == [rep EXCEPT ![r] = [new EXCEPT !.out = <<>>]]
    IN  /\ rep' = s
        /\ net' = [q \in Active |-> [p \in Active |->
                    LET kept == IF q = r /\ p = sender THEN Tail(net[q][p])
                                ELSE net[q][p]
                        link == IF p = r /\ q # r THEN kept \o new.out ELSE kept
                        Useful(m) == ~IsNoOp(s[q], m)
                    IN  SelectSeq(link, Useful)]]
        /\ sent' = sent \cup ToSet(new.out) \cup received

Apply(r, new, sender) == ApplyWith(r, new, sender, {})

\* The event loop of Replica.Start takes the next message from the link
\* from sender (the transport keeps each link in order) and runs the
\* matching handler.
Receive(r, sender) ==
    /\ net[r][sender] # <<>>
    /\ LET m == Head(net[r][sender])
       IN  Apply(r, CASE m.type = "block"  -> ProcessBlock(rep[r], r, m.block)
                     [] m.type = "nshare" -> ProcessNotarizationShare(rep[r], r, m)
                     [] m.type = "fshare" -> ProcessFinalizationShare(rep[r], m),
                 sender)
    /\ UNCHANGED drv

\* Replica.proposeIfLeader from replica state s: MakeProposal, Broadcast,
\* then ProcessBlock on the driver goroutine.  No proposal above MaxHeight.
ProposeIfLeader(r, s, h, rk) ==
    IF IsLeader(N, r, h, rk) /\ h <= MaxHeight
      THEN LET b == MakeProposal(s, r, h, rk)
           IN  Apply(r, ProcessBlock([s EXCEPT !.out = <<BlockMsg(b)>>], r, b), 0)
      ELSE /\ rep' = [rep EXCEPT ![r] = s]
           /\ UNCHANGED <<net, sent>>

\* ListenLocalEvent, once the start signal arrives (from a status query or
\* the first received event): propose at height 1, rank 0.
Boot(r) ==
    /\ ~drv[r].booted
    /\ drv' = [drv EXCEPT ![r].booted = TRUE]
    /\ ProposeIfLeader(r, rep[r], 1, 0)

\* ListenLocalEvent, a new height from the LocalTimeout: rank back to 0.
NewHeight(r) ==
    /\ drv[r].booted
    /\ rep[r].newHeightChan # <<>>
    /\ LET h == Head(rep[r].newHeightChan)
       IN  /\ drv' = [drv EXCEPT ![r].height = h, ![r].rank = 0]
           /\ ProposeIfLeader(r, [rep[r] EXCEPT !.newHeightChan = Tail(@)], h, 0)

\* ListenLocalEvent, the rank timer fires: next rank at the same height.
\* A firing that makes r leader of nothing changes only the driver's rank,
\* which nothing but later firings reads, so it is merged into the next
\* firing that does propose: the rank jumps to any rank r leads.
LeadsAt(r, h) ==
    IF h > MaxHeight THEN {}
    ELSE {k \in drv[r].rank + 1..MaxRank[h] : IsLeader(N, r, h, k)}

Timeout(r) ==
    /\ drv[r].booted
    /\ \E k \in LeadsAt(r, drv[r].height) :
         /\ drv' = [drv EXCEPT ![r].rank = k]
         /\ ProposeIfLeader(r, rep[r], drv[r].height, k)

\* A Byzantine replica z sends replica r a block in the name of the leader
\* of (h, rk), on any block of height h - 1 it has seen, with a payload of
\* its choice: different replicas may get different blocks for one
\* (h, rk).  If z is not that leader the signature does not verify, which
\* ProcessBlock only logs.  r's event loop runs ProcessBlock on the block;
\* z sends nothing else.
RivalParents(h) ==
    IF h = 1 THEN {Genesis}
    ELSE {m.block : m \in {x \in sent : x.type = "block" /\ x.block.height = h - 1}}

Equivocate(z, r) ==
    \E h \in 1..MaxHeight, v \in RivalPayloads :
    \E prev \in RivalParents(h), rk \in 0..MaxRank[h] :
        LET b == [height |-> h, rank |-> rk,
                  proposer |-> CHOOSE q \in 1..N : IsLeader(N, q, h, rk),
                  prev |-> prev, payload |-> v]
        IN  /\ b \notin rep[r].bc
            /\ ApplyWith(r, ProcessBlock(rep[r], r, b), 0, {BlockMsg(b)})
            /\ UNCHANGED drv

\* Every replica has used up the ranks it leads and the heights opened to
\* it, and every message is delivered: the code would keep firing timers
\* beyond the bounds.
BoundsReached ==
    \A r \in Active :
        /\ drv[r].booted /\ LeadsAt(r, drv[r].height) = {}
        /\ rep[r].newHeightChan = <<>>
        /\ \A p \in Active : net[r][p] = <<>>
        /\ \A z \in Equivocators : ~ENABLED Equivocate(z, r)

\* Every replica has its start signal (the status query that begins an
\* experiment); a driver that proposes nothing at height 1, rank 0 has
\* already entered its loop, the leader of (1, 0) is about to propose.
Init ==
    /\ rep  = [r \in Active |-> InitReplica]
    /\ drv  = [r \in Active |->
                 [booted |-> ~IsLeader(N, r, 1, 0), height |-> 1, rank |-> 0]]
    /\ net  = [r \in Active |-> [p \in Active |-> <<>>]]
    /\ sent = {}

Next ==
    \/ \E r, sender \in Active : Receive(r, sender)
    \/ \E r \in Active : Boot(r)
    \/ \E r \in Active : NewHeight(r)
    \/ \E r \in Active : Timeout(r)
    \/ \E z \in Equivocators, r \in Active : Equivocate(z, r)
    \/ BoundsReached /\ UNCHANGED vars

Spec == Init /\ [][Next]_vars

\* Every goroutine that can run eventually runs: the event loop drains its
\* channel, the driver reads newHeightChan and its timer, and the socket
\* delivers what was sent (TCP, no loss).  Every step adds to a store, a
\* bag or a counter, or removes a message, so no behaviour cycles, and
\* fairness of Next as a whole already makes every enabled step happen
\* before the system stops.
FairSpec == Spec /\ WF_vars(Next)

-----------------------------------------------------------------------------
(* What both engines promise, over the state the record fields share.      *)

\* The blocks a block extends, itself included, back to genesis.
RECURSIVE Chain(_)
Chain(b) == IF b = Genesis THEN {} ELSE {b} \cup Chain(b.prev)

AllMsgs == sent \cup UNION {ToSet(net[r][p]) : r, p \in Active}

\* The shape of the shared state (a conjunct of each engine's TypeOK).
NetTypeOK ==
    /\ DOMAIN rep = Active /\ DOMAIN drv = Active /\ DOMAIN net = Active
    /\ \A r \in Active :
         /\ rep[r].headHeight \in 0..MaxHeight
         /\ rep[r].curHeight \in 1..MaxHeight
         /\ rep[r].isFinalized \cup rep[r].isNotarized \cup rep[r].shipQueue
               \subseteq {m.block : m \in sent}
         /\ rep[r].out = <<>>
         /\ drv[r].rank \in 0..MaxRank[drv[r].height]
    /\ \A m \in AllMsgs : m.type \in {"block", "nshare", "fshare"}

\* Any two blocks finalized anywhere lie on one chain: the finalization
\* rules (one notarization share per height before a finalization share,
\* and for Banyan n-p rank -1 shares for the fast path) never finalize
\* forks.
NoForkAmongFinalized ==
    LET fin == UNION {rep[r].isFinalized : r \in Active}
    IN  \A b1, b2 \in fin : b1 \in Chain(b2) \/ b2 \in Chain(b1)

\* A block finalized anywhere is the only block of its height notarized
\* anywhere: the replicas whose shares finalized it voted for no other
\* block at that height before (the finalization-share rule, sentNSharesNo
\* = 1) and no more after (their head has reached it), so no rival block
\* gathers a notarization quorum, whatever the ranks and the delivery
\* order.
FinalizedExcludesOtherNotarized ==
    \A r1, r2 \in Active : \A b \in rep[r1].isFinalized : \A c \in rep[r2].isNotarized :
        c.height = b.height => c = b

\* Every block a replica holds finalized is either committed or waiting in
\* the ship queue (spec 3, "Ship queue", and 4.3 step 2: a finalized block
\* whose parent is not the last shipped block is queued).  TryToShip
\* queues only blocks it does not store yet.
FinalizedTracked ==
    \A r \in Active : \A b \in rep[r].isFinalized :
        b \in ToSet(rep[r].committed) \/ b \in rep[r].shipQueue

\* The longest committed output: the decided sequence of CommitLog.
LongestCommitted ==
    LET logs == {rep[r].committed : r \in Active}
    IN  CHOOSE l \in logs : \A other \in logs : Len(other) <= Len(l)

CL == INSTANCE CommitLog
        WITH Replicas <- Active,
             chain    <- LongestCommitted,
             log      <- [r \in Active |-> rep[r].committed]

\* The replicas' committed outputs (TryToShip, CommitBlock, the committed
\* channel) implement CommitLog: each only grows, is a chain from genesis
\* with increasing heights (spec 8.5), and all are prefixes of one decided
\* sequence, whatever order shares reach different replicas in.
CommitLogRefined == CL!Spec

\* Liveness with a silent replica and no timeouts: every active replica
\* eventually ships a block at every height (ProcessNotarizationShare's
\* HeightIncreased opens the next height, the driver's NewHeight makes its
\* leader propose, and TryToShip sends each finalized block on the
\* committed channel).
AllCommitEveryHeight ==
    <>(\A r \in Active : Len(rep[r].committed) = MaxHeight)

\* Spec 8.6, shipping completeness: a block a replica holds finalized,
\* whose ancestors back to genesis are all in its store, eventually is on
\* its committed output (TryToShip).  Every step the system can take
\* adds to a store, a bag or a counter or removes a message, so every
\* behaviour in which each enabled step is eventually taken ends in
\* BoundsReached; "eventually" is stated over that final state.
ShippingCompleteness ==
    BoundsReached =>
        \A r \in Active : \A b \in rep[r].isFinalized :
            Chain(b) \subseteq rep[r].bc => b \in ToSet(rep[r].committed)

=====
