---------------------------- MODULE StartSignal ----------------------------
(***************************************************************************)
(* The goroutines of one replica around its start signal                   *)
(* (src/replica/replica.go, src/node/node.go):                             *)
(*   handle  node.handle: takes each block and share off MessageChan and   *)
(*           calls its handler, which pushes it onto eventChan;            *)
(*   txn     node.txn: takes each status query off TxChan (where the http  *)
(*           server puts it) and calls handleQuery: startSignal, reply;    *)
(*   loop    Replica.Start: takes each event off eventChan, runs           *)
(*           startSignal, then the safety engine's handler;                *)
(*   driver  ListenLocalEvent: receives once from the unbuffered start     *)
(*           channel, then runs the proposal loop.                         *)
(* startSignal is a check (isStarted.Load), a store, and a send on start;  *)
(* the three are separate steps.  Messages are counted, not told apart:    *)
(* only their kind decides what a goroutine does with them.                *)
(***************************************************************************)
EXTENDS Naturals

CONSTANTS
    Queries,     \* status queries that reach the replica
    Events,      \* blocks and shares that reach the replica
    EventCap     \* capacity of eventChan (100)

Callers == {"txn", "loop"}    \* the goroutines that run startSignal

VARIABLES
    pendQ,       \* queries not yet taken by node.txn
    pendE,       \* protocol messages not yet taken by node.handle
    eventChan,   \* events in eventChan
    pc,          \* pc[g]: where goroutine g is
    isStarted,   \* Replica.isStarted
    driverWaits, \* the driver still blocks on <-r.start
    handled,     \* events the event loop has run the handler for
    answered     \* queries answered

vars == <<pendQ, pendE, eventChan, pc, isStarted, driverWaits, handled, answered>>

\* Where goroutine g goes once startSignal returns.
AfterStart(g) == IF g = "txn" THEN "reply" ELSE "process"

Init ==
    /\ pendQ = Queries
    /\ pendE = Events
    /\ eventChan = 0
    /\ pc = [g \in {"handle"} \cup Callers |-> "idle"]
    /\ isStarted = FALSE
    /\ driverWaits = TRUE
    /\ handled = 0
    /\ answered = 0

\* node.txn takes the next query off TxChan.
TxnTakeQuery ==
    /\ pc["txn"] = "idle" /\ pendQ > 0
    /\ pendQ' = pendQ - 1
    /\ pc' = [pc EXCEPT !["txn"] = "load"]
    /\ UNCHANGED <<pendE, eventChan, isStarted, driverWaits, handled, answered>>

\* node.handle takes the next block or share off MessageChan.
HandleTakeEvent ==
    /\ pc["handle"] = "idle" /\ pendE > 0
    /\ pendE' = pendE - 1
    /\ pc' = [pc EXCEPT !["handle"] = "push"]
    /\ UNCHANGED <<pendQ, eventChan, isStarted, driverWaits, handled, answered>>

\* HandleBlock / HandleNotarizationShare / HandleFinalizationShare:
\* r.eventChan <- event, which blocks while the channel is full.
HandlePush ==
    /\ pc["handle"] = "push" /\ eventChan < EventCap
    /\ eventChan' = eventChan + 1
    /\ pc' = [pc EXCEPT !["handle"] = "idle"]
    /\ UNCHANGED <<pendQ, pendE, isStarted, driverWaits, handled, answered>>

\* handleQuery, after startSignal: the status reply.
Reply ==
    /\ pc["txn"] = "reply"
    /\ answered' = answered + 1
    /\ pc' = [pc EXCEPT !["txn"] = "idle"]
    /\ UNCHANGED <<pendQ, pendE, eventChan, isStarted, driverWaits, handled>>

\* Replica.Start: event := <-r.eventChan, then startSignal.
LoopTake ==
    /\ pc["loop"] = "idle" /\ eventChan > 0
    /\ eventChan' = eventChan - 1
    /\ pc' = [pc EXCEPT !["loop"] = "load"]
    /\ UNCHANGED <<pendQ, pendE, isStarted, driverWaits, handled, answered>>

\* Replica.Start: the safety engine's handler for the event.
LoopProcess ==
    /\ pc["loop"] = "process"
    /\ handled' = handled + 1
    /\ pc' = [pc EXCEPT !["loop"] = "idle"]
    /\ UNCHANGED <<pendQ, pendE, eventChan, isStarted, driverWaits, answered>>

\* startSignal: if !r.isStarted.Load() ...
StartLoad(g) ==
    /\ pc[g] = "load"
    /\ pc' = [pc EXCEPT ![g] = IF isStarted THEN AfterStart(g) ELSE "store"]
    /\ UNCHANGED <<pendQ, pendE, eventChan, isStarted, driverWaits, handled, answered>>

\* ... r.isStarted.Store(true) ...
StartStore(g) ==
    /\ pc[g] = "store"
    /\ isStarted' = TRUE
    /\ pc' = [pc EXCEPT ![g] = "send"]
    /\ UNCHANGED <<pendQ, pendE, eventChan, driverWaits, handled, answered>>

\* ... r.start <- true: an unbuffered send, which completes only together
\* with the driver's one receive (ListenLocalEvent, <-r.start).
StartSend(g) ==
    /\ pc[g] = "send" /\ driverWaits
    /\ driverWaits' = FALSE
    /\ pc' = [pc EXCEPT ![g] = AfterStart(g)]
    /\ UNCHANGED <<pendQ, pendE, eventChan, isStarted, handled, answered>>

Next ==
    \/ HandleTakeEvent \/ HandlePush
    \/ TxnTakeQuery \/ Reply
    \/ LoopTake \/ LoopProcess
    \/ \E g \in Callers : StartLoad(g) \/ StartStore(g) \/ StartSend(g)

\* Go's scheduler preempts, so every goroutine that can run eventually runs.
Fairness ==
    /\ WF_vars(HandleTakeEvent \/ HandlePush)
    /\ WF_vars(TxnTakeQuery \/ Reply)
    /\ WF_vars(LoopTake \/ LoopProcess)
    /\ \A g \in Callers : WF_vars(StartLoad(g) \/ StartStore(g) \/ StartSend(g))

Spec == Init /\ [][Next]_vars /\ Fairness

-----------------------------------------------------------------------------

TypeOK ==
    /\ pendQ \in 0..Queries /\ pendE \in 0..Events
    /\ eventChan \in 0..EventCap
    /\ pc \in [{"handle"} \cup Callers -> {"idle", "push", "load", "store", "send", "reply", "process"}]
    /\ isStarted \in BOOLEAN /\ driverWaits \in BOOLEAN
    /\ handled \in 0..Events /\ answered \in 0..Queries

\* Every block and share that reaches the replica is eventually run through
\* the safety engine, and every status query is answered: the start signal,
\* sent by whichever of handleQuery and the event loop comes first, never
\* keeps either goroutine waiting for good.
AllHandled == <>(handled = Events /\ answered = Queries)

=============================================================================
