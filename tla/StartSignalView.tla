-------------------------- MODULE StartSignalView --------------------------
(***************************************************************************)
(* The goroutines of one honest view-based replica around its start      *)
(* signal (src/replica/replica_view.go).  node.handle, node.txn and the   *)
(* event loop behave as in StartSignal: ReplicaView.startSignal is the    *)
(* same load, store and send, and handleQuery and Start call it as       *)
(* Replica's do.  The driver differs: once started, ListenLocalEvent     *)
(* takes each view the pacemaker enters and pushes it onto eventChan,    *)
(* where the event loop's processNewView handles it.  The pacemaker and  *)
(* the HotStuff and Streamlet engines are not in the repository: the     *)
(* views to enter are a count, and which votes and timeouts HandleVote    *)
(* and HandleTmo find below the pacemaker's view, and drop, is chosen:    *)
(* up to Stale of them.  ProcessLocalTmo, the timer's branch, runs the    *)
(* engine and is left out.                                                *)
(***************************************************************************)
EXTENDS Naturals

CONSTANTS
    Queries,     \* status queries that reach the replica
    Events,      \* blocks, votes and timeouts that reach the replica
    Views,       \* views the pacemaker enters after the start
    Stale,       \* of the Events, votes and timeouts that may arrive stale
    EventCap     \* capacity of eventChan (100)

VARIABLES
    pendQ, pendE, eventChan, pc, isStarted, driverWaits, handled, answered,
    pendV,       \* views entered, not yet taken by the driver
    dpc,         \* the driver: "idle", or "push" holding a view
    dropped      \* stale votes and timeouts dropped by node.handle

SS == INSTANCE StartSignal

viewVars == <<pendQ, pendE, eventChan, pc, isStarted, driverWaits, handled, answered,
          pendV, dpc, dropped>>

Init ==
    /\ SS!Init
    /\ pendV = Views
    /\ dpc = "idle"
    /\ dropped = 0

\* ListenLocalEvent, after <-r.start: view := <-r.pm.EnteringViewEvent().
DriverTakeView ==
    /\ ~driverWaits /\ dpc = "idle" /\ pendV > 0
    /\ pendV' = pendV - 1
    /\ dpc' = "push"
    /\ UNCHANGED <<pendQ, pendE, eventChan, pc, isStarted, driverWaits, handled, answered,
                   dropped>>

\* ... r.eventChan <- view, which blocks while the channel is full.
DriverPushView ==
    /\ dpc = "push" /\ eventChan < EventCap
    /\ eventChan' = eventChan + 1
    /\ dpc' = "idle"
    /\ UNCHANGED <<pendQ, pendE, pc, isStarted, driverWaits, handled, answered, pendV,
                   dropped>>

\* HandleVote / HandleTmo: if vote.View < r.pm.GetCurView() { return }.
HandleDropStale ==
    /\ pc["handle"] = "push" /\ dropped < Stale
    /\ dropped' = dropped + 1
    /\ pc' = [pc EXCEPT !["handle"] = "idle"]
    /\ UNCHANGED <<pendQ, pendE, eventChan, isStarted, driverWaits, handled, answered,
                   pendV, dpc>>

\* The goroutines whose code is Replica's: node.handle with HandleBlock,
\* HandleVote and HandleTmo; node.txn with handleQuery (an honest replica
\* runs startSignal there); the event loop of Start, whose processNewView
\* or engine handler is one step.  None of them touches the driver.
Handle ==
    \/ (SS!HandleTakeEvent \/ SS!HandlePush) /\ UNCHANGED <<pendV, dpc, dropped>>
    \/ HandleDropStale
Txn == (SS!TxnTakeQuery \/ SS!Reply) /\ UNCHANGED <<pendV, dpc, dropped>>
Loop == (SS!LoopTake \/ SS!LoopProcess) /\ UNCHANGED <<pendV, dpc, dropped>>
startSignal(g) ==
    /\ SS!StartLoad(g) \/ SS!StartStore(g) \/ SS!StartSend(g)
    /\ UNCHANGED <<pendV, dpc, dropped>>

Next ==
    \/ Handle \/ Txn \/ Loop \/ \E g \in SS!Callers : startSignal(g)
    \/ DriverTakeView \/ DriverPushView

\* Go's scheduler preempts: every goroutine that can run eventually runs.
Fairness ==
    /\ WF_viewVars(Handle) /\ WF_viewVars(Txn) /\ WF_viewVars(Loop)
    /\ \A g \in SS!Callers : WF_viewVars(startSignal(g))
    /\ WF_viewVars(DriverTakeView \/ DriverPushView)

Spec == Init /\ [][Next]_viewVars /\ Fairness

-----------------------------------------------------------------------------

\* Every block, vote and timeout that reaches the replica and is not
\* dropped as stale, and every view
\* its pacemaker enters, is eventually run by the event loop, and every
\* status query is answered: ReplicaView.startSignal, called by
\* handleQuery and by the event loop, never leaves either of them, or the
\* driver pushing views, waiting for good.
AllHandledView == <>(handled + dropped = Events + Views /\ answered = Queries)

=============================================================================
