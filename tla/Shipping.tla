------------------------------ MODULE Shipping ------------------------------
(***************************************************************************)
(* TryToShip and its ship queue, identical in the Banyan and ICC engines  *)
(* (src/protocol/banyan.go, src/protocol/icc_actually.go), on a replica   *)
(* state record s with fields bc (the stored blocks), lastShipped,        *)
(* shipQueue and committed (what was sent on the committed channel).      *)
(***************************************************************************)
EXTENDS Sequences

\* BlockChain.CommitBlock followed by the shipping bookkeeping of
\* TryToShip: x is sent on the committed channel, becomes the last shipped
\* block and leaves the ship queue.  Since x's parent is the last shipped
\* block, the committed list CommitBlock returns is x alone.
Commit(s, x) ==
    [s EXCEPT !.committed   = Append(@, x),
              !.lastShipped = x,
              !.shipQueue   = @ \ {x}]

\* The loop over the ship queue after a commit: every queued block that is
\* stored and whose parent is the last shipped block is shipped, and each
\* shipment re-runs the loop.  Go's map order decides which of several
\* ready blocks goes first; NoForkAmongFinalized ensures there is never
\* more than one.
RECURSIVE ShipQueued(_)
ShipQueued(s) ==
    LET ready == {q \in s.shipQueue : q \in s.bc /\ q.prev = s.lastShipped}
    IN  IF ready = {} THEN s
        ELSE ShipQueued(Commit(s, CHOOSE q \in ready : TRUE))

\* Fault-injected TryToShip: a stored block is shipped without comparing
\* its parent with the last shipped block.
TryToShipNoParentCheck(s, x) ==
    IF x \in s.bc THEN ShipQueued(Commit(s, x))
    ELSE [s EXCEPT !.shipQueue = @ \cup {x}]

\* TryToShip: ship x if its parent is the last shipped block; queue it if
\* it is not stored yet; otherwise leave everything as it is.
TryToShip(s, x) ==
    IF x \in s.bc
      THEN IF x.prev = s.lastShipped THEN ShipQueued(Commit(s, x)) ELSE s
      ELSE [s EXCEPT !.shipQueue = @ \cup {x}]

=============================================================================
