---------------------------- MODULE LocalTimeout ----------------------------
(***************************************************************************)
(* local_timeout.LocalTimeout (src/local_timeout/local_timeout.go): the   *)
(* current height and the channel of new heights the driver reads.  Its   *)
(* fields live in the replica state record s (curHeight, newHeightChan).  *)
(***************************************************************************)
EXTENDS Integers, Sequences

CONSTANT MaxHeight   \* no height above this one is opened

Heights == 1..MaxHeight

\* Fault-injected HeightIncreased: the new height is recorded but never
\* sent on the channel the driver reads.
HeightIncreasedNoSignal(s, h) ==
    IF h <= s.curHeight \/ h > MaxHeight THEN s
    ELSE [s EXCEPT !.curHeight = h]

\* LocalTimeout.HeightIncreased: a higher height becomes current and is
\* published to the driver.  Heights above MaxHeight get no proposal, so
\* they are not opened.
HeightIncreased(s, h) ==
    IF h <= s.curHeight \/ h > MaxHeight THEN s
    ELSE [s EXCEPT !.curHeight = h, !.newHeightChan = Append(@, h)]

=============================================================================
