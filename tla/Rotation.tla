------------------------------ MODULE Rotation ------------------------------
(***************************************************************************)
(* election.Rotation (src/election/rotation.go): the leader of a height   *)
(* and rank.  peerNo is the receiver's field, passed explicitly.           *)
(*                                                                         *)
(* Go's % truncates toward zero, TLA+'s % is the non-negative remainder;  *)
(* GoRem gives the Go result.  IsLeader converts to uint64 before taking  *)
(* the remainder: for height - 1 + rank >= 0, which every height the      *)
(* driver opens satisfies (it starts at 1), no value wraps.               *)
(***************************************************************************)
EXTENDS Integers

\* a % n on Go ints (n > 0).
GoRem(a, n) == IF a >= 0 THEN a % n ELSE -((-a) % n)

\* Fault-injected IsLeader: compares with the node id itself, not id - 1.
IsLeaderIdOffByOne(peerNo, id, height, rank) == (height - 1 + rank) % peerNo = id

\* Rotation.IsLeader, for height >= 1 and rank >= 0.
IsLeader(peerNo, id, height, rank) == (height - 1 + rank) % peerNo = id - 1

\* Rotation.FindLeaderFor.
FindLeaderFor(peerNo, height, rank) == GoRem(height + rank - 1, peerNo) + 1

=============================================================================
