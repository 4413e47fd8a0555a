------------------------------ MODULE Election ------------------------------
(***************************************************************************)
(* The (height, rank) pairs the driver of src/replica/replica.go asks the *)
(* election about, and the leader election.Rotation gives for each.       *)
(* ListenLocalEvent starts at height 1, rank 0; a timer firing raises the *)
(* rank; a new-height signal (any height above the current one, since a   *)
(* replica may notarize a later height first) resets the rank to 0.       *)
(***************************************************************************)
EXTENDS Integers, FiniteSets, Rotation

CONSTANTS
    N,           \* config n: the number of replicas (Rotation.peerNo)
    MaxHeight,   \* highest height the driver is walked to
    MaxRank      \* highest rank the timer is walked to

Replicas == 1..N

VARIABLES height, rank   \* block_production_height, block_production_rank

vars == <<height, rank>>

\* ListenLocalEvent before its first proposeIfLeader.
Init == height = 1 /\ rank = 0

\* case <-r.timer.C: block_production_rank += 1
TimerFires ==
    /\ rank < MaxRank
    /\ rank' = rank + 1
    /\ UNCHANGED height

\* case new_height := <-r.lt.GetNewHeight(): height set, rank back to 0.
NewHeight ==
    /\ \E h \in height + 1..MaxHeight : height' = h
    /\ rank' = 0

\* The walk has covered every height and rank in the bounds.
Walked == height = MaxHeight /\ rank = MaxRank /\ UNCHANGED vars

Next == TimerFires \/ NewHeight \/ Walked

Spec == Init /\ [][Next]_vars

-----------------------------------------------------------------------------

\* The canonical rotation of the specification (section 6), with the
\* mathematical modulus: leader = ((height + rank - 1) mod n) + 1.
SpecLeader(h, rk) == ((h + rk - 1) % N) + 1

\* The replicas IsLeader accepts for (h, rk).
Leaders(h, rk) == {id \in Replicas : IsLeader(N, id, h, rk)}

\* At every (height, rank) the driver reaches, IsLeader accepts exactly
\* one replica, the one FindLeaderFor names and the specification's
\* rotation gives (Go's truncating % and the uint64 conversions of
\* IsLeader included).
LeaderAgrees ==
    Leaders(height, rank) = {FindLeaderFor(N, height, rank)}
    /\ FindLeaderFor(N, height, rank) = SpecLeader(height, rank)

=============================================================================
