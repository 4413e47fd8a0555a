---------------------------- MODULE BanyanSystem ----------------------------
(***************************************************************************)
(* N replicas running the Banyan engine behind the replica driver and the *)
(* network of ReplicaNet, and what they promise.                          *)
(***************************************************************************)
EXTENDS Banyan

CONSTANTS
    MaxRank,     \* MaxRank[h]: the rank timer stops escalating here at h
    Silent,      \* Byzantine replicas: socket.silence, they never send
    Equivocators, \* Byzantine replicas that send rival blocks to different replicas
    RivalPayloads \* the payloads that tell rival blocks apart

VARIABLES rep, drv, net, sent

INSTANCE ReplicaNet

TypeOK ==
    /\ NetTypeOK
    /\ \A r \in Active : rep[r].sentNRank \in [Heights -> Nat]

\* A block a replica holds finalized was backed by more than 2n/3 distinct
\* replicas' finalization shares or by n-p distinct replicas' rank -1
\* notarization shares (spec 8.4; NSharesBagBanyan counts shares, not
\* voters, and counts them per height, not per block).
FinalizationJustified ==
    \A r \in Active : \A b \in rep[r].isFinalized :
        \/ Cardinality({m.voter : m \in {x \in sent : x.type = "fshare" /\ x.block = b}})
              > (2 * N) \div 3
        \/ Cardinality({m.voter : m \in {x \in sent : x.type = "nshare" /\ x.block = b
                                                   /\ x.rank = -1}})
              >= N - P

=============================================================================
