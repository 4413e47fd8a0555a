----------------------------- MODULE IccSystem -----------------------------
(***************************************************************************)
(* N replicas running the ICC engine behind the replica driver and the    *)
(* network of ReplicaNet, and what they promise.                          *)
(***************************************************************************)
EXTENDS Icc

CONSTANTS
    MaxRank,     \* MaxRank[h]: the rank timer stops escalating here at h
    Silent,      \* Byzantine replicas: socket.silence, they never send
    Equivocators, \* Byzantine replicas that send rival blocks to different replicas
    RivalPayloads \* the payloads that tell rival blocks apart

VARIABLES rep, drv, net, sent

INSTANCE ReplicaNet

TypeOK ==
    /\ NetTypeOK
    /\ \A r \in Active : \A h \in Heights :
         /\ rep[r].sentNSharesNo[h] \in Nat
         /\ rep[r].sentNShareId[h] \in {None} \cup {b \in rep[r].bc : b.height = h}

\* A block a replica holds finalized was backed by finalization shares of
\* more than 2n/3 distinct replicas (FSharesBag), each sent by a replica
\* that had voted for that block only at its height.
FinalizationJustified ==
    \A r \in Active : \A b \in rep[r].isFinalized :
        LET fvoters == {m.voter : m \in {x \in sent : x.type = "fshare" /\ x.block = b}}
        IN  /\ Cardinality(fvoters) > (2 * N) \div 3
            /\ \A v \in fvoters : \A m \in sent :
                 m.type = "nshare" /\ m.voter = v /\ m.height = b.height => m.block = b

=============================================================================
