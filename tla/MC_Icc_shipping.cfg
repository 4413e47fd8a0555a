\* Replica 4 silent, heights 1-2, one timeout at height 1, until nothing
\* more can happen: replicas that vote for both height-1 blocks send no
\* finalization share there.
CONSTANTS
    N <- MC_N
    F <- MC_F
    P <- MC_P
    MaxHeight = 2
    MaxRank <- RanksAtOne
    Genesis = Genesis
    None = None
    Silent <- MC_Silent
    Equivocators <- NoneSilent
    RivalPayloads <- TwoRivals
SPECIFICATION Spec
INVARIANT ShippingCompleteness
