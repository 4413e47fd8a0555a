\* Replica 4 silent, heights 1-2, one timeout at height 1: two competing
\* blocks at height 1, both of which every replica may vote for.
CONSTANTS
    N <- MC_N
    F <- MC_F
    P <- MC_P
    MaxHeight = 2
    MaxRank <- RanksAtOne
    Genesis = Genesis
    None = None
    Silent <- MC_Silent
    Equivocators <- NoneSilent
    RivalPayloads <- TwoRivals
SPECIFICATION Spec
INVARIANT TypeOK
INVARIANT NoForkAmongFinalized
INVARIANT FinalizedExcludesOtherNotarized
INVARIANT FinalizationJustified
PROPERTY CommitLogRefined
