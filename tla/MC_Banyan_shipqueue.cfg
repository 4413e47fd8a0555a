CONSTANTS
    N <- MC_N
    F <- MC_F
    P <- MC_P
    MaxHeight = 2
    MaxRank <- RanksAtOne
    Genesis = Genesis
    None = None
    Silent <- MC_Silent
    Equivocators <- NoneSilent
    RivalPayloads <- TwoRivals
SPECIFICATION Spec
INVARIANT FinalizedTracked
