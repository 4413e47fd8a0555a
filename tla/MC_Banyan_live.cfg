\* Replica 4 silent, heights 1-2, no timeouts, every enabled step taken.
CONSTANTS
    N <- MC_N
    F <- MC_F
    P <- MC_P
    MaxHeight = 2
    MaxRank <- RanksNone
    Genesis = Genesis
    None = None
    Silent <- MC_Silent
    Equivocators <- NoneSilent
    RivalPayloads <- TwoRivals
SPECIFICATION FairSpec
PROPERTY AllCommitEveryHeight
