\* Height 1: replica 1, its honest rank-0 leader, proposes, and replica 4
\* (Byzantine) sends rival rank-0 blocks in replica 1's name to whichever
\* replicas it likes; ProcessBlock only logs their invalid signatures.
CONSTANTS
    N <- MC_N
    F <- MC_F
    P <- MC_P
    MaxHeight = 1
    MaxRank <- RanksH1
    Genesis = Genesis
    None = None
    Silent <- NoneSilent
    Equivocators <- MC_Forger
    RivalPayloads <- OneRival
SPECIFICATION Spec
INVARIANT FinalizedExcludesOtherNotarized
INVARIANT FinalizationJustified
