\* Height 1, whose rank-0 leader (replica 1) is Byzantine and sends rival
\* rank-0 blocks to different replicas; replicas 2, 3 and 4 are honest.
CONSTANTS
    N <- MC_N
    F <- MC_F
    P <- MC_P
    MaxHeight = 1
    MaxRank <- RanksH1
    Genesis = Genesis
    None = None
    Silent <- NoneSilent
    Equivocators <- MC_Equivocators
    RivalPayloads <- TwoRivals
SPECIFICATION Spec
INVARIANT NoForkAmongFinalized
