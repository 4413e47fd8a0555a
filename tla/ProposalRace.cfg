\* The driver's rank-1 proposal and the rank-0 leader's block at one height.
CONSTANTS
    B0 = B0
    B1 = B1
    None = None
SPECIFICATION Spec
INVARIANT FShareOnlyAfterSingleVote
