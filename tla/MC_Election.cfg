\* Rotation among 4 replicas (the specification's scenarios), heights 1-12, ranks 0-9.
CONSTANTS
    N = 4
    MaxHeight = 12
    MaxRank = 9
SPECIFICATION Spec
INVARIANT LeaderAgrees
