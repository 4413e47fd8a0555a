------------------------------ MODULE CommitLog ------------------------------
(***************************************************************************)
(* What a replica's committed output promises (spec 8.5 and the purpose  *)
(* of the protocol): each replica's log only grows, is a chain of blocks  *)
(* from genesis (each block's parent is the block before it, heights      *)
(* strictly increase), and is a prefix of one sequence all replicas       *)
(* share.  chain is that shared sequence: the longest log delivered so    *)
(* far.  A step extends one replica's log by one or more blocks.          *)
(***************************************************************************)
EXTENDS Integers, Sequences, SequencesExt

CONSTANTS
    Replicas,   \* the replicas whose output is observed
    Genesis     \* the parent of the first block

VARIABLES
    chain,      \* the decided sequence of blocks
    log         \* log[r]: the blocks replica r has delivered, in order

\* A sequence of blocks that starts at genesis and extends block by block.
IsChainFromGenesis(seq) ==
    \A i \in 1..Len(seq) :
        IF i = 1 THEN seq[1].prev = Genesis
        ELSE seq[i].prev = seq[i - 1] /\ seq[i].height > seq[i - 1].height

Init ==
    /\ chain = <<>>
    /\ log = [r \in Replicas |-> <<>>]

\* Replica r delivers more blocks; whatever goes past the decided sequence
\* is decided with it.
Extend(r) ==
    /\ DOMAIN log' = Replicas
    /\ \A q \in Replicas \ {r} : log'[q] = log[q]
    /\ Len(log'[r]) > Len(log[r])
    /\ IsPrefix(log[r], log'[r])
    /\ IsChainFromGenesis(log'[r])
    /\ chain' = IF Len(log'[r]) > Len(chain) THEN log'[r] ELSE chain
    /\ IsPrefix(log'[r], chain')
    /\ IsPrefix(chain, chain')

Next == \E r \in Replicas : Extend(r)

Spec == Init /\ [][Next]_<<chain, log>>

=============================================================================
