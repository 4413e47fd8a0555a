------------------------------ MODULE Messages ------------------------------
(***************************************************************************)
(* The three protocol messages of src/blockchain: a block, a notarization *)
(* share and a finalization share.  A share names its block by the block  *)
(* itself (a block's id hashes all of its fields); signatures are left    *)
(* out, as honest replicas' signatures always verify.                     *)
(***************************************************************************)

\* blockchain.Block as it travels in a Block message.
BlockMsg(b) == [type |-> "block", block |-> b]

\* blockchain.MakeNShare
NShare(h, rk, v, id) ==
    [type |-> "nshare", height |-> h, rank |-> rk, voter |-> v, block |-> id]

\* blockchain.MakeFShare
FShare(h, rk, v, id) ==
    [type |-> "fshare", height |-> h, rank |-> rk, voter |-> v, block |-> id]

=============================================================================
