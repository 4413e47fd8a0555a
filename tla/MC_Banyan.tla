------------------------------ MODULE MC_Banyan ------------------------------
(* n = 4, f = 1, p = 1 (notarization, fast path and finalization all need  *)
(* 3 replicas), with replica 4 the one faulty replica, silent as the       *)
(* code's Byzantine strategy makes it.                                     *)
EXTENDS BanyanSystem

MC_N == 4
MC_F == 1
MC_P == 1
MC_Silent == {4}
NoneSilent == {}
\* Byzantine replicas that send rival blocks: replica 1, the leader of
\* height 1 at rank 0 (Rotation.IsLeader), or replica 4, which forges
\* them in the leader's name.
MC_Equivocators == {1}
MC_Forger == {4}
\* Payloads of rival blocks: two beside the honest proposal's, or one.
TwoRivals == {1, 2}
OneRival == {1}

\* Rank bounds per height: timeouts at height 1 only, or nowhere.
RanksNone == <<0, 0>>
RanksAtOne == <<1, 0>>
RanksBoth == <<1, 1>>
RanksH3 == <<1, 0, 0>>
RanksH1 == <<0>>
RanksH1R1 == <<1>>
=============================================================================
