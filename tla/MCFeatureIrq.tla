---------------------------- MODULE MCFeatureIrq ----------------------------
(* FeatureIrq with interchangeable eventfds.                               *)
EXTENDS FeatureIrq, TLC

Symmetry == Permutations(EventFds)
=============================================================================
