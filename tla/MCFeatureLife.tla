---------------------------- MODULE MCFeatureLife ----------------------------
(* A port with four of its six sub-features, used by two tasks.            *)
EXTENDS FeatureLife

MCPresent == {"hdr", "uafu", "err", "stp"}
=============================================================================
