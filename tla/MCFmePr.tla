------------------------------ MODULE MCFmePr -------------------------------
(* FmePr on two threads and two ports.  Each image size is tried by the     *)
(* bounds of the configuration: one, two and three words, the empty image   *)
(* and the one whose aligned size wraps to zero.                            *)
EXTENDS FmePr
=============================================================================
