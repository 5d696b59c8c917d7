----------------------------- MODULE MCEnumerate -----------------------------
(* Enumerate on short feature lists.                                        *)
EXTENDS Enumerate
=============================================================================
