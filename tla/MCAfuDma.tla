------------------------------ MODULE MCAfuDma ------------------------------
(* AfuDma for two tasks, of which one may exceed the limit on locked       *)
(* memory: they are not interchangeable.                                   *)
EXTENDS AfuDma
=============================================================================
