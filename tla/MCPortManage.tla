---------------------------- MODULE MCPortManage ----------------------------
(* Constants for the TLC runs of PortManage. *)
EXTENDS PortManage
CONSTANTS p1, p2, p3, t1, t2
MCPorts == {p1, p2, p3}
MCThreads == {t1, t2}
=============================================================================
