---------------------------- MODULE PortOwnership ----------------------------
(***************************************************************************)
(* What port management promises: at any time an FPGA port belongs to the  *)
(* host, which may open it any number of times, or to nobody, or to a      *)
(* virtual function; a virtual function never shares a port with users of  *)
(* the host, and a port changes hands only through "nobody".               *)
(***************************************************************************)
EXTENDS Naturals

CONSTANT Ports

VARIABLES owner,   \* who a port belongs to
          users,   \* how often it is open on the host
          bound    \* 1 until the driver is unbound from the device

ownVars == <<owner, users, bound>>

Init ==
  /\ owner = [p \in Ports |-> "host"]
  /\ users = [p \in Ports |-> 0]
  /\ bound = 1

Open(p) ==
  /\ owner[p] = "host"
  /\ users' = [users EXCEPT ![p] = @ + 1]
  /\ UNCHANGED <<owner, bound>>

Close(p) ==
  /\ users[p] > 0
  /\ users' = [users EXCEPT ![p] = @ - 1]
  /\ UNCHANGED <<owner, bound>>

\* FPGA_FME_PORT_RELEASE: only an unused port can be taken from the host.
Release(p) ==
  /\ bound = 1 /\ owner[p] = "host" /\ users[p] = 0
  /\ owner' = [owner EXCEPT ![p] = "none"]
  /\ UNCHANGED <<users, bound>>

\* FPGA_FME_PORT_ASSIGN: a port that nobody owns goes back to the host.
Assign(p) ==
  /\ bound = 1 /\ owner[p] = "none"
  /\ owner' = [owner EXCEPT ![p] = "host"]
  /\ UNCHANGED <<users, bound>>

\* Some unowned, unused ports are handed to virtual functions.
GiveToVfs(S) ==
  /\ bound = 1
  /\ \A p \in S : owner[p] = "none" /\ users[p] = 0
  /\ owner' = [p \in Ports |-> IF p \in S THEN "vf" ELSE owner[p]]
  /\ UNCHANGED <<users, bound>>

Taken == [p \in Ports |-> IF owner[p] = "vf" THEN "none" ELSE owner[p]]

\* All of them come back at once.
TakeFromVfs ==
  /\ owner' = Taken
  /\ UNCHANGED <<users, bound>>

\* Unbinding the driver takes the ports from the virtual functions first and
\* then withdraws the host's one by one; files that are open stay open.
Unbind ==
  /\ bound = 1 /\ bound' = 0
  /\ owner' = Taken
  /\ UNCHANGED users

Withdraw(p) ==
  /\ bound = 0
  /\ owner[p] = "host"
  /\ owner' = [owner EXCEPT ![p] = "none"]
  /\ UNCHANGED <<users, bound>>

Next ==
  \/ \E p \in Ports : \/ Open(p) \/ Close(p) \/ Release(p) \/ Assign(p)
                      \/ Withdraw(p)
  \/ \E S \in SUBSET Ports : GiveToVfs(S)
  \/ TakeFromVfs \/ Unbind

Spec == Init /\ [][Next]_ownVars
=============================================================================
