----------------------------- MODULE PortManage -----------------------------
(***************************************************************************)
(* Management of the ports of one FPGA device by its PCIe driver (pcie.c)  *)
(* and the open counts of the port device files (feature-dev.h).           *)
(*                                                                         *)
(* Actors: tasks that hold the FME's device file and release, re-assign or *)
(* reconfigure ports by ioctl; tasks that open and close the port device   *)
(* files; and the administrator, who writes sriov_numvfs and unbinds the   *)
(* driver.  drvdata->lock serialises the ioctls and the SR-IOV             *)
(* configuration, but neither the device files nor the removal of the      *)
(* devices on unbind take it.                                              *)
(*                                                                         *)
(* The state of a port's hardware (PortReset) is not needed here, and the  *)
(* order of the port list is abstracted: SR-IOV picks any released ports.  *)
(***************************************************************************)
EXTENDS Naturals, Integers, FiniteSets

CONSTANTS Ports,
          Threads,          \* tasks that hold the FME device file
          Admin,            \* the task that writes sriov_numvfs and unbinds
          NoThread,         \* owner of a free mutex
          NoPort,
          MaxFds,           \* bound on the open files of a port
          UnbindWhileOpen   \* may the driver be unbound while the FME is open?

ASSUME PortsAssumption == IsFiniteSet(Ports) /\ NoPort \notin Ports
ASSUME ThreadsAssumption ==
  Admin \notin Threads /\ NoThread \notin Threads \cup {Admin}
ASSUME BoundAssumption == MaxFds \in Nat /\ UnbindWhileOpen \in BOOLEAN

VARIABLES
  lock,               \* owner of drvdata->lock
  pc,                 \* where each FME task is
  arg,                \* the port it works on
  admin,              \* where the administrator is
  want,               \* num_vfs argument of cci_pci_sriov_configure
  fme_open,           \* is some FME device file open?
  open_count, excl_open, \* pdata->open_count and excl_open of each port
  fds,                \* open files of each port's device
  registered,         \* ports with device_is_registered()
  port_dev_list,      \* drvdata->port_dev_list
  released_port_num,  \* drvdata->released_port_num
  vf,                 \* ports with afu_access_control = FME_AFU_ACCESS_VF
  num_vfs,            \* virtual functions the PCI core has enabled
  refs                \* references to each port device taken by this driver

useVars == <<open_count, excl_open, fds>>
portVars == <<registered, port_dev_list, released_port_num, refs>>
vfVars == <<vf, num_vfs, want>>
vars == <<lock, pc, arg, admin, fme_open, useVars, portVars, vfVars>>

ThreadPc == {"idle", "detach", "attach", "pr"}
AdminPc == {"idle", "sriov", "unbind", "childless", "orphaned", "gone"}

TypeOK ==
  /\ lock \in Threads \cup {Admin, NoThread}
  /\ pc \in [Threads -> ThreadPc]
  /\ arg \in [Threads -> Ports \cup {NoPort}]
  /\ admin \in AdminPc
  /\ want \in Nat
  /\ fme_open \in {0, 1}
  /\ open_count \in [Ports -> Nat]
  /\ excl_open \in [Ports -> {0, 1}]
  /\ fds \in [Ports -> Nat]
  /\ registered \subseteq Ports
  /\ port_dev_list \subseteq Ports
  /\ released_port_num \in Nat
  /\ vf \subseteq Ports
  /\ num_vfs \in Nat
  /\ refs \in [Ports -> Nat]

\* After cci_pci_probe: every port is registered and on the list, which holds
\* a reference of its own (cci_pci_add_port_dev).
Init ==
  /\ lock = NoThread
  /\ pc = [t \in Threads |-> "idle"]
  /\ arg = [t \in Threads |-> NoPort]
  /\ admin = "idle"
  /\ want = 0
  /\ fme_open = 0
  /\ open_count = [p \in Ports |-> 0]
  /\ excl_open = [p \in Ports |-> 0]
  /\ fds = [p \in Ports |-> 0]
  /\ registered = Ports
  /\ port_dev_list = Ports
  /\ released_port_num = 0
  /\ vf = {}
  /\ num_vfs = 0
  /\ refs = [p \in Ports |-> 2]

-----------------------------------------------------------------------------
(* The use counts of a port, each called under the port's own lock.        *)

\* Mutant: the claim does not look for other users.
use_excl_begin_unchecked(p) ==
  /\ excl_open' = [excl_open EXCEPT ![p] = 1]
  /\ open_count' = [open_count EXCEPT ![p] = @ + 1]

feature_dev_use_excl_begin(p) ==
  /\ open_count[p] = 0
  /\ excl_open' = [excl_open EXCEPT ![p] = 1]
  /\ open_count' = [open_count EXCEPT ![p] = @ + 1]

\* Mutant: an exclusive open does not keep others out.
use_begin_shared(p) ==
  /\ open_count' = [open_count EXCEPT ![p] = @ + 1]
  /\ UNCHANGED excl_open

feature_dev_use_begin(p) ==
  /\ excl_open[p] = 0
  /\ open_count' = [open_count EXCEPT ![p] = @ + 1]
  /\ UNCHANGED excl_open

__feature_dev_use_end(p) ==
  /\ excl_open' = [excl_open EXCEPT ![p] = 0]
  /\ open_count' = [open_count EXCEPT ![p] = @ - 1]

get_device(p) == refs' = [refs EXCEPT ![p] = @ + 1]
put_device(p) == refs' = [refs EXCEPT ![p] = @ - 1]

\* afu_open, with O_EXCL and without: the character device exists from the
\* probe to the removal of the port device.
afu_open(p) ==
  /\ p \in registered
  /\ fds[p] < MaxFds
  /\ \/ feature_dev_use_excl_begin(p)
     \/ feature_dev_use_begin(p)
  /\ fds' = [fds EXCEPT ![p] = @ + 1]
  /\ UNCHANGED <<lock, pc, arg, admin, fme_open, portVars, vfVars>>

afu_release(p) ==
  /\ fds[p] > 0
  /\ __feature_dev_use_end(p)
  /\ fds' = [fds EXCEPT ![p] = @ - 1]
  /\ UNCHANGED <<lock, pc, arg, admin, fme_open, portVars, vfVars>>

-----------------------------------------------------------------------------
(* The FME device file and its ioctls.                                     *)

fme_opened ==
  /\ fme_open = 0
  /\ admin \in {"idle", "sriov"}
  /\ fme_open' = 1
  /\ UNCHANGED <<lock, pc, arg, admin, useVars, portVars, vfVars>>

fme_released ==
  /\ fme_open = 1
  /\ \A t \in Threads : pc[t] = "idle"
  /\ fme_open' = 0
  /\ UNCHANGED <<lock, pc, arg, admin, useVars, portVars, vfVars>>

\* A task enters an ioctl that takes drvdata->lock.
Enter(t, p, step) ==
  /\ fme_open = 1
  /\ pc[t] = "idle"
  /\ lock = NoThread
  /\ admin # "gone"
  /\ p \in port_dev_list
  /\ pc' = [pc EXCEPT ![t] = step]
  /\ arg' = [arg EXCEPT ![t] = p]

Leave(t) ==
  /\ pc' = [pc EXCEPT ![t] = "idle"]
  /\ arg' = [arg EXCEPT ![t] = NoPort]

\* detach_port_dev: an unused port is claimed exclusively ...
detach_port_dev(t, p) ==
  /\ Enter(t, p, "detach")
  /\ lock' = t
  /\ p \in registered
  /\ feature_dev_use_excl_begin(p)
  /\ UNCHANGED <<admin, fme_open, fds, portVars, vfVars>>

\* ... and its device deleted.
detach_port_dev_del(t) ==
  /\ pc[t] = "detach"
  /\ registered' = registered \ {arg[t]}
  /\ put_device(arg[t])
  /\ released_port_num' = released_port_num + 1
  /\ lock' = NoThread
  /\ Leave(t)
  /\ UNCHANGED <<admin, fme_open, useVars, port_dev_list, vfVars>>

\* Mutant: the device may be registered still.
may_attach_registered(p) == p \notin vf

may_attach(p) == p \notin vf /\ p \notin registered

\* attach_port_dev: refused for a port that is a VF's or still registered;
\* otherwise the device is added again (this probes it) ...
attach_port_dev(t, p) ==
  /\ Enter(t, p, "attach")
  /\ lock' = t
  /\ may_attach(p)
  /\ admin # "orphaned"
  /\ registered' = registered \cup {p}
  /\ UNCHANGED <<admin, fme_open, useVars, port_dev_list, released_port_num,
                 refs, vfVars>>

\* ... and the exclusive claim given up.
attach_port_dev_end(t) ==
  /\ pc[t] = "attach"
  /\ get_device(arg[t])
  /\ __feature_dev_use_end(arg[t])
  /\ released_port_num' = released_port_num - 1
  /\ lock' = NoThread
  /\ Leave(t)
  /\ UNCHANGED <<admin, fme_open, fds, registered, port_dev_list, vfVars>>

\* Mutant: no reference is taken.
for_each_port_unreferenced(t, p) ==
  /\ Enter(t, p, "pr")
  /\ \A u \in Threads : pc[u] # "pr"
  /\ UNCHANGED <<lock, admin, fme_open, useVars, portVars, vfVars>>

\* fme_pr finds the port with fpga_for_each_port, which takes a reference
\* under drvdata->lock, and works on it without that lock.  The FME's own
\* lock admits one reconfiguration at a time.
fpga_for_each_port(t, p) ==
  /\ Enter(t, p, "pr")
  /\ \A u \in Threads : pc[u] # "pr"
  /\ get_device(p)
  /\ UNCHANGED <<lock, admin, fme_open, useVars, registered, port_dev_list,
                 released_port_num, vfVars>>

fme_pr_put(t) ==
  /\ pc[t] = "pr"
  /\ put_device(arg[t])
  /\ Leave(t)
  /\ UNCHANGED <<lock, admin, fme_open, useVars, registered, port_dev_list,
                 released_port_num, vfVars>>

-----------------------------------------------------------------------------
(* SR-IOV.  The PCI core calls with n > 0 only while no VF is enabled.     *)

Released == port_dev_list \ registered

\* The first n released ports of the list are turned over to VFs ...
cci_pci_sriov_configure(n) ==
  /\ admin = "idle" /\ lock = NoThread
  /\ num_vfs = 0 /\ n > 0
  /\ released_port_num >= n
  /\ \E S \in SUBSET Released :
       /\ Cardinality(S) = n \/ (Cardinality(S) < n /\ S = Released)
       /\ vf' = vf \cup S
  /\ admin' = "sriov"
  /\ want' = n
  /\ lock' = Admin
  /\ UNCHANGED <<pc, arg, fme_open, useVars, portVars, num_vfs>>

\* ... then pci_enable_sriov succeeds, ...
sriov_enabled ==
  /\ admin = "sriov"
  /\ num_vfs' = want
  /\ admin' = "idle" /\ lock' = NoThread
  /\ UNCHANGED <<pc, arg, fme_open, useVars, portVars, vf, want>>

\* Mutant: the ports stay turned to VF.
sriov_failed_kept ==
  /\ admin = "sriov"
  /\ admin' = "idle" /\ lock' = NoThread
  /\ UNCHANGED <<pc, arg, fme_open, useVars, portVars, vfVars>>

\* ... or fails, and every released port is turned back.
sriov_failed ==
  /\ admin = "sriov"
  /\ vf' = vf \ Released
  /\ admin' = "idle" /\ lock' = NoThread
  /\ UNCHANGED <<pc, arg, fme_open, useVars, portVars, num_vfs, want>>

sriov_disable(next) ==
  /\ admin = "idle" /\ lock = NoThread
  /\ num_vfs' = 0
  /\ vf' = vf \ Released
  /\ admin' = next
  /\ UNCHANGED <<lock, pc, arg, fme_open, useVars, portVars, want>>

sriov_off == num_vfs > 0 /\ sriov_disable("idle")

-----------------------------------------------------------------------------
(* Unbinding: cci_pci_remove.                                              *)

\* Virtual functions are disabled first.
cci_pci_remove ==
  /\ UnbindWhileOpen \/ fme_open = 0
  /\ sriov_disable("unbind")

\* remove_all_devs unregisters the port devices one by one, without the lock.
remove_feature_dev(p) ==
  /\ admin = "unbind"
  /\ p \in registered
  /\ registered' = registered \ {p}
  /\ put_device(p)
  /\ UNCHANGED <<lock, pc, arg, admin, fme_open, useVars, port_dev_list,
                 released_port_num, vfVars>>

\* The loop over the parent's children ends, ...
remove_parent_dev ==
  /\ admin = "unbind"
  /\ registered = {}
  /\ admin' = "childless"
  /\ UNCHANGED <<lock, pc, arg, fme_open, useVars, portVars, vfVars>>

\* ... and device_unregister(parent) follows: no device can be added to it
\* any more.
remove_parent_dev_end ==
  /\ admin = "childless"
  /\ admin' = "orphaned"
  /\ UNCHANGED <<lock, pc, arg, fme_open, useVars, portVars, vfVars>>

\* destroy_drvdata empties the port list.
cci_pci_remove_port_devs ==
  /\ admin = "orphaned" /\ lock = NoThread
  /\ port_dev_list' = {}
  /\ refs' = [p \in Ports |-> IF p \in port_dev_list THEN refs[p] - 1 ELSE refs[p]]
  /\ admin' = "gone"
  /\ UNCHANGED <<lock, pc, arg, fme_open, useVars, registered,
                 released_port_num, vfVars>>

-----------------------------------------------------------------------------
Next ==
  \/ \E p \in Ports : afu_open(p) \/ afu_release(p)
  \/ fme_opened \/ fme_released
  \/ \E t \in Threads, p \in Ports :
       detach_port_dev(t, p) \/ attach_port_dev(t, p) \/ fpga_for_each_port(t, p)
  \/ \E t \in Threads :
       detach_port_dev_del(t) \/ attach_port_dev_end(t) \/ fme_pr_put(t)
  \/ \E n \in 1..Cardinality(Ports) : cci_pci_sriov_configure(n)
  \/ sriov_enabled \/ sriov_failed \/ sriov_off
  \/ cci_pci_remove
  \/ \E p \in Ports : remove_feature_dev(p)
  \/ remove_parent_dev \/ remove_parent_dev_end \/ cci_pci_remove_port_devs

Spec == Init /\ [][Next]_vars

-----------------------------------------------------------------------------
(* Properties.                                                             *)

Bound == admin \in {"idle", "sriov"}

Works(step, p) == \E t \in Threads : pc[t] = step /\ arg[t] = p

One(b) == IF b THEN 1 ELSE 0

\* Port release claims a port exclusively from its first step until the
\* re-assignment that undoes it has ended.
Claimed(p) == p \in Released \/ Works("detach", p) \/ Works("attach", p)

\* The open count of a port is its open files plus the claim of port release,
\* and an exclusive open, the claim included, excludes every other one.
UseCounted ==
  \A p \in Ports :
    /\ Bound => open_count[p] = fds[p] + One(Claimed(p))
    /\ Bound /\ Claimed(p) => excl_open[p] = 1
    /\ excl_open[p] = 1 => open_count[p] = 1

\* Outside the locked sections the released-port counter is right, and every
\* enabled virtual function has a port.  A port that was handed to a virtual
\* function is at no time registered with the host, and none of its files are
\* open.
VfPortsCounted ==
  /\ Bound /\ lock = NoThread =>
       /\ released_port_num = Cardinality(Released)
       /\ num_vfs = Cardinality(vf)
  /\ \A p \in vf : p \notin registered /\ fds[p] = 0

\* The references the driver holds on a port device: one for the list, one
\* while it is registered (attach takes it last) and one for the
\* reconfiguration that works on it.  Nothing is leaked or freed early.
RefsBalanced ==
  \A p \in Ports :
    refs[p] + One(Works("attach", p))
      = One(p \in port_dev_list) + One(p \in registered) + One(Works("pr", p))

\* pcie.c, cci_pci_remove_port_devs: "the port should be unregistered first."
UnregisteredFirst ==
  [][port_dev_list' # port_dev_list => registered \cap port_dev_list = {}]_vars

\* Port management implements the ownership of ports: a port is a VF's while
\* the access bit says so, the host's while its device is registered.
Ownership == INSTANCE PortOwnership
  WITH owner <- [p \in Ports |-> IF p \in vf THEN "vf"
                                ELSE IF p \in registered THEN "host" ELSE "none"],
       users <- fds,
       bound <- One(Bound)

OwnershipSpec == Ownership!Spec
=============================================================================
