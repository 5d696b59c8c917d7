----------------------------- MODULE FeatureLife -----------------------------
(***************************************************************************)
(* The life of a port's feature device: probe, use and removal (afu.c,     *)
(* feature-dev.c, region.c).                                               *)
(*                                                                         *)
(* The probe allocates the private data, initialises the sub-features one  *)
(* by one and adds the character device; the removal undoes this, the      *)
(* sub-features first.  Meanwhile tasks open the file, issue ioctls, which *)
(* are dispatched to the sub-features through their operations, and use    *)
(* the sysfs files the sub-features created.                               *)
(*                                                                         *)
(* The device is deleted when the FME releases the port, which needs an    *)
(* exclusive claim on it (PortManage), and added again when it assigns the *)
(* port back.  Unbinding the PCIe driver, which deletes it without a       *)
(* claim, is not part of this module.                                      *)
(*                                                                         *)
(* Every section that holds pdata->lock is one step.  External: removing a *)
(* sysfs file keeps new callbacks out and waits for those in progress.     *)
(***************************************************************************)
EXTENDS Naturals, FiniteSets, Sequences

CONSTANTS Threads,
          Present     \* the sub-features enumeration found on the port

VARIABLES
  dev,           \* the platform device: added, deleting, deleted, adding
  drv, at,       \* where probe or removal is, and at which sub-feature
  private,       \* pdata->private: 0 is the null pointer
  regions,       \* afu->regions, as the indices of the regions
  ops,           \* sub-features with feature->ops set
  groups,        \* sub-features whose sysfs files exist
  cdev,          \* is the character device there?
  open_count, excl_open, files,  \* of pdata; files: the tasks with an open file
  claimed,       \* does the release of the port hold the exclusive claim?
  pc, feature,   \* where each task is, and at which sub-feature
  oops           \* was a null pointer used?

useVars == <<open_count, excl_open, files, claimed>>
devVars == <<dev, drv, at, private, regions, ops, groups, cdev>>
callVars == <<pc, feature, oops>>
vars == <<devVars, useVars, callVars>>

\* The drivers of the sub-features in the order their init is called, the
\* sub-features in the order of pdata->features, and what their operations do.
port_feature_drvs == <<"hdr", "uafu", "err", "umsg", "uint", "stp">>
port_features == <<"hdr", "err", "umsg", "uint", "stp", "uafu">>
HasSysfs  == {"hdr", "uafu", "err"}
HasRegion == {"uafu", "stp"}
HasIoctl  == {"hdr", "err", "umsg", "uint"}

Drvs == DOMAIN port_feature_drvs
Done == Len(port_feature_drvs) + 1

ASSUME PresentAssumption == Present \subseteq {port_feature_drvs[i] : i \in Drvs}

TypeOK ==
  /\ dev \in {"added", "deleting", "deleted", "adding"}
  /\ drv \in {"unbound", "init", "ops", "uinit", "drain", "bound"}
  /\ at \in 1..Done
  /\ private \in {0, 1} /\ cdev \in {0, 1} /\ claimed \in {0, 1}
  /\ regions \in Seq(HasRegion)
  /\ ops \subseteq Present /\ groups \subseteq Present \cap HasSysfs
  /\ files \subseteq Threads
  /\ open_count = Cardinality(files) + claimed /\ excl_open \in {0, 1}
  /\ pc \in [Threads -> {"idle", "call", "body", "callback"}]
  /\ feature \in [Threads -> Present \cup {"none"}]
  /\ oops \in BOOLEAN

\* build_info_commit_dev adds the device for the first time.
Init ==
  /\ dev = "adding" /\ drv = "unbound" /\ at = 1
  /\ private = 0 /\ regions = <<>> /\ ops = {} /\ groups = {} /\ cdev = 0
  /\ open_count = 0 /\ excl_open = 0 /\ files = {} /\ claimed = 0
  /\ pc = [t \in Threads |-> "idle"]
  /\ feature = [t \in Threads |-> "none"]
  /\ oops = FALSE

-----------------------------------------------------------------------------
(* Probe.                                                                  *)

\* The sub-feature whose turn it is: init goes by drivers, uinit by features.
Turn == port_feature_drvs[at]
UinitTurn == port_features[at]

\* afu_dev_init; without memory the probe ends here.
afu_probe ==
  /\ dev = "adding" /\ drv = "unbound" /\ at = 1
  /\ \/ /\ private' = 1 /\ regions' = <<>>
        /\ drv' = "init"
        /\ UNCHANGED at
     \/ at' = Done /\ UNCHANGED <<drv, private, regions>>
  /\ UNCHANGED <<dev, ops, groups, cdev, useVars, callVars>>

\* afu_region_add, for the sub-features that have one.
afu_region_add(f) ==
  regions' = IF f \in HasRegion THEN <<f>> \o regions ELSE regions

\* fpga_dev_feature_init: the init operation of the next sub-feature ...
feature_instance_init ==
  /\ drv = "init" /\ at < Done /\ Turn \in Present
  /\ afu_region_add(Turn)
  /\ groups' = groups \cup ({Turn} \cap HasSysfs)
  /\ drv' = "ops"
  /\ UNCHANGED <<dev, at, private, ops, cdev, useVars, callVars>>

\* ... which makes its operations visible ...
feature_ops_set ==
  /\ drv = "ops"
  /\ ops' = ops \cup {Turn}
  /\ at' = at + 1
  /\ drv' = "init"
  /\ UNCHANGED <<dev, private, regions, groups, cdev, useVars, callVars>>

feature_absent ==
  /\ drv = "init" /\ at < Done /\ Turn \notin Present
  /\ at' = at + 1
  /\ UNCHANGED <<dev, drv, private, regions, ops, groups, cdev, useVars, callVars>>

\* Mutant: the sub-features initialised so far are left as they are.
init_fails_kept ==
  /\ drv = "init" /\ at < Done /\ Turn \in Present
  /\ drv' = "uinit" /\ at' = Done
  /\ UNCHANGED <<dev, private, regions, ops, groups, cdev, useVars, callVars>>

\* ... or which fails, to add the region or, with the region added, to create
\* the sysfs files: all sub-features are undone.
feature_init_fails ==
  /\ drv = "init" /\ at < Done /\ Turn \in Present
  /\ \/ Turn \in HasRegion /\ UNCHANGED regions
     \/ Turn \in HasSysfs /\ afu_region_add(Turn)
  /\ drv' = "uinit" /\ at' = 1
  /\ UNCHANGED <<dev, private, ops, groups, cdev, useVars, callVars>>

fpga_register_dev_ops ==
  /\ drv = "init" /\ at = Done
  /\ \/ cdev' = 1 /\ drv' = "bound" /\ UNCHANGED at
     \/ drv' = "uinit" /\ at' = 1 /\ UNCHANGED cdev
  /\ UNCHANGED <<dev, private, regions, ops, groups, useVars, callVars>>

\* Mutant: the count of the claim is not given back.
attach_end_counted ==
  /\ dev = "adding"
  /\ drv = "bound" \/ (drv = "unbound" /\ at = Done)
  /\ dev' = "added"
  /\ claimed' = 0
  /\ excl_open' = IF claimed = 1 THEN 0 ELSE excl_open
  /\ UNCHANGED <<drv, at, private, regions, ops, groups, cdev, open_count, files, callVars>>

\* The probe is over, successful or not: attach_port_dev gives up its claim.
attach_port_dev_end ==
  /\ dev = "adding"
  /\ drv = "bound" \/ (drv = "unbound" /\ at = Done)
  /\ dev' = "added"
  /\ claimed' = 0
  /\ open_count' = open_count - claimed
  /\ excl_open' = IF claimed = 1 THEN 0 ELSE excl_open
  /\ UNCHANGED <<drv, at, private, regions, ops, groups, cdev, files, callVars>>

-----------------------------------------------------------------------------
(* Removal.                                                                *)

\* Mutant: the port is taken away although its file is open.
detach_unclaimed ==
  /\ dev = "added"
  /\ claimed' = 1 /\ open_count' = open_count + 1 /\ excl_open' = 1
  /\ dev' = "deleting"
  /\ IF drv = "bound" THEN drv' = "uinit" /\ at' = 1 ELSE UNCHANGED <<drv, at>>
  /\ UNCHANGED <<private, regions, ops, groups, cdev, files, callVars>>

\* detach_port_dev claims the port and deletes the device, which calls
\* afu_remove if the device was bound.
detach_port_dev ==
  /\ dev = "added"
  /\ open_count = 0
  /\ claimed' = 1 /\ open_count' = 1 /\ excl_open' = 1
  /\ dev' = "deleting"
  /\ IF drv = "bound" THEN drv' = "uinit" /\ at' = 1 ELSE UNCHANGED <<drv, at>>
  /\ UNCHANGED <<private, regions, ops, groups, cdev, files, callVars>>

\* Mutant: the sysfs files are still there while their callbacks drain.
uinit_visible ==
  /\ drv = "uinit" /\ at < Done
  /\ IF UinitTurn \in ops
     THEN drv' = "drain" /\ UNCHANGED at
     ELSE at' = at + 1 /\ UNCHANGED drv
  /\ UNCHANGED <<dev, private, regions, ops, groups, cdev, useVars, callVars>>

\* fpga_dev_feature_uinit: the uinit operation removes the sysfs files of the
\* next sub-feature that has its operations set ...
fpga_dev_feature_uinit ==
  /\ drv = "uinit" /\ at < Done
  /\ IF UinitTurn \in ops
     THEN drv' = "drain" /\ groups' = groups \ {UinitTurn} /\ UNCHANGED at
     ELSE at' = at + 1 /\ UNCHANGED <<drv, groups>>
  /\ UNCHANGED <<dev, private, regions, ops, cdev, useVars, callVars>>

\* ... and returns when none of their callbacks is running.
feature_uinit_end ==
  /\ drv = "drain"
  /\ \A t \in Threads : ~(pc[t] = "callback" /\ feature[t] = UinitTurn)
  /\ ops' = ops \ {UinitTurn}
  /\ groups' = groups \ {UinitTurn}
  /\ at' = at + 1
  /\ drv' = "uinit"
  /\ UNCHANGED <<dev, private, regions, cdev, useVars, callVars>>

\* fpga_unregister_dev_ops and afu_dev_destroy.
afu_dev_destroy ==
  /\ drv = "uinit" /\ at = Done
  /\ cdev' = 0 /\ private' = 0 /\ regions' = <<>>
  /\ drv' = "unbound"
  /\ UNCHANGED <<dev, at, ops, groups, useVars, callVars>>

detach_port_dev_del ==
  /\ dev = "deleting" /\ drv = "unbound"
  /\ dev' = "deleted"
  /\ UNCHANGED <<drv, at, private, regions, ops, groups, cdev, useVars, callVars>>

attach_port_dev ==
  /\ dev = "deleted"
  /\ dev' = "adding" /\ at' = 1
  /\ UNCHANGED <<drv, private, regions, ops, groups, cdev, useVars, callVars>>

-----------------------------------------------------------------------------
(* Use.                                                                    *)

afu_open(t) ==
  /\ cdev = 1 /\ t \notin files /\ pc[t] = "idle"
  /\ excl_open = 0
  /\ \/ open_count = 0 /\ excl_open' = 1
     \/ UNCHANGED excl_open
  /\ open_count' = open_count + 1
  /\ files' = files \cup {t}
  /\ UNCHANGED <<claimed, devVars, callVars>>

\* The last close goes through the private data (afu_dma_region_destroy).
afu_release(t) ==
  /\ t \in files /\ pc[t] = "idle"
  /\ open_count' = open_count - 1 /\ excl_open' = 0
  /\ files' = files \ {t}
  /\ oops' = (oops \/ (open_count = 1 /\ private = 0))
  /\ UNCHANGED <<claimed, devVars, pc, feature>>

Returns(t) ==
  /\ pc' = [pc EXCEPT ![t] = "idle"]
  /\ feature' = [feature EXCEPT ![t] = "none"]

\* The loop of afu_ioctl goes on to the next sub-feature whose operations are
\* set and have an ioctl, or ends with -EINVAL.
fpga_dev_for_each_feature(t) ==
  LET Pos(f) == IF f = "none" THEN 0
                ELSE CHOOSE i \in Drvs : port_features[i] = f
      Rest == {f \in ops \cap HasIoctl : Pos(f) > Pos(feature[t])}
  IN  IF Rest = {} THEN Returns(t)
      ELSE \E f \in Rest :
             /\ \A g \in Rest : Pos(f) <= Pos(g)
             /\ pc' = [pc EXCEPT ![t] = "call"]
             /\ feature' = [feature EXCEPT ![t] = f]

\* A command of the port itself, or one for the sub-features.
afu_ioctl(t) ==
  /\ t \in files /\ pc[t] = "idle"
  /\ \/ pc' = [pc EXCEPT ![t] = "body"] /\ UNCHANGED feature
     \/ fpga_dev_for_each_feature(t)
  /\ UNCHANGED <<devVars, useVars, oops>>

\* feature->ops is read again for the call; the sub-feature handles the command
\* or returns -ENODEV.
ioctl_call(t) ==
  /\ pc[t] = "call"
  /\ oops' = (oops \/ feature[t] \notin ops)
  /\ \/ pc' = [pc EXCEPT ![t] = "body"] /\ UNCHANGED feature
     \/ fpga_dev_for_each_feature(t)
  /\ UNCHANGED <<devVars, useVars>>

\* The command uses the private data under pdata->lock.
ioctl_body(t) ==
  /\ pc[t] = "body"
  /\ oops' = (oops \/ private = 0)
  /\ Returns(t)
  /\ UNCHANGED <<devVars, useVars>>

\* A sysfs file of f is read or written; this needs no open device file.
SysfsBegin(t, f) ==
  /\ pc[t] = "idle" /\ f \in groups
  /\ pc' = [pc EXCEPT ![t] = "callback"]
  /\ feature' = [feature EXCEPT ![t] = f]
  /\ UNCHANGED <<devVars, useVars, oops>>

SysfsEnd(t) ==
  /\ pc[t] = "callback"
  /\ Returns(t)
  /\ UNCHANGED <<devVars, useVars, oops>>

-----------------------------------------------------------------------------
Driver ==
  \/ afu_probe \/ feature_instance_init \/ feature_ops_set \/ feature_absent
  \/ feature_init_fails \/ fpga_register_dev_ops \/ attach_port_dev_end
  \/ fpga_dev_feature_uinit \/ feature_uinit_end \/ afu_dev_destroy
  \/ detach_port_dev_del

Ends(t) == ioctl_call(t) \/ ioctl_body(t) \/ SysfsEnd(t)

Next ==
  \/ Driver \/ detach_port_dev \/ attach_port_dev
  \/ \E t \in Threads :
       \/ afu_open(t) \/ afu_release(t) \/ afu_ioctl(t) \/ Ends(t)
       \/ \E f \in Present : SysfsBegin(t, f)

\* Probe and removal go on, and so does a call once it is in the driver.
Fairness == WF_vars(Driver) /\ \A t \in Threads : WF_vars(Ends(t))

Spec == Init /\ [][Next]_vars /\ Fairness

-----------------------------------------------------------------------------
(* Properties.                                                             *)

\* What a task uses is there: no ioctl, dispatched to a sub-feature or not, and
\* no last close meets operations or private data that the removal took away,
\* and a sysfs callback only runs while its sub-feature's device has its private
\* data.  The exclusive claim of detach_port_dev is what makes it so, since
\* afu_remove takes the sub-features away before the character device.
ReadyWhenUsed ==
  /\ ~oops
  /\ \A t \in Threads : pc[t] = "callback" => private = 1

\* Whatever failed on the way, an unbound device has no operations set, no sysfs
\* files, no regions, no private data and no character device; a bound one has
\* each sub-feature of the port initialised once.
NothingLeft ==
  /\ drv = "unbound" =>
       ops = {} /\ groups = {} /\ regions = <<>> /\ private = 0 /\ cdev = 0
  /\ drv = "bound" =>
       /\ ops = Present /\ groups = Present \cap HasSysfs
       /\ Len(regions) = Cardinality(Present \cap HasRegion)

\* Releasing a port ends: its removal waits for sysfs callbacks only as long as
\* those that had begun take.
RemovalEnds == dev = "deleting" ~> dev = "deleted"
=============================================================================
