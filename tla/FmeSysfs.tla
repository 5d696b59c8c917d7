------------------------------ MODULE FmeSysfs ------------------------------
(***************************************************************************)
(* The FME's sub-features with sysfs files, together: performance          *)
(* counters, thermal and power management and global errors share          *)
(* pdata->lock, and their files come and go with the FME device            *)
(* (fme_probe, fme_remove and the init and uinit operations of the         *)
(* sub-features).                                                          *)
(*                                                                         *)
(* External: to remove a sysfs directory is to keep new callbacks out and  *)
(* then to wait for those in progress.                                     *)
(***************************************************************************)
EXTENDS FmePerf, FmeMgmt, FmeError, SequencesExt

CONSTANT Slices      \* bound: the directories and error registers that
                     \* a behaviour uses together

VARIABLES
  phase,       \* of the device: unbound, init, bound, uinit, destroy
  at,          \* index of the driver (init) or the sub-feature (uinit)
  cur,         \* the sub-feature that is created or destroyed
  made,        \* its directories that exist, parents before children
  draining,    \* is the removal of the last one waiting for callbacks?
  ready,       \* the sub-features with feature->ops set
  mem,         \* the directories whose objects are allocated
  iommu        \* iommu_support of the FME's capability register

lifeVars == <<phase, at, cur, made, draining, ready, mem, iommu, lock_bit>>
vars == <<lock, reg, want, job, shown, inUse, started, ctr, errs, occurred, lifeVars>>

\* The order of init, by drivers, and of uinit, by sub-feature ids.
fme_feature_drvs == <<"thermal", "power", "err", "iperf", "dperf">>
fme_features == <<"thermal", "power", "iperf", "err", "dperf">>
Done == Len(fme_feature_drvs) + 1

\* The object tree of fme-iperf.c below the FME, parents before children.
create_perf_iommu_obj == IF iommu THEN <<"iommu", "afu0">> ELSE <<>>
create_perf_fabric_obj == <<"fabric", "port0">>
fme_iperf_objs == <<"iperf">> \o create_perf_iommu_obj \o create_perf_fabric_obj
fme_dperf_objs == <<"dperf", "dfabric", "dport0">>

\* The directories of each sub-feature in the order they are created.
Dirs(f) ==
  CASE f = "thermal" -> <<"thermal">>
    [] f = "power" -> <<"power">>
    [] f = "err" -> <<"errors">>
    [] f = "iperf" -> fme_iperf_objs
    [] f = "dperf" -> fme_dperf_objs

AllDirs == UNION {ToSet(Dirs(fme_features[i])) : i \in DOMAIN fme_features}
ErrInit == [ras_error_inj |-> [data |-> 0]]

TypeOK ==
  /\ lock \in Tasks \cup {NoTask, Remover}
  /\ \A c \in Counters : reg[UnitOf(c)].event \in Events /\ ctr[c] \in Events
  /\ \A f \in Fabrics : reg[f].filter \in {0, 1} /\ reg[f].port \in Nat
  /\ \A n \in {"thshold1", "thshold2"} : reg.tmp_threshold[n] \in 0..TEMP_MAX
  /\ \A n \in {"threshold1", "threshold2"} :
       reg.pm_ap_threshold[n] \in 0..PWR_THRESHOLD_MAX
  /\ reg.tmp_threshold.policy \in {0, 1}
  /\ reg.ras_error_inj.data \in 0..FME_RAS_ERROR_INJ_MASK
  /\ errs \in [ErrRegs -> [err: SUBSET Errors, first: SUBSET Errors,
                           next: SUBSET Errors, mask: SUBSET Maskable]]
  /\ phase \in {"unbound", "init", "bound", "uinit", "destroy"}
  /\ at \in 1..Done /\ draining \in BOOLEAN
  /\ shown \subseteq mem /\ mem \subseteq AllDirs
  /\ started \in 0..MaxOps /\ occurred \in Nat

Init ==
  /\ lock = NoTask
  /\ reg = Over(PerfInit, Over(MgmtInit, ErrInit))
  /\ want = reg
  /\ ctr = [c \in Counters |-> 0]
  /\ job = [t \in Tasks |-> Idle]
  /\ shown = {} /\ mem = {} /\ ready = {} /\ started = 0
  \* The other values of iommu and lock_bit only where a directory in use
  \* depends on them.
  /\ inUse \in Slices /\ iommu \in BOOLEAN /\ lock_bit \in {0, 1}
  /\ lock_bit = 1 => "thermal" \in inUse
  /\ iommu \/ inUse \cap {"iommu", "afu0", "fabric"} # {}
  /\ ErrorInit
  /\ phase = "unbound" /\ at = 1 /\ cur = "none" /\ made = <<>> /\ draining = FALSE

rest == <<lock, reg, want, job, inUse, started, ctr, occurred, iommu, lock_bit>>

-----------------------------------------------------------------------------
(* Probe.                                                                  *)

fme_probe ==
  /\ phase = "unbound"
  /\ phase' = "init" /\ at' = 1 /\ cur' = fme_feature_drvs[1] /\ made' = <<>>
  /\ UNCHANGED <<rest, errs, shown, mem, ready, draining>>

\* The init of sub-feature cur creates its next directory (create_perf_obj,
\* sysfs_create_group, device_register).
create_perf_obj ==
  LET dir == Dirs(cur)[Len(made) + 1] IN
  /\ phase = "init" /\ at < Done /\ Len(made) < Len(Dirs(cur))
  /\ made' = Append(made, dir)
  /\ shown' = shown \cup {dir} /\ mem' = mem \cup {dir}
  /\ IF cur = "err" THEN fme_error_enable ELSE UNCHANGED errs
  /\ UNCHANGED <<rest, phase, at, cur, ready, draining>>

\* It fails: the objects above are destroyed, then the sub-features before.
create_perf_obj_fails ==
  /\ phase = "init" /\ at < Done /\ Len(made) < Len(Dirs(cur))
  /\ IF cur = "err" THEN fme_error_enable ELSE UNCHANGED errs
  /\ IF made = <<>> THEN phase' = "uinit" /\ at' = 1
     ELSE phase' = "destroy" /\ UNCHANGED at
  /\ UNCHANGED <<rest, made, cur, shown, mem, ready, draining>>

\* feature->ops is set: the next driver's turn.
feature_init_end ==
  /\ phase = "init" /\ at < Done /\ Len(made) = Len(Dirs(cur))
  /\ ready' = ready \cup {cur}
  /\ at' = at + 1 /\ made' = <<>>
  /\ cur' = IF at + 1 < Done THEN fme_feature_drvs[at + 1] ELSE "none"
  /\ UNCHANGED <<rest, errs, phase, shown, mem, draining>>

\* fpga_register_dev_ops.
fme_register ==
  /\ phase = "init" /\ at = Done
  /\ \/ phase' = "bound" /\ UNCHANGED at
     \/ phase' = "uinit" /\ at' = 1
  /\ UNCHANGED <<rest, errs, shown, mem, ready, draining, cur, made>>

-----------------------------------------------------------------------------
(* Removal.                                                                *)

fme_remove ==
  /\ phase = "bound"
  /\ phase' = "uinit" /\ at' = 1
  /\ UNCHANGED <<rest, errs, shown, mem, ready, draining, cur, made>>

\* Mutant: every uinit operation holds the lock, as that of the errors does.
uinit_all_locked ==
  LET f == fme_features[at] IN
  /\ phase = "uinit" /\ at < Done /\ f \in ready
  /\ lock = NoTask /\ lock' = Remover
  /\ phase' = "destroy" /\ cur' = f /\ made' = Dirs(f)
  /\ UNCHANGED <<reg, want, job, inUse, started, ctr, occurred, iommu, lock_bit>>
  /\ UNCHANGED <<errs, at, shown, mem, ready, draining>>

\* The uinit operation of the next sub-feature; global_error_uinit takes
\* pdata->lock first.
feature_uinit ==
  LET f == fme_features[at] IN
  /\ phase = "uinit" /\ at < Done /\ f \in ready
  /\ IF f = "err" THEN lock = NoTask /\ lock' = Remover ELSE UNCHANGED lock
  /\ phase' = "destroy" /\ cur' = f /\ made' = Dirs(f)
  /\ UNCHANGED <<reg, want, job, inUse, started, ctr, occurred, iommu, lock_bit>>
  /\ UNCHANGED <<errs, at, shown, mem, ready, draining>>

feature_skip ==
  /\ phase = "uinit" /\ at < Done /\ fme_features[at] \notin ready
  /\ at' = at + 1
  /\ UNCHANGED <<rest, errs, phase, shown, mem, ready, draining, cur, made>>

\* destroy_perf_obj, sysfs_remove_group: children before parents, the files of
\* the next directory disappear ...
remove_files ==
  /\ phase = "destroy" /\ made # <<>> /\ ~draining
  /\ shown' = shown \ {Last(made)}
  /\ draining' = TRUE
  /\ UNCHANGED <<rest, errs, phase, at, mem, ready, cur, made>>

\* Mutant: the object is freed while its callbacks run.
kobject_put_early ==
  /\ phase = "destroy" /\ draining
  /\ mem' = mem \ {Last(made)} /\ made' = Front(made) /\ draining' = FALSE
  /\ UNCHANGED <<rest, errs, phase, at, shown, ready, cur>>

\* ... and when no callback is in it any more, its object is freed.
kobject_put ==
  /\ phase = "destroy" /\ draining
  /\ \A t \in Tasks : job[t].node # Last(made)
  /\ mem' = mem \ {Last(made)} /\ made' = Front(made) /\ draining' = FALSE
  /\ UNCHANGED <<rest, errs, phase, at, shown, ready, cur>>

\* The uinit operation returns, or the failed init goes on to undo the others.
destroy_end ==
  /\ phase = "destroy" /\ made = <<>>
  /\ phase' = "uinit"
  /\ at' = IF cur \in ready THEN at + 1 ELSE 1
  /\ ready' = ready \ {cur}
  /\ lock' = IF lock = Remover THEN NoTask ELSE lock
  /\ UNCHANGED <<reg, want, job, inUse, started, ctr, occurred, iommu, lock_bit>>
  /\ UNCHANGED <<errs, shown, mem, draining, cur, made>>

fme_dev_destroy ==
  /\ phase = "uinit" /\ at = Done
  /\ phase' = "unbound" /\ cur' = "none"
  /\ UNCHANGED <<rest, errs, at, shown, mem, ready, draining, made>>

-----------------------------------------------------------------------------
\* Every directory's callbacks leave the rest of the FME alone.
Begins(t) ==
  \/ PerfBegins(t) /\ UNCHANGED <<ctr, errVars, lifeVars>>
  \/ MgmtBegins(t) /\ UNCHANGED <<ctr, errVars, lifeVars>>
  \/ ErrorBegins(t) /\ UNCHANGED <<ctr, errVars, lifeVars>>

Steps(t) ==
  \/ CallbackSteps(t) /\ UNCHANGED <<ctr, errVars, lifeVars>>
  \/ CounterSteps(t) /\ UNCHANGED <<errVars, lifeVars>>
  \/ ErrorSteps(t) /\ UNCHANGED <<ctr, lifeVars>>

Driver ==
  \/ create_perf_obj \/ create_perf_obj_fails \/ feature_init_end \/ fme_register
  \/ feature_uinit \/ feature_skip \/ remove_files \/ kobject_put \/ destroy_end
  \/ fme_dev_destroy

Hardware ==
  \/ \E c \in Counters : Latch(c) /\ UNCHANGED <<errVars, lifeVars>>
  \/ \E u \in ErrRegs, e \in Errors : ErrorOccurs(u, e) /\ UNCHANGED <<ctr, lifeVars>>

Next ==
  \/ fme_probe \/ fme_remove \/ Driver \/ Hardware
  \/ \E t \in Tasks : Begins(t) \/ Steps(t)

\* Probe, removal and callbacks go on; a free lock is got in the end by each of
\* the tasks that wait for it, of which there are finitely many (MaxOps).
Fairness == WF_vars(Driver) /\ \A t \in Tasks : WF_vars(Steps(t))

Spec == Init /\ [][Next]_vars /\ Fairness

-----------------------------------------------------------------------------
(* Properties.                                                             *)

\* A callback's object is there as long as the callback runs, and whatever step
\* of the probe failed, an unbound FME has no directory, no object and no lock
\* left behind, while a bound one has them all.
AttrsBacked ==
  /\ \A t \in Tasks : job[t].at # "idle" => job[t].node \in mem
  /\ phase = "unbound" => mem = {} /\ shown = {} /\ ready = {} /\ lock # Remover
  /\ phase = "bound" => mem = AllDirs /\ shown = AllDirs

\* A callback of the error directory waits for the lock that global_error_uinit
\* holds while it waits for the callback.
ErrorDeadlock ==
  /\ lock = Remover
  /\ \E t \in Tasks : job[t].at = "lock" /\ job[t].node = "errors"

\* Unbinding ends, except in one way: global_error_uinit removes its files with
\* pdata->lock held.  No other file, and no timeout of a counter, holds it up.
TeardownEnds == phase = "uinit" ~> phase = "unbound" \/ ErrorDeadlock
=============================================================================
