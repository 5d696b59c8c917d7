------------------------------ MODULE FmePerf ------------------------------
(***************************************************************************)
(* The performance counters of the FME (fme-iperf.c, fme-dperf.c).         *)
(*                                                                         *)
(* A unit has a control register, in which the event to count is chosen,   *)
(* and a counter register, which says in event_code the event its count    *)
(* is of.  To read a counter the driver selects the event, polls the event *)
(* code and reads the count, all under pdata->lock.  The cache has two     *)
(* counter registers, whose counts are added; only the first is polled.    *)
(* The counters of the fabric count one object at a time: a port, or all   *)
(* of them at the root.                                                    *)
(*                                                                         *)
(* External: each counter register follows a new selection after some      *)
(* time, or not before the driver has given up.                            *)
(***************************************************************************)
EXTENDS FmeRegs

CONSTANT Events    \* the event codes of a unit

ASSUME EventsAssumption == 0 \in Events      \* the registers' reset value

VARIABLE ctr       \* the event_code of each counter register

PERF_OBJ_ROOT_ID == -1     \* ~0
FAB_DISABLE_FILTER == 0
FAB_ENABLE_FILTER == 1

Fabrics == {"fab_ctl", "dfab_ctl"}
PerfUnits == {"ch_ctl", "vtd_ctl", "vtd_sip_ctl"} \cup Fabrics

\* The counter registers: the one that is polled goes by the name of its unit,
\* ch_ctl for ch_ctr0; the second one of the cache is not polled.
Counters == PerfUnits \cup {"ch_ctr1"}
UnitOf(c) == IF c = "ch_ctr1" THEN "ch_ctl" ELSE c

\* The objects: the units and id of the directories that have fabric counters.
FabOf == [fabric |-> "fab_ctl", port0 |-> "fab_ctl",
          dfabric |-> "dfab_ctl", dport0 |-> "dfab_ctl"]
IdOf == [fabric |-> PERF_OBJ_ROOT_ID, port0 |-> 0,
         dfabric |-> PERF_OBJ_ROOT_ID, dport0 |-> 0, afu0 |-> 0]
InFabric(n) == n \in DOMAIN FabOf

FabricFields == {"freeze", "event", "filter", "port"}

PerfInit ==
  [ch_ctl |-> [freeze |-> 0, event |-> 0],
   vtd_ctl |-> [freeze |-> 0, event |-> 0],
   vtd_sip_ctl |-> [event |-> 0],
   fab_ctl |-> [f \in FabricFields |-> 0],
   dfab_ctl |-> [f \in FabricFields |-> 0]]

-----------------------------------------------------------------------------
(* Stores.                                                                 *)

freeze_store(t, v) == Begin(t, "iperf", Store("ch_ctl", [freeze |-> v], TRUE))

vtd_freeze_store(t, v) == Begin(t, "iommu", Store("vtd_ctl", [freeze |-> v], TRUE))

fab_freeze_store(t, v) == Begin(t, "fabric", Store("fab_ctl", [freeze |-> v], TRUE))

dperf_fab_freeze_store(t, v) ==
  Begin(t, "dfabric", Store("dfab_ctl", [freeze |-> v], TRUE))

\* Mutant: the port is compared although the filter is off.
fabric_filter_ignored(ctl, id) == id \in {PERF_OBJ_ROOT_ID, ctl.port}

fabric_pobj_is_enabled(ctl, id) ==
  IF ctl.filter = FAB_DISABLE_FILTER THEN id = PERF_OBJ_ROOT_ID ELSE id = ctl.port

FabEnable(t, n) ==
  LET id == IdOf[n]
      set == IF id = PERF_OBJ_ROOT_ID THEN [filter |-> FAB_DISABLE_FILTER]
             ELSE [filter |-> FAB_ENABLE_FILTER, port |-> id]
  IN  /\ ~fabric_pobj_is_enabled(reg[FabOf[n]], id)   \* without the lock
      /\ Begin(t, n, Store(FabOf[n], set, TRUE))

\* Enabling an object that is enabled already returns at once.
fab_enable_store(t) == \E n \in {"fabric", "port0"} : FabEnable(t, n)
dperf_fab_enable_store(t) == \E n \in {"dfabric", "dport0"} : FabEnable(t, n)

-----------------------------------------------------------------------------
(* Counters.                                                               *)

Count(r, e) == [at |-> "lock", kind |-> "count", r |-> r, set |-> [event |-> e]]

\* The channel goes with the event.
read_cache_counter(t, e) == Begin(t, "iperf", Count("ch_ctl", e))

read_iommu_sip_counter(t, e) == Begin(t, "iommu", Count("vtd_sip_ctl", e))

\* The event code is that of the first port plus the port's id.
read_iommu_counter(t, e) ==
  /\ e + IdOf["afu0"] \in Events
  /\ Begin(t, "afu0", Count("vtd_ctl", e + IdOf["afu0"]))

read_fabric_counter(t, e) ==
  \E n \in {"fabric", "port0"} : Begin(t, n, Count("fab_ctl", e))
dperf_read_fabric_counter(t, e) ==
  \E n \in {"dfabric", "dport0"} : Begin(t, n, Count("dfab_ctl", e))

\* Revision, clock, freeze and enable are read without the lock.
perf_obj_attr_show(t) == \E n \in {"iperf", "iommu", "fabric"} : Begin(t, n, Show)
dperf_obj_attr_show(t) == \E n \in {"dperf", "dfabric"} : Begin(t, n, Show)

Counts(t) == job[t].at = "write" /\ job[t].kind = "count"
Off(t) == InFabric(job[t].node)
          /\ ~fabric_pobj_is_enabled(job[t].got, IdOf[job[t].node])

\* The counter of a disabled object reads as zero.
CounterOff(t) ==
  /\ Counts(t) /\ Off(t)
  /\ Return(t)
  /\ UNCHANGED <<regVars, ctr, shown, inUse, started>>

CounterSelect(t) ==
  /\ Counts(t) /\ ~Off(t)
  /\ Update(t)
  /\ job' = [job EXCEPT ![t].at = "poll"]
  /\ UNCHANGED <<lock, ctr, shown, inUse, started>>

\* fpga_wait_register_field sees the event code it waits for ...
CounterReady(t) ==
  /\ job[t].at = "poll"
  /\ ctr[job[t].r] = job[t].set.event
  /\ job' = [job EXCEPT ![t].at = "read"]
  /\ UNCHANGED <<lock, regVars, ctr, shown, inUse, started>>

\* ... or gives up.
CounterTimeout(t) ==
  /\ job[t].at = "poll"
  /\ ctr[job[t].r] # job[t].set.event
  /\ Return(t)
  /\ UNCHANGED <<regVars, ctr, shown, inUse, started>>

\* Of the cache, the sum of both registers.
CounterValue(t) ==
  /\ job[t].at = "read"
  /\ Return(t)
  /\ UNCHANGED <<regVars, ctr, shown, inUse, started>>

\* External: a counter register follows the selection.
Latch(c) ==
  /\ ctr[c] # reg[UnitOf(c)].event
  /\ ctr' = [ctr EXCEPT ![c] = reg[UnitOf(c)].event]
  /\ UNCHANGED <<lock, regVars, job, shown, inUse, started>>

\* External: the object a fabric's counters count.
CountedIn(ctl) ==
  IF ctl.filter = FAB_ENABLE_FILTER THEN ctl.port ELSE PERF_OBJ_ROOT_ID

CounterSteps(t) ==
  \/ CounterOff(t) \/ CounterSelect(t) \/ CounterReady(t) \/ CounterTimeout(t)
  \/ CounterValue(t)

PerfBegins(t) ==
  \/ \E v \in 0..1 :
       \/ freeze_store(t, v) \/ vtd_freeze_store(t, v)
       \/ fab_freeze_store(t, v) \/ dperf_fab_freeze_store(t, v)
  \/ fab_enable_store(t) \/ dperf_fab_enable_store(t)
  \/ \E e \in Events :
       \/ read_cache_counter(t, e) \/ read_iommu_sip_counter(t, e)
       \/ read_iommu_counter(t, e)
       \/ read_fabric_counter(t, e) \/ dperf_read_fabric_counter(t, e)
  \/ perf_obj_attr_show(t) \/ dperf_obj_attr_show(t)

\* When a count is read it is the count asked for: the register that was polled
\* still reports the selected event, and a fabric counter still counts the object
\* whose file is read, whatever other callbacks select, freeze and enable.  It
\* cannot be said of the register that read_cache_counter adds unpolled: that one
\* may still count an event that was selected before.
CountsAsked ==
  \A t \in Tasks : job[t].at = "read" =>
    /\ ctr[job[t].r] = job[t].set.event
    /\ InFabric(job[t].node) => CountedIn(reg[job[t].r]) = IdOf[job[t].node]
=============================================================================
