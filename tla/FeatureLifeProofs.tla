-------------------------- MODULE FeatureLifeProofs --------------------------
(***************************************************************************)
(* Proofs about FeatureLife, for any set of tasks and any sub-features the *)
(* port may have.                                                          *)
(***************************************************************************)
EXTENDS FeatureLife, FiniteSetTheorems, TLAPS

-----------------------------------------------------------------------------
(* The inductive invariant.                                                *)

\* Where probe or removal is, and what the device model is doing.
PhaseInv ==
  /\ dev = "added" => drv \in {"bound", "unbound"}
  /\ dev = "deleting" => drv \in {"uinit", "drain", "unbound"}
  /\ dev = "deleted" => drv = "unbound"
  /\ drv \in {"ops", "drain"} => at < Done
  /\ private = 1 <=> drv # "unbound"

\* The claim of detach_port_dev is held from there to the end of
\* attach_port_dev.  It keeps the file closed, and without it a device with an
\* open file is bound.
ClaimInv ==
  /\ IsFiniteSet(files)
  /\ dev \in {"deleting", "deleted"} => claimed = 1
  /\ claimed = 1 => dev # "added" /\ excl_open = 1 /\ files = {}
  /\ cdev = 1 => drv = "bound" \/ claimed = 1
  /\ files # {} => drv = "bound"

\* The sub-features before position n, in the order of init and of uinit.
Before(n) == {port_feature_drvs[i] : i \in 1..(n - 1)}
UinitBefore(n) == {port_features[i] : i \in 1..(n - 1)}

\* The sub-features whose init has run are those before the position of the
\* probe; those before the position of the removal are undone.
InitInv(done) ==
  /\ ops = Present \cap Before(at)
  /\ groups = (ops \cup done) \cap HasSysfs
  /\ Len(regions) = Cardinality((ops \cup done) \cap HasRegion)

UinitInv(undone) ==
  /\ ops \cap UinitBefore(at) = {}
  /\ groups = (ops \ undone) \cap HasSysfs

PositionInv ==
  /\ drv = "init" => InitInv({})
  /\ drv = "ops" => Turn \in Present /\ InitInv({Turn})
  /\ drv = "bound" => at = Done /\ InitInv({})
  /\ drv = "uinit" => UinitInv({})
  /\ drv = "drain" => UinitTurn \in ops /\ UinitInv({UinitTurn})
  /\ drv = "unbound" => ops = {} /\ groups = {} /\ regions = <<>> /\ cdev = 0

\* A task inside an ioctl has the file open, and the one it was dispatched to
\* is a sub-feature of the port; a sysfs callback is of a sub-feature whose
\* files exist, or whose removal waits for it.
TaskInv ==
  /\ ~oops
  /\ \A t \in Threads :
       /\ pc[t] \in {"call", "body"} => t \in files
       /\ pc[t] = "call" => feature[t] \in Present
       /\ pc[t] = "callback" =>
            feature[t] \in groups \/ (drv = "drain" /\ feature[t] = UinitTurn)

IndInv == TypeOK /\ PhaseInv /\ ClaimInv /\ PositionInv /\ TaskInv

-----------------------------------------------------------------------------
(* The orders of init and uinit.                                           *)

\* The next position has one more sub-feature before it, which was not there;
\* none is before the first position, and all are before the last.
LEMMA InitOrder ==
  /\ Before(1) = {} /\ Present \subseteq Before(Done)
  /\ \A n \in 1..6 : /\ port_feature_drvs[n] \notin Before(n)
                     /\ Before(n + 1) = Before(n) \cup {port_feature_drvs[n]}
  <1> USE DEF Before, port_feature_drvs, Done
  <1>1. Before(1) = {}
    OBVIOUS
  <1>2. \A n \in 1..6 : Before(n + 1) = Before(n) \cup {port_feature_drvs[n]}
    OBVIOUS
  <1>3. \A n \in 1..6 : port_feature_drvs[n] \notin Before(n)
    <2> SUFFICES ASSUME NEW n \in 1..6, NEW i \in 1..(n - 1)
                 PROVE  port_feature_drvs[n] # port_feature_drvs[i]
      OBVIOUS
    <2>1. n \in {2, 3, 4, 5, 6} /\ i \in {1, 2, 3, 4, 5} /\ i < n
      OBVIOUS
    <2> QED BY <2>1
  <1>4. Present \subseteq Before(Done)
    BY PresentAssumption DEF Drvs
  <1> QED BY <1>1, <1>2, <1>3, <1>4

\* The order of uinit passes every sub-feature of the port once.
LEMMA UinitOrder ==
  /\ UinitBefore(1) = {} /\ Present \subseteq UinitBefore(Done)
  /\ \A n \in 1..6 : UinitBefore(n + 1) = UinitBefore(n) \cup {port_features[n]}
  <1> USE DEF UinitBefore, port_features, port_feature_drvs, Done
  <1>1. UinitBefore(1) = {}
    OBVIOUS
  <1>2. \A n \in 1..6 : UinitBefore(n + 1) = UinitBefore(n) \cup {port_features[n]}
    OBVIOUS
  <1>3. Present \subseteq UinitBefore(Done)
    <2>1. Present \subseteq {"hdr", "uafu", "err", "umsg", "uint", "stp"}
      BY PresentAssumption DEF Drvs
    <2>2. \A i \in 1..6 : port_features[i] \in UinitBefore(Done)
      OBVIOUS
    <2>3. {"hdr", "uafu", "err", "umsg", "uint", "stp"} \subseteq UinitBefore(Done)
      BY <2>2
    <2> QED BY <2>1, <2>3
  <1> QED BY <1>1, <1>2, <1>3

\* There are six sub-features.
LEMMA Positions == Done = 7 /\ 1..Done = 1..7
  BY DEF Done, port_feature_drvs

\* A sub-feature that has a region adds one region.
LEMMA RegionCounted ==
  ASSUME NEW S, NEW f, f \notin S
  PROVE  /\ Cardinality(S \cap HasRegion) \in Nat
         /\ Cardinality((S \cup {f}) \cap HasRegion) =
              Cardinality(S \cap HasRegion) + (IF f \in HasRegion THEN 1 ELSE 0)
  <1>1. IsFiniteSet(HasRegion)
    <2>1. HasRegion = ({} \cup {"uafu"}) \cup {"stp"}
      BY DEF HasRegion
    <2> QED BY <2>1, FS_EmptySet, FS_AddElement
  <1>2. IsFiniteSet(S \cap HasRegion)
    BY <1>1, FS_Subset
  <1>3. Cardinality(S \cap HasRegion) \in Nat
    BY <1>2, FS_CardinalityType
  <1>4. CASE f \in HasRegion
    <2>1. (S \cup {f}) \cap HasRegion = (S \cap HasRegion) \cup {f}
      BY <1>4
    <2> QED BY <1>2, <1>4, <1>3, <2>1, FS_AddElement
  <1>5. CASE f \notin HasRegion
    <2>1. (S \cup {f}) \cap HasRegion = S \cap HasRegion
      BY <1>5
    <2>2. Cardinality((S \cup {f}) \cap HasRegion) = Cardinality(S \cap HasRegion)
      BY <2>1, Zenon
    <2> QED BY <1>5, <1>3, <2>2
  <1> QED BY <1>4, <1>5

-----------------------------------------------------------------------------
(* The inductive step, one lemma per group of actions.                     *)

\* A step of probe or removal that touches neither the use of the device nor
\* the tasks keeps what is only about those.
LEMMA NoUse ==
  ASSUME TypeOK, UNCHANGED <<useVars, callVars>>,
         NEW d \in {"added", "deleting", "deleted", "adding"}, dev' = d,
         NEW v \in {"unbound", "init", "ops", "uinit", "drain", "bound"}, drv' = v,
         at' \in 1..Done, private' \in {0, 1}, cdev' \in {0, 1},
         regions' \in Seq(HasRegion), ops' \subseteq Present,
         groups' \subseteq Present \cap HasSysfs
  PROVE  TypeOK'
  BY DEF TypeOK, useVars, callVars

\* The probe, up to the character device.
LEMMA ProbeStep ==
  ASSUME IndInv, afu_probe \/ feature_absent \/ feature_init_fails \/ fpga_register_dev_ops
  PROVE  IndInv'
  <1> USE Positions DEF IndInv
  <1>1. UNCHANGED <<dev, ops, groups, useVars, callVars>>
    BY DEF afu_probe, feature_absent, feature_init_fails, fpga_register_dev_ops
  <1>2. CASE afu_probe
    <2> USE <1>2 DEF afu_probe
    <2>1. TypeOK'
      <3>1. regions' \in Seq(HasRegion)
        <4>1. regions \in Seq(HasRegion) /\ <<>> \in Seq(HasRegion)
          BY DEF TypeOK
        <4>2. regions' = regions \/ regions' = <<>>
          OBVIOUS
        <4> QED BY <4>1, <4>2, Zenon
      <3>3. private' \in {0, 1} /\ at' \in 1..Done
        BY DEF TypeOK
      <3>2. drv' \in {"unbound", "init"} /\ UNCHANGED <<dev, cdev, ops, groups>>
        OBVIOUS
      <3> QED BY <1>1, <3>1, <3>2, <3>3, NoUse DEF TypeOK
    <2>2. PhaseInv' /\ ClaimInv'
      BY DEF PhaseInv, ClaimInv, useVars, TypeOK
    <2>3. PositionInv'
      <3>1. CASE drv' = "init"
        <4>1. at' = 1 /\ ops' = {} /\ groups' = {} /\ regions' = <<>>
          BY <3>1 DEF PositionInv
        <4>2. Before(at') = {} /\ Cardinality({}) = 0
          BY <4>1, InitOrder, FS_EmptySet
        <4> QED BY <3>1, <4>1, <4>2 DEF PositionInv, InitInv, Before
      <3>2. CASE drv' = "unbound"
        BY <3>2 DEF PositionInv
      <3> QED BY <3>1, <3>2
    <2>4. TaskInv'
      BY DEF TaskInv, callVars, useVars, UinitTurn, PositionInv
    <2> QED BY <2>1, <2>2, <2>3, <2>4
  <1>3. CASE feature_absent
    <2> USE <1>3 DEF feature_absent
    <2>1. at \in 1..6 /\ at' = at + 1
      BY DEF TypeOK
    <2>2. TypeOK'
      BY <2>1, NoUse DEF TypeOK
    <2>3. PhaseInv' /\ ClaimInv'
      BY DEF PhaseInv, ClaimInv, useVars
    <2>4. Present \cap Before(at + 1) = Present \cap Before(at)
      BY <2>1, InitOrder DEF Turn
    <2>5. PositionInv'
      BY <2>1, <2>4 DEF PositionInv, InitInv, Before
    <2>6. TaskInv'
      BY DEF TaskInv, callVars, useVars
    <2> QED BY <2>2, <2>3, <2>5, <2>6
  <1>4. CASE feature_init_fails
    <2> USE <1>4 DEF feature_init_fails
    <2>1. regions' \in Seq(HasRegion)
      <3>1. regions \in Seq(HasRegion)
        BY DEF TypeOK
      <3>2. CASE afu_region_add(Turn)
        BY <3>1, <3>2 DEF afu_region_add
      <3>3. CASE regions' = regions
        BY <3>1, <3>3
      <3> QED BY <3>2, <3>3
    <2>2. TypeOK'
      BY <2>1, NoUse DEF TypeOK
    <2>3. PhaseInv' /\ ClaimInv'
      BY DEF PhaseInv, ClaimInv, useVars
    <2>4. UinitBefore(at') = {}
      BY UinitOrder
    <2>5. PositionInv'
      BY <2>4 DEF PositionInv, InitInv, UinitInv, UinitBefore
    <2>6. TaskInv'
      BY DEF TaskInv, callVars, useVars
    <2> QED BY <2>2, <2>3, <2>5, <2>6
  <1>5. CASE fpga_register_dev_ops
    <2> USE <1>5 DEF fpga_register_dev_ops
    <2>1. TypeOK'
      BY NoUse DEF TypeOK
    <2>2. PhaseInv' /\ ClaimInv'
      BY DEF PhaseInv, ClaimInv, useVars
    <2>3. PositionInv'
      <3>1. CASE drv' = "bound"
        BY <3>1 DEF PositionInv, InitInv, Before
      <3>2. CASE drv' = "uinit"
        <4>1. at' = 1
          BY <3>2
        <4>2. UinitBefore(at') = {}
          BY <4>1, UinitOrder
        <4> QED BY <3>2, <4>2 DEF PositionInv, InitInv, UinitInv, UinitBefore
      <3> QED BY <3>1, <3>2
    <2>4. TaskInv'
      BY DEF TaskInv, callVars, useVars
    <2> QED BY <2>1, <2>2, <2>3, <2>4
  <1> QED BY <1>2, <1>3, <1>4, <1>5

\* The init of a sub-feature adds its region and its sysfs files, and then its
\* operations.
LEMMA InitStep ==
  ASSUME IndInv, feature_instance_init \/ feature_ops_set
  PROVE  IndInv'
  <1> USE Positions DEF IndInv
  <1>1. UNCHANGED <<dev, private, cdev, useVars, callVars>>
    BY DEF feature_instance_init, feature_ops_set
  <1>2. CASE feature_instance_init
    <2> USE <1>2 DEF feature_instance_init
    <2>1. at \in 1..6 /\ at' = at /\ ops' = ops /\ Turn' = Turn
      BY DEF TypeOK, Turn
    <2>2. regions' \in Seq(HasRegion)
          /\ Len(regions') = Len(regions) + (IF Turn \in HasRegion THEN 1 ELSE 0)
      BY DEF TypeOK, afu_region_add
    <2>3. TypeOK'
      BY <2>2, NoUse DEF TypeOK
    <2>4. PhaseInv' /\ ClaimInv'
      BY DEF PhaseInv, ClaimInv, useVars, TypeOK
    <2>5. Turn \notin ops
      BY <2>1, InitOrder DEF PositionInv, InitInv, Turn
    <2>6. Len(regions') = Cardinality((ops \cup {Turn}) \cap HasRegion)
      <3>1. Len(regions) = Cardinality(ops \cap HasRegion)
        <4>1. Len(regions) = Cardinality((ops \cup {}) \cap HasRegion)
          BY DEF PositionInv, InitInv
        <4>2. ops \cup {} = ops
          OBVIOUS
        <4> QED BY <4>1, <4>2, Zenon
      <3> QED BY <2>2, <2>5, <3>1, RegionCounted
    <2>7. PositionInv'
      <3>1. groups' = (ops \cup {Turn}) \cap HasSysfs /\ ops = Present \cap Before(at)
        BY DEF PositionInv, InitInv
      <3>2. InitInv({Turn})'
        BY <2>1, <2>6, <3>1 DEF InitInv, Before
      <3> QED BY <2>1, <3>2 DEF PositionInv, InitInv
    <2>8. TaskInv'
      BY DEF TaskInv, callVars, useVars
    <2> QED BY <2>3, <2>4, <2>7, <2>8
  <1>3. CASE feature_ops_set
    <2> USE <1>3 DEF feature_ops_set
    <2>1. at \in 1..6 /\ at' = at + 1 /\ Turn \in Present
      BY DEF TypeOK, PhaseInv, PositionInv
    <2>2. TypeOK'
      BY <2>1, NoUse DEF TypeOK
    <2>3. PhaseInv' /\ ClaimInv'
      BY DEF PhaseInv, ClaimInv, useVars
    <2>4. Before(at + 1) = Before(at) \cup {Turn}
      BY <2>1, InitOrder DEF Turn
    <2>5. PositionInv'
      <3>1. InitInv({Turn})
        BY DEF PositionInv
      <3>2. ops' = Present \cap Before(at')
        BY <2>1, <2>4, <3>1 DEF InitInv
      <3>3. groups' = ops' \cap HasSysfs /\ Len(regions') = Cardinality(ops' \cap HasRegion)
        BY <3>1 DEF InitInv
      <3>4. ops' \cup {} = ops'
        OBVIOUS
      <3>5. groups' = (ops' \cup {}) \cap HasSysfs
            /\ Len(regions') = Cardinality((ops' \cup {}) \cap HasRegion)
        BY <3>3, <3>4, Zenon
      <3>6. InitInv({})'
        BY <3>2, <3>5 DEF InitInv, Before
      <3> QED BY <3>6 DEF PositionInv
    <2>6. TaskInv'
      BY DEF TaskInv, callVars, useVars
    <2> QED BY <2>2, <2>3, <2>5, <2>6
  <1> QED BY <1>2, <1>3

\* The removal: nothing is undone twice, and a sub-feature's callbacks are over
\* when its operations go.
LEMMA RemovalStep ==
  ASSUME IndInv, fpga_dev_feature_uinit \/ feature_uinit_end \/ afu_dev_destroy
  PROVE  IndInv'
  <1> USE Positions DEF IndInv
  <1>1. UNCHANGED <<dev, useVars, callVars>>
    BY DEF fpga_dev_feature_uinit, feature_uinit_end, afu_dev_destroy
  <1>2. CASE fpga_dev_feature_uinit
    <2> USE <1>2 DEF fpga_dev_feature_uinit
    <2>1. at \in 1..6 /\ UNCHANGED <<private, cdev, regions, ops>>
      BY DEF TypeOK
    <2>2. TypeOK'
      BY <2>1, NoUse DEF TypeOK
    <2>3. PhaseInv' /\ ClaimInv'
      BY DEF PhaseInv, ClaimInv, useVars
    <2>4. UinitBefore(at + 1) = UinitBefore(at) \cup {UinitTurn}
      BY <2>1, UinitOrder DEF UinitTurn
    <2>5. UinitInv({})
      BY DEF PositionInv
    <2>6. CASE UinitTurn \in ops
      <3>1. UinitTurn' = UinitTurn /\ at' = at
        BY <2>6 DEF UinitTurn
      <3>2. UinitInv({UinitTurn})'
        BY <2>1, <2>5, <2>6, <3>1 DEF UinitInv, UinitBefore
      <3>3. PositionInv'
        BY <2>6, <3>1, <3>2 DEF PositionInv
      <3>4. TaskInv'
        BY <2>6, <3>1 DEF TaskInv, callVars, useVars
      <3> QED BY <2>2, <2>3, <3>3, <3>4
    <2>7. CASE UinitTurn \notin ops
      <3>1. at' = at + 1 /\ drv' = "uinit" /\ groups' = groups
        BY <2>7
      <3>2. UinitInv({})'
        BY <2>1, <2>4, <2>5, <2>7, <3>1 DEF UinitInv, UinitBefore
      <3>3. PositionInv'
        BY <3>1, <3>2 DEF PositionInv
      <3>4. TaskInv'
        BY <3>1 DEF TaskInv, callVars, useVars
      <3> QED BY <2>2, <2>3, <3>3, <3>4
    <2> QED BY <2>6, <2>7
  <1>3. CASE feature_uinit_end
    <2> USE <1>3 DEF feature_uinit_end
    <2>1. at \in 1..6 /\ at' = at + 1
      BY DEF TypeOK, PhaseInv
    <2>2. TypeOK'
      BY <2>1, NoUse DEF TypeOK
    <2>3. PhaseInv' /\ ClaimInv'
      BY DEF PhaseInv, ClaimInv, useVars
    <2>4. UinitBefore(at + 1) = UinitBefore(at) \cup {UinitTurn}
      BY <2>1, UinitOrder DEF UinitTurn
    <2>5. UinitInv({UinitTurn})
      BY DEF PositionInv
    <2>6. UinitInv({})'
      BY <2>1, <2>4, <2>5 DEF UinitInv, UinitBefore
    <2>7. PositionInv'
      BY <2>6 DEF PositionInv
    <2>8. TaskInv'
      BY DEF TaskInv, callVars, useVars
    <2> QED BY <2>2, <2>3, <2>7, <2>8
  <1>4. CASE afu_dev_destroy
    <2> USE <1>4 DEF afu_dev_destroy
    <2>1. ops = {} /\ groups = {}
      <3>1. UinitInv({}) /\ ops \subseteq Present
        BY DEF PositionInv, TypeOK
      <3>2. ops = {}
        BY <3>1, UinitOrder DEF UinitInv
      <3> QED BY <3>1, <3>2 DEF UinitInv
    <2>2. TypeOK'
      <3>1. regions' \in Seq(HasRegion)
        OBVIOUS
      <3> QED BY <3>1, NoUse DEF TypeOK
    <2>3. PhaseInv'
      BY DEF PhaseInv
    <2>4. ClaimInv'
      BY DEF ClaimInv, useVars
    <2>5. PositionInv'
      BY <2>1 DEF PositionInv
    <2>6. TaskInv'
      BY DEF TaskInv, callVars, useVars
    <2> QED BY <2>2, <2>3, <2>4, <2>5, <2>6
  <1> QED BY <1>2, <1>3, <1>4

\* The steps of detach_port_dev and attach_port_dev around removal and probe:
\* the claim is taken of an unused port.
LEMMA ClaimStep ==
  ASSUME IndInv,
         attach_port_dev_end \/ detach_port_dev \/ detach_port_dev_del \/ attach_port_dev
  PROVE  IndInv'
  <1> USE Positions DEF IndInv
  <1>1. UNCHANGED <<private, regions, ops, groups, cdev, files, callVars>>
    BY DEF attach_port_dev_end, detach_port_dev, detach_port_dev_del, attach_port_dev, useVars
  <1>2. Cardinality(files) \in Nat /\ (Cardinality(files) = 0 <=> files = {})
    BY FS_CardinalityType, FS_EmptySet DEF ClaimInv
  <1>3. CASE attach_port_dev_end
    <2> USE <1>3 DEF attach_port_dev_end
    <2>1. UNCHANGED <<drv, at>>
      OBVIOUS
    <2>2. TypeOK'
      <3>1. open_count' = Cardinality(files) + 0
        BY <1>2 DEF TypeOK
      <3>2. excl_open' \in {0, 1} /\ claimed' = 0 /\ dev' = "added"
        BY DEF TypeOK
      <3>3. Cardinality(files') = Cardinality(files)
        BY <1>1, Zenon
      <3> QED BY <1>1, <2>1, <3>1, <3>2, <3>3 DEF TypeOK, callVars
    <2>3. PhaseInv' /\ ClaimInv'
      BY <1>1, <2>1 DEF PhaseInv, ClaimInv, PositionInv
    <2>4. PositionInv' /\ TaskInv'
      BY <1>1, <2>1 DEF PositionInv, TaskInv, InitInv, UinitInv, Before, UinitBefore,
                        Turn, UinitTurn, callVars
    <2> QED BY <2>2, <2>3, <2>4
  <1>4. CASE detach_port_dev
    <2> USE <1>4 DEF detach_port_dev
    <2>1. files = {} /\ claimed = 0 /\ Cardinality(files) = 0
      BY <1>2 DEF TypeOK
    <2>2. TypeOK'
      BY <1>1, <2>1 DEF TypeOK, callVars
    <2>3. PhaseInv'
      BY <1>1 DEF PhaseInv, TypeOK
    <2>4. ClaimInv'
      BY <1>1, <2>1 DEF ClaimInv
    <2>5. CASE drv = "bound"
      <3>1. at' = 1 /\ drv' = "uinit"
        BY <2>5
      <3>2. UinitBefore(at') = {}
        BY <3>1, UinitOrder
      <3>3. PositionInv'
        BY <1>1, <2>5, <3>1, <3>2 DEF PositionInv, InitInv, UinitInv, UinitBefore
      <3>4. TaskInv'
        BY <1>1, <2>5, <3>1 DEF TaskInv, callVars
      <3> QED BY <2>2, <2>3, <2>4, <3>3, <3>4
    <2>6. CASE drv # "bound"
      <3>1. UNCHANGED <<drv, at>>
        BY <2>6
      <3>2. PositionInv' /\ TaskInv'
        BY <1>1, <3>1 DEF PositionInv, TaskInv, InitInv, UinitInv, Before, UinitBefore,
                          Turn, UinitTurn, callVars
      <3> QED BY <2>2, <2>3, <2>4, <3>2
    <2> QED BY <2>5, <2>6
  <1>5. CASE detach_port_dev_del \/ attach_port_dev
    <2>1. UNCHANGED <<drv, useVars>> /\ drv = "unbound" /\ at' \in 1..Done
          /\ (dev' = "deleted" \/ (dev = "deleted" /\ dev' = "adding"))
          /\ (dev \in {"deleting", "deleted"})
      BY <1>5 DEF detach_port_dev_del, attach_port_dev, PhaseInv, TypeOK
    <2>2. TypeOK'
      BY <1>1, <2>1 DEF TypeOK, useVars, callVars
    <2>3. PhaseInv' /\ ClaimInv'
      BY <1>1, <2>1 DEF PhaseInv, ClaimInv, useVars
    <2>4. PositionInv' /\ TaskInv'
      BY <1>1, <2>1 DEF PositionInv, TaskInv, callVars
    <2> QED BY <2>2, <2>3, <2>4
  <1> QED BY <1>3, <1>4, <1>5

\* Opening and closing the file: the device is bound, so the last close finds
\* the private data.
LEMMA FileStep ==
  ASSUME IndInv, NEW t \in Threads, afu_open(t) \/ afu_release(t)
  PROVE  IndInv'
  <1> USE DEF IndInv
  <1>1. UNCHANGED <<devVars, claimed, pc, feature>>
    BY DEF afu_open, afu_release, callVars
  <1>2. Cardinality(files) \in Nat /\ IsFiniteSet(files)
    BY FS_CardinalityType DEF ClaimInv
  <1>3. drv = "bound" /\ claimed = 0 /\ private = 1
    <2>1. CASE afu_open(t)
      BY <2>1 DEF afu_open, ClaimInv, PhaseInv, TypeOK
    <2>2. CASE afu_release(t)
      BY <2>2 DEF afu_release, ClaimInv, PhaseInv, TypeOK
    <2> QED BY <2>1, <2>2
  <1>4. IsFiniteSet(files') /\ open_count' = Cardinality(files') + claimed'
    <2>1. open_count = Cardinality(files)
      BY <1>2, <1>3 DEF TypeOK
    <2>2. CASE afu_open(t)
      <3>1. Cardinality(files \cup {t}) = Cardinality(files) + 1 /\ IsFiniteSet(files \cup {t})
        BY <1>2, <2>2, FS_AddElement DEF afu_open
      <3> QED BY <1>1, <1>2, <1>3, <2>1, <2>2, <3>1 DEF afu_open
    <2>3. CASE afu_release(t)
      <3>1. Cardinality(files \ {t}) = Cardinality(files) - 1 /\ IsFiniteSet(files \ {t})
        BY <1>2, <2>3, FS_RemoveElement DEF afu_release
      <3> QED BY <1>1, <1>2, <1>3, <2>1, <2>3, <3>1 DEF afu_release
    <2> QED BY <2>2, <2>3
  <1>5. ~oops'
    <2>1. ~oops /\ private # 0
      BY <1>3 DEF TaskInv
    <2>2. CASE afu_open(t)
      <3>1. oops' = oops
        BY <2>2 DEF afu_open, callVars
      <3> QED BY <2>1, <3>1, Zenon
    <2>3. CASE afu_release(t)
      <3>1. oops' = (oops \/ (open_count = 1 /\ private = 0))
        BY <2>3, Zenon DEF afu_release
      <3> QED BY <2>1, <3>1, Zenon
    <2> QED BY <2>2, <2>3
  <1>6. TypeOK'
    <2>1. files' \subseteq Threads /\ excl_open' \in {0, 1} /\ oops' \in BOOLEAN
      BY <1>5 DEF afu_open, afu_release, TypeOK, callVars
    <2> QED BY <1>1, <1>4, <2>1 DEF TypeOK, devVars
  <1>7. PhaseInv' /\ ClaimInv' /\ PositionInv'
    BY <1>1, <1>3, <1>4 DEF PhaseInv, ClaimInv, PositionInv, InitInv, UinitInv, Before,
                            UinitBefore, Turn, UinitTurn, devVars
  <1>8. TaskInv'
    BY <1>1, <1>5 DEF TaskInv, UinitTurn, devVars, afu_open, afu_release
  <1> QED BY <1>6, <1>7, <1>8

\* A task goes on in an ioctl or a sysfs callback: an ioctl has the file open,
\* hence the device is bound with all its operations set.
LEMMA CallStep ==
  ASSUME IndInv, NEW t \in Threads,
         afu_ioctl(t) \/ Ends(t) \/ \E f \in Present : SysfsBegin(t, f)
  PROVE  IndInv'
  <1> USE DEF IndInv
  <1>1. UNCHANGED <<devVars, useVars>>
    BY DEF afu_ioctl, Ends, ioctl_call, ioctl_body, SysfsBegin, SysfsEnd
  <1>2. /\ pc' = [pc EXCEPT ![t] = pc'[t]]
        /\ feature' = [feature EXCEPT ![t] = feature'[t]]
        /\ pc'[t] \in {"idle", "call", "body", "callback"}
        /\ feature'[t] \in Present \cup {"none"}
        /\ pc'[t] \in {"call", "body"} => t \in files
        /\ pc'[t] = "call" => feature'[t] \in Present
        /\ pc'[t] = "callback" => feature'[t] \in groups
    <2> DEFINE New ==
          /\ pc' = [pc EXCEPT ![t] = pc'[t]]
          /\ feature' = [feature EXCEPT ![t] = feature'[t]]
          /\ pc'[t] \in {"idle", "call", "body", "callback"}
          /\ feature'[t] \in Present \cup {"none"}
          /\ pc'[t] \in {"call", "body"} => t \in files
          /\ pc'[t] = "call" => feature'[t] \in Present
          /\ pc'[t] = "callback" => feature'[t] \in groups
    <2>1. pc \in [Threads -> {"idle", "call", "body", "callback"}]
          /\ feature \in [Threads -> Present \cup {"none"}] /\ ops \subseteq Present
      BY DEF TypeOK
    <2>2. ASSUME Returns(t) PROVE New
      BY <2>1, <2>2 DEF Returns
    <2>3. ASSUME fpga_dev_for_each_feature(t), t \in files PROVE New
      <3>1. CASE Returns(t)
        BY <2>2, <3>1
      <3>2. CASE \E f \in ops : /\ pc' = [pc EXCEPT ![t] = "call"]
                                 /\ feature' = [feature EXCEPT ![t] = f]
        BY <2>1, <2>3, <3>2
      <3> QED BY <2>3, <3>1, <3>2 DEF fpga_dev_for_each_feature
    <2>4. ASSUME pc' = [pc EXCEPT ![t] = "body"], UNCHANGED feature, t \in files PROVE New
      BY <2>1, <2>4
    <2>5. CASE afu_ioctl(t)
      BY <2>3, <2>4, <2>5 DEF afu_ioctl
    <2>6. CASE ioctl_call(t)
      BY <2>3, <2>4, <2>6 DEF ioctl_call, TaskInv
    <2>7. CASE ioctl_body(t) \/ SysfsEnd(t)
      BY <2>2, <2>7 DEF ioctl_body, SysfsEnd
    <2>8. CASE \E f \in Present : SysfsBegin(t, f)
      BY <2>1, <2>8 DEF SysfsBegin
    <2> QED BY <2>5, <2>6, <2>7, <2>8 DEF Ends
  <1>3. ~oops'
    <2>1. CASE ioctl_call(t)
      <3>1. drv = "bound" /\ feature[t] \in Present
        BY <2>1 DEF ioctl_call, TaskInv, ClaimInv
      <3>2. ops = Present
        BY <3>1, InitOrder DEF PositionInv, InitInv
      <3> QED BY <2>1, <3>1, <3>2 DEF ioctl_call, TaskInv
    <2>2. CASE ioctl_body(t)
      <3>1. private # 0 /\ ~oops
        BY <2>2 DEF ioctl_body, TaskInv, ClaimInv, PhaseInv
      <3>2. oops' = (oops \/ private = 0)
        BY <2>2, Zenon DEF ioctl_body
      <3> QED BY <3>1, <3>2, Zenon
    <2>3. CASE afu_ioctl(t) \/ SysfsEnd(t) \/ \E f \in Present : SysfsBegin(t, f)
      BY <2>3 DEF afu_ioctl, SysfsEnd, SysfsBegin, TaskInv
    <2> QED BY <2>1, <2>2, <2>3 DEF Ends
  <1>4. TypeOK'
    <2>1. pc' \in [Threads -> {"idle", "call", "body", "callback"}]
          /\ feature' \in [Threads -> Present \cup {"none"}]
      BY <1>2 DEF TypeOK
    <2>2. oops' \in BOOLEAN
      <3>1. oops' = FALSE \/ oops' = TRUE
        BY Zenon DEF TypeOK, afu_ioctl, Ends, ioctl_call, ioctl_body, SysfsBegin, SysfsEnd
      <3> QED BY <3>1
    <2>3. Cardinality(files') = Cardinality(files)
      BY <1>1 DEF useVars
    <2> QED BY <1>1, <2>1, <2>2, <2>3 DEF TypeOK, devVars, useVars
  <1>5. PhaseInv' /\ ClaimInv' /\ PositionInv'
    BY <1>1 DEF PhaseInv, ClaimInv, PositionInv, InitInv, UinitInv, Before, UinitBefore,
                Turn, UinitTurn, devVars, useVars
  <1>6. TaskInv'
    <2>1. ASSUME NEW u \in Threads, u # t
          PROVE  pc'[u] = pc[u] /\ feature'[u] = feature[u]
      BY <1>2, <2>1 DEF TypeOK
    <2>2. UNCHANGED <<groups, drv, files>> /\ UinitTurn' = UinitTurn
      BY <1>1 DEF devVars, useVars, UinitTurn
    <2> HIDE DEF IndInv
    <2>3. TaskInv
      BY DEF IndInv
    <2>4. ASSUME NEW u \in Threads
          PROVE  /\ pc'[u] \in {"call", "body"} => u \in files'
                 /\ pc'[u] = "call" => feature'[u] \in Present
                 /\ pc'[u] = "callback" =>
                      feature'[u] \in groups' \/ (drv' = "drain" /\ feature'[u] = UinitTurn')
      <3>1. CASE u = t
        BY <1>2, <2>2, <3>1
      <3>2. CASE u # t
        BY <2>1, <2>2, <2>3, <3>2 DEF TaskInv
      <3> QED BY <3>1, <3>2
    <2> QED BY <1>3, <2>4 DEF TaskInv
  <1> QED BY <1>4, <1>5, <1>6

\* IndInv is inductive.
LEMMA Inductive == Spec => []IndInv
  <1>1. Init => IndInv
    <2> SUFFICES ASSUME Init PROVE IndInv
      OBVIOUS
    <2> USE Positions DEF Init
    <2>1. IsFiniteSet({}) /\ Cardinality({}) = 0
      BY FS_EmptySet
    <2>2. TypeOK
      <3>1. <<>> \in Seq(HasRegion) /\ 0 = Cardinality({}) + 0
        BY <2>1
      <3>2. regions \in Seq(HasRegion) /\ open_count = Cardinality(files) + claimed
        BY <3>1, Zenon
      <3>3. at \in 1..Done /\ private \in {0, 1} /\ cdev \in {0, 1} /\ claimed \in {0, 1}
            /\ excl_open \in {0, 1}
        OBVIOUS
      <3>4. /\ pc \in [Threads -> {"idle", "call", "body", "callback"}]
            /\ feature \in [Threads -> Present \cup {"none"}]
        OBVIOUS
      <3> QED BY <3>2, <3>3, <3>4, Zenon DEF TypeOK
    <2>3. PhaseInv /\ ClaimInv /\ PositionInv /\ TaskInv
      BY <2>1 DEF PhaseInv, ClaimInv, PositionInv, TaskInv
    <2> QED BY <2>2, <2>3 DEF IndInv
  <1>2. IndInv /\ [Next]_vars => IndInv'
    <2> SUFFICES ASSUME IndInv, [Next]_vars PROVE IndInv'
      OBVIOUS
    <2>1. CASE Driver
      BY <2>1, ProbeStep, InitStep, RemovalStep, ClaimStep DEF Driver
    <2>2. CASE detach_port_dev \/ attach_port_dev
      BY <2>2, ClaimStep
    <2>3. ASSUME NEW t \in Threads,
                 afu_open(t) \/ afu_release(t) \/ afu_ioctl(t) \/ Ends(t)
                 \/ \E f \in Present : SysfsBegin(t, f)
          PROVE  IndInv'
      BY <2>3, FileStep, CallStep
    <2>4. CASE UNCHANGED vars
      <3>1. TypeOK' /\ PhaseInv' /\ ClaimInv' /\ TaskInv'
        BY <2>4 DEF IndInv, TypeOK, PhaseInv, ClaimInv, TaskInv, UinitTurn, vars, devVars,
                    useVars, callVars
      <3>2. PositionInv'
        BY <2>4 DEF IndInv, PositionInv, InitInv, UinitInv, Before, UinitBefore, Turn,
                    UinitTurn, vars, devVars
      <3> QED BY <3>1, <3>2 DEF IndInv
    <2> QED BY <2>1, <2>2, <2>3, <2>4 DEF Next
  <1> QED BY <1>1, <1>2, PTL DEF Spec

-----------------------------------------------------------------------------
(* The theorems.                                                           *)

\* Every variable keeps its type; in particular pdata->open_count is always the
\* number of open files plus the claim of detach_port_dev.
THEOREM LifeTypeOK == Spec => []TypeOK
  <1>1. IndInv => TypeOK
    BY DEF IndInv
  <1> QED BY <1>1, Inductive, PTL

\* No ioctl, last close or sysfs callback uses operations or private data that
\* afu_remove took away, whatever sub-features the port has and however many
\* tasks use it.
THEOREM LifeReadyWhenUsed == Spec => []ReadyWhenUsed
  <1>1. IndInv => ReadyWhenUsed
    <2> SUFFICES ASSUME IndInv, NEW t \in Threads, pc[t] = "callback"
                 PROVE  private = 1
      BY DEF IndInv, TaskInv, ReadyWhenUsed
    <2>1. groups # {} \/ drv = "drain"
      BY DEF IndInv, TaskInv
    <2> QED BY <2>1 DEF IndInv, PositionInv, PhaseInv
  <1> QED BY <1>1, Inductive, PTL

\* Whichever init of a sub-feature fails, an unbound device keeps nothing, and a
\* bound one has every sub-feature initialised exactly once.
THEOREM LifeNothingLeft == Spec => []NothingLeft
  <1>1. IndInv => NothingLeft
    <2> SUFFICES ASSUME IndInv PROVE NothingLeft
      OBVIOUS
    <2>1. drv = "unbound" =>
            ops = {} /\ groups = {} /\ regions = <<>> /\ private = 0 /\ cdev = 0
      BY DEF IndInv, PositionInv, PhaseInv, TypeOK
    <2>2. ASSUME drv = "bound"
          PROVE  /\ ops = Present /\ groups = Present \cap HasSysfs
                 /\ Len(regions) = Cardinality(Present \cap HasRegion)
      <3>1. InitInv({}) /\ at = Done
        BY <2>2 DEF IndInv, PositionInv
      <3>2. ops = Present
        BY <3>1, InitOrder DEF InitInv
      <3>3. Present \cup {} = Present
        OBVIOUS
      <3>4. /\ groups = (Present \cup {}) \cap HasSysfs
            /\ Len(regions) = Cardinality((Present \cup {}) \cap HasRegion)
        BY <3>1, <3>2 DEF InitInv
      <3> QED BY <3>2, <3>3, <3>4, Zenon
    <2> QED BY <2>1, <2>2 DEF NothingLeft
  <1> QED BY <1>1, Inductive, PTL
=============================================================================
