--------------------------- MODULE FmeSysfsProofs ---------------------------
(***************************************************************************)
(* Proofs about FmeSysfs: the registers, counters, errors and directories  *)
(* of the FME, for any tasks, any number of callbacks, any events and any  *)
(* errors, with every directory in use at once.                            *)
(***************************************************************************)
EXTENDS FmeSysfs, SequenceTheorems, TLAPS

-----------------------------------------------------------------------------
(* The inductive invariant.                                                *)

RegNames == PerfUnits \cup {"tmp_threshold", "pm_ap_threshold", "ras_error_inj"}

\* The fields of each register, and what a field may hold.
Fields(r) ==
  CASE r \in {"ch_ctl", "vtd_ctl"} -> {"freeze", "event"}
    [] r = "vtd_sip_ctl" -> {"event"}
    [] r \in Fabrics -> FabricFields
    [] r = "tmp_threshold" ->
         {"thshold1", "thshold1_enable", "thshold2", "thshold2_enable", "policy"}
    [] r = "pm_ap_threshold" -> {"threshold1", "threshold2"}
    [] r = "ras_error_inj" -> {"data"}

Values(f) ==
  CASE f = "event" -> Events
    [] f \in {"filter", "policy"} -> {0, 1}
    [] f \in {"thshold1", "thshold2"} -> 0..TEMP_MAX
    [] f \in {"threshold1", "threshold2"} -> 0..PWR_THRESHOLD_MAX
    [] f = "data" -> 0..FME_RAS_ERROR_INJ_MASK
    [] f \in {"freeze", "port", "thshold1_enable", "thshold2_enable"} -> Nat

RegInv ==
  /\ reg = want /\ DOMAIN reg = RegNames
  /\ \A r \in RegNames :
       DOMAIN reg[r] = Fields(r) /\ \A f \in Fields(r) : reg[r][f] \in Values(f)
  /\ DOMAIN ctr = Counters /\ \A c \in Counters : ctr[c] \in Events

\* What a callback carries with it: the register and the fields to set, the
\* event and the object it counts, or the error register and its old value.
StoreJob(j) ==
  /\ {"at", "node", "kind", "r", "set", "ok"} \subseteq DOMAIN j
  /\ j.r \in RegNames /\ DOMAIN j.set \subseteq Fields(j.r)
  /\ j.ok => \A f \in DOMAIN j.set : j.set[f] \in Values(f)

CountJob(j) ==
  /\ {"at", "node", "kind", "r", "set"} \subseteq DOMAIN j
  /\ j.r \in PerfUnits /\ DOMAIN j.set = {"event"} /\ j.set.event \in Events
  /\ InFabric(j.node) => j.r = FabOf[j.node]

ClearJob(j) ==
  /\ {"at", "node", "kind", "u", "val"} \subseteq DOMAIN j
  /\ j.u \in ErrRegs /\ j.node = "errors"

ClearStates == {"compare", "first", "clear", "unmask"}
LockedStates == {"write", "poll", "read"} \cup ClearStates

JobOK(j) ==
  \/ j.at \in {"idle", "show"}
  \/ j.at \in {"lock", "write"} /\ j.kind = "store" /\ StoreJob(j)
  \/ j.at \in {"lock", "write", "poll", "read"} /\ j.kind = "count" /\ CountJob(j)
  \/ j.at \in {"lock"} \cup ClearStates /\ j.kind = "clear" /\ ClearJob(j)

\* A callback that is past mutex_lock holds the lock; its object is allocated.
CallInv ==
  /\ DOMAIN job = Tasks
  /\ lock \in Tasks \cup {NoTask, Remover}
  /\ \A t \in Tasks :
       /\ JobOK(job[t])
       /\ job[t].at \in LockedStates => lock = t
       /\ job[t].at # "idle" => job[t].node \in mem

\* What the holder of the lock has read of a register is still true of it.
HeldInv(t) ==
  LET j == job[t] IN
  /\ j.at = "write" => j.got = reg[j.r]
  /\ j.at \in {"poll", "read"} =>
       /\ reg[j.r].event = j.set.event
       /\ InFabric(j.node) => CountedIn(reg[j.r]) = IdOf[j.node]
  /\ j.at = "read" => ctr[j.r] = j.set.event

\* Errors stay masked during a clear, so that none the driver can mask comes
\* after the comparison, and what is unmasked outside of it leaves a trace.
ClearInv(t) ==
  LET j == job[t] IN
  /\ j.at \in ClearStates => errs[j.u].mask = Maskable
  /\ j.at \in {"first", "clear"} => errs[j.u].err \cap Maskable = j.val \cap Maskable

ErrInv ==
  /\ errs \in [ErrRegs -> [err: SUBSET Errors, first: SUBSET Errors,
                           next: SUBSET Errors, mask: SUBSET Maskable]]
  /\ errs["fme"].err \cap Maskable # {} => errs["fme"].first # {}
  /\ \A u \in ErrRegs :
       "errors" \in shown /\ ~Clearing(u) => errs[u].mask = DefaultMask(u)

\* The sub-features before position n, in the order of init and of uinit.
Features == {"thermal", "power", "err", "iperf", "dperf"}
Before(n) == {fme_feature_drvs[i] : i \in 1..(n - 1)}
UinitBefore(n) == {fme_features[i] : i \in 1..(n - 1)}

\* Which sub-features are initialised at each point of probe and removal, and
\* how far the current one's directories are.
PhaseInv ==
  /\ phase \in {"unbound", "init", "bound", "uinit", "destroy"}
  /\ at \in 1..Done /\ draining \in BOOLEAN /\ iommu \in BOOLEAN
  /\ lock = Remover => phase = "destroy" /\ cur = "err"
  /\ draining => phase = "destroy" /\ made # <<>>
  /\ ready \subseteq Features
  /\ phase = "unbound" => ready = {}
  /\ phase = "init" => ready = Before(at) /\ (at < Done => cur = fme_feature_drvs[at])
  /\ phase = "bound" => ready = Features
  /\ phase = "uinit" => ready \cap UinitBefore(at) = {}
  /\ phase = "destroy" =>
       /\ cur \in Features
       /\ cur \in ready => at < Done /\ cur = fme_features[at]
                           /\ ready \cap UinitBefore(at) = {}

DirNames == {"thermal", "power", "errors", "iperf", "iommu", "afu0", "fabric", "port0",
             "dperf", "dfabric", "dport0"}

\* The current sub-feature has directories while it is created or destroyed.
Busy == phase = "destroy" \/ (phase = "init" /\ at < Done)

MadeInv ==
  /\ ~Busy => made = <<>>
  /\ Busy => made \in Seq(DirNames) /\ Len(made) <= Len(Dirs(cur))
             /\ \A i \in 1..Len(made) : made[i] = Dirs(cur)[i]

\* The directories are those of the initialised sub-features and of the
\* current one; the one that waits for its callbacks cannot be opened.
DirsOf(S) == UNION {ToSet(Dirs(f)) : f \in S}
Kept == IF phase = "destroy" THEN ready \ {cur} ELSE ready

MemInv ==
  /\ mem = DirsOf(Kept) \cup ToSet(made)
  /\ shown = IF draining THEN mem \ {Last(made)} ELSE mem

IndInv ==
  /\ started \in 0..MaxOps /\ occurred \in Nat
  /\ RegInv /\ CallInv /\ ErrInv /\ PhaseInv /\ MadeInv /\ MemInv
  /\ \A t \in Tasks : HeldInv(t) /\ ClearInv(t)

-----------------------------------------------------------------------------
(* The object tree.                                                        *)

\* Concatenation, by its elements.
LEMMA Concatenation ==
  ASSUME NEW S, NEW s \in Seq(S), NEW t \in Seq(S), NEW u \in Seq(S),
         Len(u) = Len(s) + Len(t),
         \A i \in 1..Len(u) : u[i] = IF i <= Len(s) THEN s[i] ELSE t[i - Len(s)]
  PROVE  s \o t = u
  <1>1. s \o t \in Seq(S) /\ Len(s \o t) = Len(u)
    BY ConcatProperties
  <1>2. \A i \in 1..Len(u) : (s \o t)[i] = u[i]
    BY ConcatProperties
  <1> QED BY <1>1, <1>2, SeqEqual, Zenon

\* The concatenation that Dirs makes for a unit without an IOMMU.
LEMMA OneAndTwo ==
  ASSUME NEW a, NEW b, NEW c
  PROVE  <<a>> \o <<b, c>> = <<a, b, c>>
  <1> DEFINE S == {a, b, c}  s == <<a>>  t == <<b, c>>  u == <<a, b, c>>
  <1>1. s \in Seq(S) /\ t \in Seq(S) /\ u \in Seq(S)
    OBVIOUS
  <1>2. Len(u) = Len(s) + Len(t)
    OBVIOUS
  <1>3. \A i \in 1..Len(u) : u[i] = IF i <= Len(s) THEN s[i] ELSE t[i - Len(s)]
    OBVIOUS
  <1> HIDE DEF S, s, t, u
  <1>4. s \o t = u
    BY <1>1, <1>2, <1>3, Concatenation
  <1> QED BY <1>4 DEF s, t, u

\* The concatenation that Dirs makes for a unit with an IOMMU.
LEMMA ThreeAndTwo ==
  ASSUME NEW a, NEW b, NEW c, NEW d, NEW e
  PROVE  <<a, b, c>> \o <<d, e>> = <<a, b, c, d, e>>
  <1> DEFINE S == {a, b, c, d, e}
             s == <<a, b, c>>  t == <<d, e>>  u == <<a, b, c, d, e>>
  <1>1. s \in Seq(S) /\ t \in Seq(S) /\ u \in Seq(S)
    OBVIOUS
  <1>2. Len(u) = Len(s) + Len(t)
    OBVIOUS
  <1>3. \A i \in 1..Len(u) : u[i] = IF i <= Len(s) THEN s[i] ELSE t[i - Len(s)]
    OBVIOUS
  <1> HIDE DEF S, s, t, u
  <1>4. s \o t = u
    BY <1>1, <1>2, <1>3, Concatenation
  <1> QED BY <1>4 DEF s, t, u

\* The directories of the sub-features, written out.
LEMMA DirsValues ==
  ASSUME iommu \in BOOLEAN
  PROVE  /\ Dirs("thermal") = <<"thermal">> /\ Dirs("power") = <<"power">>
         /\ Dirs("err") = <<"errors">>
         /\ Dirs("dperf") = <<"dperf", "dfabric", "dport0">>
         /\ Dirs("iperf") = IF iommu THEN <<"iperf", "iommu", "afu0", "fabric", "port0">>
                            ELSE <<"iperf", "fabric", "port0">>
  <1>1. <<"iperf">> \o <<"iommu", "afu0">> \o <<"fabric", "port0">>
          = <<"iperf", "iommu", "afu0", "fabric", "port0">>
    <2>1. <<"iperf">> \o <<"iommu", "afu0">> = <<"iperf", "iommu", "afu0">>
      BY OneAndTwo
    <2>2. <<"iperf", "iommu", "afu0">> \o <<"fabric", "port0">>
            = <<"iperf", "iommu", "afu0", "fabric", "port0">>
      BY ThreeAndTwo
    <2> QED BY <2>1, <2>2, Zenon
  <1>2. <<"iperf">> \o <<>> \o <<"fabric", "port0">> = <<"iperf", "fabric", "port0">>
    <2>1. <<"iperf">> \o <<>> = <<"iperf">>
      OBVIOUS
    <2>2. <<"iperf">> \o <<"fabric", "port0">> = <<"iperf", "fabric", "port0">>
      BY OneAndTwo
    <2> QED BY <2>1, <2>2, Zenon
  <1>3. CASE iommu
    BY <1>1, <1>3 DEF Dirs, fme_dperf_objs, fme_iperf_objs, create_perf_iommu_obj,
                      create_perf_fabric_obj
  <1>4. CASE ~iommu
    BY <1>2, <1>4 DEF Dirs, fme_dperf_objs, fme_iperf_objs, create_perf_iommu_obj,
                      create_perf_fabric_obj
  <1> QED BY <1>3, <1>4

\* A sub-feature has one, three or five directories.
LEMMA DirsType ==
  ASSUME iommu \in BOOLEAN, NEW f \in Features
  PROVE  Dirs(f) \in Seq(DirNames) /\ Len(Dirs(f)) \in {1, 3, 5}
  <1> DEFINE OK(s) == s \in Seq(DirNames) /\ Len(s) \in {1, 3, 5}
  <1>1. OK(<<"thermal">>) /\ OK(<<"power">>) /\ OK(<<"errors">>)
    BY DEF DirNames
  <1>2. OK(<<"dperf", "dfabric", "dport0">>) /\ OK(<<"iperf", "fabric", "port0">>)
        /\ OK(<<"iperf", "iommu", "afu0", "fabric", "port0">>)
    BY DEF DirNames
  <1> HIDE DEF OK
  <1>3. OK(Dirs(f))
    BY <1>1, <1>2, DirsValues DEF Features
  <1> QED BY <1>3 DEF OK

\* No directory occurs twice.
LEMMA DirsDistinct ==
  ASSUME iommu \in BOOLEAN, NEW f \in Features, NEW g \in Features,
         NEW i \in 1..Len(Dirs(f)), NEW k \in 1..Len(Dirs(g)),
         Dirs(f)[i] = Dirs(g)[k]
  PROVE  f = g /\ i = k
  <1> DEFINE Owner(d) ==
        CASE d = "thermal" -> "thermal" [] d = "power" -> "power"
          [] d = "errors" -> "err"
          [] d \in {"dperf", "dfabric", "dport0"} -> "dperf"
          [] d \in {"iperf", "iommu", "afu0", "fabric", "port0"} -> "iperf"
  <1> DEFINE Place(d) ==
        CASE d \in {"thermal", "power", "errors", "dperf", "iperf"} -> 1
          [] d \in {"dfabric", "iommu"} -> 2
          [] d \in {"dport0", "afu0"} -> 3
          [] d = "fabric" -> IF iommu THEN 4 ELSE 2
          [] d = "port0" -> IF iommu THEN 5 ELSE 3
  <1>1. ASSUME NEW h \in Features, NEW n \in 1..Len(Dirs(h))
        PROVE  Owner(Dirs(h)[n]) = h /\ Place(Dirs(h)[n]) = n
    <2>1. n \in {1, 2, 3, 4, 5} /\ n <= Len(Dirs(h))
      <3>1. PICK m \in {1, 3, 5} : Len(Dirs(h)) = m
        BY DirsType
      <3>2. n \in 1..m
        BY <3>1, Zenon
      <3> QED BY <3>1, <3>2
    <2>2. CASE h = "thermal"
      BY <2>1, <2>2, DirsValues
    <2>3. CASE h = "power"
      BY <2>1, <2>3, DirsValues
    <2>4. CASE h = "err"
      BY <2>1, <2>4, DirsValues
    <2>5. CASE h = "dperf"
      BY <2>1, <2>5, DirsValues
    <2>6. CASE h = "iperf"
      <3>1. CASE iommu
        BY <2>1, <2>6, <3>1, DirsValues
      <3>2. CASE ~iommu
        BY <2>1, <2>6, <3>2, DirsValues
      <3> QED BY <3>1, <3>2
    <2> QED BY <2>2, <2>3, <2>4, <2>5, <2>6 DEF Features
  <1> HIDE DEF Owner, Place
  <1> QED BY <1>1

\* The order of init has every sub-feature once.
LEMMA InitOrder ==
  /\ Done = 6 /\ 1..Done = 1..6
  /\ Before(1) = {} /\ Before(Done) = Features
  /\ \A n \in 1..5 : /\ fme_feature_drvs[n] \in Features
                     /\ fme_feature_drvs[n] \notin Before(n)
                     /\ Before(n + 1) = Before(n) \cup {fme_feature_drvs[n]}
  <1> USE DEF Before, fme_feature_drvs, Done, Features
  <1>1. Done = 6
    OBVIOUS
  <1>2. Before(1) = {}
    OBVIOUS
  <1>3. \A n \in 1..5 : Before(n + 1) = Before(n) \cup {fme_feature_drvs[n]}
    OBVIOUS
  <1>4. \A n \in 1..5 : fme_feature_drvs[n] \notin Before(n)
    <2> SUFFICES ASSUME NEW n \in 1..5, NEW i \in 1..(n - 1)
                 PROVE  fme_feature_drvs[n] # fme_feature_drvs[i]
      OBVIOUS
    <2>1. n \in {2, 3, 4, 5} /\ i \in {1, 2, 3, 4} /\ i < n
      OBVIOUS
    <2> QED BY <2>1
  <1>5. \A n \in 1..5 : fme_feature_drvs[n] \in Features
    OBVIOUS
  <1>6. Before(Done) = Features
    <2>1. \A i \in 1..5 : fme_feature_drvs[i] \in Before(Done)
      OBVIOUS
    <2>2. Features \subseteq Before(Done)
      BY <2>1
    <2>3. Before(Done) \subseteq Features
      BY <1>5
    <2> QED BY <2>2, <2>3
  <1> QED BY <1>1, <1>2, <1>3, <1>4, <1>5, <1>6

\* The order of uinit passes every sub-feature.
LEMMA UinitOrder ==
  /\ UinitBefore(1) = {} /\ Features \subseteq UinitBefore(Done)
  /\ \A n \in 1..5 : /\ fme_features[n] \in Features
                     /\ UinitBefore(n + 1) = UinitBefore(n) \cup {fme_features[n]}
  <1> USE DEF UinitBefore, fme_features, fme_feature_drvs, Done, Features
  <1>1. UinitBefore(1) = {}
    OBVIOUS
  <1>2. \A n \in 1..5 : UinitBefore(n + 1) = UinitBefore(n) \cup {fme_features[n]}
    OBVIOUS
  <1>3. \A n \in 1..5 : fme_features[n] \in Features
    OBVIOUS
  <1>4. Features \subseteq UinitBefore(Done)
    <2>1. \A i \in 1..5 : fme_features[i] \in UinitBefore(Done)
      OBVIOUS
    <2> QED BY <2>1
  <1> QED BY <1>1, <1>2, <1>3, <1>4

\* The directories of all sub-features.
LEMMA AllDirsOf == AllDirs = DirsOf(Features)
  <1>1. DOMAIN fme_features = 1..5
    BY DEF fme_features
  <1>2. Features = {fme_features[i] : i \in 1..5}
    <2>1. \A i \in 1..5 : fme_features[i] \in Features
      BY UinitOrder
    <2>2. Features \subseteq {fme_features[i] : i \in 1..5}
      BY DEF Features, fme_features
    <2> QED BY <2>1, <2>2
  <1>3. AllDirs = UNION {ToSet(Dirs(fme_features[i])) : i \in 1..5}
    BY <1>1 DEF AllDirs
  <1>4. {ToSet(Dirs(fme_features[i])) : i \in 1..5} = {ToSet(Dirs(f)) : f \in Features}
    BY <1>2
  <1> QED BY <1>3, <1>4 DEF DirsOf

-----------------------------------------------------------------------------
(* Steps of callbacks.                                                     *)

\* A step of a callback leaves probe and removal where they are.
LEMMA LifeKept ==
  ASSUME PhaseInv, MadeInv, MemInv, UNCHANGED <<shown, lifeVars>>,
         lock' = Remover => lock = Remover
  PROVE  PhaseInv' /\ MadeInv' /\ MemInv'
  <1>1. \A f : Dirs(f)' = Dirs(f)
    BY DEF lifeVars, Dirs, fme_iperf_objs, create_perf_iommu_obj
  <1>2. PhaseInv'
    BY DEF PhaseInv, lifeVars
  <1>3. MadeInv'
    BY <1>1 DEF MadeInv, lifeVars, Busy
  <1>4. \A S : DirsOf(S)' = DirsOf(S)
    BY <1>1 DEF DirsOf
  <1>5. Kept' = Kept
    BY DEF Kept, lifeVars
  <1>6. MemInv'
    BY <1>4, <1>5 DEF MemInv, lifeVars
  <1> QED BY <1>2, <1>3, <1>6

\* A step of task t that says what it does to its own call keeps the invariant
\* if it writes registers, or takes the lock, only when no other task holds it.
LEMMA TaskStep ==
  ASSUME IndInv, NEW t \in Tasks,
         UNCHANGED <<shown, ctr, lifeVars>>,
         started' \in 0..MaxOps, occurred' \in Nat, RegInv', ErrInv',
         DOMAIN job' = Tasks, \A u \in Tasks \ {t} : job'[u] = job[u],
         JobOK(job'[t]), job'[t].at # "idle" => job'[t].node \in mem,
         job'[t].at \in LockedStates => lock' = t,
         lock' \in {lock, t, NoTask}, lock' # lock => lock \in {t, NoTask},
         reg' # reg \/ errs' # errs => lock \in {t, NoTask},
         HeldInv(t)', ClearInv(t)'
  PROVE  IndInv'
  <1>1. PhaseInv' /\ MadeInv' /\ MemInv'
    <2>1. lock' = Remover => lock = Remover
      BY TasksAssumption
    <2> QED BY <2>1, LifeKept DEF IndInv
  <1>2. ASSUME NEW u \in Tasks \ {t}, job[u].at \in LockedStates
        PROVE  lock = u /\ lock' = u /\ reg' = reg /\ errs' = errs
    BY <1>2, TasksAssumption DEF IndInv, CallInv
  <1>3. CallInv'
    <2>1. lock' \in Tasks \cup {NoTask, Remover}
      BY DEF IndInv, CallInv
    <2>2. mem' = mem
      BY DEF lifeVars
    <2>3. ASSUME NEW u \in Tasks \ {t}
          PROVE  /\ JobOK(job'[u]) /\ (job'[u].at \in LockedStates => lock' = u)
                 /\ job'[u].at # "idle" => job'[u].node \in mem'
      <3>1. job'[u] = job[u]
        BY <2>3
      <3>2. JobOK(job[u]) /\ (job[u].at # "idle" => job[u].node \in mem)
        BY <2>3 DEF IndInv, CallInv
      <3> QED BY <1>2, <2>2, <2>3, <3>1, <3>2, Zenon
    <2>4. \A u \in Tasks : JobOK(job[u])' <=> JobOK(job'[u])
      BY DEF JobOK, StoreJob, CountJob, ClearJob
    <2> QED BY <2>1, <2>2, <2>3, <2>4 DEF CallInv
  <1>4. ASSUME NEW u \in Tasks
        PROVE  HeldInv(u)' /\ ClearInv(u)'
    <2>1. CASE u = t
      BY <2>1
    <2>2. CASE u # t
      <3>1. job'[u] = job[u] /\ HeldInv(u) /\ ClearInv(u)
        BY <2>2 DEF IndInv
      <3>2. CASE job[u].at \in LockedStates
        BY <1>2, <2>2, <3>1, <3>2 DEF HeldInv, ClearInv
      <3>3. CASE job[u].at \notin LockedStates
        BY <3>1, <3>3 DEF HeldInv, ClearInv, LockedStates, ClearStates
      <3> QED BY <3>2, <3>3
    <2> QED BY <2>1, <2>2
  <1> QED BY <1>1, <1>3, <1>4 DEF IndInv

\* The errors are consistent after a step of a task that does not clear them.
LEMMA ErrorsAlone ==
  ASSUME IndInv, NEW t \in Tasks, UNCHANGED <<shown, errs>>,
         \A u \in Tasks \ {t} : job'[u] = job[u],
         job[t].at \notin ClearStates
  PROVE  ErrInv'
  <1>1. ASSUME NEW u \in ErrRegs, Clearing(u)
        PROVE  Clearing(u)'
    BY <1>1 DEF Clearing, ClearStates
  <1> QED BY <1>1 DEF IndInv, ErrInv

\* A callback begins.
LEMMA BeginStep ==
  ASSUME IndInv, NEW t \in Tasks, NEW n, NEW j, Begin(t, n, j),
         JobOK(Over([node |-> n], j)), "at" \in DOMAIN j, j.at \in {"lock", "show"},
         UNCHANGED <<ctr, errVars, lifeVars>>
  PROVE  IndInv'
  <1> DEFINE k == Over([node |-> n], j)
  <1>1. k.at \in {"lock", "show"} /\ k.node = n
    BY DEF Over
  <1>2. DOMAIN job = Tasks
    BY DEF IndInv, CallInv
  <1>3. job' = [job EXCEPT ![t] = k] /\ job[t].at = "idle" /\ n \in shown
    BY DEF Begin
  <1> HIDE DEF k
  <1>4. job'[t] = k /\ DOMAIN job' = Tasks /\ \A u \in Tasks \ {t} : job'[u] = job[u]
    BY <1>2, <1>3
  <1>5. RegInv' /\ UNCHANGED <<lock, reg, shown, errs, occurred>>
    BY DEF Begin, regVars, IndInv, RegInv, errVars
  <1>6. ErrInv'
    BY <1>3, <1>4, <1>5, ErrorsAlone DEF ClearStates
  <1>7. started' \in 0..MaxOps /\ occurred' \in Nat
    BY <1>5, TasksAssumption DEF Begin, IndInv
  <1>8. n \in mem
    BY <1>3 DEF IndInv, MemInv
  <1>9. HeldInv(t)' /\ ClearInv(t)'
    BY <1>1, <1>4 DEF HeldInv, ClearInv, ClearStates
  <1>10. JobOK(job'[t]) /\ job'[t].at \notin LockedStates
    BY <1>1, <1>4 DEF k, LockedStates, ClearStates
  <1> QED BY <1>1, <1>4, <1>5, <1>6, <1>7, <1>8, <1>9, <1>10, TaskStep

\* The four kinds of callback.
LEMMA StoreBegins ==
  ASSUME IndInv, NEW t \in Tasks, NEW n, NEW r \in RegNames, NEW set, NEW ok,
         DOMAIN set \subseteq Fields(r), ok => \A f \in DOMAIN set : set[f] \in Values(f),
         Begin(t, n, Store(r, set, ok)), UNCHANGED <<ctr, errVars, lifeVars>>
  PROVE  IndInv'
  <1> DEFINE j == Store(r, set, ok)
             k == Over([node |-> n], j)
  <1>1. /\ DOMAIN k = {"at", "node", "kind", "r", "set", "ok"}
        /\ k.at = "lock" /\ k.kind = "store" /\ k.r = r /\ k.set = set /\ k.ok = ok
    BY DEF Over, Store
  <1>2. "at" \in DOMAIN j /\ j.at = "lock"
    BY DEF Store
  <1> HIDE DEF k
  <1>3. JobOK(k)
    BY <1>1 DEF JobOK, StoreJob
  <1> QED BY <1>2, <1>3, BeginStep DEF k

\* A callback that selects and reads a counter begins.
LEMMA CountBegins ==
  ASSUME IndInv, NEW t \in Tasks, NEW n, NEW r \in PerfUnits, NEW e \in Events,
         InFabric(n) => r = FabOf[n],
         Begin(t, n, Count(r, e)), UNCHANGED <<ctr, errVars, lifeVars>>
  PROVE  IndInv'
  <1> DEFINE j == Count(r, e)
             k == Over([node |-> n], j)
  <1>1. /\ DOMAIN k = {"at", "node", "kind", "r", "set"}
        /\ k.at = "lock" /\ k.kind = "count" /\ k.r = r /\ k.node = n
        /\ k.set = [event |-> e]
    BY DEF Over, Count
  <1>2. "at" \in DOMAIN j /\ j.at = "lock"
    BY DEF Count
  <1> HIDE DEF k
  <1>3. JobOK(k)
    BY <1>1 DEF JobOK, CountJob
  <1> QED BY <1>2, <1>3, BeginStep DEF k

\* A callback that clears errors begins.
LEMMA ClearBegins ==
  ASSUME IndInv, NEW t \in Tasks, NEW u \in ErrRegs,
         Begin(t, "errors", Clear(u)), UNCHANGED <<ctr, errVars, lifeVars>>
  PROVE  IndInv'
  <1> DEFINE j == Clear(u)
             k == Over([node |-> "errors"], j)
  <1>1. /\ DOMAIN k = {"at", "node", "kind", "u", "val"}
        /\ k.at = "lock" /\ k.kind = "clear" /\ k.u = u /\ k.node = "errors"
    BY DEF Over, Clear
  <1>2. "at" \in DOMAIN j /\ j.at = "lock"
    BY DEF Clear
  <1> HIDE DEF k
  <1>3. JobOK(k)
    BY <1>1 DEF JobOK, ClearJob
  <1> QED BY <1>2, <1>3, BeginStep DEF k

\* A callback that only reads begins.
LEMMA ShowBegins ==
  ASSUME IndInv, NEW t \in Tasks, NEW n,
         Begin(t, n, Show), UNCHANGED <<ctr, errVars, lifeVars>>
  PROVE  IndInv'
  <1>1. Over([node |-> n], Show).at = "show" /\ "at" \in DOMAIN Show /\ Show.at = "show"
    BY DEF Over, Show
  <1>2. JobOK(Over([node |-> n], Show))
    BY <1>1 DEF JobOK
  <1> QED BY <1>1, <1>2, BeginStep

\* Every attribute is one of the four, with fields that its register has.
LEMMA PerfBeginsStep ==
  ASSUME IndInv, NEW t \in Tasks, PerfBegins(t), UNCHANGED <<ctr, errVars, lifeVars>>
  PROVE  IndInv'
  <1> USE DEF RegNames, PerfUnits, Fabrics
  <1>1. ASSUME NEW v \in 0..1,
               \/ freeze_store(t, v) \/ vtd_freeze_store(t, v)
               \/ fab_freeze_store(t, v) \/ dperf_fab_freeze_store(t, v)
        PROVE  IndInv'
    <2>1. PICK n \in DirNames, r \in {"ch_ctl", "vtd_ctl", "fab_ctl", "dfab_ctl"} :
            Begin(t, n, Store(r, [freeze |-> v], TRUE))
      BY <1>1 DEF freeze_store, vtd_freeze_store, fab_freeze_store,
                  dperf_fab_freeze_store, DirNames
    <2>2. DOMAIN [freeze |-> v] \subseteq Fields(r)
      BY DEF Fields, FabricFields
    <2>3. \A f \in DOMAIN [freeze |-> v] : [freeze |-> v][f] \in Values(f)
      BY DEF Values
    <2> QED BY <2>1, <2>2, <2>3, StoreBegins
  <1>2. ASSUME NEW n \in {"fabric", "port0", "dfabric", "dport0"}, FabEnable(t, n)
        PROVE  IndInv'
    <2> DEFINE id == IdOf[n]
               set == IF id = PERF_OBJ_ROOT_ID THEN [filter |-> FAB_DISABLE_FILTER]
                      ELSE [filter |-> FAB_ENABLE_FILTER, port |-> id]
    <2>1. Begin(t, n, Store(FabOf[n], set, TRUE))
      BY <1>2 DEF FabEnable
    <2>2. FabOf[n] \in Fabrics /\ id \in {0, PERF_OBJ_ROOT_ID}
      BY DEF FabOf, IdOf
    <2>3. /\ DOMAIN set \subseteq {"filter", "port"}
          /\ \A f \in DOMAIN set : set[f] \in {0, 1}
      BY <2>2 DEF FAB_DISABLE_FILTER, FAB_ENABLE_FILTER
    <2> HIDE DEF set
    <2>4. DOMAIN set \subseteq Fields(FabOf[n])
      BY <2>2, <2>3 DEF Fields, FabricFields
    <2>5. \A f \in DOMAIN set : set[f] \in Values(f)
      BY <2>3 DEF Values
    <2> QED BY <2>1, <2>2, <2>4, <2>5, StoreBegins
  <1>3. ASSUME NEW e \in Events,
               \/ read_cache_counter(t, e) \/ read_iommu_sip_counter(t, e)
               \/ read_iommu_counter(t, e)
               \/ read_fabric_counter(t, e) \/ dperf_read_fabric_counter(t, e)
        PROVE  IndInv'
    <2>1. PICK n \in DirNames, r \in PerfUnits, c \in Events :
            (InFabric(n) => r = FabOf[n]) /\ Begin(t, n, Count(r, c))
      BY <1>3 DEF read_cache_counter, read_iommu_sip_counter, read_iommu_counter,
                  read_fabric_counter, dperf_read_fabric_counter, InFabric, FabOf,
                  DirNames
    <2> QED BY <2>1, CountBegins
  <1>4. CASE perf_obj_attr_show(t) \/ dperf_obj_attr_show(t)
    BY <1>4, ShowBegins DEF perf_obj_attr_show, dperf_obj_attr_show
  <1> QED BY <1>1, <1>2, <1>3, <1>4 DEF PerfBegins, fab_enable_store, dperf_fab_enable_store

\* A callback of the thermal or power directory begins.
LEMMA MgmtBeginsStep ==
  ASSUME IndInv, NEW t \in Tasks, MgmtBegins(t), UNCHANGED <<ctr, errVars, lifeVars>>
  PROVE  IndInv'
  <1> DEFINE Fits(set, ok) == ok => \A f \in DOMAIN set : set[f] \in Values(f)
  <1>1. ASSUME NEW v \in Temps, thermal_threshold1_store(t, v)
        PROVE  IndInv'
    <2> DEFINE set == [thshold1 |-> v, thshold1_enable |-> Enabled(v)]
    <2>1. Begin(t, "thermal", Store("tmp_threshold", set, TempAllowed(v)))
      BY <1>1 DEF thermal_threshold1_store
    <2>2. DOMAIN set \subseteq Fields("tmp_threshold")
      BY DEF Fields, Fabrics
    <2>3. Fits(set, TempAllowed(v))
      BY DEF Values, TempAllowed, Enabled, Temps, TEMP_MAX
    <2> HIDE DEF set
    <2> QED BY <2>1, <2>2, <2>3, StoreBegins DEF RegNames
  <1>2. ASSUME NEW v \in Temps, thermal_threshold2_store(t, v)
        PROVE  IndInv'
    <2> DEFINE set == [thshold2 |-> v, thshold2_enable |-> Enabled(v)]
    <2>1. Begin(t, "thermal", Store("tmp_threshold", set, TempAllowed(v)))
      BY <1>2 DEF thermal_threshold2_store
    <2>2. DOMAIN set \subseteq Fields("tmp_threshold")
      BY DEF Fields, Fabrics
    <2>3. Fits(set, TempAllowed(v))
      BY DEF Values, TempAllowed, Enabled, Temps, TEMP_MAX
    <2> HIDE DEF set
    <2> QED BY <2>1, <2>2, <2>3, StoreBegins DEF RegNames
  <1>3. ASSUME NEW v \in Policies, thermal_threshold1_policy_store(t, v)
        PROVE  IndInv'
    <2> DEFINE set == [policy |-> v]
    <2>1. Begin(t, "thermal", Store("tmp_threshold", set, v \in {0, 1}))
      BY <1>3 DEF thermal_threshold1_policy_store
    <2>2. DOMAIN set \subseteq Fields("tmp_threshold")
      BY DEF Fields, Fabrics
    <2>3. Fits(set, v \in {0, 1})
      BY DEF Values
    <2> HIDE DEF set
    <2> QED BY <2>1, <2>2, <2>3, StoreBegins DEF RegNames
  <1>4. ASSUME NEW v \in Powers, pwr_threshold1_store(t, v)
        PROVE  IndInv'
    <2> DEFINE set == [threshold1 |-> v]
    <2>1. Begin(t, "power", Store("pm_ap_threshold", set, v <= PWR_THRESHOLD_MAX))
      BY <1>4 DEF pwr_threshold1_store
    <2>2. DOMAIN set \subseteq Fields("pm_ap_threshold")
      BY DEF Fields, Fabrics
    <2>3. Fits(set, v <= PWR_THRESHOLD_MAX)
      BY DEF Values, Powers, PWR_THRESHOLD_MAX
    <2> HIDE DEF set
    <2> QED BY <2>1, <2>2, <2>3, StoreBegins DEF RegNames
  <1>5. ASSUME NEW v \in Powers, pwr_threshold2_store(t, v)
        PROVE  IndInv'
    <2> DEFINE set == [threshold2 |-> v]
    <2>1. Begin(t, "power", Store("pm_ap_threshold", set, v <= PWR_THRESHOLD_MAX))
      BY <1>5 DEF pwr_threshold2_store
    <2>2. DOMAIN set \subseteq Fields("pm_ap_threshold")
      BY DEF Fields, Fabrics
    <2>3. Fits(set, v <= PWR_THRESHOLD_MAX)
      BY DEF Values, Powers, PWR_THRESHOLD_MAX
    <2> HIDE DEF set
    <2> QED BY <2>1, <2>2, <2>3, StoreBegins DEF RegNames
  <1>6. CASE thermal_show(t) \/ power_show(t)
    BY <1>6, ShowBegins DEF thermal_show, power_show
  <1> QED BY <1>1, <1>2, <1>3, <1>4, <1>5, <1>6 DEF MgmtBegins

\* A callback of the error directory begins.
LEMMA ErrorBeginsStep ==
  ASSUME IndInv, NEW t \in Tasks, ErrorBegins(t), UNCHANGED <<ctr, errVars, lifeVars>>
  PROVE  IndInv'
  <1>1. CASE clear_store(t) \/ pcie0_errors_store(t) \/ pcie1_errors_store(t)
    BY <1>1, ClearBegins DEF clear_store, pcie0_errors_store, pcie1_errors_store, ErrRegs
  <1>2. CASE inject_error_store(t)
    <2>1. PICK v \in {1, FME_RAS_ERROR_INJ_MASK + 1} :
            Begin(t, "errors", Store("ras_error_inj", [data |-> v],
                                     v <= FME_RAS_ERROR_INJ_MASK))
      BY <1>2 DEF inject_error_store
    <2> DEFINE set == [data |-> v]
    <2>2. DOMAIN set \subseteq Fields("ras_error_inj")
      BY DEF Fields, Fabrics
    <2>3. v <= FME_RAS_ERROR_INJ_MASK => \A f \in DOMAIN set : set[f] \in Values(f)
      BY DEF Values, FME_RAS_ERROR_INJ_MASK
    <2> HIDE DEF set
    <2>4. Begin(t, "errors", Store("ras_error_inj", set, v <= FME_RAS_ERROR_INJ_MASK))
      BY <2>1 DEF set
    <2> QED BY <2>2, <2>3, <2>4, StoreBegins DEF RegNames
  <1>3. CASE error_show(t)
    BY <1>3, ShowBegins DEF error_show
  <1> QED BY <1>1, <1>2, <1>3 DEF ErrorBegins

\* A write back of what was read under the lock, with good values in the fields
\* it replaces, changes those fields alone, in the register as in the history.
LEMMA UpdateRegs ==
  ASSUME RegInv, NEW t \in Tasks, Update(t), ctr' = ctr,
         NEW r \in RegNames, r = job[t].r, NEW set, set = job[t].set,
         job[t].got = reg[r], DOMAIN set \subseteq Fields(r),
         \A f \in DOMAIN set : set[f] \in Values(f)
  PROVE  RegInv' /\ reg'[r] = Over(set, reg[r])
  <1>1. /\ reg' = [reg EXCEPT ![r] = Over(set, reg[r])]
        /\ want' = [want EXCEPT ![r] = Over(set, want[r])]
    BY DEF Update
  <1>2. DOMAIN reg = RegNames /\ reg = want
    BY DEF RegInv
  <1>3. reg' = want' /\ DOMAIN reg' = RegNames
    BY <1>1, <1>2
  <1>4. reg'[r] = Over(set, reg[r]) /\ \A q \in RegNames \ {r} : reg'[q] = reg[q]
    BY <1>1, <1>2
  <1>5. DOMAIN reg'[r] = Fields(r) /\ \A f \in Fields(r) : reg'[r][f] \in Values(f)
    BY <1>4 DEF RegInv, Over
  <1>6. ASSUME NEW q \in RegNames
        PROVE  DOMAIN reg'[q] = Fields(q) /\ \A f \in Fields(q) : reg'[q][f] \in Values(f)
    <2>1. CASE q = r
      BY <1>5, <2>1
    <2>2. CASE q # r
      BY <1>4, <2>2 DEF RegInv
    <2> QED BY <2>1, <2>2
  <1> QED BY <1>3, <1>4, <1>6 DEF RegInv

\* The end of a call, with the lock free for others.
LEMMA ReturnStep ==
  ASSUME IndInv, NEW t \in Tasks, Return(t), lock = t,
         UNCHANGED <<shown, ctr, started, occurred, lifeVars>>, RegInv', ErrInv'
  PROVE  IndInv'
  <1>1. DOMAIN job = Tasks
    BY DEF IndInv, CallInv
  <1>2. lock' = NoTask /\ job'[t] = Idle /\ DOMAIN job' = Tasks
        /\ \A u \in Tasks \ {t} : job'[u] = job[u]
    BY <1>1 DEF Return
  <1>3. job'[t].at = "idle"
    BY <1>2 DEF Idle
  <1>4. JobOK(job'[t]) /\ HeldInv(t)' /\ ClearInv(t)' /\ job'[t].at \notin LockedStates
    BY <1>3 DEF JobOK, HeldInv, ClearInv, ClearStates, LockedStates
  <1>5. started' \in 0..MaxOps /\ occurred' \in Nat
    BY DEF IndInv
  <1> QED BY <1>2, <1>3, <1>4, <1>5, TaskStep

\* Stores.
LEMMA CallbackStep ==
  ASSUME IndInv, NEW t \in Tasks, CallbackSteps(t), UNCHANGED <<ctr, errVars, lifeVars>>
  PROVE  IndInv'
  <1>1. /\ DOMAIN job = Tasks /\ JobOK(job[t]) /\ RegInv /\ HeldInv(t)
        /\ job[t].at \in LockedStates => lock = t
        /\ job[t].at # "idle" => job[t].node \in mem
        /\ started \in 0..MaxOps /\ occurred \in Nat
    BY DEF IndInv, CallInv
  <1>2. UNCHANGED <<shown, started, errs, occurred>>
    BY DEF CallbackSteps, RegRead, RegStore, RegReject, ShowEnd, errVars
  <1>3. CASE RegRead(t)
    <2> DEFINE k == Over([at |-> "write", got |-> reg[job[t].r]], job[t])
    <2>1. /\ job[t].at = "lock" /\ job[t].kind \in {"store", "count"}
          /\ lock = NoTask /\ lock' = t /\ reg' = reg /\ want' = want
          /\ job' = [job EXCEPT ![t] = k]
      BY <1>3 DEF RegRead, regVars
    <2>2. {"at", "node", "kind", "r", "set"} \subseteq DOMAIN job[t]
      BY <1>1, <2>1 DEF JobOK, StoreJob, CountJob
    <2>3. /\ k.at = "write" /\ k.got = reg[job[t].r] /\ DOMAIN job[t] \subseteq DOMAIN k
          /\ \A x \in DOMAIN job[t] \ {"at", "got"} : k[x] = job[t][x]
      BY DEF Over
    <2> HIDE DEF k
    <2>4. /\ k.node = job[t].node /\ k.kind = job[t].kind /\ k.r = job[t].r
          /\ k.set = job[t].set /\ ("ok" \in DOMAIN job[t] => k.ok = job[t].ok)
      BY <2>2, <2>3
    <2>5. job'[t] = k /\ DOMAIN job' = Tasks /\ \A u \in Tasks \ {t} : job'[u] = job[u]
      BY <1>1, <2>1
    <2>6. JobOK(k)
      <3>1. CASE k.kind = "store"
        <4>1. StoreJob(job[t])
          BY <1>1, <2>1, <2>4, <3>1 DEF JobOK
        <4>2. StoreJob(k)
          BY <2>3, <2>4, <4>1 DEF StoreJob
        <4> QED BY <2>3, <3>1, <4>2 DEF JobOK
      <3>2. CASE k.kind = "count"
        <4>1. CountJob(job[t])
          BY <1>1, <2>1, <2>4, <3>2 DEF JobOK
        <4>2. CountJob(k)
          BY <2>3, <2>4, <4>1 DEF CountJob
        <4> QED BY <2>3, <3>2, <4>2 DEF JobOK
      <3> QED BY <2>1, <2>4, <3>1, <3>2
    <2>7. RegInv'
      BY <1>1, <2>1 DEF RegInv
    <2>8. ErrInv'
      BY <1>2, <2>1, <2>5, ErrorsAlone DEF ClearStates
    <2>9. HeldInv(t)' /\ ClearInv(t)'
      BY <2>1, <2>3, <2>4, <2>5 DEF HeldInv, ClearInv, ClearStates
    <2> QED BY <1>1, <1>2, <2>1, <2>3, <2>4, <2>5, <2>6, <2>7, <2>8, <2>9, TaskStep
  <1>4. CASE RegStore(t)
    <2>1. job[t].at = "write" /\ job[t].kind = "store" /\ job[t].ok /\ Update(t) /\ Return(t)
      BY <1>4 DEF RegStore
    <2>2. lock = t /\ StoreJob(job[t]) /\ job[t].got = reg[job[t].r]
      BY <1>1, <2>1 DEF LockedStates, JobOK, HeldInv
    <2>3. RegInv'
      BY <1>1, <2>1, <2>2, UpdateRegs DEF StoreJob
    <2>4. ErrInv'
      BY <1>1, <1>2, <2>1, ErrorsAlone DEF Return, ClearStates
    <2> QED BY <1>2, <2>1, <2>2, <2>3, <2>4, ReturnStep
  <1>5. CASE RegReject(t)
    <2>1. job[t].at = "write" /\ Return(t) /\ reg' = reg /\ want' = want
      BY <1>5 DEF RegReject, regVars
    <2>2. lock = t
      BY <1>1, <2>1 DEF LockedStates
    <2>3. RegInv'
      BY <1>1, <2>1 DEF RegInv
    <2>4. ErrInv'
      BY <1>1, <1>2, <2>1, ErrorsAlone DEF Return, ClearStates
    <2> QED BY <1>2, <2>1, <2>2, <2>3, <2>4, ReturnStep
  <1>6. CASE ShowEnd(t)
    <2>1. job[t].at = "show" /\ job' = [job EXCEPT ![t] = Idle]
          /\ reg' = reg /\ want' = want /\ lock' = lock
      BY <1>6 DEF ShowEnd, regVars
    <2>2. job'[t] = Idle /\ DOMAIN job' = Tasks /\ \A u \in Tasks \ {t} : job'[u] = job[u]
      BY <1>1, <2>1
    <2>3. job'[t].at = "idle"
      BY <2>2 DEF Idle
    <2>4. JobOK(job'[t]) /\ HeldInv(t)' /\ ClearInv(t)' /\ job'[t].at \notin LockedStates
      BY <2>3 DEF JobOK, HeldInv, ClearInv, ClearStates, LockedStates
    <2>5. RegInv'
      BY <1>1, <2>1 DEF RegInv
    <2>6. ErrInv'
      BY <1>2, <2>1, <2>2, ErrorsAlone DEF ClearStates
    <2> QED BY <1>1, <1>2, <2>1, <2>2, <2>3, <2>4, <2>5, <2>6, TaskStep
  <1> QED BY <1>3, <1>4, <1>5, <1>6 DEF CallbackSteps

\* Counters: what is enabled and selected when the lock is held stays so.
LEMMA CounterStep ==
  ASSUME IndInv, NEW t \in Tasks, CounterSteps(t), UNCHANGED <<errVars, lifeVars>>
  PROVE  IndInv'
  <1> DEFINE j == job[t]
  <1>1. /\ DOMAIN job = Tasks /\ JobOK(j) /\ RegInv /\ HeldInv(t)
        /\ j.at \in LockedStates => lock = t
        /\ j.at # "idle" => j.node \in mem
        /\ started \in 0..MaxOps /\ occurred \in Nat
    BY DEF IndInv, CallInv
  <1>2. UNCHANGED <<ctr, shown, started, errs, occurred>>
    BY DEF CounterSteps, CounterOff, CounterSelect, CounterReady, CounterTimeout,
           CounterValue, errVars
  <1>3. lock = t /\ j.kind = "count" /\ CountJob(j) /\ j.at \in {"write", "poll", "read"}
    BY <1>1 DEF CounterSteps, CounterOff, CounterSelect, CounterReady, CounterTimeout,
                CounterValue, Counts, JobOK, LockedStates, ClearStates
  <1>4. \A u \in Tasks \ {t} : job'[u] = job[u]
    BY <1>1 DEF CounterSteps, CounterOff, CounterSelect, CounterReady, CounterTimeout,
                CounterValue, Return
  <1>5. ErrInv'
    BY <1>2, <1>3, <1>4, ErrorsAlone DEF ClearStates
  <1>6. CASE CounterOff(t) \/ CounterTimeout(t) \/ CounterValue(t)
    <2>1. Return(t) /\ reg' = reg /\ want' = want
      BY <1>6 DEF CounterOff, CounterTimeout, CounterValue, regVars
    <2>2. RegInv'
      BY <1>1, <1>2, <2>1 DEF RegInv
    <2> QED BY <1>2, <1>3, <1>5, <2>1, <2>2, ReturnStep
  \* A step that stays inside the call with its place as the only change.
  <1>7. ASSUME NEW p \in {"poll", "read"}, job' = [job EXCEPT ![t].at = p]
        PROVE  /\ job'[t].at = p /\ DOMAIN job' = Tasks /\ JobOK(job'[t])
               /\ job'[t].node = j.node /\ job'[t].r = j.r /\ job'[t].set = j.set
    <2>1. job'[t] = [j EXCEPT !.at = p] /\ DOMAIN job' = Tasks
      BY <1>1, <1>7
    <2> DEFINE k == job'[t]
    <2>2. /\ DOMAIN k = DOMAIN j /\ k.at = p /\ k.node = j.node /\ k.r = j.r
          /\ k.set = j.set /\ k.kind = "count"
      BY <1>3, <2>1 DEF CountJob
    <2> HIDE DEF k
    <2>3. JobOK(k)
      BY <1>3, <2>2 DEF JobOK, CountJob
    <2> QED BY <2>1, <2>2, <2>3 DEF k
  <1>8. CASE CounterSelect(t)
    <2>1. j.at = "write" /\ ~Off(t) /\ Update(t) /\ lock' = lock
          /\ job' = [job EXCEPT ![t].at = "poll"]
      BY <1>8 DEF CounterSelect, Counts
    <2>2. PICK r \in PerfUnits : r = j.r
      BY <1>3 DEF CountJob
    <2>3. j.got = reg[r] /\ DOMAIN j.set = {"event"} /\ j.set.event \in Events
      BY <1>1, <1>3, <2>1, <2>2 DEF HeldInv, CountJob
    <2>4. r \in RegNames /\ "event" \in Fields(r)
      BY <2>2 DEF RegNames, Fields, PerfUnits, Fabrics, FabricFields
    <2>5. \A f \in DOMAIN j.set : j.set[f] \in Values(f)
      BY <2>3 DEF Values
    <2>6. RegInv' /\ reg'[r] = Over(j.set, reg[r])
      BY <1>1, <1>2, <2>1, <2>2, <2>3, <2>4, <2>5, UpdateRegs
    <2>7. reg'[r].event = j.set.event
      BY <2>3, <2>6 DEF Over
    <2>8. InFabric(j.node) => CountedIn(reg'[r]) = IdOf[j.node]
      <3> SUFFICES ASSUME InFabric(j.node) PROVE CountedIn(reg'[r]) = IdOf[j.node]
        OBVIOUS
      <3>1. r \in Fabrics
        BY <1>3, <2>2 DEF CountJob, InFabric, FabOf, Fabrics
      <3>2. DOMAIN reg[r] = FabricFields /\ reg[r].filter \in {0, 1}
        BY <1>1, <2>4, <3>1 DEF RegInv, Fields, Values, Fabrics, FabricFields
      <3>3. reg'[r].filter = reg[r].filter /\ reg'[r].port = reg[r].port
        BY <2>3, <2>6, <3>2 DEF Over, FabricFields
      <3>4. fabric_pobj_is_enabled(reg[r], IdOf[j.node])
        BY <2>1, <2>3 DEF Off
      <3> QED BY <3>2, <3>3, <3>4 DEF fabric_pobj_is_enabled, CountedIn,
                                      FAB_DISABLE_FILTER, FAB_ENABLE_FILTER
    <2>9. HeldInv(t)' /\ ClearInv(t)'
      BY <1>7, <2>1, <2>2, <2>7, <2>8 DEF HeldInv, ClearInv, ClearStates
    <2> QED BY <1>1, <1>2, <1>3, <1>4, <1>5, <1>7, <2>1, <2>6, <2>9, TaskStep
  <1>9. CASE CounterReady(t)
    <2>1. j.at = "poll" /\ ctr[j.r] = j.set.event /\ lock' = lock /\ reg' = reg
          /\ want' = want /\ job' = [job EXCEPT ![t].at = "read"]
      BY <1>9 DEF CounterReady, regVars
    <2>2. RegInv'
      BY <1>1, <1>2, <2>1 DEF RegInv
    <2>3. HeldInv(t)' /\ ClearInv(t)'
      BY <1>1, <1>2, <1>7, <2>1 DEF HeldInv, ClearInv, ClearStates
    <2> QED BY <1>1, <1>2, <1>3, <1>4, <1>5, <1>7, <2>1, <2>2, <2>3, TaskStep
  <1> QED BY <1>6, <1>8, <1>9 DEF CounterSteps

\* A clear that goes on to its next state.
LEMMA ClearGoesOn ==
  ASSUME IndInv, NEW t \in Tasks, job[t].kind = "clear", ClearJob(job[t]),
         NEW x, To(t, x), "at" \in DOMAIN x, x.at \in ClearStates,
         {"node", "kind", "u", "val"} \cap DOMAIN x = {}
  PROVE  /\ JobOK(job'[t]) /\ job'[t].at = x.at /\ job'[t].node = job[t].node
         /\ job'[t].u = job[t].u /\ job'[t].val = job[t].val
         /\ DOMAIN job' = Tasks /\ \A v \in Tasks \ {t} : job'[v] = job[v]
  <1> DEFINE k == Over(x, job[t])
  <1>1. /\ k.at = x.at /\ DOMAIN job[t] \subseteq DOMAIN k
        /\ \A f \in DOMAIN job[t] \ DOMAIN x : k[f] = job[t][f]
    BY DEF Over
  <1>2. job' = [job EXCEPT ![t] = k] /\ DOMAIN job = Tasks
    BY DEF To, IndInv, CallInv
  <1> HIDE DEF k
  <1>3. job'[t] = k /\ DOMAIN job' = Tasks /\ \A v \in Tasks \ {t} : job'[v] = job[v]
    BY <1>2
  <1>4. /\ k.node = job[t].node /\ k.kind = "clear"
        /\ k.u = job[t].u /\ k.val = job[t].val
    BY <1>1 DEF ClearJob
  <1>5. JobOK(k)
    BY <1>1, <1>4 DEF JobOK, ClearJob
  <1> QED BY <1>1, <1>3, <1>4, <1>5

\* An error register is being cleared by whoever was clearing it, except t.
LEMMA ClearingKept ==
  ASSUME NEW t \in Tasks, \A v \in Tasks \ {t} : job'[v] = job[v], NEW u, Clearing(u),
         job[t].at \in ClearStates /\ job[t].u = u =>
           job'[t].at \in ClearStates /\ job'[t].u = u
  PROVE  Clearing(u)'
  BY DEF Clearing, ClearStates

\* Clearing the errors.
LEMMA ErrorStep ==
  ASSUME IndInv, NEW t \in Tasks, ErrorSteps(t), UNCHANGED <<ctr, lifeVars>>
  PROVE  IndInv'
  <1> DEFINE j == job[t]
             Regs == [err: SUBSET Errors, first: SUBSET Errors,
                      next: SUBSET Errors, mask: SUBSET Maskable]
  <1>1. /\ DOMAIN job = Tasks /\ JobOK(j) /\ RegInv /\ ErrInv /\ ClearInv(t)
        /\ j.at \in LockedStates => lock = t
        /\ j.at # "idle" => j.node \in mem
        /\ started \in 0..MaxOps /\ occurred \in Nat
    BY DEF IndInv, CallInv
  <1>2. UNCHANGED <<reg, want, shown, started, occurred>>
    BY DEF ErrorSteps, ClearMask, ClearCompare, ClearRead, ClearWrite, ClearUnmask,
           regVars, errVars
  <1>3. RegInv'
    BY <1>1, <1>2 DEF RegInv
  <1>4. j.kind = "clear" /\ ClearJob(j)
    BY <1>1 DEF ErrorSteps, ClearMask, ClearCompare, ClearRead, ClearWrite, ClearUnmask,
                JobOK, ClearStates
  <1>5. PICK u \in ErrRegs : u = j.u
    BY <1>4 DEF ClearJob
  <1>6. errs \in [ErrRegs -> Regs]
    BY <1>1 DEF ErrInv
  <1>7. CASE ClearMask(t)
    <2>1. /\ j.at = "lock" /\ lock = NoTask /\ lock' = t /\ To(t, [at |-> "compare"])
          /\ errs' = [errs EXCEPT ![u].mask = Maskable]
      BY <1>5, <1>7 DEF ClearMask
    <2>2. /\ JobOK(job'[t]) /\ job'[t].at = "compare" /\ job'[t].node = j.node
          /\ job'[t].u = u /\ DOMAIN job' = Tasks
          /\ \A v \in Tasks \ {t} : job'[v] = job[v]
      <3> DEFINE x == [at |-> "compare"]
      <3>1. DOMAIN x = {"at"} /\ x.at = "compare"
        OBVIOUS
      <3> HIDE DEF x
      <3>2. To(t, x)
        BY <2>1 DEF x
      <3> QED BY <1>4, <1>5, <3>1, <3>2, ClearGoesOn DEF ClearStates
    <2>3. /\ errs' \in [ErrRegs -> Regs] /\ errs'[u].mask = Maskable
          /\ \A v \in ErrRegs : errs'[v].err = errs[v].err /\ errs'[v].first = errs[v].first
          /\ \A v \in ErrRegs \ {u} : errs'[v] = errs[v]
      BY <1>6, <2>1
    <2>4. \A v \in ErrRegs : Clearing(v) => Clearing(v)'
      BY <2>1, <2>2, ClearingKept DEF ClearStates
    <2>5. Clearing(u)'
      BY <2>2 DEF Clearing
    <2>6. ErrInv'
      BY <1>1, <1>2, <2>3, <2>4, <2>5 DEF ErrInv, ErrRegs
    <2>7. HeldInv(t)' /\ ClearInv(t)'
      BY <2>2, <2>3 DEF HeldInv, ClearInv, ClearStates
    <2> QED BY <1>1, <1>2, <1>3, <2>1, <2>2, <2>6, <2>7, TaskStep
  <1>8. CASE ClearCompare(t)
    <2>1. PICK p \in {"first", "unmask"} :
            p = IF errs[j.u].err = j.val THEN "first" ELSE "unmask"
      OBVIOUS
    <2>2. /\ j.at = "compare" /\ lock' = lock /\ errs' = errs
          /\ To(t, [at |-> p])
      BY <1>8, <2>1 DEF ClearCompare, errVars
    <2>3. /\ JobOK(job'[t]) /\ job'[t].at = p /\ job'[t].node = j.node
          /\ job'[t].u = u /\ job'[t].val = j.val /\ DOMAIN job' = Tasks
          /\ \A v \in Tasks \ {t} : job'[v] = job[v]
      <3> DEFINE x == [at |-> p]
      <3>1. DOMAIN x = {"at"} /\ x.at = p
        OBVIOUS
      <3> HIDE DEF x
      <3>2. To(t, x)
        BY <2>2 DEF x
      <3> QED BY <1>4, <1>5, <3>1, <3>2, ClearGoesOn DEF ClearStates
    <2>4. \A v \in ErrRegs : Clearing(v) => Clearing(v)'
      BY <1>5, <2>3, ClearingKept DEF ClearStates
    <2>5. ErrInv'
      BY <1>1, <1>2, <2>2, <2>4 DEF ErrInv
    <2>6. HeldInv(t)' /\ ClearInv(t)'
      BY <1>1, <1>5, <2>1, <2>2, <2>3 DEF HeldInv, ClearInv, ClearStates
    <2> QED BY <1>1, <1>2, <1>3, <2>2, <2>3, <2>5, <2>6, TaskStep
                DEF LockedStates, ClearStates
  <1>9. CASE ClearRead(t)
    <2> DEFINE x == [at |-> "clear", first |-> errs[j.u].first, next |-> errs[j.u].next]
    <2>1. j.at = "first" /\ lock' = lock /\ errs' = errs /\ To(t, x)
      BY <1>9 DEF ClearRead, errVars
    <2>2. DOMAIN x = {"at", "first", "next"} /\ x.at = "clear"
      OBVIOUS
    <2> HIDE DEF x
    <2>3. /\ JobOK(job'[t]) /\ job'[t].at = "clear" /\ job'[t].node = j.node
          /\ job'[t].u = u /\ job'[t].val = j.val /\ DOMAIN job' = Tasks
          /\ \A v \in Tasks \ {t} : job'[v] = job[v]
      BY <1>4, <1>5, <2>1, <2>2, ClearGoesOn DEF ClearStates
    <2>4. \A v \in ErrRegs : Clearing(v) => Clearing(v)'
      BY <1>5, <2>3, ClearingKept DEF ClearStates
    <2>5. ErrInv'
      BY <1>1, <1>2, <2>1, <2>4 DEF ErrInv
    <2>6. HeldInv(t)' /\ ClearInv(t)'
      BY <1>1, <1>5, <2>1, <2>3 DEF HeldInv, ClearInv, ClearStates
    <2> QED BY <1>1, <1>2, <1>3, <2>1, <2>3, <2>5, <2>6, TaskStep
                DEF LockedStates, ClearStates
  <1>10. CASE ClearWrite(t)
    <2>1. /\ j.at = "clear" /\ lock' = lock /\ To(t, [at |-> "unmask"])
          /\ errs' = [errs EXCEPT ![u] =
               [err |-> @.err \ (j.val \cap Maskable), first |-> @.first \ j.first,
                next |-> @.next \ j.next, mask |-> @.mask]]
      BY <1>5, <1>10 DEF ClearWrite
    <2>2. /\ JobOK(job'[t]) /\ job'[t].at = "unmask" /\ job'[t].node = j.node
          /\ job'[t].u = u /\ job'[t].val = j.val /\ DOMAIN job' = Tasks
          /\ \A v \in Tasks \ {t} : job'[v] = job[v]
      <3> DEFINE x == [at |-> "unmask"]
      <3>1. DOMAIN x = {"at"} /\ x.at = "unmask"
        OBVIOUS
      <3> HIDE DEF x
      <3>2. To(t, x)
        BY <2>1 DEF x
      <3> QED BY <1>4, <1>5, <3>1, <3>2, ClearGoesOn DEF ClearStates
    <2>3. /\ errs' \in [ErrRegs -> Regs] /\ errs'[u].mask = errs[u].mask
          /\ errs'[u].err = errs[u].err \ (j.val \cap Maskable)
          /\ \A v \in ErrRegs \ {u} : errs'[v] = errs[v]
      <3> DEFINE old == errs[u]
                 new == [err |-> old.err \ (j.val \cap Maskable),
                         first |-> old.first \ j.first, next |-> old.next \ j.next,
                         mask |-> old.mask]
      <3>1. errs' = [errs EXCEPT ![u] = new]
        BY <2>1
      <3>2. old \in Regs
        BY <1>6
      <3>3. new \in Regs /\ new.mask = old.mask /\ new.err = old.err \ (j.val \cap Maskable)
        <4> HIDE DEF old
        <4> QED BY <3>2
      <3> HIDE DEF new, Regs
      <3> QED BY <1>6, <3>1, <3>3
    <2>4. errs[u].err \cap Maskable = j.val \cap Maskable /\ errs[u].mask = Maskable
      BY <1>1, <1>5, <2>1 DEF ClearInv, ClearStates
    <2>5. errs'[u].err \cap Maskable = {}
      BY <2>3, <2>4
    <2>6. \A v \in ErrRegs : Clearing(v) => Clearing(v)'
      BY <1>5, <2>2, ClearingKept DEF ClearStates
    <2>7. Clearing(u)'
      BY <2>2 DEF Clearing
    <2>8. ErrInv'
      BY <1>1, <1>2, <2>3, <2>5, <2>6, <2>7 DEF ErrInv, ErrRegs
    <2>9. HeldInv(t)' /\ ClearInv(t)'
      BY <2>2, <2>3, <2>4 DEF HeldInv, ClearInv, ClearStates
    <2> QED BY <1>1, <1>2, <1>3, <2>1, <2>2, <2>8, <2>9, TaskStep
                DEF LockedStates, ClearStates
  <1>11. CASE ClearUnmask(t)
    <2>1. /\ j.at = "unmask" /\ Return(t)
          /\ errs' = [errs EXCEPT ![u].mask = DefaultMask(u)]
      BY <1>5, <1>11 DEF ClearUnmask
    <2>2. lock = t
      BY <1>1, <2>1 DEF LockedStates, ClearStates
    <2>3. DefaultMask(u) \subseteq Maskable
      BY ErrorsAssumption DEF DefaultMask
    <2>4. /\ errs' \in [ErrRegs -> Regs] /\ errs'[u].mask = DefaultMask(u)
          /\ \A v \in ErrRegs : errs'[v].err = errs[v].err /\ errs'[v].first = errs[v].first
          /\ \A v \in ErrRegs \ {u} : errs'[v] = errs[v]
      BY <1>6, <2>1, <2>3
    <2>5. \A v \in Tasks \ {t} : job'[v] = job[v]
      BY <1>1, <2>1 DEF Return
    <2>6. \A v \in ErrRegs \ {u} : Clearing(v) => Clearing(v)'
      BY <1>5, <2>5, ClearingKept
    <2>7. ErrInv'
      BY <1>1, <1>2, <2>4, <2>6 DEF ErrInv, ErrRegs, DefaultMask
    <2> QED BY <1>2, <1>3, <2>1, <2>2, <2>7, ReturnStep
  <1> QED BY <1>7, <1>8, <1>9, <1>10, <1>11 DEF ErrorSteps

-----------------------------------------------------------------------------
(* Steps of the hardware.                                                  *)

\* A counter register reports the selected event.
LEMMA LatchStep ==
  ASSUME IndInv, NEW c \in Counters, Latch(c), UNCHANGED <<errVars, lifeVars>>
  PROVE  IndInv'
  <1> DEFINE u == UnitOf(c)
  <1>0. u \in PerfUnits /\ (c \in PerfUnits => u = c)
    BY DEF UnitOf, Counters, PerfUnits, Fabrics
  <1> HIDE DEF u
  <1>1. /\ ctr[c] # reg[u].event /\ ctr' = [ctr EXCEPT ![c] = reg[u].event]
        /\ UNCHANGED <<lock, reg, want, job, shown, started, errs, occurred, mem>>
    BY DEF Latch, regVars, errVars, lifeVars, u
  <1>2. RegInv /\ CallInv /\ ErrInv
    BY DEF IndInv
  <1>3. u \in RegNames /\ reg[u].event \in Events
    <2>1. u \in RegNames /\ "event" \in Fields(u)
      BY <1>0 DEF RegNames, Fields, PerfUnits, Fabrics, FabricFields
    <2>2. reg[u]["event"] \in Values("event")
      BY <1>2, <2>1 DEF RegInv
    <2> QED BY <2>1, <2>2 DEF Values
  <1>4. DOMAIN ctr' = Counters /\ ctr'[c] = reg[u].event
        /\ \A d \in Counters \ {c} : ctr'[d] = ctr[d]
    BY <1>1, <1>2 DEF RegInv
  <1>5. RegInv'
    BY <1>1, <1>2, <1>3, <1>4 DEF RegInv
  <1>6. CallInv' /\ ErrInv'
    BY <1>1, <1>2 DEF CallInv, JobOK, StoreJob, CountJob, ClearJob, ErrInv, Clearing
  <1>7. PhaseInv' /\ MadeInv' /\ MemInv'
    BY <1>1, LifeKept DEF IndInv
  <1>8. ASSUME NEW t \in Tasks
        PROVE  HeldInv(t)' /\ ClearInv(t)'
    <2>1. HeldInv(t) /\ ClearInv(t)
      BY DEF IndInv
    <2>2. job[t].at = "read" => job[t].r \in Counters \ {c}
      <3> SUFFICES ASSUME job[t].at = "read" PROVE job[t].r \in Counters \ {c}
        OBVIOUS
      <3>1. CountJob(job[t])
        BY <1>2 DEF CallInv, JobOK, ClearStates
      <3> QED BY <1>0, <1>1, <2>1, <3>1 DEF HeldInv, CountJob, Counters
    <2> QED BY <1>1, <1>4, <2>1, <2>2 DEF HeldInv, ClearInv
  <1> QED BY <1>1, <1>5, <1>6, <1>7, <1>8 DEF IndInv

\* The hardware latches an error that is not masked.
LEMMA ErrorOccursStep ==
  ASSUME IndInv, NEW u \in ErrRegs, NEW e \in Errors, ErrorOccurs(u, e),
         UNCHANGED <<ctr, lifeVars>>
  PROVE  IndInv'
  <1> DEFINE Regs == [err: SUBSET Errors, first: SUBSET Errors,
                      next: SUBSET Errors, mask: SUBSET Maskable]
  <1>1. /\ e \notin errs[u].mask /\ occurred' = occurred + 1
        /\ UNCHANGED <<lock, reg, want, job, shown, started, ctr, mem>>
    BY DEF ErrorOccurs, regVars, lifeVars
  <1>2. RegInv /\ CallInv /\ ErrInv
    BY DEF IndInv
  <1>3. errs \in [ErrRegs -> Regs]
    BY <1>2 DEF ErrInv
  <1>4. /\ errs' \in [ErrRegs -> Regs]
        /\ errs'[u].err = errs[u].err \cup {e} /\ errs'[u].mask = errs[u].mask
        /\ u = "fme" => errs'[u].first # {}
        /\ \A v \in ErrRegs \ {u} : errs'[v] = errs[v]
    <2> DEFINE old == errs[u]
               first == IF u = "fme" /\ old.first = {} THEN {e} ELSE old.first
               next == IF u = "fme" /\ old.first # {} /\ old.next = {} THEN {e}
                       ELSE old.next
               new == [err |-> old.err \cup {e}, first |-> first, next |-> next,
                       mask |-> old.mask]
    <2>1. old \in Regs
      BY <1>3
    <2>2. errs' = [errs EXCEPT ![u] = new]
      BY DEF ErrorOccurs
    <2>3. first \subseteq Errors /\ next \subseteq Errors /\ (u = "fme" => first # {})
      BY <2>1
    <2> HIDE DEF old, first, next
    <2>4. /\ new \in Regs /\ new.err = old.err \cup {e} /\ new.mask = old.mask
          /\ new.first = first
      BY <2>1, <2>3
    <2> HIDE DEF new, Regs
    <2> QED BY <1>3, <2>2, <2>3, <2>4 DEF old
  <1>5. ErrInv'
    <2>1. errs'["fme"].err \cap Maskable # {} => errs'["fme"].first # {}
      BY <1>2, <1>4 DEF ErrInv, ErrRegs
    <2>2. \A v \in ErrRegs : errs'[v].mask = errs[v].mask /\ Clearing(v)' = Clearing(v)
      BY <1>1, <1>4 DEF Clearing
    <2> QED BY <1>1, <1>2, <1>4, <2>1, <2>2 DEF ErrInv, DefaultMask
  <1>6. RegInv' /\ CallInv'
    BY <1>1, <1>2 DEF RegInv, CallInv, JobOK, StoreJob, CountJob, ClearJob
  <1>7. PhaseInv' /\ MadeInv' /\ MemInv'
    BY <1>1, LifeKept DEF IndInv
  <1>8. ASSUME NEW t \in Tasks
        PROVE  HeldInv(t)' /\ ClearInv(t)'
    <2>1. HeldInv(t) /\ ClearInv(t)
      BY DEF IndInv
    <2>2. HeldInv(t)'
      BY <1>1, <2>1 DEF HeldInv
    <2>3. CASE job[t].at \notin ClearStates
      BY <1>1, <2>2, <2>3 DEF ClearInv, ClearStates
    <2>4. CASE job[t].at \in ClearStates /\ job[t].u = u
      <3>1. e \notin Maskable
        BY <1>1, <2>1, <2>4 DEF ClearInv
      <3>2. errs'[u].err \cap Maskable = errs[u].err \cap Maskable
        BY <1>4, <3>1
      <3> QED BY <1>1, <1>4, <2>1, <2>2, <2>4, <3>2 DEF ClearInv
    <2>5. CASE job[t].at \in ClearStates /\ job[t].u # u
      <3>1. job[t].u \in ErrRegs
        BY <1>2, <2>5 DEF CallInv, JobOK, ClearJob, ClearStates
      <3> QED BY <1>1, <1>4, <2>1, <2>2, <2>5, <3>1 DEF ClearInv
    <2> QED BY <2>3, <2>4, <2>5
  <1>9. occurred' \in Nat /\ started' \in 0..MaxOps
    BY <1>1 DEF IndInv
  <1> QED BY <1>5, <1>6, <1>7, <1>8, <1>9 DEF IndInv

-----------------------------------------------------------------------------
(* Steps of probe and removal.                                             *)

\* The directories of one sub-feature more.
LEMMA DirsOfAdd ==
  ASSUME NEW S, NEW f
  PROVE  DirsOf(S \cup {f}) = DirsOf(S) \cup ToSet(Dirs(f))
  BY DEF DirsOf

\* A sub-feature shares no directory with the others.
LEMMA DirsApart ==
  ASSUME iommu \in BOOLEAN, NEW S \in SUBSET Features, NEW f \in Features \ S,
         NEW i \in 1..Len(Dirs(f))
  PROVE  Dirs(f)[i] \notin DirsOf(S)
  <1> SUFFICES ASSUME NEW g \in S, Dirs(f)[i] \in ToSet(Dirs(g))
               PROVE  FALSE
    BY DEF DirsOf
  <1>1. PICK k \in DOMAIN Dirs(g) : Dirs(f)[i] = Dirs(g)[k]
    BY DEF ToSet
  <1>2. Dirs(g) \in Seq(DirNames) /\ g \in Features
    BY DirsType
  <1>3. k \in 1..Len(Dirs(g))
    BY <1>1, <1>2
  <1> QED BY <1>1, <1>2, <1>3, DirsDistinct

\* A step that leaves the callbacks and registers alone keeps the invariant, if
\* it keeps the directories in order, and the objects of running callbacks.
LEMMA LifeStep ==
  ASSUME IndInv, UNCHANGED <<reg, want, job, started, ctr, occurred>>,
         lock' \in {lock, NoTask, Remover}, lock' # lock => lock \notin Tasks,
         PhaseInv', MadeInv', MemInv', ErrInv',
         \A t \in Tasks : job[t].at # "idle" => job[t].node \in mem',
         \A t \in Tasks : job[t].at \in ClearStates => errs' = errs
  PROVE  IndInv'
  <1>1. RegInv'
    BY DEF IndInv, RegInv
  <1>2. CallInv'
    <2>1. \A t \in Tasks : job[t].at \in LockedStates => lock' = t
      BY DEF IndInv, CallInv
    <2>2. \A t \in Tasks : JobOK(job[t])' <=> JobOK(job[t])
      BY DEF JobOK, StoreJob, CountJob, ClearJob
    <2> QED BY <2>1, <2>2 DEF IndInv, CallInv
  <1>3. ASSUME NEW t \in Tasks
        PROVE  HeldInv(t)' /\ ClearInv(t)'
    <2>1. HeldInv(t)'
      BY DEF IndInv, HeldInv
    <2>2. ClearInv(t)'
      BY DEF IndInv, ClearInv, ClearStates
    <2> QED BY <2>1, <2>2
  <1> QED BY <1>1, <1>2, <1>3 DEF IndInv

\* Most of these steps do not touch the errors, and open no file.
LEMMA QuietLifeStep ==
  ASSUME IndInv, UNCHANGED <<reg, want, job, started, ctr, occurred, errs>>,
         lock' \in {lock, NoTask, Remover}, lock' # lock => lock \notin Tasks,
         PhaseInv', MadeInv', MemInv', shown' \subseteq shown,
         \A t \in Tasks : job[t].at # "idle" => job[t].node \in mem'
  PROVE  IndInv'
  <1>1. \A u \in ErrRegs : Clearing(u)' = Clearing(u)
    BY DEF Clearing
  <1>2. ErrInv'
    BY <1>1 DEF IndInv, ErrInv
  <1> QED BY <1>2, LifeStep

\* The object tree is fixed while the FME is bound or being bound.
LEMMA SameDirs ==
  ASSUME iommu' = iommu
  PROVE  (\A f : Dirs(f)' = Dirs(f)) /\ (\A S : DirsOf(S)' = DirsOf(S))
  <1>1. \A f : Dirs(f)' = Dirs(f)
    BY DEF Dirs, fme_iperf_objs, create_perf_iommu_obj
  <1> QED BY <1>1 DEF DirsOf

\* Steps between the sub-features.
LEMMA BetweenStep ==
  ASSUME IndInv,
         \/ fme_probe \/ fme_register \/ fme_remove \/ feature_skip \/ fme_dev_destroy
  PROVE  IndInv'
  <1>1. UNCHANGED <<rest, errs, shown, mem, ready, draining>>
    BY DEF fme_probe, fme_register, fme_remove, feature_skip, fme_dev_destroy
  <1>2. UNCHANGED <<lock, reg, want, job, started, ctr, occurred, iommu>>
    BY <1>1 DEF rest
  <1>3. PhaseInv /\ MadeInv /\ MemInv
    BY DEF IndInv
  <1>4. ~Busy /\ phase # "destroy" /\ phase' # "destroy" /\ made = <<>> /\ made' = <<>>
    BY <1>3 DEF fme_probe, fme_register, fme_remove, feature_skip, fme_dev_destroy, Busy,
                MadeInv, Done
  <1>5. PhaseInv'
    <2>1. CASE fme_probe
      <3>1. ready = {} /\ phase' = "init" /\ at' = 1 /\ cur' = fme_feature_drvs[1]
            /\ phase = "unbound"
        BY <1>3, <2>1 DEF PhaseInv, fme_probe
      <3>2. ready' = Before(1)
        BY <1>1, <3>1, InitOrder
      <3> QED BY <1>1, <1>2, <1>3, <3>1, <3>2, InitOrder DEF PhaseInv
    <2>2. CASE fme_register
      <3>1. ready = Features /\ phase = "init"
        BY <1>3, <2>2, InitOrder DEF PhaseInv, fme_register
      <3>2. \/ phase' = "bound" /\ at' = at
            \/ phase' = "uinit" /\ at' = 1
        BY <2>2 DEF fme_register
      <3> QED BY <1>1, <1>2, <1>3, <3>1, <3>2, InitOrder, UinitOrder DEF PhaseInv
    <2>3. CASE fme_remove
      BY <1>1, <1>2, <1>3, <2>3, InitOrder, UinitOrder DEF PhaseInv, fme_remove
    <2>4. CASE feature_skip
      <3>1. at \in 1..5 /\ at' = at + 1 /\ fme_features[at] \notin ready /\ phase = "uinit"
            /\ phase' = phase
        BY <1>3, <2>4, InitOrder DEF PhaseInv, feature_skip
      <3>2. ready \cap UinitBefore(at + 1) = {}
        BY <1>3, <3>1, UinitOrder DEF PhaseInv
      <3> QED BY <1>1, <1>2, <1>3, <3>1, <3>2, InitOrder DEF PhaseInv
    <2>5. CASE fme_dev_destroy
      <3>1. ready = {}
        BY <1>3, <2>5, UinitOrder DEF PhaseInv, fme_dev_destroy
      <3> QED BY <1>1, <1>2, <1>3, <2>5, <3>1, InitOrder DEF PhaseInv, fme_dev_destroy
    <2> QED BY <2>1, <2>2, <2>3, <2>4, <2>5
  <1>6. MadeInv'
    <2>1. CASE fme_probe
      <3>1. cur' = fme_feature_drvs[1] /\ cur' \in Features
        BY <2>1, InitOrder DEF fme_probe
      <3>2. Dirs(cur') \in Seq(DirNames) /\ Dirs(cur)' = Dirs(cur')
        <4>1. iommu \in BOOLEAN
          BY <1>3 DEF PhaseInv
        <4>2. Dirs(cur') \in Seq(DirNames)
          BY <3>1, <4>1, DirsType
        <4> QED BY <1>2, <4>2 DEF Dirs, fme_iperf_objs, create_perf_iommu_obj
      <3>3. Len(Dirs(cur')) \in Nat
        BY <3>2
      <3>4. made' \in Seq(DirNames) /\ Len(made') = 0
        BY <1>4
      <3> QED BY <3>2, <3>3, <3>4, <1>4 DEF MadeInv
    <2>2. CASE ~fme_probe
      <3>1. ~Busy'
        BY <1>3, <2>2 DEF fme_register, fme_remove, feature_skip, fme_dev_destroy, Busy,
                          MadeInv
      <3> QED BY <1>4, <3>1 DEF MadeInv
    <2> QED BY <2>1, <2>2
  <1>7. MemInv'
    <2>1. Kept' = ready /\ Kept = ready
      BY <1>1, <1>4 DEF Kept
    <2>2. DirsOf(ready)' = DirsOf(ready)
      BY <1>1, <1>2, SameDirs
    <2>3. DirsOf(Kept)' = DirsOf(Kept)
      BY <1>1, <2>1, <2>2 DEF DirsOf
    <2> QED BY <1>1, <1>3, <1>4, <2>3 DEF MemInv
  <1>8. \A t \in Tasks : job[t].at # "idle" => job[t].node \in mem'
    BY <1>1 DEF IndInv, CallInv
  <1> QED BY <1>1, <1>2, <1>5, <1>6, <1>7, <1>8, QuietLifeStep

\* Where a directory is created, the sub-feature is one that is not initialised
\* yet, and what it has is the beginning of its list.
LEMMA Creating ==
  ASSUME PhaseInv, MadeInv, MemInv, phase = "init", at < Done
  PROVE  /\ at \in 1..5 /\ cur = fme_feature_drvs[at] /\ cur \in Features \ ready
         /\ ready = Before(at) /\ Before(at + 1) = ready \cup {cur}
         /\ Dirs(cur) \in Seq(DirNames) /\ Len(Dirs(cur)) \in Nat
         /\ made \in Seq(DirNames) /\ Len(made) \in Nat /\ Len(made) <= Len(Dirs(cur))
         /\ \A i \in 1..Len(made) : made[i] = Dirs(cur)[i]
         /\ mem = DirsOf(ready) \cup ToSet(made) /\ shown = mem /\ ~draining
         /\ lock # Remover
  <1>1. at \in 1..5 /\ cur = fme_feature_drvs[at] /\ ready = Before(at)
    BY InitOrder DEF PhaseInv
  <1>2. cur \in Features \ ready /\ Before(at + 1) = ready \cup {cur}
    BY <1>1, InitOrder
  <1>3. Dirs(cur) \in Seq(DirNames)
    BY <1>2, DirsType DEF PhaseInv
  <1>4. made \in Seq(DirNames) /\ Len(made) <= Len(Dirs(cur))
        /\ \A i \in 1..Len(made) : made[i] = Dirs(cur)[i]
    BY DEF MadeInv, Busy
  <1>5. ~draining /\ lock # Remover
    BY DEF PhaseInv
  <1>6. mem = DirsOf(ready) \cup ToSet(made) /\ shown = mem
    BY <1>5 DEF MemInv, Kept
  <1>7. Len(Dirs(cur)) \in Nat /\ Len(made) \in Nat
    BY <1>3, <1>4
  <1> QED BY <1>1, <1>2, <1>3, <1>4, <1>5, <1>6, <1>7

\* Enabling the errors, before their directory can be used.
LEMMA EnableErrors ==
  ASSUME IndInv, fme_error_enable, job' = job, "errors" \notin mem
  PROVE  ErrInv' /\ \A t \in Tasks : job[t].at \notin ClearStates
  <1> DEFINE Regs == [err: SUBSET Errors, first: SUBSET Errors,
                      next: SUBSET Errors, mask: SUBSET Maskable]
  <1>1. errs \in [ErrRegs -> Regs]
    BY DEF IndInv, ErrInv
  <1>2. \A u \in ErrRegs : DefaultMask(u) \subseteq Maskable
    BY ErrorsAssumption DEF DefaultMask
  <1>3. errs' = [u \in ErrRegs |-> [errs[u] EXCEPT !.mask = DefaultMask(u)]]
    BY DEF fme_error_enable
  <1>4. ASSUME NEW u \in ErrRegs
        PROVE  /\ errs'[u] \in Regs /\ errs'[u].mask = DefaultMask(u)
               /\ errs'[u].err = errs[u].err /\ errs'[u].first = errs[u].first
    BY <1>1, <1>2, <1>3
  <1>5. errs' \in [ErrRegs -> Regs]
    <2> HIDE DEF Regs
    <2> QED BY <1>3, <1>4
  <1>6. ErrInv'
    BY <1>4, <1>5 DEF IndInv, ErrInv, ErrRegs, DefaultMask
  <1>7. ASSUME NEW t \in Tasks, job[t].at \in ClearStates
        PROVE  FALSE
    <2>1. ClearJob(job[t]) /\ job[t].node \in mem
      BY <1>7 DEF IndInv, CallInv, JobOK, ClearStates
    <2> QED BY <2>1 DEF ClearJob
  <1> QED BY <1>6, <1>7

\* The error directory does not exist while its sub-feature is not initialised.
LEMMA NoErrorsYet ==
  ASSUME PhaseInv, MadeInv, MemInv, phase = "init", at < Done, cur = "err",
         Len(made) < Len(Dirs(cur))
  PROVE  "errors" \notin mem
  <1>1. Dirs(cur) = <<"errors">> /\ iommu \in BOOLEAN
    BY DirsValues DEF PhaseInv
  <1>2. Len(made) = 0
    BY <1>1, Creating
  <1>3. ToSet(made) = {}
    <2>1. made = <<>>
      BY <1>2, Creating
    <2> QED BY <2>1 DEF ToSet
  <1>4. 1 \in 1..Len(Dirs(cur)) /\ Dirs(cur)[1] = "errors"
    BY <1>1
  <1>5. ready \in SUBSET Features /\ cur \in Features \ ready
    BY Creating DEF PhaseInv
  <1>6. "errors" \notin DirsOf(ready)
    BY <1>1, <1>4, <1>5, DirsApart
  <1> QED BY <1>3, <1>6, Creating

\* The init of a sub-feature creates a directory, fails, or is over.
LEMMA CreateStep ==
  ASSUME IndInv, create_perf_obj
  PROVE  IndInv'
  <1> DEFINE dir == Dirs(cur)[Len(made) + 1]
  <1>1. /\ phase = "init" /\ at < Done /\ Len(made) < Len(Dirs(cur))
        /\ made' = Append(made, dir) /\ shown' = shown \cup {dir} /\ mem' = mem \cup {dir}
        /\ IF cur = "err" THEN fme_error_enable ELSE UNCHANGED errs
        /\ UNCHANGED <<rest, phase, at, cur, ready, draining>>
    BY DEF create_perf_obj
  <1>2. UNCHANGED <<lock, reg, want, job, started, ctr, occurred, iommu>>
    BY <1>1 DEF rest
  <1>3. PhaseInv /\ MadeInv /\ MemInv
    BY DEF IndInv
  <1>4. PhaseInv'
    BY <1>1, <1>2, <1>3, Creating DEF PhaseInv
  <1>5. Dirs(cur)' = Dirs(cur) /\ DirsOf(ready)' = DirsOf(ready)
    BY <1>1, <1>2 DEF Dirs, fme_iperf_objs, create_perf_iommu_obj, DirsOf
  <1>6. dir \in DirNames
    BY <1>1, <1>3, Creating, ElementOfSeq
  <1>7. made' \in Seq(DirNames) /\ Len(made') = Len(made) + 1
        /\ \A i \in 1..Len(made') : made'[i] = Dirs(cur)[i]
    <2>1. made \in Seq(DirNames) /\ \A i \in 1..Len(made) : made[i] = Dirs(cur)[i]
      BY <1>1, <1>3, Creating
    <2> HIDE DEF dir
    <2>2. /\ made' \in Seq(DirNames) /\ Len(made') = Len(made) + 1
          /\ \A i \in 1..Len(made) : made'[i] = made[i]
          /\ made'[Len(made) + 1] = dir
      BY <1>1, <1>6, <2>1
    <2>3. Len(made) \in Nat
      BY <2>1
    <2>4. ASSUME NEW i \in 1..Len(made')
          PROVE  made'[i] = Dirs(cur)[i]
      <3>1. i \in 1..Len(made) \/ i = Len(made) + 1
        BY <2>2, <2>3
      <3>2. CASE i \in 1..Len(made)
        BY <2>1, <2>2, <3>2, Zenon
      <3>3. CASE i = Len(made) + 1
        BY <2>2, <3>3 DEF dir
      <3> QED BY <3>1, <3>2, <3>3
    <2> QED BY <2>2, <2>4
  <1>8. MadeInv'
    <2>1. Len(made') <= Len(Dirs(cur))
      BY <1>1, <1>3, <1>7, Creating
    <2>2. phase' # "destroy" /\ Busy'
      BY <1>1 DEF Busy
    <2> QED BY <1>5, <1>7, <2>1, <2>2 DEF MadeInv
  <1>9. ToSet(made') = ToSet(made) \cup {dir}
    <2>1. made \in Seq(DirNames) /\ Len(made) \in Nat
      BY <1>1, <1>3, Creating
    <2> HIDE DEF dir
    <2>2. /\ DOMAIN made = 1..Len(made) /\ DOMAIN made' = 1..(Len(made) + 1)
          /\ \A i \in 1..Len(made) : made'[i] = made[i]
          /\ made'[Len(made) + 1] = dir
      BY <1>1, <1>6, <2>1
    <2>3. 1..(Len(made) + 1) = 1..Len(made) \cup {Len(made) + 1}
      BY <2>1
    <2>4. {made'[i] : i \in 1..(Len(made) + 1)}
            = {made'[i] : i \in 1..Len(made)} \cup {made'[Len(made) + 1]}
      BY <2>3, Zenon
    <2>5. {made'[i] : i \in 1..Len(made)} = {made[i] : i \in 1..Len(made)}
      BY <2>2, Zenon
    <2>6. ToSet(made') = {made'[i] : i \in 1..(Len(made) + 1)}
          /\ ToSet(made) = {made[i] : i \in 1..Len(made)}
      BY <2>2 DEF ToSet
    <2> QED BY <2>2, <2>4, <2>5, <2>6
  <1>10. MemInv'
    <2>1. mem = DirsOf(ready) \cup ToSet(made) /\ shown = mem /\ ~draining
      BY <1>1, <1>3, Creating
    <2>2. Kept' = ready'
      BY <1>1 DEF Kept
    <2>3. DirsOf(Kept)' = DirsOf(ready)
      BY <1>1, <1>5, <2>2 DEF DirsOf
    <2>4. mem' = DirsOf(ready) \cup ToSet(made') /\ shown' = mem' /\ ~draining'
      BY <1>1, <1>9, <2>1
    <2> QED BY <2>3, <2>4 DEF MemInv
  <1>11. \A t \in Tasks : job[t].at # "idle" => job[t].node \in mem'
    BY <1>1 DEF IndInv, CallInv
  <1>12. CASE cur = "err"
    <2>1. "errors" \notin mem
      BY <1>1, <1>3, <1>12, NoErrorsYet
    <2>2. ErrInv' /\ \A t \in Tasks : job[t].at \notin ClearStates
      BY <1>1, <1>2, <1>12, <2>1, EnableErrors
    <2> QED BY <1>2, <1>4, <1>8, <1>10, <1>11, <2>2, LifeStep
  <1>13. CASE cur # "err"
    <2>1. dir # "errors"
      <3>1. cur \in Features /\ Len(made) + 1 \in 1..Len(Dirs(cur)) /\ iommu \in BOOLEAN
        BY <1>1, <1>3, Creating DEF PhaseInv
      <3>2. Dirs("err") = <<"errors">> /\ "err" \in Features
        BY <3>1, DirsValues DEF Features
      <3>3. 1 \in 1..Len(Dirs("err")) /\ Dirs("err")[1] = "errors"
        BY <3>2
      <3> QED BY <1>13, <3>1, <3>2, <3>3, DirsDistinct
    <2>2. errs' = errs /\ \A u \in ErrRegs : Clearing(u)' = Clearing(u)
      BY <1>1, <1>2, <1>13 DEF Clearing
    <2>3. ErrInv'
      BY <1>1, <2>1, <2>2 DEF IndInv, ErrInv
    <2> QED BY <1>2, <1>4, <1>8, <1>10, <1>11, <2>2, <2>3, LifeStep
  <1> QED BY <1>12, <1>13

\* A directory cannot be created.
LEMMA CreateFailsStep ==
  ASSUME IndInv, create_perf_obj_fails
  PROVE  IndInv'
  <1>1. /\ phase = "init" /\ at < Done /\ Len(made) < Len(Dirs(cur))
        /\ IF cur = "err" THEN fme_error_enable ELSE UNCHANGED errs
        /\ IF made = <<>> THEN phase' = "uinit" /\ at' = 1
           ELSE phase' = "destroy" /\ UNCHANGED at
        /\ UNCHANGED <<rest, made, cur, shown, mem, ready, draining>>
    BY DEF create_perf_obj_fails
  <1>2. UNCHANGED <<lock, reg, want, job, started, ctr, occurred, iommu>>
    BY <1>1 DEF rest
  <1>3. PhaseInv /\ MadeInv /\ MemInv
    BY DEF IndInv
  <1>4. cur \in Features \ ready /\ ~draining /\ lock # Remover /\ shown = mem
        /\ mem = DirsOf(ready) \cup ToSet(made)
    BY <1>1, <1>3, Creating
  <1>5. PhaseInv'
    <2>1. CASE made = <<>>
      BY <1>1, <1>2, <1>3, <1>4, <2>1, InitOrder, UinitOrder DEF PhaseInv
    <2>2. CASE made # <<>>
      BY <1>1, <1>2, <1>3, <1>4, <2>2 DEF PhaseInv
    <2> QED BY <2>1, <2>2
  <1>6. Dirs(cur)' = Dirs(cur) /\ DirsOf(ready)' = DirsOf(ready)
    BY <1>1, <1>2 DEF Dirs, fme_iperf_objs, create_perf_iommu_obj, DirsOf
  <1>7. MadeInv'
    <2>1. Busy
      BY <1>1 DEF Busy
    <2>2. CASE made = <<>>
      <3>1. ~Busy'
        BY <1>1, <2>2 DEF Busy
      <3> QED BY <1>1, <2>2, <3>1 DEF MadeInv
    <2>3. CASE made # <<>>
      <3>1. Busy' /\ made' = made
        BY <1>1, <2>3 DEF Busy
      <3> QED BY <1>3, <1>6, <2>1, <3>1 DEF MadeInv
    <2> QED BY <2>2, <2>3
  <1>8. MemInv'
    <2>1. Kept' = ready'
      BY <1>1, <1>4 DEF Kept
    <2>2. DirsOf(Kept)' = DirsOf(ready)
      BY <1>6, <2>1 DEF DirsOf
    <2> QED BY <1>1, <1>4, <2>2 DEF MemInv
  <1>9. \A t \in Tasks : job[t].at # "idle" => job[t].node \in mem'
    BY <1>1 DEF IndInv, CallInv
  <1>10. CASE cur = "err"
    <2>1. "errors" \notin mem
      BY <1>1, <1>3, <1>10, NoErrorsYet
    <2>2. ErrInv' /\ \A t \in Tasks : job[t].at \notin ClearStates
      BY <1>1, <1>2, <1>10, <2>1, EnableErrors
    <2> QED BY <1>2, <1>5, <1>7, <1>8, <1>9, <2>2, LifeStep
  <1>11. CASE cur # "err"
    BY <1>1, <1>2, <1>5, <1>7, <1>8, <1>9, <1>11, QuietLifeStep
  <1> QED BY <1>10, <1>11

\* The init of a sub-feature ends and the next one begins.
LEMMA InitEndStep ==
  ASSUME IndInv, feature_init_end
  PROVE  IndInv'
  <1>1. /\ phase = "init" /\ at < Done /\ Len(made) = Len(Dirs(cur))
        /\ ready' = ready \cup {cur} /\ at' = at + 1 /\ made' = <<>>
        /\ cur' = IF at + 1 < Done THEN fme_feature_drvs[at + 1] ELSE "none"
        /\ UNCHANGED <<rest, errs, phase, shown, mem, draining>>
    BY DEF feature_init_end
  <1>2. UNCHANGED <<lock, reg, want, job, started, ctr, occurred, iommu>>
    BY <1>1 DEF rest
  <1>3. PhaseInv /\ MadeInv /\ MemInv
    BY DEF IndInv
  <1>4. /\ at \in 1..5 /\ cur \in Features /\ Before(at + 1) = ready \cup {cur}
        /\ Dirs(cur) \in Seq(DirNames) /\ made \in Seq(DirNames)
        /\ \A i \in 1..Len(made) : made[i] = Dirs(cur)[i]
        /\ mem = DirsOf(ready) \cup ToSet(made) /\ shown = mem /\ ~draining
        /\ lock # Remover
    BY <1>1, <1>3, Creating
  <1>5. PhaseInv'
    <2>1. ready' = Before(at') /\ ready' \subseteq Features
      BY <1>1, <1>3, <1>4 DEF PhaseInv
    <2> QED BY <1>1, <1>2, <1>3, <1>4, <2>1, InitOrder DEF PhaseInv
  <1>6. MadeInv'
    <2>1. CASE at' < Done
      <3>1. cur' \in Features
        BY <1>1, <1>4, <2>1, InitOrder
      <3>2. Dirs(cur') \in Seq(DirNames) /\ Dirs(cur)' = Dirs(cur')
        <4>1. Dirs(cur') \in Seq(DirNames)
          BY <1>3, <3>1, DirsType DEF PhaseInv
        <4> QED BY <1>2, <4>1 DEF Dirs, fme_iperf_objs, create_perf_iommu_obj
      <3>3. Len(Dirs(cur')) \in Nat
        BY <3>2
      <3>4. made' \in Seq(DirNames) /\ Len(made') = 0
        BY <1>1
      <3>5. Busy'
        BY <1>1, <2>1 DEF Busy, Done
      <3>6. 1..Len(made') = {}
        BY <3>4
      <3> QED BY <3>2, <3>3, <3>4, <3>5, <3>6 DEF MadeInv
    <2>2. CASE ~(at' < Done)
      <3>1. ~Busy'
        BY <1>1, <2>2 DEF Busy, Done
      <3> QED BY <1>1, <3>1 DEF MadeInv
    <2> QED BY <2>1, <2>2
  <1>7. ToSet(made) = ToSet(Dirs(cur))
    <2>1. DOMAIN made = 1..Len(made) /\ DOMAIN Dirs(cur) = 1..Len(made)
      BY <1>1, <1>4
    <2> QED BY <1>4, <2>1 DEF ToSet
  <1>8. MemInv'
    <2>1. mem = DirsOf(ready \cup {cur})
      BY <1>4, <1>7, DirsOfAdd
    <2>2. Kept' = ready'
      BY <1>1 DEF Kept
    <2>3. DirsOf(Kept)' = DirsOf(ready')
      <3>1. \A f : Dirs(f)' = Dirs(f)
        BY <1>2, SameDirs
      <3> QED BY <1>1, <2>2, <3>1 DEF DirsOf
    <2>4. mem' = DirsOf(ready')
      BY <1>1, <2>1
    <2>5. ToSet(made') = {}
      BY <1>1 DEF ToSet
    <2> QED BY <1>1, <1>4, <2>3, <2>4, <2>5 DEF MemInv
  <1>9. \A t \in Tasks : job[t].at # "idle" => job[t].node \in mem'
    BY <1>1 DEF IndInv, CallInv
  <1> QED BY <1>1, <1>2, <1>5, <1>6, <1>8, <1>9, QuietLifeStep

\* The uinit operation of an initialised sub-feature begins.
LEMMA UinitStep ==
  ASSUME IndInv, feature_uinit
  PROVE  IndInv'
  <1> DEFINE f == fme_features[at]
  <1>1. /\ phase = "uinit" /\ at < Done /\ f \in ready
        /\ IF f = "err" THEN lock = NoTask /\ lock' = Remover ELSE UNCHANGED lock
        /\ phase' = "destroy" /\ cur' = f /\ made' = Dirs(f)
        /\ UNCHANGED <<reg, want, job, inUse, started, ctr, occurred, iommu, lock_bit>>
        /\ UNCHANGED <<errs, at, shown, mem, ready, draining>>
    BY DEF feature_uinit
  <1>2. PhaseInv /\ MadeInv /\ MemInv
    BY DEF IndInv
  <1>3. f \in Features /\ iommu \in BOOLEAN /\ at \in 1..5 /\ ~draining /\ lock # Remover
    BY <1>1, <1>2, InitOrder DEF PhaseInv
  <1> HIDE DEF f
  <1>4. PhaseInv'
    BY <1>1, <1>2, <1>3 DEF PhaseInv, f
  <1>5. Dirs(f) \in Seq(DirNames) /\ Dirs(cur)' = Dirs(f)
    <2>1. Dirs(f) \in Seq(DirNames)
      BY <1>3, DirsType
    <2> QED BY <1>1, <2>1 DEF Dirs, fme_iperf_objs, create_perf_iommu_obj
  <1>6. MadeInv'
    <2>1. Busy'
      BY <1>1 DEF Busy
    <2>2. Len(Dirs(f)) \in Nat
      BY <1>5
    <2> QED BY <1>1, <1>5, <2>1, <2>2 DEF MadeInv
  <1>7. MemInv'
    <2>1. mem = DirsOf(ready) /\ shown = mem
      <3>1. made = <<>>
        BY <1>1, <1>2 DEF MadeInv, Busy
      <3>2. ToSet(made) = {}
        BY <3>1 DEF ToSet
      <3> QED BY <1>1, <1>2, <1>3, <3>2 DEF MemInv, Kept
    <2>2. ready = (ready \ {f}) \cup {f}
      BY <1>1
    <2>3. DirsOf(ready) = DirsOf(ready \ {f}) \cup ToSet(Dirs(f))
      BY <2>2, DirsOfAdd
    <2>4. Kept' = ready \ {f}
      BY <1>1 DEF Kept
    <2>5. DirsOf(Kept)' = DirsOf(ready \ {f})
      <3>1. \A g : Dirs(g)' = Dirs(g)
        BY <1>1, SameDirs
      <3> QED BY <2>4, <3>1 DEF DirsOf
    <2> QED BY <1>1, <1>3, <2>1, <2>3, <2>5 DEF MemInv
  <1>8. \A t \in Tasks : job[t].at # "idle" => job[t].node \in mem'
    BY <1>1 DEF IndInv, CallInv
  <1>9. lock' \in {lock, NoTask, Remover} /\ (lock' # lock => lock \notin Tasks)
    BY <1>1, TasksAssumption
  <1> QED BY <1>1, <1>4, <1>6, <1>7, <1>8, <1>9, QuietLifeStep

\* The last directory: its files go, then its object, once no callback uses it.
LEMMA RemoveFilesStep ==
  ASSUME IndInv, remove_files
  PROVE  IndInv'
  <1>1. /\ phase = "destroy" /\ made # <<>> /\ ~draining /\ shown' = shown \ {Last(made)}
        /\ draining' = TRUE /\ UNCHANGED <<rest, errs, phase, at, mem, ready, cur, made>>
    BY DEF remove_files
  <1>2. UNCHANGED <<lock, reg, want, job, started, ctr, occurred, iommu>>
    BY <1>1 DEF rest
  <1>3. PhaseInv /\ MadeInv /\ MemInv
    BY DEF IndInv
  <1>4. PhaseInv'
    BY <1>1, <1>2, <1>3 DEF PhaseInv
  <1>5. Dirs(cur)' = Dirs(cur) /\ DirsOf(Kept)' = DirsOf(Kept)
    BY <1>1, <1>2 DEF Dirs, fme_iperf_objs, create_perf_iommu_obj, DirsOf, Kept
  <1>6. MadeInv'
    <2>1. Busy /\ Busy'
      BY <1>1 DEF Busy
    <2> QED BY <1>1, <1>3, <1>5, <2>1 DEF MadeInv
  <1>7. MemInv'
    BY <1>1, <1>3, <1>5 DEF MemInv
  <1>8. \A t \in Tasks : job[t].at # "idle" => job[t].node \in mem'
    BY <1>1 DEF IndInv, CallInv
  <1> QED BY <1>1, <1>2, <1>4, <1>6, <1>7, <1>8, QuietLifeStep

\* The callbacks of a directory have ended and its object is freed.
LEMMA KobjectPutStep ==
  ASSUME IndInv, kobject_put
  PROVE  IndInv'
  <1> DEFINE n == Len(made)
             last == Last(made)
  <1>1. /\ phase = "destroy" /\ draining /\ \A t \in Tasks : job[t].node # last
        /\ mem' = mem \ {last} /\ made' = Front(made) /\ draining' = FALSE
        /\ UNCHANGED <<rest, errs, phase, at, shown, ready, cur>>
    BY DEF kobject_put
  <1>2. UNCHANGED <<lock, reg, want, job, started, ctr, occurred, iommu>>
    BY <1>1 DEF rest
  <1>3. PhaseInv /\ MadeInv /\ MemInv
    BY DEF IndInv
  <1>4. PhaseInv'
    BY <1>1, <1>2, <1>3 DEF PhaseInv
  <1>5. Dirs(cur)' = Dirs(cur) /\ DirsOf(Kept)' = DirsOf(Kept)
    BY <1>1, <1>2 DEF Dirs, fme_iperf_objs, create_perf_iommu_obj, DirsOf, Kept
  <1>6. /\ made \in Seq(DirNames) /\ n \in Nat /\ n <= Len(Dirs(cur))
        /\ \A i \in 1..n : made[i] = Dirs(cur)[i]
    <2>1. made \in Seq(DirNames) /\ n <= Len(Dirs(cur))
          /\ \A i \in 1..n : made[i] = Dirs(cur)[i]
      BY <1>1, <1>3 DEF MadeInv, Busy
    <2> QED BY <2>1
  <1>7. cur \in Features /\ iommu \in BOOLEAN /\ ready \subseteq Features /\ made # <<>>
    BY <1>1, <1>3 DEF PhaseInv
  <1>8. n \in 1..n /\ n - 1 \in Nat
    BY <1>6, <1>7
  <1>9. /\ made' \in Seq(DirNames) /\ Len(made') = n - 1
        /\ \A i \in 1..(n - 1) : made'[i] = made[i]
    <2>1. made' = SubSeq(made, 1, n - 1)
      BY <1>1 DEF Front
    <2>2. \A i \in 1..(n - 1) : made[i] \in DirNames
      BY <1>6, ElementOfSeq
    <2> HIDE DEF n
    <2> QED BY <1>8, <2>1, <2>2, SubSeqProperties
  <1>10. Dirs(cur) \in Seq(DirNames) /\ Len(Dirs(cur)) \in Nat
    <2>1. Dirs(cur) \in Seq(DirNames)
      BY <1>7, DirsType
    <2> QED BY <2>1
  <1>11. MadeInv'
    <2>1. Busy'
      BY <1>1 DEF Busy
    <2>2. Len(made') <= Len(Dirs(cur))
      BY <1>6, <1>8, <1>9, <1>10
    <2>3. \A i \in 1..Len(made') : made'[i] = Dirs(cur)[i]
      BY <1>6, <1>8, <1>9
    <2> QED BY <1>5, <1>9, <2>1, <2>2, <2>3 DEF MadeInv
  <1>12. ToSet(made') = ToSet(made) \ {last}
    <2>1. DOMAIN made = 1..n /\ DOMAIN made' = 1..(n - 1) /\ last = made[n]
      BY <1>6, <1>9 DEF Last
    <2>2. \A i \in 1..(n - 1) : made[i] # made[n]
      <3> SUFFICES ASSUME NEW i \in 1..(n - 1), made[i] = made[n]
                   PROVE  FALSE
        OBVIOUS
      <3>1. i \in 1..n /\ i # n
        BY <1>8
      <3>2. Dirs(cur)[i] = Dirs(cur)[n]
        BY <1>6, <1>8, <3>1
      <3>3. i \in 1..Len(Dirs(cur)) /\ n \in 1..Len(Dirs(cur))
        BY <1>6, <1>8, <1>10, <3>1
      <3> HIDE DEF n
      <3> QED BY <1>7, <3>1, <3>2, <3>3, DirsDistinct
    <2>3. \A i \in 1..n : i \in 1..(n - 1) \/ i = n
      BY <1>8
    <2>4. \A i \in 1..(n - 1) : i \in 1..n
      BY <1>8
    <2> HIDE DEF n
    <2> QED BY <1>8, <1>9, <2>1, <2>2, <2>3, <2>4 DEF ToSet
  <1>13. last \notin DirsOf(Kept)
    <2>1. last = Dirs(cur)[n] /\ n \in 1..Len(Dirs(cur))
      BY <1>6, <1>8, <1>10 DEF Last
    <2>2. Kept \in SUBSET Features /\ cur \in Features \ Kept
      BY <1>1, <1>7 DEF Kept
    <2> HIDE DEF n, last
    <2> QED BY <1>7, <2>1, <2>2, DirsApart
  <1>14. MemInv'
    <2>1. mem = DirsOf(Kept) \cup ToSet(made) /\ shown = mem \ {last}
      BY <1>1, <1>3 DEF MemInv
    <2> HIDE DEF last
    <2>2. mem' = DirsOf(Kept) \cup ToSet(made') /\ shown' = mem'
      BY <1>1, <1>12, <1>13, <2>1
    <2> QED BY <1>1, <1>5, <2>2 DEF MemInv
  <1>15. \A t \in Tasks : job[t].at # "idle" => job[t].node \in mem'
    BY <1>1 DEF IndInv, CallInv
  <1> QED BY <1>1, <1>2, <1>4, <1>11, <1>14, <1>15, QuietLifeStep

\* The uinit operation ends, or the directories of the one that failed are gone.
LEMMA DestroyEndStep ==
  ASSUME IndInv, destroy_end
  PROVE  IndInv'
  <1>1. /\ phase = "destroy" /\ made = <<>> /\ phase' = "uinit"
        /\ at' = IF cur \in ready THEN at + 1 ELSE 1
        /\ ready' = ready \ {cur}
        /\ lock' = IF lock = Remover THEN NoTask ELSE lock
        /\ UNCHANGED <<reg, want, job, inUse, started, ctr, occurred, iommu, lock_bit>>
        /\ UNCHANGED <<errs, shown, mem, draining, cur, made>>
    BY DEF destroy_end
  <1>2. PhaseInv /\ MadeInv /\ MemInv
    BY DEF IndInv
  <1>3. ~draining /\ lock' # Remover
    BY <1>1, <1>2, TasksAssumption DEF PhaseInv
  <1>4. at' \in 1..Done /\ ready' \cap UinitBefore(at') = {}
    <2>1. CASE cur \in ready
      <3>1. at \in 1..5 /\ cur = fme_features[at] /\ ready \cap UinitBefore(at) = {}
        BY <1>1, <1>2, <2>1, InitOrder DEF PhaseInv
      <3>2. at' = at + 1 /\ UinitBefore(at + 1) = UinitBefore(at) \cup {cur}
        BY <1>1, <2>1, <3>1, UinitOrder
      <3> QED BY <1>1, <3>1, <3>2, InitOrder
    <2>2. CASE cur \notin ready
      <3>1. at' = 1
        BY <1>1, <2>2
      <3> QED BY <3>1, InitOrder, UinitOrder
    <2> QED BY <2>1, <2>2
  <1>5. PhaseInv'
    BY <1>1, <1>2, <1>3, <1>4 DEF PhaseInv
  <1>6. MadeInv'
    <2>1. ~Busy'
      BY <1>1 DEF Busy
    <2> QED BY <1>1, <2>1 DEF MadeInv
  <1>7. MemInv'
    <2>1. Kept' = Kept
      BY <1>1 DEF Kept
    <2>2. DirsOf(Kept)' = DirsOf(Kept)
      <3>1. \A g : Dirs(g)' = Dirs(g)
        BY <1>1, SameDirs
      <3> QED BY <2>1, <3>1 DEF DirsOf
    <2> QED BY <1>1, <1>2, <1>3, <2>2 DEF MemInv
  <1>8. \A t \in Tasks : job[t].at # "idle" => job[t].node \in mem'
    BY <1>1 DEF IndInv, CallInv
  <1>9. lock' \in {lock, NoTask, Remover} /\ (lock' # lock => lock \notin Tasks)
    BY <1>1, TasksAssumption
  <1> QED BY <1>1, <1>5, <1>6, <1>7, <1>8, <1>9, QuietLifeStep

-----------------------------------------------------------------------------
(* The theorems.                                                           *)

\* The invariant holds before the probe.
LEMMA InitialState == Init => IndInv
  <1> SUFFICES ASSUME Init PROVE IndInv
    OBVIOUS
  <1>1. RegInv
    <2>1. reg = Over(PerfInit, Over(MgmtInit, ErrInit)) /\ reg = want
      BY DEF Init
    <2>2. DOMAIN PerfInit = PerfUnits
          /\ DOMAIN MgmtInit = {"tmp_threshold", "pm_ap_threshold"}
          /\ DOMAIN ErrInit = {"ras_error_inj"}
      BY DEF PerfInit, MgmtInit, ErrInit, PerfUnits, Fabrics
    <2>3. DOMAIN reg = RegNames
      BY <2>1, <2>2 DEF Over, RegNames
    <2>4. /\ \A r \in PerfUnits : reg[r] = PerfInit[r]
          /\ reg.tmp_threshold = MgmtInit.tmp_threshold
          /\ reg.pm_ap_threshold = MgmtInit.pm_ap_threshold
          /\ reg.ras_error_inj = ErrInit.ras_error_inj
      BY <2>1, <2>2 DEF Over, PerfUnits, Fabrics
    <2>5. ASSUME NEW r \in RegNames
          PROVE  DOMAIN reg[r] = Fields(r) /\ \A f \in Fields(r) : reg[r][f] = 0
      <3>1. CASE r \in PerfUnits
        BY <2>4, <3>1 DEF PerfInit, PerfUnits, Fabrics, FabricFields, Fields
      <3>2. CASE r = "tmp_threshold"
        BY <2>4, <3>2 DEF MgmtInit, Fabrics, Fields
      <3>3. CASE r = "pm_ap_threshold"
        BY <2>4, <3>3 DEF MgmtInit, Fabrics, Fields
      <3>4. CASE r = "ras_error_inj"
        BY <2>4, <3>4 DEF ErrInit, Fabrics, Fields
      <3> QED BY <3>1, <3>2, <3>3, <3>4 DEF RegNames
    <2>6. ASSUME NEW r \in RegNames, NEW f \in Fields(r)
          PROVE  0 \in Values(f)
      <3>1. \/ f \in {"event", "filter", "policy", "thshold1", "thshold2", "threshold1"}
            \/ f \in {"threshold2", "data", "freeze", "port", "thshold1_enable"}
            \/ f = "thshold2_enable"
        BY <2>6 DEF RegNames, PerfUnits, Fabrics, FabricFields, Fields
      <3> QED BY <3>1, EventsAssumption
                 DEF Values, TEMP_MAX, PWR_THRESHOLD_MAX, FME_RAS_ERROR_INJ_MASK
    <2>7. DOMAIN ctr = Counters /\ \A c \in Counters : ctr[c] \in Events
      BY EventsAssumption DEF Init
    <2> QED BY <2>1, <2>3, <2>5, <2>6, <2>7 DEF RegInv
  <1>2. \A t \in Tasks : job[t].at = "idle"
    BY DEF Init, Idle
  <1>3. CallInv
    BY <1>2 DEF Init, CallInv, JobOK, LockedStates, ClearStates
  <1>4. ErrInv
    <2>1. errs = [u \in ErrRegs |->
                    [err |-> {}, first |-> {}, next |-> {}, mask |-> Maskable]]
          /\ shown = {}
      BY DEF Init, ErrorInit
    <2> QED BY <2>1, ErrorsAssumption DEF ErrInv, ErrRegs
  <1>5. PhaseInv
    <2>1. draining \in BOOLEAN /\ ~draining /\ iommu \in BOOLEAN
      BY Zenon DEF Init
    <2>2. phase = "unbound" /\ at \in 1..Done /\ ready = {} /\ lock # Remover
      BY TasksAssumption, InitOrder DEF Init
    <2> QED BY <2>1, <2>2 DEF PhaseInv
  <1>6. MadeInv /\ MemInv
    BY DEF Init, MadeInv, Busy, MemInv, Kept, DirsOf, ToSet
  <1>7. \A t \in Tasks : HeldInv(t) /\ ClearInv(t)
    BY <1>2 DEF HeldInv, ClearInv, ClearStates
  <1>8. started \in 0..MaxOps /\ occurred \in Nat
    BY TasksAssumption DEF Init, ErrorInit
  <1> QED BY <1>1, <1>3, <1>4, <1>5, <1>6, <1>7, <1>8 DEF IndInv

\* A step that changes nothing keeps the invariant.
LEMMA Stutter == IndInv /\ UNCHANGED vars => IndInv'
  <1> SUFFICES ASSUME IndInv, UNCHANGED vars PROVE IndInv'
    OBVIOUS
  <1>1. UNCHANGED <<reg, want, job, started, ctr, occurred, errs, lock, shown, mem, lifeVars>>
    BY DEF vars, lifeVars
  <1>2. PhaseInv' /\ MadeInv' /\ MemInv'
    BY <1>1, LifeKept DEF IndInv
  <1>3. \A t \in Tasks : job[t].at # "idle" => job[t].node \in mem'
    BY <1>1 DEF IndInv, CallInv
  <1> QED BY <1>1, <1>2, <1>3, QuietLifeStep

\* Every step preserves the inductive invariant.
LEMMA InductiveStep == IndInv /\ [Next]_vars => IndInv'
  <1> SUFFICES ASSUME IndInv, [Next]_vars PROVE IndInv'
    OBVIOUS
  <1>1. ASSUME NEW t \in Tasks, Begins(t) PROVE IndInv'
    BY <1>1, PerfBeginsStep, MgmtBeginsStep, ErrorBeginsStep DEF Begins
  <1>2. ASSUME NEW t \in Tasks, Steps(t) PROVE IndInv'
    <2>1. CASE CallbackSteps(t) /\ UNCHANGED <<ctr, errVars, lifeVars>>
      BY <2>1, CallbackStep
    <2>2. CASE CounterSteps(t) /\ UNCHANGED <<errVars, lifeVars>>
      BY <2>2, CounterStep
    <2>3. CASE ErrorSteps(t) /\ UNCHANGED <<ctr, lifeVars>>
      BY <2>3, ErrorStep
    <2> QED BY <1>2, <2>1, <2>2, <2>3 DEF Steps
  <1>3. CASE Hardware
    <2>1. ASSUME NEW c \in Counters, Latch(c), UNCHANGED <<errVars, lifeVars>>
          PROVE  IndInv'
      BY <2>1, LatchStep
    <2>2. ASSUME NEW u \in ErrRegs, NEW e \in Errors, ErrorOccurs(u, e),
                 UNCHANGED <<ctr, lifeVars>>
          PROVE  IndInv'
      BY <2>2, ErrorOccursStep
    <2> QED BY <1>3, <2>1, <2>2 DEF Hardware
  <1>4. CASE Driver
    BY <1>4, CreateStep, CreateFailsStep, InitEndStep, BetweenStep, UinitStep,
       RemoveFilesStep, KobjectPutStep, DestroyEndStep DEF Driver
  <1>5. CASE fme_probe \/ fme_remove
    BY <1>5, BetweenStep
  <1> QED BY <1>1, <1>2, <1>3, <1>4, <1>5, Stutter DEF Next

\* The inductive invariant holds in every reachable state.
LEMMA Inductive == Spec => []IndInv
  BY InitialState, InductiveStep, PTL DEF Spec

\* Every directory belongs to a sub-feature.
LEMMA DirsKnown ==
  ASSUME IndInv
  PROVE  mem \subseteq AllDirs
  <1>1. Kept \subseteq Features
    BY DEF Kept, IndInv, PhaseInv
  <1>2. DirsOf(Kept) \subseteq AllDirs
    BY <1>1, AllDirsOf DEF DirsOf
  <1>3. ToSet(made) \subseteq AllDirs
    <2>1. CASE Busy
      <3>1. cur \in Features
        BY <2>1, InitOrder DEF Busy, IndInv, PhaseInv
      <3>2. iommu \in BOOLEAN /\ made \in Seq(DirNames) /\ Len(made) <= Len(Dirs(cur))
            /\ \A i \in 1..Len(made) : made[i] = Dirs(cur)[i]
        BY <2>1 DEF IndInv, PhaseInv, MadeInv
      <3>3. Dirs(cur) \in Seq(DirNames)
        BY <3>1, <3>2, DirsType
      <3>4. DOMAIN made = 1..Len(made) /\ DOMAIN Dirs(cur) = 1..Len(Dirs(cur))
            /\ Len(made) \in Nat /\ Len(Dirs(cur)) \in Nat
        BY <3>2, <3>3
      <3>5. \A i \in 1..Len(made) : i \in 1..Len(Dirs(cur))
        BY <3>2, <3>4
      <3>6. ToSet(made) \subseteq ToSet(Dirs(cur))
        BY <3>2, <3>4, <3>5 DEF ToSet
      <3> QED BY <3>1, <3>6, AllDirsOf DEF DirsOf
    <2>2. CASE ~Busy
      BY <2>2 DEF IndInv, MadeInv, ToSet
    <2> QED BY <2>1, <2>2
  <1> QED BY <1>2, <1>3 DEF IndInv, MemInv

\* Type correctness: whatever callbacks interleave, the registers hold values
\* that the driver may write, a threshold never more than its limit.
THEOREM SysfsTypeOK == Spec => []TypeOK
  <1>1. ASSUME IndInv PROVE TypeOK
    <2>1. \A r \in RegNames : \A f \in Fields(r) : reg[r][f] \in Values(f)
      BY <1>1 DEF IndInv, RegInv
    <2>2. \A c \in Counters : reg[UnitOf(c)].event \in Events /\ ctr[c] \in Events
      <3>1. \A c \in Counters : UnitOf(c) \in RegNames /\ "event" \in Fields(UnitOf(c))
        BY DEF Counters, UnitOf, RegNames, PerfUnits, Fabrics, FabricFields, Fields
      <3>2. Values("event") = Events
        BY DEF Values
      <3> QED BY <1>1, <2>1, <3>1, <3>2 DEF IndInv, RegInv
    <2>3. \A f \in Fabrics : reg[f].filter \in {0, 1} /\ reg[f].port \in Nat
      <3>1. \A f \in Fabrics : f \in RegNames /\ {"filter", "port"} \subseteq Fields(f)
        BY DEF RegNames, PerfUnits, Fabrics, FabricFields, Fields
      <3>2. Values("filter") = {0, 1} /\ Values("port") = Nat
        BY DEF Values
      <3> QED BY <2>1, <3>1, <3>2
    <2>4. /\ \A n \in {"thshold1", "thshold2"} : reg.tmp_threshold[n] \in 0..TEMP_MAX
          /\ reg.tmp_threshold.policy \in {0, 1}
      <3>1. "tmp_threshold" \in RegNames
            /\ {"thshold1", "thshold2", "policy"} \subseteq Fields("tmp_threshold")
        BY DEF RegNames, Fabrics, Fields
      <3>2. Values("thshold1") = 0..TEMP_MAX /\ Values("thshold2") = 0..TEMP_MAX
            /\ Values("policy") = {0, 1}
        BY DEF Values
      <3> QED BY <2>1, <3>1, <3>2
    <2>5. \A n \in {"threshold1", "threshold2"} :
            reg.pm_ap_threshold[n] \in 0..PWR_THRESHOLD_MAX
      <3>1. "pm_ap_threshold" \in RegNames
            /\ {"threshold1", "threshold2"} \subseteq Fields("pm_ap_threshold")
        BY DEF RegNames, Fabrics, Fields
      <3>2. Values("threshold1") = 0..PWR_THRESHOLD_MAX
            /\ Values("threshold2") = 0..PWR_THRESHOLD_MAX
        BY DEF Values
      <3> QED BY <2>1, <3>1, <3>2
    <2>6. reg.ras_error_inj.data \in 0..FME_RAS_ERROR_INJ_MASK
      <3>1. "ras_error_inj" \in RegNames /\ "data" \in Fields("ras_error_inj")
        BY DEF RegNames, Fabrics, Fields
      <3>2. Values("data") = 0..FME_RAS_ERROR_INJ_MASK
        BY DEF Values
      <3> QED BY <2>1, <3>1, <3>2
    <2>7. shown \subseteq mem
      BY <1>1 DEF IndInv, MemInv
    <2> QED BY <1>1, <2>2, <2>3, <2>4, <2>5, <2>6, <2>7, DirsKnown
               DEF TypeOK, IndInv, CallInv, ErrInv, PhaseInv
  <1> QED BY <1>1, Inductive, PTL

\* No store to a shared register is lost, with any number of callbacks that
\* read, change and write back the same register.
THEOREM SysfsStoresKept == Spec => []StoresKept
  <1>1. IndInv => StoresKept
    BY DEF IndInv, RegInv, StoresKept
  <1> QED BY <1>1, Inductive, PTL

\* A count that is read is, in the register that was polled, of the event and the
\* object whose file is read.
THEOREM SysfsCountsAsked == Spec => []CountsAsked
  <1>1. IndInv => CountsAsked
    BY DEF IndInv, HeldInv, CountsAsked
  <1> QED BY <1>1, Inductive, PTL

\* The driver's clearing never leaves an error that it can mask without its
\* trace in the first error register, and never leaves the errors masked.
THEOREM SysfsErrorsConsistent == Spec => []ErrorsConsistent
  <1>1. IndInv => ErrorsConsistent
    BY DEF IndInv, ErrInv, ErrorsConsistent
  <1> QED BY <1>1, Inductive, PTL

\* Objects outlive the callbacks that use them; probe and removal, also after a
\* failure at any step, leave all directories or none.
THEOREM SysfsAttrsBacked == Spec => []AttrsBacked
  <1>1. ASSUME IndInv PROVE AttrsBacked
    <2>1. \A t \in Tasks : job[t].at # "idle" => job[t].node \in mem
      BY <1>1 DEF IndInv, CallInv
    <2>2. ASSUME phase \in {"unbound", "bound"}
          PROVE  mem = DirsOf(ready) /\ shown = mem
      <3>1. ~Busy /\ ~draining /\ made = <<>>
        BY <1>1, <2>2 DEF Busy, IndInv, PhaseInv, MadeInv
      <3>2. ToSet(made) = {}
        BY <3>1 DEF ToSet
      <3> QED BY <1>1, <2>2, <3>1, <3>2 DEF IndInv, MemInv, Kept
    <2>3. phase = "unbound" => ready = {} /\ lock # Remover
      BY <1>1 DEF IndInv, PhaseInv
    <2>4. phase = "bound" => ready = Features
      BY <1>1 DEF IndInv, PhaseInv
    <2>5. DirsOf({}) = {}
      BY DEF DirsOf
    <2> QED BY <2>1, <2>2, <2>3, <2>4, <2>5, AllDirsOf DEF AttrsBacked
  <1> QED BY <1>1, Inductive, PTL
=============================================================================
