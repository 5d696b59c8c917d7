------------------------------ MODULE FmeMgmt ------------------------------
(***************************************************************************)
(* Thermal and power management of the FME (fme-main.c).  The two          *)
(* temperature thresholds, their enable bits and the policy are fields of  *)
(* one register, the two power thresholds of another.                      *)
(***************************************************************************)
EXTENDS FmeRegs

VARIABLE lock_bit    \* of the FME's capability register: set by the firmware

TEMP_MAX == 100
PWR_THRESHOLD_MAX == 127
Temps == {0, TEMP_MAX, TEMP_MAX + 1}           \* what a user writes
Powers == {PWR_THRESHOLD_MAX, PWR_THRESHOLD_MAX + 1}
Policies == 0..2

MgmtInit ==
  [tmp_threshold |-> [thshold1 |-> 0, thshold1_enable |-> 0,
                      thshold2 |-> 0, thshold2_enable |-> 0, policy |-> 0],
   pm_ap_threshold |-> [threshold1 |-> 0, threshold2 |-> 0]]

\* Mutant: the threshold is not limited.
TempUnlimited(v) == lock_bit = 0

TempAllowed(v) == lock_bit = 0 /\ v <= TEMP_MAX
Enabled(v) == IF v = 0 THEN 0 ELSE 1

thermal_threshold1_store(t, v) ==
  Begin(t, "thermal",
        Store("tmp_threshold", [thshold1 |-> v, thshold1_enable |-> Enabled(v)],
              TempAllowed(v)))

thermal_threshold2_store(t, v) ==
  Begin(t, "thermal",
        Store("tmp_threshold", [thshold2 |-> v, thshold2_enable |-> Enabled(v)],
              TempAllowed(v)))

thermal_threshold1_policy_store(t, v) ==
  Begin(t, "thermal", Store("tmp_threshold", [policy |-> v], v \in {0, 1}))

pwr_threshold1_store(t, v) ==
  Begin(t, "power",
        Store("pm_ap_threshold", [threshold1 |-> v], v <= PWR_THRESHOLD_MAX))

pwr_threshold2_store(t, v) ==
  Begin(t, "power",
        Store("pm_ap_threshold", [threshold2 |-> v], v <= PWR_THRESHOLD_MAX))

\* Thresholds, their status, the temperature and the limits are read without
\* the lock.
thermal_show(t) == Begin(t, "thermal", Show)
power_show(t) == Begin(t, "power", Show)

MgmtBegins(t) ==
  \/ \E v \in Temps : thermal_threshold1_store(t, v) \/ thermal_threshold2_store(t, v)
  \/ \E v \in Policies : thermal_threshold1_policy_store(t, v)
  \/ \E v \in Powers : pwr_threshold1_store(t, v) \/ pwr_threshold2_store(t, v)
  \/ thermal_show(t) \/ power_show(t)
=============================================================================
