---------------------------- MODULE PortProofs ----------------------------
(***************************************************************************)
(* Proofs about the ports: PortReset for any finite set of tasks, any set  *)
(* of error bits and any number of timed-out disables; and PortManage for  *)
(* any finite set of ports, any set of tasks and any bound on the open     *)
(* files, provided the driver is not unbound while the FME is open (with   *)
(* UnbindWhileOpen the code breaks these invariants, see                   *)
(* UnregisteredFirst).                                                     *)
(***************************************************************************)
EXTENDS PortReset, PortManage, FiniteSetTheorems, TLAPS

(***************************************************************************)
(*                      Reset and errors of a port                         *)
(***************************************************************************)

-----------------------------------------------------------------------------
(* How the number of holders of the port's reset changes when one thread   *)
(* moves from one place to another.                                        *)

\* Only finitely many threads hold the port in reset.
LEMMA HoldersFinite ==
  ASSUME ResetTypeOK
  PROVE  IsFiniteSet(Holders) /\ Cardinality(Holders) \in Nat
  BY CallersAssumption, FS_Subset, FS_CardinalityType DEF Holders

\* A thread that starts to hold the port in reset adds one holder.
LEMMA HolderAdded ==
  ASSUME ResetTypeOK, NEW t \in Callers, NEW x \in HoldingPc,
         at[t] \notin HoldingPc, at' = [at EXCEPT ![t] = x]
  PROVE  Cardinality(Holders') = Cardinality(Holders) + 1
  <1>1. Holders' = Holders \cup {t} /\ t \notin Holders
    BY DEF Holders, ResetTypeOK
  <1> QED BY <1>1, HoldersFinite, FS_AddElement

\* A thread that stops holding it takes one away; there was at least one.
LEMMA HolderRemoved ==
  ASSUME ResetTypeOK, NEW t \in Callers, NEW x, x \notin HoldingPc,
         at[t] \in HoldingPc, at' = [at EXCEPT ![t] = x]
  PROVE  /\ Cardinality(Holders') = Cardinality(Holders) - 1
         /\ Cardinality(Holders) >= 1
  <1>1. Holders' = Holders \ {t} /\ t \in Holders
    BY DEF Holders, ResetTypeOK
  <1>2. Cardinality(Holders) # 0
    BY <1>1, HoldersFinite, FS_EmptySet
  <1>3. Cardinality(Holders \ {t}) = Cardinality(Holders) - 1
    BY <1>1, HoldersFinite, FS_RemoveElement
  <1> QED BY <1>1, <1>2, <1>3, HoldersFinite

\* A thread that moves without starting or stopping to hold it changes nothing.
LEMMA HoldersKept ==
  ASSUME ResetTypeOK, NEW t \in Callers, NEW x, at' = [at EXCEPT ![t] = x],
         at[t] \in HoldingPc <=> x \in HoldingPc
  PROVE  Cardinality(Holders') = Cardinality(Holders)
  <1>1. Holders' = Holders
    BY DEF Holders, ResetTypeOK
  <1> QED BY <1>1

-----------------------------------------------------------------------------
(* The inductive step, one lemma per group of actions.                     *)

\* Taking the lock and disabling the port preserves the invariant: the first
\* disable sets the reset bit, every disable adds its holder to the count.
LEMMA DisableStep ==
  ASSUME ResetInv, NEW t \in Callers, at[t] = "idle", port_lock = NoCaller,
         port_lock' = t, __fpga_port_disable(t), UNCHANGED <<ret, errorVars>>,
         prOwner' \in Callers \cup {NoCaller}, op' \in [Callers -> Ops],
         value' \in [Callers -> SUBSET Errors]
  PROVE  ResetInv'
  <1> USE DEF ResetInv, __fpga_port_disable, errorVars
  <1>1. PICK x \in {"poll", "disabled"} : at' = [at EXCEPT ![t] = x]
    OBVIOUS
  <1>2. ResetTypeOK'
    BY <1>1 DEF ResetTypeOK, HoldingPc, LockedPc
  <1>3. LockInv'
    BY <1>1, CallersAssumption DEF LockInv, LockedPc, ResetTypeOK, ClearPc
  <1>4. CountAccounted'
    <2>1. Cardinality(Holders') = Cardinality(Holders) + 1
      BY <1>1, HolderAdded DEF HoldingPc, ClearPc
    <2> QED BY <2>1, HoldersFinite DEF CountAccounted, ResetTypeOK
  <1>5. ResetBitTracksCount'
    BY DEF ResetBitTracksCount, ResetTypeOK
  <1>6. ReadInv'
    BY <1>1, CallersAssumption DEF ReadInv, LockInv, LockedPc, ResetTypeOK
  <1>7. ErrorInv'
    <2>1. \A u \in Callers : at[u] \notin ClearPc /\ at'[u] \notin ClearPc
      BY <1>1, CallersAssumption DEF LockInv, LockedPc, ClearPc, ResetTypeOK
    <2> QED BY <2>1 DEF ErrorInv, ClearPc
  <1> QED BY <1>2, <1>3, <1>4, <1>5, <1>6, <1>7

\* Enabling the port preserves the part of the invariant about the reset: the
\* thread gives back its unit of the count, and only the last one clears the
\* reset bit.
LEMMA EnableStep ==
  ASSUME ResetInv, NEW t \in Callers, at[t] \in HoldingPc,
         at' = [at EXCEPT ![t] = "idle"], __fpga_port_enable
  PROVE  /\ disable_count' \in Nat
         /\ leaked' \in Nat
         /\ port_sftrst' \in {0, 1}
         /\ port_sftrst_ack' \in {0, 1}
         /\ CountAccounted'
         /\ ResetBitTracksCount'
         /\ disable_count = 0 => disable_count' = 0
  <1> USE DEF ResetInv, __fpga_port_enable
  <1>1. Cardinality(Holders') = Cardinality(Holders) - 1 /\ Cardinality(Holders) >= 1
    BY HolderRemoved DEF HoldingPc, ClearPc
  <1>2. disable_count >= 1
    BY <1>1, HoldersFinite DEF CountAccounted, ResetTypeOK
  <1>3. CountAccounted' /\ disable_count' \in Nat /\ leaked' \in Nat
    BY <1>1, <1>2, HoldersFinite DEF CountAccounted, ResetTypeOK
  <1>4. ResetBitTracksCount' /\ port_sftrst' \in {0, 1} /\ port_sftrst_ack' \in {0, 1}
    BY <1>2 DEF ResetBitTracksCount, ResetTypeOK
  <1> QED BY <1>2, <1>3, <1>4

\* Every step of the specification preserves the inductive invariant.
LEMMA ResetStep == ResetInv /\ [ResetNext]_resetAll => ResetInv'
  <1> SUFFICES ASSUME ResetInv, [ResetNext]_resetAll PROVE ResetInv'
    OBVIOUS
  <1>1. ASSUME NEW t \in Callers, ResetBegin(t) PROVE ResetInv'
    <2>1. op' \in [Callers -> Ops] /\ value' \in [Callers -> SUBSET Errors]
          /\ prOwner' \in Callers \cup {NoCaller}
      BY <1>1 DEF ResetBegin, ResetInv, ResetTypeOK, Ops
    <2> QED BY <1>1, <2>1, DisableStep DEF ResetBegin
  <1>2. ASSUME NEW t \in Callers, NEW err \in SUBSET Errors, ClearBegin(t, err)
        PROVE ResetInv'
    <2>1. CASE power_state = "AP6"
      <3>1. at' = [at EXCEPT ![t] = "idle"] /\ ret' = [ret EXCEPT ![t] = "EBUSY"]
            /\ at[t] = "idle"
            /\ UNCHANGED <<port_lock, prOwner, op, value, resetVars, errorVars>>
        BY <1>2, <2>1 DEF ClearBegin, Return, errorVars
      <3>2. at' = at
        BY <3>1 DEF ResetInv, ResetTypeOK
      <3>3. Holders' = Holders
        BY <3>2 DEF Holders
      <3> QED
        BY <3>1, <3>2, <3>3 DEF ResetInv, ResetTypeOK, LockInv, CountAccounted, Results,
             ResetBitTracksCount, ReadInv, ErrorInv, resetVars, errorVars
    <2>2. CASE power_state # "AP6"
      <3>1. op' \in [Callers -> Ops] /\ value' \in [Callers -> SUBSET Errors]
            /\ prOwner' \in Callers \cup {NoCaller}
        BY <1>2, <2>2 DEF ClearBegin, ResetInv, ResetTypeOK, Ops
      <3> QED BY <1>2, <2>2, <3>1, DisableStep DEF ClearBegin
    <2> QED BY <2>1, <2>2
  <1>3. ASSUME NEW t \in Callers, PrBegin(t) PROVE ResetInv'
    <2>1. op' \in [Callers -> Ops] /\ value' \in [Callers -> SUBSET Errors]
          /\ prOwner' \in Callers \cup {NoCaller}
      BY <1>3 DEF PrBegin, ResetInv, ResetTypeOK, Ops
    <2> QED BY <1>3, <2>1, DisableStep DEF PrBegin
  <1>4. ASSUME NEW t \in Callers, IdBegin(t) PROVE ResetInv'
    <2> USE <1>4 DEF IdBegin, ResetInv, resetVars, errorVars
    <2>1. ResetTypeOK'
      BY DEF ResetTypeOK, LockedPc
    <2>2. LockInv'
      BY CallersAssumption DEF LockInv, LockedPc, ResetTypeOK
    <2>3. CountAccounted'
      BY HoldersKept DEF CountAccounted, HoldingPc, ClearPc
    <2>4. ResetBitTracksCount' /\ ReadInv'
      BY DEF ResetBitTracksCount, ReadInv, ResetTypeOK
    <2>5. ErrorInv'
      BY DEF ErrorInv, ClearPc, ResetTypeOK
    <2> QED BY <2>1, <2>2, <2>3, <2>4, <2>5
  <1>5. ASSUME NEW t \in Callers, PollAck(t) PROVE ResetInv'
    <2> USE <1>5 DEF PollAck, ResetInv, resetVars, errorVars
    <2>1. ResetTypeOK'
      BY DEF ResetTypeOK, LockedPc
    <2>2. LockInv'
      BY DEF LockInv, LockedPc, ResetTypeOK
    <2>3. CountAccounted'
      BY HoldersKept DEF CountAccounted, HoldingPc
    <2>4. ResetBitTracksCount' /\ ReadInv'
      BY DEF ResetBitTracksCount, ReadInv, ResetTypeOK
    <2>5. ErrorInv'
      BY DEF ErrorInv, ClearPc, ResetTypeOK
    <2> QED BY <2>1, <2>2, <2>3, <2>4, <2>5
  <1>6. ASSUME NEW t \in Callers, PollTimeout(t) PROVE ResetInv'
    <2> USE <1>6 DEF PollTimeout, ResetInv, Return, errorVars
    <2>1. ResetTypeOK'
      BY DEF ResetTypeOK, HoldingPc, Results
    <2>2. LockInv'
      <3>1. PICK x \in {"idle", "loading"} : at' = [at EXCEPT ![t] = x]
        OBVIOUS
      <3> QED BY <3>1, CallersAssumption DEF LockInv, LockedPc, ClearPc, ResetTypeOK
    <2>3. CountAccounted'
      <3>1. CASE op[t] = "pr"
        BY <3>1, HoldersKept DEF CountAccounted, HoldingPc
      <3>2. CASE op[t] # "pr"
        <4>1. Cardinality(Holders') = Cardinality(Holders) - 1
          BY <3>2, HolderRemoved DEF HoldingPc, ClearPc
        <4> QED BY <4>1, <3>2, HoldersFinite DEF CountAccounted, ResetTypeOK
      <3> QED BY <3>1, <3>2
    <2>4. ResetBitTracksCount' /\ ReadInv'
      BY DEF ResetBitTracksCount, ReadInv, ResetTypeOK
    <2>5. ErrorInv'
      BY DEF ErrorInv, ClearPc, ResetTypeOK
    <2> QED BY <2>1, <2>2, <2>3, <2>4, <2>5
  <1>7. ASSUME NEW t \in Callers, ResetEnd(t) PROVE ResetInv'
    <2> USE <1>7 DEF ResetEnd, ResetInv, Return, errorVars
    <2>1. /\ disable_count' \in Nat /\ leaked' \in Nat
          /\ port_sftrst' \in {0, 1} /\ port_sftrst_ack' \in {0, 1}
          /\ CountAccounted' /\ ResetBitTracksCount'
          /\ disable_count = 0 => disable_count' = 0
      BY EnableStep DEF HoldingPc
    <2>2. ResetTypeOK'
      BY <2>1 DEF ResetTypeOK, Results
    <2>3. LockInv' /\ ReadInv'
      BY <2>1, CallersAssumption DEF LockInv, ReadInv, LockedPc, ClearPc, ResetTypeOK
    <2>4. ErrorInv'
      BY DEF ErrorInv, ClearPc, ResetTypeOK
    <2> QED BY <2>1, <2>2, <2>3, <2>4
  <1>8. ASSUME NEW t \in Callers, ClearMask(t) PROVE ResetInv'
    <2> USE <1>8 DEF ClearMask, ResetInv, resetVars
    <2>1. ResetTypeOK'
      BY ErrorsAssumption DEF ResetTypeOK, LockedPc, ClearPc
    <2>2. LockInv' /\ ReadInv'
      BY DEF LockInv, ReadInv, LockedPc, ClearPc, ResetTypeOK
    <2>3. CountAccounted' /\ ResetBitTracksCount'
      BY HoldersKept DEF CountAccounted, HoldingPc, ClearPc, ResetBitTracksCount
    <2>4. ErrorInv'
      BY DEF ErrorInv, LockInv, LockedPc, ClearPc, ResetTypeOK
    <2> QED BY <2>1, <2>2, <2>3, <2>4
  <1>17. ASSUME NEW t \in Callers, ClearCompare(t) PROVE ResetInv'
    <2> USE <1>17 DEF ClearCompare, ResetInv, resetVars, errorVars
    <2>1. ResetTypeOK'
      BY DEF ResetTypeOK, LockedPc, ClearPc, Results
    <2>2. LockInv' /\ ReadInv'
      BY DEF LockInv, ReadInv, LockedPc, ClearPc, ResetTypeOK
    <2>3. CountAccounted' /\ ResetBitTracksCount'
      BY HoldersKept DEF CountAccounted, HoldingPc, ClearPc, ResetBitTracksCount
    <2>4. ErrorInv'
      BY DEF ErrorInv, LockInv, LockedPc, ClearPc, ResetTypeOK
    <2> QED BY <2>1, <2>2, <2>3, <2>4
  <1>9. ASSUME NEW t \in Callers, ClearErrors(t) PROVE ResetInv'
    <2> USE <1>9 DEF ClearErrors, ResetInv, resetVars
    <2>1. ResetTypeOK'
      BY DEF ResetTypeOK, LockedPc, ClearPc, Results
    <2>2. LockInv' /\ ReadInv'
      BY DEF LockInv, ReadInv, LockedPc, ClearPc, ResetTypeOK
    <2>3. CountAccounted' /\ ResetBitTracksCount'
      BY HoldersKept DEF CountAccounted, HoldingPc, ClearPc, ResetBitTracksCount
    <2>4. ErrorInv'
      BY DEF ErrorInv, LockInv, LockedPc, ClearPc, ResetTypeOK
    <2> QED BY <2>1, <2>2, <2>3, <2>4
  <1>18. ASSUME NEW t \in Callers, ClearFirst(t) PROVE ResetInv'
    <2> USE <1>18 DEF ClearFirst, ResetInv, resetVars
    <2>1. ResetTypeOK'
      BY DEF ResetTypeOK, LockedPc, ClearPc, Results
    <2>2. LockInv' /\ ReadInv'
      BY DEF LockInv, ReadInv, LockedPc, ClearPc, ResetTypeOK
    <2>3. CountAccounted' /\ ResetBitTracksCount'
      BY HoldersKept DEF CountAccounted, HoldingPc, ClearPc, ResetBitTracksCount
    <2>4. ErrorInv'
      BY DEF ErrorInv, LockInv, LockedPc, ClearPc, ResetTypeOK
    <2> QED BY <2>1, <2>2, <2>3, <2>4
  <1>10. ASSUME NEW t \in Callers, ClearEnd(t) PROVE ResetInv'
    <2> USE <1>10 DEF ClearEnd, ResetInv
    <2>1. /\ disable_count' \in Nat /\ leaked' \in Nat
          /\ port_sftrst' \in {0, 1} /\ port_sftrst_ack' \in {0, 1}
          /\ CountAccounted' /\ ResetBitTracksCount'
          /\ disable_count = 0 => disable_count' = 0
      BY EnableStep DEF HoldingPc, ClearPc
    <2>2. ResetTypeOK'
      BY <2>1 DEF ResetTypeOK
    <2>3. LockInv' /\ ReadInv'
      BY <2>1, CallersAssumption DEF LockInv, ReadInv, LockedPc, ClearPc, ResetTypeOK
    <2>4. \A u \in Callers : at'[u] \notin ClearPc
      BY CallersAssumption DEF LockInv, LockedPc, ClearPc, ResetTypeOK
    <2>5. ErrorInv'
      BY <2>4 DEF ErrorInv, LockInv, LockedPc, ClearPc, ResetTypeOK
    <2> QED BY <2>1, <2>2, <2>3, <2>5
  <1>11. ASSUME NEW t \in Callers, PrUnlock(t) PROVE ResetInv'
    <2> USE <1>11 DEF PrUnlock, ResetInv, resetVars, errorVars
    <2>1. ResetTypeOK'
      BY DEF ResetTypeOK, HoldingPc
    <2>2. LockInv' /\ ReadInv'
      BY CallersAssumption DEF LockInv, ReadInv, LockedPc, ClearPc, ResetTypeOK
    <2>3. CountAccounted' /\ ResetBitTracksCount'
      BY HoldersKept DEF CountAccounted, HoldingPc, ResetBitTracksCount
    <2>4. ErrorInv'
      BY DEF ErrorInv, ClearPc, ResetTypeOK
    <2> QED BY <2>1, <2>2, <2>3, <2>4
  <1>12. ASSUME NEW t \in Callers, PrLoaded(t) PROVE ResetInv'
    <2> USE <1>12 DEF PrLoaded, ResetInv, resetVars, errorVars
    <2>1. ResetTypeOK'
      BY DEF ResetTypeOK, HoldingPc
    <2>2. LockInv' /\ ReadInv'
      BY DEF LockInv, ReadInv, LockedPc, ClearPc, ResetTypeOK
    <2>3. CountAccounted' /\ ResetBitTracksCount'
      BY HoldersKept DEF CountAccounted, HoldingPc, ResetBitTracksCount
    <2>4. ErrorInv'
      BY DEF ErrorInv, ClearPc, ResetTypeOK
    <2> QED BY <2>1, <2>2, <2>3, <2>4
  <1>13. ASSUME NEW t \in Callers, PrEnd(t) PROVE ResetInv'
    <2> USE <1>13 DEF PrEnd, ResetInv, errorVars
    <2>1. /\ disable_count' \in Nat /\ leaked' \in Nat
          /\ port_sftrst' \in {0, 1} /\ port_sftrst_ack' \in {0, 1}
          /\ CountAccounted' /\ ResetBitTracksCount'
          /\ disable_count = 0 => disable_count' = 0
      BY EnableStep DEF HoldingPc
    <2>2. ResetTypeOK'
      BY <2>1 DEF ResetTypeOK
    <2>3. LockInv' /\ ReadInv'
      BY <2>1, CallersAssumption DEF LockInv, ReadInv, LockedPc, ClearPc, ResetTypeOK
    <2>4. ErrorInv'
      BY DEF ErrorInv, ClearPc, ResetTypeOK
    <2> QED BY <2>1, <2>2, <2>3, <2>4
  <1>14. ASSUME NEW t \in Callers, IdEnd(t) PROVE ResetInv'
    <2> USE <1>14 DEF IdEnd, ResetInv, resetVars, errorVars
    <2>1. ResetTypeOK'
      BY DEF ResetTypeOK
    <2>2. LockInv' /\ ReadInv'
      BY CallersAssumption DEF LockInv, ReadInv, LockedPc, ClearPc, ResetTypeOK
    <2>3. CountAccounted' /\ ResetBitTracksCount'
      BY HoldersKept DEF CountAccounted, HoldingPc, ClearPc, ResetBitTracksCount
    <2>4. ErrorInv'
      BY DEF ErrorInv, ClearPc, ResetTypeOK
    <2> QED BY <2>1, <2>2, <2>3, <2>4
  <1>15. ASSUME Hardware PROVE ResetInv'
    <2> USE DEF ResetInv, resetVars, errorVars
    <2>1. Holders' = Holders
      BY <1>15 DEF Hardware, HwAck, HwPower, HwError, Holders
    <2>2. CASE HwAck \/ HwPower
      BY <2>1, <2>2 DEF HwAck, HwPower, ResetTypeOK, LockInv, CountAccounted,
           ResetBitTracksCount, ReadInv, ErrorInv
    <2>3. ASSUME NEW e \in Errors, HwError(e) PROVE ResetInv'
      <3>1. ResetTypeOK' /\ LockInv' /\ CountAccounted' /\ ResetBitTracksCount' /\ ReadInv'
        BY <2>1, <2>3 DEF HwError, ResetTypeOK, LockInv, CountAccounted,
             ResetBitTracksCount, ReadInv
      <3>2. \A u \in Callers : at[u] \in ClearPc => e \notin PORT_ERR_MASK
        BY <2>3 DEF HwError, ErrorInv
      <3>3. ErrorInv'
        BY <2>3, <3>2 DEF HwError, ErrorInv, ClearPc
      <3> QED BY <3>1, <3>3
    <2> QED BY <1>15, <2>2, <2>3 DEF Hardware
  <1>16. CASE UNCHANGED resetAll
    <2>1. Holders' = Holders
      BY <1>16 DEF resetAll, Holders
    <2> QED
      BY <1>16, <2>1 DEF resetAll, resetVars, errorVars, ResetInv, ResetTypeOK, LockInv,
           CountAccounted, ResetBitTracksCount, ReadInv, ErrorInv
  <1> QED
    BY <1>1, <1>2, <1>3, <1>4, <1>5, <1>6, <1>7, <1>8, <1>9, <1>10, <1>11, <1>12,
       <1>13, <1>14, <1>15, <1>16, <1>17, <1>18 DEF ResetNext, ThreadBegins, ThreadRuns

-----------------------------------------------------------------------------
\* The invariant holds initially: nobody holds the port in reset.
LEMMA ResetStart == ResetInit => ResetInv
  <1> SUFFICES ASSUME ResetInit PROVE ResetInv
    OBVIOUS
  <1>1. Holders = {}
    BY DEF ResetInit, Holders, HoldingPc, ClearPc
  <1> QED
    BY <1>1, FS_EmptySet, CallersAssumption
    DEF ResetInit, ResetInv, ResetTypeOK, Ops, Results, LockInv, LockedPc, ClearPc,
        CountAccounted, ResetBitTracksCount, ReadInv, ErrorInv

\* The inductive invariant holds in every reachable state.
THEOREM ResetInvariance == ResetSpec => []ResetInv
  BY ResetStart, ResetStep, PTL DEF ResetSpec

\* The variables keep their types: in particular the unsigned disable count of
\* the port is never decremented below zero.
THEOREM ResetTypeCorrect == ResetSpec => []ResetTypeOK
  <1>1. ResetInv => ResetTypeOK
    BY DEF ResetInv
  <1> QED BY ResetInvariance, <1>1, PTL

\* The disable count accounts for every operation that holds the port in reset
\* and for every disable that timed out, for any number of nested operations.
THEOREM CountIsAccounted == ResetSpec => []CountAccounted
  <1>1. ResetInv => CountAccounted
    BY DEF ResetInv
  <1> QED BY ResetInvariance, <1>1, PTL

\* A bitstream is only ever loaded into a port that is held in reset, and the
\* AFU's own registers are only read while it is out of reset.
THEOREM ResetExcludesMmio == ResetSpec => []ResetRespected
  <1>1. ASSUME ResetInv PROVE ResetRespected
    <2>1. ASSUME NEW t \in Callers, at[t] = "loading" PROVE port_sftrst = 1
      <3>1. t \in Holders
        BY <2>1 DEF Holders, HoldingPc
      <3>2. Cardinality(Holders) # 0
        BY <1>1, <3>1, HoldersFinite, FS_EmptySet DEF ResetInv
      <3>3. disable_count > 0
        BY <1>1, <3>2, HoldersFinite DEF ResetInv, CountAccounted, ResetTypeOK
      <3> QED BY <1>1, <3>3 DEF ResetInv, ResetBitTracksCount
    <2>2. ASSUME NEW t \in Callers, at[t] = "reading" PROVE port_sftrst = 0
      BY <1>1, <2>2 DEF ResetInv, ReadInv, ResetBitTracksCount, ResetTypeOK
    <2> QED BY <2>1, <2>2 DEF ResetRespected
  <1> QED BY ResetInvariance, <1>1, PTL

\* No error that can be masked and has its bit in the first error register is
\* forgotten by a clear that runs while it arrives, and no clear leaves errors
\* masked or a first error that the error register does not have.
THEOREM ErrorsRecorded == ResetSpec => []FirstErrorRecorded
  <1>1. ASSUME ResetInv PROVE FirstErrorRecorded
    BY <1>1 DEF ResetInv, ErrorInv, FirstErrorRecorded, ClearPc
  <1> QED BY ResetInvariance, <1>1, PTL

\* An error that user space has not seen is never cleared: whichever tasks clear
\* errors at the same time, the register loses its bits only to a task that wrote
\* all it held when they were compared, and keeps what has come since.
THEOREM ClearsAcknowledged == ResetSpec => ClearOnlyAcknowledged
  <1> DEFINE Acknowledged ==
        port_error \subseteq port_error'
          \/ \E t \in Callers :
               /\ at[t] = "matched"
               /\ value[t] \subseteq port_error /\ port_error \cap PORT_ERR_MASK \subseteq value[t]
               /\ port_error' = port_error \ value[t]
  <1>1. ASSUME ResetInv, [ResetNext]_resetAll PROVE [Acknowledged]_resetAll
    <2>1. ASSUME NEW t \in Callers, ClearErrors(t) PROVE Acknowledged
      BY <1>1, <2>1 DEF ClearErrors, ResetInv, ErrorInv
    <2>2. ASSUME NEW t \in Callers, ThreadBegins(t) PROVE Acknowledged
      BY <2>2 DEF ThreadBegins, ResetBegin, ClearBegin, PrBegin, IdBegin, errorVars
    <2>3. ASSUME NEW t \in Callers, ThreadRuns(t) \/ PrEnd(t) PROVE Acknowledged
      BY <2>1, <2>3 DEF ThreadRuns, PollAck, PollTimeout, ResetEnd, ClearMask,
           ClearCompare, ClearFirst, ClearEnd, PrUnlock, PrLoaded, IdEnd, PrEnd, errorVars
    <2>4. ASSUME Hardware PROVE Acknowledged
      BY <2>4 DEF Hardware, HwAck, HwPower, HwError, errorVars
    <2> QED BY <1>1, <2>2, <2>3, <2>4 DEF ResetNext
  <1> QED BY <1>1, ResetInvariance, PTL DEF ResetSpec, ClearOnlyAcknowledged

(***************************************************************************)
(*                    Management of the ports                              *)
(***************************************************************************)

-----------------------------------------------------------------------------
(* The inductive invariant.                                                *)

\* drvdata->lock is held by the one task inside detach_port_dev or
\* attach_port_dev, or by the administrator; a working task keeps the FME
\* open, so the driver stays bound under it.
TaskInv ==
  /\ Bound \/ fme_open = 0
  /\ \A t \in Threads :
       /\ pc[t] \in {"detach", "attach"} <=> lock = t
       /\ pc[t] # "idle" => fme_open = 1 /\ arg[t] \in Ports
       /\ pc[t] \in {"detach", "attach"} => arg[t] \in registered
       /\ \A u \in Threads : pc[t] = "pr" /\ pc[u] = "pr" => t = u
  /\ admin = "sriov" <=> lock = Admin

\* Only the last step of unbinding touches the list, after every port device
\* was unregistered.
ListInv ==
  /\ port_dev_list = IF admin = "gone" THEN {} ELSE Ports
  /\ admin \in {"childless", "orphaned", "gone"} => registered = {}

Attaching == \E t \in Threads : pc[t] = "attach"

\* The virtual functions own released ports, as many as are enabled or about
\* to be; attach_port_dev decrements the counter only after it has added the
\* device again.
VfInv ==
  /\ vf \subseteq Released
  /\ ~Bound => vf = {}
  /\ IF admin = "sriov" THEN num_vfs = 0 /\ want = Cardinality(vf)
                        ELSE num_vfs = Cardinality(vf)
  /\ Bound => released_port_num = Cardinality(Released) + One(Attaching)

OpenInv == \A p \in Ports : fds[p] <= open_count[p]

IndInv ==
  /\ TypeOK
  /\ TaskInv
  /\ ListInv
  /\ VfInv
  /\ OpenInv
  /\ UseCounted
  /\ RefsBalanced

-----------------------------------------------------------------------------
(* Counting ports.                                                         *)

\* Every set of ports is finite.
LEMMA PortSetFinite ==
  ASSUME NEW S \in SUBSET Ports
  PROVE  IsFiniteSet(S) /\ Cardinality(S) \in Nat
  BY PortsAssumption, FS_Subset, FS_CardinalityType

\* One more port is one more.
LEMMA PortAdded ==
  ASSUME NEW S \in SUBSET Ports, NEW p \in Ports, p \notin S
  PROVE  Cardinality(S \cup {p}) = Cardinality(S) + 1
  BY PortSetFinite, FS_AddElement

\* One port less is one less, and there was one.
LEMMA PortRemoved ==
  ASSUME NEW S \in SUBSET Ports, NEW p \in S
  PROVE  Cardinality(S \ {p}) = Cardinality(S) - 1 /\ Cardinality(S) >= 1
  <1>1. Cardinality(S \ {p}) = Cardinality(S) - 1
    BY PortSetFinite, FS_RemoveElement
  <1>2. Cardinality(S \ {p}) \in Nat
    BY PortSetFinite
  <1> QED BY <1>1, <1>2, PortSetFinite

\* cci_pci_sriov_configure finds as many released ports as it wants: the
\* counter it has compared with is the number of released ports.
LEMMA EnoughReleased ==
  ASSUME NEW R \in SUBSET Ports, NEW n \in Nat, Cardinality(R) >= n,
         NEW S \in SUBSET R, Cardinality(S) = n \/ (Cardinality(S) < n /\ S = R)
  PROVE  Cardinality(S) = n
  BY PortSetFinite

-----------------------------------------------------------------------------
(* The inductive step, one lemma per group of actions.                     *)

\* Opening and closing a port's file.
LEMMA FileStep ==
  ASSUME IndInv, NEW p \in Ports, afu_open(p) \/ afu_release(p)
  PROVE  IndInv'
  <1> USE DEF IndInv, portVars, vfVars
  <1>1. UNCHANGED <<lock, pc, arg, admin, fme_open, registered, port_dev_list,
                    released_port_num, refs, vf, num_vfs, want>>
    BY DEF afu_open, afu_release
  <1>2. \A q \in Ports : Claimed(q)' = Claimed(q)
    BY <1>1 DEF Claimed, Works, Released
  <1>3. Bound' = Bound /\ Released' = Released /\ Attaching' = Attaching
    BY <1>1 DEF Bound, Released, Attaching
  <1>4. TaskInv' /\ ListInv' /\ VfInv' /\ RefsBalanced'
    BY <1>1 DEF TaskInv, ListInv, VfInv, RefsBalanced, Works, Bound, Released,
                Attaching, One
  <1>5. CASE afu_open(p)
    <2> USE <1>5 DEF afu_open
    <2>1. fds' = [fds EXCEPT ![p] = @ + 1] /\ open_count' = [open_count EXCEPT ![p] = @ + 1]
      BY DEF feature_dev_use_excl_begin, feature_dev_use_begin
    <2>2. excl_open' = excl_open \/ excl_open' = [excl_open EXCEPT ![p] = 1]
      BY DEF feature_dev_use_excl_begin, feature_dev_use_begin
    <2>3. TypeOK'
      BY <1>1, <2>1, <2>2 DEF TypeOK
    <2>4. OpenInv'
      BY <2>1 DEF OpenInv, TypeOK
    <2>5. UseCounted'
      <3>1. ASSUME NEW q \in Ports, q # p
            PROVE  fds'[q] = fds[q] /\ open_count'[q] = open_count[q] /\ excl_open'[q] = excl_open[q]
        BY <2>1, <2>2, <3>1 DEF TypeOK
      <3>2. fds'[p] = fds[p] + 1 /\ open_count'[p] = open_count[p] + 1
        BY <2>1 DEF TypeOK
      <3>3. Bound => ~Claimed(p)
        <4>1. CASE feature_dev_use_excl_begin(p)
          BY <4>1 DEF feature_dev_use_excl_begin, UseCounted, TypeOK, One
        <4>2. CASE feature_dev_use_begin(p)
          BY <4>2 DEF feature_dev_use_begin, UseCounted, TypeOK, One
        <4> QED BY <4>1, <4>2
      <3>4. excl_open'[p] = 1 => open_count'[p] = 1
        <4>1. CASE feature_dev_use_excl_begin(p)
          BY <4>1, <3>2 DEF feature_dev_use_excl_begin, UseCounted, TypeOK
        <4>2. CASE feature_dev_use_begin(p)
          BY <4>2, <3>2 DEF feature_dev_use_begin, UseCounted, TypeOK
        <4> QED BY <4>1, <4>2
      <3> QED BY <1>2, <1>3, <3>1, <3>2, <3>3, <3>4 DEF UseCounted, TypeOK, One
    <2> QED BY <1>4, <2>3, <2>4, <2>5
  <1>6. CASE afu_release(p)
    <2> USE <1>6 DEF afu_release, __feature_dev_use_end
    <2>1. open_count[p] >= 1
      BY DEF OpenInv, TypeOK
    <2>2. TypeOK' /\ OpenInv'
      BY <1>1, <2>1 DEF TypeOK, OpenInv
    <2>3. UseCounted'
      BY <1>2, <1>3, <2>1 DEF UseCounted, TypeOK, One
    <2> QED BY <1>4, <2>2, <2>3
  <1> QED BY <1>5, <1>6

\* Opening and closing the FME's file.
LEMMA FmeFileStep ==
  ASSUME IndInv, fme_opened \/ fme_released
  PROVE  IndInv'
  <1> USE DEF IndInv, useVars, portVars, vfVars
  <1>1. UNCHANGED <<lock, pc, arg, admin, open_count, excl_open, fds, registered,
                    port_dev_list, released_port_num, refs, vf, num_vfs, want>>
    BY DEF fme_opened, fme_released
  <1>2. TypeOK'
    BY <1>1 DEF TypeOK, fme_opened, fme_released
  <1>3. TaskInv'
    BY <1>1 DEF TaskInv, fme_opened, fme_released, Bound, TypeOK
  <1>4. ListInv' /\ VfInv' /\ OpenInv'
    BY <1>1 DEF ListInv, VfInv, OpenInv, Bound, Released, Attaching, One
  <1>5. UseCounted'
    BY <1>1 DEF UseCounted, Bound, Claimed, Works, Released, One
  <1>6. RefsBalanced'
    BY <1>1 DEF RefsBalanced, Works, One
  <1> QED BY <1>2, <1>3, <1>4, <1>5, <1>6

\* While a task is inside an ioctl the FME is open and the driver bound.
LEMMA WorkingBound ==
  ASSUME IndInv, NEW t \in Threads, pc[t] # "idle" \/ fme_open = 1
  PROVE  Bound /\ fme_open = 1 /\ port_dev_list = Ports
  BY DEF IndInv, TaskInv, ListInv, Bound, AdminPc

\* A port that port release has claimed has no open files.
LEMMA ClaimedUnused ==
  ASSUME IndInv, Bound, NEW p \in Ports, Claimed(p)
  PROVE  open_count[p] = 1 /\ fds[p] = 0 /\ excl_open[p] = 1
  <1>1. UseCounted /\ fds[p] \in Nat
    BY DEF IndInv, TypeOK
  <1> QED BY <1>1 DEF UseCounted, One

\* detach_port_dev: only an unused port is claimed.
LEMMA DetachStep ==
  ASSUME IndInv, NEW t \in Threads, NEW p \in Ports, detach_port_dev(t, p)
  PROVE  IndInv'
  <1> USE DEF IndInv, portVars, vfVars, detach_port_dev, Enter, feature_dev_use_excl_begin
  <1>1. Bound /\ admin # "sriov" /\ port_dev_list = Ports
    BY WorkingBound, ThreadsAssumption DEF TaskInv
  <1>2. TypeOK'
    BY DEF TypeOK, ThreadPc
  <1>3. TaskInv'
    BY ThreadsAssumption DEF TaskInv, TypeOK, Bound
  <1>4. Released' = Released /\ Bound' = Bound /\ (Attaching' <=> Attaching)
    BY ThreadsAssumption DEF Released, Bound, Attaching, TaskInv, TypeOK
  <1>5. ListInv' /\ VfInv'
    BY <1>4 DEF ListInv, VfInv, One
  <1>6. OpenInv'
    BY DEF OpenInv, TypeOK
  <1>7. UseCounted'
    <2>1. ~Claimed(p) /\ fds[p] = 0
      BY <1>1 DEF UseCounted, TypeOK, One
    <2>2. Claimed(p)'
      BY DEF Claimed, Works, TypeOK
    <2>3. ASSUME NEW q \in Ports, q # p PROVE Claimed(q)' <=> Claimed(q)
      BY <1>4, <2>3 DEF Claimed, Works, TypeOK
    <2> QED BY <1>1, <1>4, <2>1, <2>2, <2>3 DEF UseCounted, TypeOK, One
  <1>8. RefsBalanced'
    <2>1. ASSUME NEW q \in Ports, NEW s \in {"attach", "pr"}
          PROVE  Works(s, q)' <=> Works(s, q)
      BY DEF Works, TypeOK
    <2> QED BY <2>1 DEF RefsBalanced, One
  <1> QED BY <1>2, <1>3, <1>5, <1>6, <1>7, <1>8

\* The device is deleted: the port joins the released ones.
LEMMA DetachDelStep ==
  ASSUME IndInv, NEW t \in Threads, detach_port_dev_del(t)
  PROVE  IndInv'
  <1> USE DEF IndInv, useVars, vfVars, detach_port_dev_del, Leave, put_device
  <1>0. PICK p \in Ports : p = arg[t]
    BY DEF TaskInv
  <1>1. /\ Bound /\ admin # "sriov" /\ port_dev_list = Ports
        /\ p \in registered /\ lock = t
        /\ \A u \in Threads : u # t => pc[u] \in {"idle", "pr"}
    BY <1>0, WorkingBound, ThreadsAssumption DEF TaskInv, TypeOK, ThreadPc
  <1>2. refs[p] >= 1 /\ refs'[p] = refs[p] - 1
    BY <1>0, <1>1 DEF RefsBalanced, TypeOK, One
  <1>3. TypeOK'
    BY <1>0, <1>1, <1>2 DEF TypeOK, ThreadPc
  <1>4. TaskInv'
    BY <1>0, <1>1, ThreadsAssumption DEF TaskInv, TypeOK, Bound
  <1>5. Released' = Released \cup {p} /\ p \notin Released /\ Bound' /\ ~Attaching'
        /\ ~Attaching
    BY <1>0, <1>1 DEF Released, Bound, Attaching, TypeOK
  <1>6. VfInv'
    <2>1. Cardinality(Released') = Cardinality(Released) + 1
      BY <1>1, <1>5, PortAdded DEF Released, TypeOK
    <2>2. Cardinality(Released) \in Nat
      BY <1>1, PortSetFinite DEF Released
    <2> QED BY <1>1, <1>5, <2>1, <2>2 DEF VfInv, One
  <1>7. ListInv' /\ OpenInv'
    BY <1>1 DEF ListInv, OpenInv, Bound
  <1>8. UseCounted'
    <2>1. Claimed(p) /\ Claimed(p)'
      BY <1>0, <1>1, <1>5 DEF Claimed, Works
    <2>2. ASSUME NEW q \in Ports, q # p PROVE Claimed(q)' <=> Claimed(q)
      BY <1>0, <1>1, <1>5, <2>2 DEF Claimed, Works, TypeOK
    <2> QED BY <1>1, <1>5, <2>1, <2>2 DEF UseCounted, One
  <1>9. RefsBalanced'
    <2>1. ASSUME NEW q \in Ports, NEW s \in {"attach", "pr"}
          PROVE  Works(s, q)' <=> Works(s, q)
      BY <1>1 DEF Works, TypeOK
    <2>2. ASSUME NEW q \in Ports, q # p
          PROVE  refs'[q] = refs[q] /\ (q \in registered' <=> q \in registered)
      BY <1>0, <1>1, <2>2 DEF TypeOK
    <2>3. p \notin registered'
      BY <1>0
    <2>4. /\ refs[p] \in Nat /\ refs'[p] = refs[p] - 1 /\ p \in registered
          /\ port_dev_list' = port_dev_list
      BY <1>1, <1>2 DEF TypeOK
    <2> HIDE DEF IndInv, detach_port_dev_del
    <2>5. RefsBalanced
      BY DEF IndInv
    <2> QED BY <1>1, <2>1, <2>2, <2>3, <2>4, <2>5 DEF RefsBalanced, One
  <1> QED BY <1>3, <1>4, <1>6, <1>7, <1>8, <1>9

\* attach_port_dev adds the device of a released port; the claim and the
\* counter still stand.
LEMMA AttachStep ==
  ASSUME IndInv, NEW t \in Threads, NEW p \in Ports, attach_port_dev(t, p)
  PROVE  IndInv'
  <1> USE DEF IndInv, useVars, vfVars, attach_port_dev, Enter, may_attach
  <1>1. /\ Bound /\ admin # "sriov" /\ port_dev_list = Ports /\ p \in Released
        /\ \A u \in Threads : pc[u] \in {"idle", "pr"}
    BY WorkingBound, ThreadsAssumption DEF TaskInv, TypeOK, ThreadPc, Released
  <1>2. TypeOK'
    BY DEF TypeOK, ThreadPc
  <1>3. TaskInv'
    BY ThreadsAssumption DEF TaskInv, TypeOK, Bound
  <1>4. Released' = Released \ {p} /\ Bound' /\ Attaching' /\ ~Attaching
    BY <1>1 DEF Released, Bound, Attaching, TypeOK
  <1>5. VfInv'
    <2>1. Cardinality(Released') = Cardinality(Released) - 1
      BY <1>1, <1>4, PortRemoved DEF Released
    <2>2. Cardinality(Released) \in Nat
      BY <1>1, PortSetFinite DEF Released
    <2> QED BY <1>1, <1>4, <2>1, <2>2 DEF VfInv, One
  <1>6. ListInv' /\ OpenInv'
    BY <1>1 DEF ListInv, OpenInv, Bound
  <1>7. UseCounted'
    <2>1. Claimed(p) /\ Claimed(p)'
      BY <1>1 DEF Claimed, Works, TypeOK
    <2>2. ASSUME NEW q \in Ports, q # p PROVE Claimed(q)' <=> Claimed(q)
      BY <1>1, <1>4, <2>2 DEF Claimed, Works, TypeOK
    <2> QED BY <1>1, <1>4, <2>1, <2>2 DEF UseCounted, One
  <1>8. RefsBalanced'
    <2>1. ASSUME NEW q \in Ports PROVE Works("pr", q)' <=> Works("pr", q)
      BY <1>1 DEF Works, TypeOK
    <2>2. ASSUME NEW q \in Ports
          PROVE  /\ ~Works("attach", q)
                 /\ Works("attach", q)' <=> q = p
                 /\ q \in registered' <=> q \in registered \cup {p}
      BY <1>1 DEF Works, TypeOK
    <2>3. RefsBalanced /\ refs \in [Ports -> Nat] /\ UNCHANGED <<refs, port_dev_list>>
          /\ p \notin registered
      BY DEF TypeOK
    <2> HIDE DEF IndInv, attach_port_dev
    <2> QED BY <2>1, <2>2, <2>3 DEF RefsBalanced, One
  <1> QED BY <1>2, <1>3, <1>5, <1>6, <1>7, <1>8

\* The claim is given up and the counter decremented.
LEMMA AttachEndStep ==
  ASSUME IndInv, NEW t \in Threads, attach_port_dev_end(t)
  PROVE  IndInv'
  <1> USE DEF IndInv, vfVars, attach_port_dev_end, Leave, get_device, __feature_dev_use_end
  <1>0. PICK p \in Ports : p = arg[t]
    BY DEF TaskInv
  <1>1. /\ Bound /\ admin # "sriov" /\ port_dev_list = Ports
        /\ p \in registered /\ lock = t
        /\ \A u \in Threads : u # t => pc[u] \in {"idle", "pr"}
    BY <1>0, WorkingBound, ThreadsAssumption DEF TaskInv, TypeOK, ThreadPc
  <1>2. Claimed(p) /\ open_count[p] = 1 /\ fds[p] = 0 /\ excl_open[p] = 1
    <2>1. Claimed(p)
      BY <1>0 DEF Claimed, Works
    <2> QED BY <1>1, <2>1, ClaimedUnused
  <1>3. Released' = Released /\ Bound' /\ ~Attaching' /\ Attaching
    BY <1>1 DEF Released, Bound, Attaching, TypeOK
  <1>4. released_port_num = Cardinality(Released) + 1 /\ Cardinality(Released) \in Nat
    BY <1>1, <1>3, PortSetFinite DEF VfInv, Released, One
  <1>5. TypeOK'
    BY <1>0, <1>2, <1>4 DEF TypeOK, ThreadPc
  <1>6. TaskInv'
    BY <1>0, <1>1, ThreadsAssumption DEF TaskInv, TypeOK, Bound
  <1>7. VfInv'
    BY <1>1, <1>3, <1>4 DEF VfInv, One
  <1>8. ListInv' /\ OpenInv'
    BY <1>0, <1>1, <1>2 DEF ListInv, OpenInv, Bound, TypeOK
  <1>9. UseCounted'
    <2>1. ~Claimed(p)'
      BY <1>0, <1>1, <1>3 DEF Claimed, Works, TypeOK, Released
    <2>2. ASSUME NEW q \in Ports, q # p PROVE Claimed(q)' <=> Claimed(q)
      BY <1>0, <1>1, <1>3, <2>2 DEF Claimed, Works, TypeOK
    <2>3. ASSUME NEW q \in Ports
          PROVE  /\ open_count'[q] = IF q = p THEN 0 ELSE open_count[q]
                 /\ excl_open'[q] = IF q = p THEN 0 ELSE excl_open[q]
                 /\ fds'[q] = fds[q]
      BY <1>0, <1>2 DEF TypeOK
    <2> HIDE DEF attach_port_dev_end
    <2> QED BY <1>1, <1>2, <1>3, <2>1, <2>2, <2>3 DEF UseCounted, One
  <1>10. RefsBalanced'
    <2>1. ASSUME NEW q \in Ports PROVE Works("pr", q)' <=> Works("pr", q)
      BY <1>1 DEF Works, TypeOK
    <2>2. ASSUME NEW q \in Ports
          PROVE  /\ Works("attach", q) <=> q = p
                 /\ ~Works("attach", q)'
                 /\ refs'[q] = IF q = p THEN refs[q] + 1 ELSE refs[q]
      BY <1>0, <1>1 DEF Works, TypeOK
    <2>3. RefsBalanced /\ refs \in [Ports -> Nat] /\ UNCHANGED <<registered, port_dev_list>>
      BY DEF TypeOK
    <2> HIDE DEF IndInv, attach_port_dev_end
    <2> QED BY <2>1, <2>2, <2>3 DEF RefsBalanced, One
  <1> QED BY <1>5, <1>6, <1>7, <1>8, <1>9, <1>10

\* A reconfiguration takes its reference and gives it back; nobody else can
\* be reconfiguring a port.
LEMMA ReconfigureStep ==
  ASSUME IndInv, NEW t \in Threads,
         fme_pr_put(t) \/ \E p \in Ports : fpga_for_each_port(t, p)
  PROVE  IndInv'
  <1> USE DEF IndInv, useVars, vfVars, get_device, put_device, Enter, Leave
  <1>1. PICK p \in Ports : fpga_for_each_port(t, p) \/ (fme_pr_put(t) /\ p = arg[t])
    BY DEF TaskInv, fme_pr_put
  <1>2. /\ UNCHANGED <<lock, admin, fme_open, open_count, excl_open, fds, registered,
                       port_dev_list, released_port_num, vf, num_vfs, want>>
        /\ pc[t] \in {"idle", "pr"} /\ pc'[t] \in {"idle", "pr"}
        /\ \A u \in Threads : u # t => pc'[u] = pc[u] /\ arg'[u] = arg[u]
        /\ \A u \in Threads : u # t => pc[u] # "pr"
        /\ refs[p] + One(pc[t] = "idle") >= 1
    BY <1>1 DEF fme_pr_put, fpga_for_each_port, TypeOK, TaskInv, RefsBalanced, One, Works
  <1>3. TypeOK'
    BY <1>1, <1>2 DEF TypeOK, ThreadPc, fme_pr_put, fpga_for_each_port, One
  <1>4. TaskInv'
    BY <1>1, <1>2, ThreadsAssumption DEF TaskInv, TypeOK, Bound, fme_pr_put, fpga_for_each_port
  <1>5. /\ Bound' = Bound /\ Released' = Released /\ (Attaching' <=> Attaching)
        /\ \A q \in Ports : /\ Works("attach", q)' <=> Works("attach", q)
                            /\ Works("detach", q)' <=> Works("detach", q)
    BY <1>2 DEF Bound, Released, Attaching, Works
  <1>6. ListInv' /\ VfInv' /\ OpenInv'
    BY <1>2, <1>5 DEF ListInv, VfInv, OpenInv, One
  <1>7. UseCounted'
    BY <1>2, <1>5 DEF UseCounted, Claimed, One
  <1>8. RefsBalanced'
    <2>1. RefsBalanced /\ refs \in [Ports -> Nat]
      BY DEF TypeOK
    <2>2. CASE fpga_for_each_port(t, p)
      <3>1. ASSUME NEW q \in Ports
            PROVE  /\ ~Works("pr", q)
                   /\ Works("pr", q)' <=> q = p
                   /\ refs'[q] = IF q = p THEN refs[q] + 1 ELSE refs[q]
        BY <1>2, <2>2 DEF Works, TypeOK, fpga_for_each_port
      <3> HIDE DEF IndInv
      <3> QED BY <1>2, <1>5, <2>1, <3>1 DEF RefsBalanced, One
    <2>3. CASE fme_pr_put(t) /\ p = arg[t]
      <3>1. ASSUME NEW q \in Ports
            PROVE  /\ Works("pr", q) <=> q = p
                   /\ ~Works("pr", q)'
                   /\ refs'[q] = IF q = p THEN refs[q] - 1 ELSE refs[q]
        BY <1>2, <2>3 DEF Works, TypeOK, fme_pr_put
      <3> HIDE DEF IndInv
      <3> QED BY <1>2, <1>5, <2>1, <3>1 DEF RefsBalanced, One
    <2> QED BY <1>1, <2>2, <2>3
  <1> QED BY <1>3, <1>4, <1>6, <1>7, <1>8

\* SR-IOV takes as many released ports as it enables virtual functions, and
\* gives them back when it is disabled or could not be enabled.
LEMMA SriovStep ==
  ASSUME IndInv,
         \/ \E n \in 1..Cardinality(Ports) : cci_pci_sriov_configure(n)
         \/ sriov_enabled \/ sriov_failed \/ sriov_off
  PROVE  IndInv'
  <1> USE DEF IndInv, useVars, portVars, vfVars
  <1>1. UNCHANGED <<pc, arg, fme_open, open_count, excl_open, fds, registered,
                    port_dev_list, released_port_num, refs>>
    BY DEF cci_pci_sriov_configure, sriov_enabled, sriov_failed, sriov_off, sriov_disable
  <1>2. Bound /\ Bound' /\ port_dev_list = Ports
    BY DEF cci_pci_sriov_configure, sriov_enabled, sriov_failed, sriov_off, sriov_disable,
           Bound, ListInv
  <1>3. Released' = Released /\ (Attaching' <=> Attaching) /\ Released \in SUBSET Ports
    BY <1>1, <1>2 DEF Released, Attaching
  <1>4. ListInv' /\ OpenInv' /\ UseCounted' /\ RefsBalanced'
    BY <1>1, <1>2 DEF ListInv, OpenInv, UseCounted, RefsBalanced, Bound, Claimed, Works,
                      Released, One
  <1>5. ASSUME NEW n \in 1..Cardinality(Ports), cci_pci_sriov_configure(n)
        PROVE  TypeOK' /\ TaskInv' /\ VfInv'
    <2> USE <1>5 DEF cci_pci_sriov_configure
    <2>1. vf = {} /\ n \in Nat /\ ~Attaching
      <3>1. Cardinality(vf) = 0
        BY DEF VfInv
      <3>2. vf = {}
        BY <3>1, PortSetFinite, FS_EmptySet DEF TypeOK
      <3>3. Cardinality(Ports) \in Nat
        BY PortSetFinite
      <3> QED BY <3>2, <3>3, ThreadsAssumption DEF Attaching, TaskInv
    <2>2. PICK S \in SUBSET Released :
            /\ Cardinality(S) = n \/ (Cardinality(S) < n /\ S = Released)
            /\ vf' = vf \cup S
      OBVIOUS
    <2>3. Cardinality(Released) >= n
      BY <1>2, <1>3, <2>1, PortSetFinite DEF VfInv, One
    <2>4. vf' = S /\ Cardinality(S) = n
      BY <1>3, <2>1, <2>2, <2>3, EnoughReleased
    <2>5. TypeOK'
      BY <1>1, <1>3, <2>1, <2>4 DEF TypeOK, AdminPc
    <2>6. TaskInv'
      BY <1>1, <1>2, ThreadsAssumption DEF TaskInv
    <2>7. VfInv'
      BY <1>1, <1>2, <1>3, <2>1, <2>4 DEF VfInv, One
    <2> QED BY <2>5, <2>6, <2>7
  <1>6. CASE sriov_enabled
    <2> USE <1>6 DEF sriov_enabled
    <2>1. TypeOK'
      BY <1>1 DEF TypeOK, AdminPc
    <2>2. TaskInv'
      BY <1>1, <1>2, ThreadsAssumption DEF TaskInv
    <2>3. VfInv'
      BY <1>1, <1>2, <1>3 DEF VfInv, One
    <2> QED BY <1>4, <2>1, <2>2, <2>3
  <1>7. CASE sriov_failed \/ sriov_off
    <2>1. /\ admin' = "idle" /\ lock' = NoThread /\ vf' = vf \ Released
          /\ num_vfs' = 0 /\ want' = want
          /\ \A t \in Threads : lock # t
      BY <1>7, ThreadsAssumption DEF sriov_failed, sriov_off, sriov_disable, VfInv, TaskInv
    <2>2. TypeOK'
      BY <1>1, <2>1 DEF TypeOK, AdminPc
    <2>3. TaskInv'
      BY <1>1, <1>2, <2>1, ThreadsAssumption DEF TaskInv
    <2>4. vf' = {} /\ Cardinality(vf') = 0
      BY <2>1, FS_EmptySet DEF VfInv
    <2>5. VfInv'
      BY <1>1, <1>2, <1>3, <2>1, <2>4 DEF VfInv, One
    <2> QED BY <1>4, <2>2, <2>3, <2>5
  <1> QED BY <1>4, <1>5, <1>6, <1>7

\* Unbinding, with no task inside the FME: the virtual functions' ports come
\* back, the port devices go, and then the list.
LEMMA UnbindStep ==
  ASSUME IndInv, UnbindWhileOpen = FALSE,
         \/ cci_pci_remove
         \/ \E p \in Ports : remove_feature_dev(p)
         \/ remove_parent_dev \/ remove_parent_dev_end \/ cci_pci_remove_port_devs
  PROVE  IndInv'
  <1> USE DEF IndInv, useVars, portVars, vfVars
  <1>1. /\ UNCHANGED <<lock, pc, arg, fme_open, open_count, excl_open, fds,
                       released_port_num, want>>
        /\ fme_open = 0
        /\ admin \in {"idle", "unbind", "childless", "orphaned"}
        /\ admin' \in {"unbind", "childless", "orphaned", "gone"}
    BY DEF cci_pci_remove, sriov_disable, remove_feature_dev, remove_parent_dev,
           remove_parent_dev_end, cci_pci_remove_port_devs, TaskInv, Bound
  <1>2. ~Bound' /\ \A t \in Threads : pc[t] = "idle" /\ pc'[t] = "idle"
    BY <1>1 DEF Bound, TaskInv
  <1>3. vf' = {} /\ num_vfs' = 0
    <2>1. CASE cci_pci_remove
      BY <2>1 DEF cci_pci_remove, sriov_disable, VfInv
    <2>2. CASE ~cci_pci_remove
      <3>1. vf = {} /\ num_vfs = 0
        BY <2>2, FS_EmptySet DEF remove_feature_dev, remove_parent_dev,
           remove_parent_dev_end, cci_pci_remove_port_devs, VfInv, Bound
      <3> QED BY <2>2, <3>1 DEF remove_feature_dev, remove_parent_dev,
           remove_parent_dev_end, cci_pci_remove_port_devs
    <2> QED BY <2>1, <2>2
  <1>4. VfInv'
    BY <1>1, <1>2, <1>3, FS_EmptySet DEF VfInv
  <1>5. TaskInv'
    BY <1>1, <1>2 DEF TaskInv
  <1>6. OpenInv' /\ UseCounted'
    BY <1>1, <1>2 DEF OpenInv, UseCounted
  <1>7. ListInv'
    BY <1>1 DEF ListInv, cci_pci_remove, sriov_disable, remove_feature_dev, remove_parent_dev,
           remove_parent_dev_end, cci_pci_remove_port_devs
  <1>8. /\ \A q \in Ports : refs[q] = One(q \in port_dev_list) + One(q \in registered)
        /\ \A q \in Ports : ~Works("attach", q)' /\ ~Works("pr", q)'
        /\ refs \in [Ports -> Nat]
    BY <1>2 DEF RefsBalanced, Works, One, TypeOK
  <1> DEFINE Balanced ==
        /\ \A q \in Ports : refs[q] = One(q \in port_dev_list) + One(q \in registered)
        /\ refs \in [Ports -> Nat]
        /\ registered \subseteq Ports /\ port_dev_list \subseteq Ports
  <1>9. Balanced'
    <2>1. registered \subseteq Ports /\ port_dev_list \subseteq Ports
      BY DEF TypeOK
    <2>2. ASSUME NEW p \in Ports, remove_feature_dev(p) PROVE Balanced'
      BY <1>8, <2>1, <2>2 DEF remove_feature_dev, put_device, One
    <2>3. CASE cci_pci_remove_port_devs
      BY <1>8, <2>1, <2>3 DEF cci_pci_remove_port_devs, One
    <2>4. CASE cci_pci_remove \/ remove_parent_dev \/ remove_parent_dev_end
      BY <1>8, <2>1, <2>4 DEF cci_pci_remove, sriov_disable, remove_parent_dev, remove_parent_dev_end
    <2> QED BY <2>2, <2>3, <2>4
  <1>10. RefsBalanced'
    BY <1>8, <1>9 DEF RefsBalanced, One
  <1>11. TypeOK'
    BY <1>1, <1>3, <1>9 DEF TypeOK, AdminPc
  <1> QED BY <1>4, <1>5, <1>6, <1>7, <1>10, <1>11

\* After the probe every port is registered, listed and unused.
LEMMA InitInv == Init => IndInv
  <1> SUFFICES ASSUME Init PROVE IndInv
    OBVIOUS
  <1> USE DEF Init
  <1>1. TypeOK
    BY DEF TypeOK, ThreadPc, AdminPc
  <1>2. TaskInv /\ ListInv /\ OpenInv
    BY ThreadsAssumption DEF TaskInv, ListInv, OpenInv, Bound
  <1>3. Released = {} /\ ~Attaching /\ \A p \in Ports, s \in {"detach", "attach", "pr"} : ~Works(s, p)
    BY DEF Released, Attaching, Works
  <1>4. VfInv
    BY <1>3, FS_EmptySet DEF VfInv, Bound, One
  <1>5. UseCounted
    BY <1>3 DEF UseCounted, Claimed, One
  <1>6. RefsBalanced
    BY <1>3 DEF RefsBalanced, One
  <1> QED BY <1>1, <1>2, <1>4, <1>5, <1>6 DEF IndInv

\* Every step preserves the inductive invariant.
LEMMA InductiveStep ==
  ASSUME UnbindWhileOpen = FALSE
  PROVE  IndInv /\ [Next]_vars => IndInv'
  <1> SUFFICES ASSUME IndInv, [Next]_vars PROVE IndInv'
    OBVIOUS
  <1>1. CASE UNCHANGED vars
    BY <1>1 DEF vars, useVars, portVars, vfVars, IndInv, TypeOK, TaskInv, ListInv, VfInv,
         OpenInv, UseCounted, RefsBalanced, Bound, Released, Attaching, Claimed, Works, One
  <1>2. CASE Next
    BY <1>2, FileStep, FmeFileStep, DetachStep, DetachDelStep, AttachStep, AttachEndStep,
       ReconfigureStep, SriovStep, UnbindStep DEF Next
  <1> QED BY <1>1, <1>2

\* The inductive invariant holds in every reachable state.
LEMMA Inductive ==
  ASSUME UnbindWhileOpen = FALSE
  PROVE  Spec => []IndInv
  <1>1. IndInv /\ [Next]_vars => IndInv'
    BY InductiveStep
  <1> QED BY <1>1, InitInv, PTL DEF Spec

\* What the inductive invariant says about virtual functions' ports.
LEMMA VfPorts == IndInv => VfPortsCounted
  <1> SUFFICES ASSUME IndInv PROVE VfPortsCounted
    OBVIOUS
  <1> USE DEF IndInv
  <1>1. Bound /\ lock = NoThread =>
          released_port_num = Cardinality(Released) /\ num_vfs = Cardinality(vf)
    <2> SUFFICES ASSUME Bound, lock = NoThread
                 PROVE  released_port_num = Cardinality(Released) /\ num_vfs = Cardinality(vf)
      OBVIOUS
    <2>1. admin # "sriov" /\ ~Attaching
      BY ThreadsAssumption DEF TaskInv, Attaching
    <2>2. Cardinality(Released) \in Nat
      BY PortSetFinite DEF Released, TypeOK
    <2> QED BY <2>1, <2>2 DEF VfInv, One
  <1>2. ASSUME NEW p \in vf PROVE p \notin registered /\ fds[p] = 0
    <2>1. p \in Released /\ p \in Ports /\ Bound
      BY <1>2 DEF VfInv, TypeOK
    <2>2. fds[p] = 0
      BY <2>1, ClaimedUnused DEF Claimed
    <2> QED BY <2>1, <2>2 DEF Released
  <1> QED BY <1>1, <1>2 DEF VfPortsCounted

-----------------------------------------------------------------------------
(* The theorems.                                                           *)

\* Port management keeps its state well typed; in particular no counter ever
\* goes below zero (released_port_num, open_count and the references are only
\* ever decremented when they are positive).
THEOREM ManageTypeOK ==
  ASSUME UnbindWhileOpen = FALSE
  PROVE  Spec => []TypeOK
  BY Inductive, PTL DEF IndInv

\* While the driver is bound a port's open count is its open files plus the
\* claim of port release, and an exclusive open excludes every other one.
THEOREM ManageUseCounted ==
  ASSUME UnbindWhileOpen = FALSE
  PROVE  Spec => []UseCounted
  BY Inductive, PTL DEF IndInv

\* Outside the locked sections released_port_num and the number of virtual
\* functions are right, and a virtual function's port is never registered
\* with the host nor open there.
THEOREM ManageVfPorts ==
  ASSUME UnbindWhileOpen = FALSE
  PROVE  Spec => []VfPortsCounted
  BY Inductive, VfPorts, PTL

\* No reference to a port device is leaked or dropped twice.
THEOREM ManageRefs ==
  ASSUME UnbindWhileOpen = FALSE
  PROVE  Spec => []RefsBalanced
  BY Inductive, PTL DEF IndInv

\* cci_pci_remove_port_devs meets no registered port: the comment in the code
\* is true as long as the driver is not unbound under an open FME.
THEOREM ManageUnregisteredFirst ==
  ASSUME UnbindWhileOpen = FALSE
  PROVE  Spec => UnregisteredFirst
  <1>1. IndInv /\ [Next]_vars =>
          [port_dev_list' # port_dev_list => registered \cap port_dev_list = {}]_vars
    <2> SUFFICES ASSUME IndInv, Next, port_dev_list' # port_dev_list
                 PROVE  registered \cap port_dev_list = {}
      OBVIOUS
    <2>1. cci_pci_remove_port_devs
      BY DEF Next, afu_open, afu_release, fme_opened, fme_released, detach_port_dev,
             detach_port_dev_del, attach_port_dev, attach_port_dev_end, fpga_for_each_port,
             fme_pr_put, cci_pci_sriov_configure, sriov_enabled, sriov_failed, sriov_off,
             sriov_disable, cci_pci_remove, remove_feature_dev, remove_parent_dev,
             remove_parent_dev_end, portVars
    <2> QED BY <2>1 DEF cci_pci_remove_port_devs, IndInv, ListInv
  <1> QED BY <1>1, Inductive, PTL DEF Spec, UnregisteredFirst

-----------------------------------------------------------------------------
(* Port management implements the ownership of ports.                      *)

\* A step that leaves the access bits, the registered ports, the open files
\* and the binding alone is invisible to the abstract specification.
LEMMA OwnershipStutter ==
  ASSUME UNCHANGED <<vf, registered, fds>>, Bound' <=> Bound
  PROVE  UNCHANGED Ownership!ownVars
  <1>1. One(Bound)' = One(Bound)
    BY DEF One
  <1> QED BY <1>1 DEF Ownership!ownVars

\* Every step is a step of the abstract specification or invisible to it.
LEMMA OwnershipStep ==
  ASSUME IndInv, UnbindWhileOpen = FALSE, [Next]_vars
  PROVE  [Ownership!Next]_(Ownership!ownVars)
  <1> USE DEF useVars, portVars, vfVars
  <1>0. TypeOK /\ vf \subseteq Released /\ vf \cap registered = {}
    BY DEF IndInv, VfInv, Released
  <1>1. CASE UNCHANGED vars
    BY <1>1, OwnershipStutter DEF vars, Bound
  <1>2. ASSUME NEW p \in Ports, afu_open(p) PROVE Ownership!Open(p)
    BY <1>0, <1>2 DEF afu_open, Ownership!Open, TypeOK, Bound
  <1>3. ASSUME NEW p \in Ports, afu_release(p) PROVE Ownership!Close(p)
    BY <1>0, <1>3 DEF afu_release, Ownership!Close, TypeOK, Bound
  <1>4. CASE fme_opened \/ fme_released
    BY <1>4, OwnershipStutter DEF fme_opened, fme_released, Bound
  <1>5. ASSUME NEW t \in Threads, NEW p \in Ports,
               detach_port_dev(t, p) \/ fpga_for_each_port(t, p)
        PROVE  UNCHANGED Ownership!ownVars
    BY <1>5, OwnershipStutter DEF detach_port_dev, fpga_for_each_port, Bound
  <1>6. ASSUME NEW t \in Threads, attach_port_dev_end(t) \/ fme_pr_put(t)
        PROVE  UNCHANGED Ownership!ownVars
    BY <1>6, OwnershipStutter DEF attach_port_dev_end, fme_pr_put, Bound
  <1>7. ASSUME NEW t \in Threads, detach_port_dev_del(t)
        PROVE  \E p \in Ports : Ownership!Release(p)
    <2>1. PICK p \in Ports : p = arg[t] /\ p \in registered
      BY <1>7 DEF IndInv, TaskInv, detach_port_dev_del
    <2>2. Claimed(p) /\ Bound
      BY <1>7, <2>1, WorkingBound DEF Claimed, Works, detach_port_dev_del
    <2>3. fds[p] = 0
      BY <2>2, ClaimedUnused
    <2>4. Ownership!Release(p)
      BY <1>0, <1>7, <2>1, <2>2, <2>3 DEF Ownership!Release, detach_port_dev_del, Bound, One, TypeOK
    <2> QED BY <2>4
  <1>8. ASSUME NEW t \in Threads, NEW p \in Ports, attach_port_dev(t, p)
        PROVE  Ownership!Assign(p)
    <2>1. Bound
      BY <1>8, WorkingBound DEF attach_port_dev, Enter
    <2> QED BY <1>0, <1>8, <2>1 DEF Ownership!Assign, attach_port_dev, may_attach, Bound, One, TypeOK
  <1>9. ASSUME NEW n \in 1..Cardinality(Ports), cci_pci_sriov_configure(n)
        PROVE  \E S \in SUBSET Ports : Ownership!GiveToVfs(S)
    <2>1. vf = {} /\ Bound /\ Bound'
      <3>1. Cardinality(vf) = 0
        BY <1>9 DEF IndInv, VfInv, cci_pci_sriov_configure
      <3> QED BY <1>0, <1>9, <3>1, PortSetFinite, FS_EmptySet DEF TypeOK, Bound, cci_pci_sriov_configure
    <2>2. PICK S \in SUBSET Released : vf' = vf \cup S
      BY <1>9 DEF cci_pci_sriov_configure
    <2>3. S \in SUBSET Ports /\ \A p \in S : p \notin registered /\ fds[p] = 0
      <3>1. ASSUME NEW p \in S PROVE p \in Ports /\ p \notin registered /\ fds[p] = 0
        BY <1>0, <2>1, <2>2, <3>1, ClaimedUnused DEF Claimed, Released, TypeOK
      <3> QED BY <3>1
    <2>4. Ownership!GiveToVfs(S)
      BY <1>9, <2>1, <2>2, <2>3 DEF Ownership!GiveToVfs, cci_pci_sriov_configure, One
    <2> QED BY <2>3, <2>4
  <1>10. CASE sriov_enabled
    BY <1>10, OwnershipStutter DEF sriov_enabled, Bound
  <1>11. CASE sriov_failed \/ sriov_off
    <2>1. vf' = {} /\ (Bound' <=> Bound) /\ UNCHANGED <<registered, fds>>
      BY <1>0, <1>11 DEF sriov_failed, sriov_off, sriov_disable, Bound
    <2>2. One(Bound)' = One(Bound)
      BY <2>1 DEF One
    <2>3. Ownership!TakeFromVfs
      BY <1>0, <2>1, <2>2 DEF Ownership!TakeFromVfs, Ownership!Taken
    <2> QED BY <2>3 DEF Ownership!Next
  <1>12. CASE cci_pci_remove
    <2>1. vf' = {} /\ Bound /\ ~Bound' /\ UNCHANGED <<registered, fds>>
      BY <1>0, <1>12 DEF cci_pci_remove, sriov_disable, Bound
    <2>2. One(Bound) = 1 /\ One(Bound)' = 0
      BY <2>1 DEF One
    <2>3. Ownership!Unbind
      BY <1>0, <2>1, <2>2 DEF Ownership!Unbind, Ownership!Taken
    <2> QED BY <2>3 DEF Ownership!Next
  <1>13. ASSUME NEW p \in Ports, remove_feature_dev(p) PROVE Ownership!Withdraw(p)
    BY <1>0, <1>13 DEF Ownership!Withdraw, remove_feature_dev, Bound, One, TypeOK
  <1>14. CASE remove_parent_dev \/ remove_parent_dev_end \/ cci_pci_remove_port_devs
    BY <1>14, OwnershipStutter DEF remove_parent_dev, remove_parent_dev_end,
         cci_pci_remove_port_devs, Bound
  <1>15. CASE Next
    BY <1>2, <1>3, <1>4, <1>5, <1>6, <1>7, <1>8, <1>9, <1>10, <1>11, <1>12, <1>13, <1>14,
       <1>15 DEF Next, Ownership!Next
  <1> QED BY <1>1, <1>15

\* Port management implements PortOwnership: a port changes hands only
\* through "nobody", only an unused one is taken from the host, and a virtual
\* function never shares a port with users of the host.
THEOREM ManageOwnership ==
  ASSUME UnbindWhileOpen = FALSE
  PROVE  Spec => OwnershipSpec
  <1>1. Init => Ownership!Init
    BY DEF Init, Ownership!Init, Bound, One
  <1>2. IndInv /\ [Next]_vars => [Ownership!Next]_(Ownership!ownVars)
    BY OwnershipStep
  <1> QED BY <1>1, <1>2, Inductive, PTL DEF Spec, OwnershipSpec, Ownership!Spec
=============================================================================
