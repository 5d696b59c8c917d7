------------------------------ MODULE PortReset ------------------------------
(***************************************************************************)
(* The soft reset of one FPGA port and everything that nests inside it.    *)
(*                                                                         *)
(* A port is put into reset by __fpga_port_disable and taken out of it by  *)
(* __fpga_port_enable (feature-dev.c).  Both are counted by                *)
(* pdata->disable_count, so that a port reset issued by a user of the AFU  *)
(* (FPGA_PORT_RESET, the last close of the device file, the probe of the   *)
(* port header), the clearing of port errors through sysfs and a partial   *)
(* reconfiguration driven by the FME can nest in any order.  All of them   *)
(* hold the port's pdata->lock while they touch the count, but a           *)
(* reconfiguration drops it between its disable and its enable.            *)
(*                                                                         *)
(* Hardware: the port acknowledges the reset some time after the bit is    *)
(* set, or the driver's poll of 1000us ends first; the acknowledge bit     *)
(* falls with the reset bit.  Errors are latched while they are unmasked,  *)
(* and the first one after a clear is latched a second time in the first   *)
(* error register, if that has its bit.  PORT_ERR_MASK leaves out the two  *)
(* errors of an MMIO access to a port in reset, so that these also come    *)
(* while the driver clears errors, when it holds the port in reset.  The   *)
(* error registers clear the bits that are written as one.                 *)
(***************************************************************************)
EXTENDS Naturals, FiniteSets

CONSTANTS Callers,      \* tasks that call into the driver
          NoCaller,     \* owner of a free mutex
          Errors,       \* bits of the port error register
          PORT_ERR_MASK,\* those that can be masked
          FirstErrors,  \* those that the first error register has too
          MaxLeaked     \* bound on the number of timed-out disables

ASSUME CallersAssumption == IsFiniteSet(Callers) /\ NoCaller \notin Callers
ASSUME ErrorsAssumption == PORT_ERR_MASK \subseteq Errors /\ FirstErrors \subseteq Errors
ASSUME MaxLeakedAssumption == MaxLeaked \in Nat

VARIABLES
  port_lock,      \* owner of the port's pdata->lock
  prOwner,        \* owner of the FME's pdata->lock, held for a whole fme_pr
  at,             \* where each thread is
  op,             \* what it is doing: "reset", "clear" or "pr"
  value,          \* the error bits a thread wrote to the "clear" attribute
  ret,            \* result of the thread's last reset or clear
  disable_count,  \* pdata->disable_count
  leaked,         \* how many disables timed out and kept their count
  port_sftrst,    \* control.port_sftrst
  port_sftrst_ack,\* control.port_sftrst_ack
  power_state,    \* status.power_state
  error_mask,     \* the errors that are masked
  port_error, port_first_error

resetVars == <<disable_count, leaked, port_sftrst, port_sftrst_ack>>
errorVars == <<power_state, error_mask, port_error, port_first_error>>
resetAll == <<port_lock, prOwner, at, op, value, ret, resetVars, errorVars>>

Ops == {"reset", "clear", "pr"}
Results == {"none", "0", "ETIMEDOUT", "EBUSY"}

ClearPc    == {"masked", "matched", "cleared", "unmask"}
\* The thread owns one unit of disable_count at these places ...
HoldingPc  == {"poll", "disabled", "loading", "loaded"} \cup ClearPc
\* ... and the port's pdata->lock at these.
LockedPc   == {"poll", "disabled", "reading"} \cup ClearPc

ResetTypeOK ==
  /\ port_lock \in Callers \cup {NoCaller}
  /\ prOwner \in Callers \cup {NoCaller}
  /\ at \in [Callers -> {"idle"} \cup HoldingPc \cup LockedPc]
  /\ op \in [Callers -> Ops]
  /\ value \in [Callers -> SUBSET Errors]
  /\ ret \in [Callers -> Results]
  /\ disable_count \in Nat
  /\ leaked \in Nat
  /\ port_sftrst \in {0, 1}
  /\ port_sftrst_ack \in {0, 1}
  /\ power_state \in {"AP0", "AP6"}
  /\ error_mask \subseteq Errors
  /\ port_error \subseteq Errors
  /\ port_first_error \subseteq Errors

\* The reset bit is set by default and cleared by the first enable; the model
\* starts after the reset of port_hdr_init has succeeded.
ResetInit ==
  /\ port_lock = NoCaller
  /\ prOwner = NoCaller
  /\ at = [t \in Callers |-> "idle"]
  /\ op = [t \in Callers |-> "reset"]
  /\ value = [t \in Callers |-> {}]
  /\ ret = [t \in Callers |-> "none"]
  /\ disable_count = 0
  /\ leaked = 0
  /\ port_sftrst = 0
  /\ port_sftrst_ack = 0
  /\ power_state = "AP0"
  /\ error_mask = {}
  /\ port_error = {}
  /\ port_first_error = {}

-----------------------------------------------------------------------------
(* The two primitives, called with pdata->lock held.                       *)

\* Mutant: a nested disable is not counted.
DisableUncounted(t) ==
  /\ IF disable_count = 0
     THEN /\ disable_count' = 1
          /\ port_sftrst' = 1
          /\ at' = [at EXCEPT ![t] = "poll"]
     ELSE /\ at' = [at EXCEPT ![t] = "disabled"]
          /\ UNCHANGED <<disable_count, port_sftrst>>
  /\ UNCHANGED <<leaked, port_sftrst_ack>>

\* Only the first disable touches the hardware; it then polls for the ack.
__fpga_port_disable(t) ==
  /\ disable_count' = disable_count + 1
  /\ IF disable_count = 0
     THEN /\ port_sftrst' = 1
          /\ at' = [at EXCEPT ![t] = "poll"]
     ELSE /\ UNCHANGED port_sftrst
          /\ at' = [at EXCEPT ![t] = "disabled"]
  /\ UNCHANGED <<leaked, port_sftrst_ack>>

\* Mutant: every enable clears the reset bit.
EnableAlwaysClears ==
  /\ disable_count' = disable_count - 1
  /\ port_sftrst' = 0
  /\ port_sftrst_ack' = 0
  /\ UNCHANGED leaked

\* Only the enable that brings the count to zero touches the hardware.
__fpga_port_enable ==
  /\ disable_count' = disable_count - 1
  /\ IF disable_count = 1
     THEN port_sftrst' = 0 /\ port_sftrst_ack' = 0
     ELSE UNCHANGED <<port_sftrst, port_sftrst_ack>>
  /\ UNCHANGED leaked

Return(t, r) ==
  /\ at' = [at EXCEPT ![t] = "idle"]
  /\ ret' = [ret EXCEPT ![t] = r]

-----------------------------------------------------------------------------
(* The operations.                                                         *)

\* fpga_port_reset, and __fpga_port_reset in afu_release.
ResetBegin(t) ==
  /\ at[t] = "idle"
  /\ port_lock = NoCaller
  /\ port_lock' = t
  /\ op' = [op EXCEPT ![t] = "reset"]
  /\ __fpga_port_disable(t)
  /\ UNCHANGED <<prOwner, value, ret, errorVars>>

\* clear_store and the head of port_err_clear: nothing is cleared in AP6.
ClearBegin(t, err) ==
  /\ at[t] = "idle"
  /\ port_lock = NoCaller
  /\ \/ /\ power_state = "AP6"
        /\ Return(t, "EBUSY")
        /\ UNCHANGED <<port_lock, op, value, resetVars>>
     \/ /\ power_state # "AP6"
        /\ port_lock' = t
        /\ op' = [op EXCEPT ![t] = "clear"]
        /\ value' = [value EXCEPT ![t] = err]
        /\ __fpga_port_disable(t)
        /\ UNCHANGED ret
  /\ UNCHANGED <<prOwner, errorVars>>

\* fme_pr takes the FME's pdata->lock, finds the port and disables it.
PrBegin(t) ==
  /\ at[t] = "idle"
  /\ prOwner = NoCaller /\ port_lock = NoCaller
  /\ prOwner' = t
  /\ port_lock' = t
  /\ op' = [op EXCEPT ![t] = "pr"]
  /\ __fpga_port_disable(t)
  /\ UNCHANGED <<value, ret, errorVars>>

\* The poll of port_sftrst_ack ends with the bit set ...
PollAck(t) ==
  /\ at[t] = "poll"
  /\ port_sftrst_ack = 1
  /\ at' = [at EXCEPT ![t] = "disabled"]
  /\ UNCHANGED <<port_lock, prOwner, op, value, ret, resetVars, errorVars>>

\* ... or with -ETIMEDOUT.  Reset and clear return it and leave the count and
\* the reset bit as they are; fme_pr ignores it and goes on.
PollTimeout(t) ==
  /\ at[t] = "poll"
  /\ port_sftrst_ack = 0
  /\ op[t] = "pr" \/ leaked < MaxLeaked
  /\ port_lock' = NoCaller
  /\ IF op[t] = "pr"
     THEN /\ at' = [at EXCEPT ![t] = "loading"]
          /\ UNCHANGED <<ret, leaked>>
     ELSE /\ Return(t, "ETIMEDOUT")
          /\ leaked' = leaked + 1
  /\ value' = [value EXCEPT ![t] = {}]
  /\ UNCHANGED <<prOwner, op, disable_count, port_sftrst,
                 port_sftrst_ack, errorVars>>

ResetEnd(t) ==
  /\ at[t] = "disabled" /\ op[t] = "reset"
  /\ __fpga_port_enable
  /\ port_lock' = NoCaller
  /\ Return(t, "0")
  /\ UNCHANGED <<prOwner, op, value, errorVars>>

\* Mutant: errors stay unmasked during the clear.
ClearWithoutMask(t) ==
  /\ at[t] = "disabled" /\ op[t] = "clear"
  /\ at' = [at EXCEPT ![t] = "masked"]
  /\ UNCHANGED <<port_lock, prOwner, op, value, ret, resetVars, errorVars>>

\* port_err_clear masks the errors that can be masked, ...
ClearMask(t) ==
  /\ at[t] = "disabled" /\ op[t] = "clear"
  /\ error_mask' = PORT_ERR_MASK
  /\ at' = [at EXCEPT ![t] = "masked"]
  /\ UNCHANGED <<port_lock, prOwner, op, value, ret, resetVars, power_state, port_error,
                 port_first_error>>

\* ... reads the error register and compares it with what the user wrote, ...
ClearCompare(t) ==
  /\ at[t] = "masked"
  /\ IF port_error = value[t]
     THEN /\ at' = [at EXCEPT ![t] = "matched"]
          /\ ret' = [ret EXCEPT ![t] = "0"]
     ELSE /\ at' = [at EXCEPT ![t] = "unmask"]
          /\ ret' = [ret EXCEPT ![t] = "EBUSY"]
  /\ UNCHANGED <<port_lock, prOwner, op, value, resetVars, errorVars>>

\* Mutant: what the register holds by now is cleared.
ClearReread(t) ==
  /\ at[t] = "matched"
  /\ port_error' = {}
  /\ at' = [at EXCEPT ![t] = "cleared"]
  /\ UNCHANGED <<port_lock, prOwner, op, value, ret, resetVars, power_state, error_mask,
                 port_first_error>>

\* ... writes back what it has read, which is what the user wrote, ...
ClearErrors(t) ==
  /\ at[t] = "matched"
  /\ port_error' = port_error \ value[t]
  /\ at' = [at EXCEPT ![t] = "cleared"]
  /\ UNCHANGED <<port_lock, prOwner, op, value, ret, resetVars, power_state, error_mask,
                 port_first_error>>

\* ... and the first error register likewise, which keeps the one error it has
\* between its reading and its writing, ...
ClearFirst(t) ==
  /\ at[t] = "cleared"
  /\ port_first_error' = {}
  /\ at' = [at EXCEPT ![t] = "unmask"]
  /\ UNCHANGED <<port_lock, prOwner, op, value, ret, resetVars, power_state, error_mask,
                 port_error>>

\* ... then unmasks and enables the port.
ClearEnd(t) ==
  /\ at[t] = "unmask"
  /\ error_mask' = {}
  /\ __fpga_port_enable
  /\ port_lock' = NoCaller
  /\ value' = [value EXCEPT ![t] = {}]
  /\ at' = [at EXCEPT ![t] = "idle"]
  /\ UNCHANGED <<prOwner, op, ret, power_state, port_error, port_first_error>>

\* fme_pr drops the port's lock; fpga_mgr_buf_load runs without it.
PrUnlock(t) ==
  /\ at[t] = "disabled" /\ op[t] = "pr"
  /\ port_lock' = NoCaller
  /\ at' = [at EXCEPT ![t] = "loading"]
  /\ UNCHANGED <<prOwner, op, value, ret, resetVars, errorVars>>

PrLoaded(t) ==
  /\ at[t] = "loading"
  /\ at' = [at EXCEPT ![t] = "loaded"]
  /\ UNCHANGED <<port_lock, prOwner, op, value, ret, resetVars, errorVars>>

\* Mutant: fme_pr returns without re-enabling the port.
PrEndStillDisabled(t) ==
  /\ at[t] = "loaded"
  /\ port_lock = NoCaller
  /\ prOwner' = NoCaller
  /\ at' = [at EXCEPT ![t] = "idle"]
  /\ UNCHANGED <<port_lock, op, value, ret, resetVars, errorVars>>

\* fpga_port_enable after the load, whatever its result.
PrEnd(t) ==
  /\ at[t] = "loaded"
  /\ port_lock = NoCaller
  /\ __fpga_port_enable
  /\ prOwner' = NoCaller
  /\ at' = [at EXCEPT ![t] = "idle"]
  /\ UNCHANGED <<port_lock, op, value, ret, errorVars>>

\* afu_id_show reads the AFU's own registers, unless the port is disabled.
IdBegin(t) ==
  /\ at[t] = "idle"
  /\ port_lock = NoCaller
  /\ disable_count = 0
  /\ port_lock' = t
  /\ at' = [at EXCEPT ![t] = "reading"]
  /\ UNCHANGED <<prOwner, op, value, ret, resetVars, errorVars>>

IdEnd(t) ==
  /\ at[t] = "reading"
  /\ port_lock' = NoCaller
  /\ at' = [at EXCEPT ![t] = "idle"]
  /\ UNCHANGED <<prOwner, op, value, ret, resetVars, errorVars>>

-----------------------------------------------------------------------------
(* The hardware.                                                           *)

HwAck ==
  /\ port_sftrst = 1 /\ port_sftrst_ack = 0
  /\ port_sftrst_ack' = 1
  /\ UNCHANGED <<port_lock, prOwner, at, op, value, ret, disable_count, leaked,
                 port_sftrst, errorVars>>

HwError(e) ==
  /\ e \notin error_mask \cup port_error
  /\ e \notin PORT_ERR_MASK => port_sftrst = 1    \* mmio_rd_whilerst, mmio_wr_whilerst
  /\ port_error' = port_error \cup {e}
  /\ port_first_error' = IF port_first_error = {} /\ e \in FirstErrors THEN {e}
                         ELSE port_first_error
  /\ UNCHANGED <<port_lock, prOwner, at, op, value, ret, resetVars, power_state, error_mask>>

HwPower ==
  /\ power_state' \in {"AP0", "AP6"} \ {power_state}
  /\ UNCHANGED <<port_lock, prOwner, at, op, value, ret, resetVars, error_mask,
                 port_error, port_first_error>>

-----------------------------------------------------------------------------
ThreadBegins(t) ==
  \/ ResetBegin(t)
  \/ \E err \in SUBSET Errors : ClearBegin(t, err)
  \/ PrBegin(t)
  \/ IdBegin(t)

ThreadRuns(t) ==
  \/ PollAck(t) \/ PollTimeout(t)
  \/ ResetEnd(t)
  \/ ClearMask(t) \/ ClearCompare(t) \/ ClearErrors(t) \/ ClearFirst(t) \/ ClearEnd(t)
  \/ PrUnlock(t) \/ PrLoaded(t)
  \/ IdEnd(t)

Hardware == HwAck \/ HwPower \/ \E e \in Errors : HwError(e)

ResetNext ==
  \/ \E t \in Callers : ThreadBegins(t) \/ ThreadRuns(t) \/ PrEnd(t)
  \/ Hardware

\* A thread inside the driver keeps running; a kernel mutex hands itself to
\* its waiters, so the enable of a reconfiguration gets the port's lock even
\* if others keep taking it; a port that is asked to reset acknowledges.
Fairness ==
  /\ \A t \in Callers : WF_resetAll(ThreadRuns(t)) /\ SF_resetAll(PrEnd(t))
  /\ WF_resetAll(HwAck)

ResetSpec == ResetInit /\ [][ResetNext]_resetAll /\ Fairness

-----------------------------------------------------------------------------
(* Properties.                                                             *)

Holders == {t \in Callers : at[t] \in HoldingPc}

\* The disable count is the number of operations that hold the port in reset
\* plus the disables that timed out: an enable never takes the port out of
\* reset under another operation, and the unsigned count never wraps.
CountAccounted == disable_count = Cardinality(Holders) + leaked

\* The reset bit is set exactly while the count is not zero.
ResetBitTracksCount == port_sftrst = 1 <=> disable_count > 0

\* The thread that owns the port's lock is the one inside a locked section.
LockInv == \A t \in Callers : at[t] \in LockedPc <=> port_lock = t

\* What makes the reading of the AFU's registers safe: the count is zero and
\* stays so while the reader owns the lock.
ReadInv == \A t \in Callers : at[t] = "reading" => disable_count = 0

\* Errors are masked for the length of a clear and no longer, so that between the
\* comparison and the write the register gains no error that can be masked, and
\* the two error registers agree except between the writes that clear them.
ErrorInv ==
  /\ \A t \in Callers : at[t] \in ClearPc => error_mask = PORT_ERR_MASK
  /\ (\A t \in Callers : at[t] \notin ClearPc) => error_mask = {}
  /\ \A t \in Callers : at[t] = "matched" =>
       value[t] \subseteq port_error /\ port_error \cap PORT_ERR_MASK \subseteq value[t]
  /\ \A t \in Callers : at[t] = "cleared" => port_error \cap PORT_ERR_MASK = {}
  /\ (\A t \in Callers : at[t] # "cleared") =>
       /\ port_first_error \subseteq port_error
       /\ port_error \cap PORT_ERR_MASK \cap FirstErrors # {} => port_first_error # {}

\* The inductive invariant behind the theorems of PortProofs.
ResetInv ==
  /\ ResetTypeOK
  /\ LockInv
  /\ CountAccounted
  /\ ResetBitTracksCount
  /\ ReadInv
  /\ ErrorInv

\* While a bitstream is being loaded the port stays in reset, whatever resets
\* and error clears other threads run meanwhile; and, since "the AFU is unable to
\* respond to any MMIO access while in reset", the id of the AFU is only read
\* while the port is out of reset.
ResetRespected ==
  \A t \in Callers : /\ at[t] = "loading" => port_sftrst = 1
                     /\ at[t] = "reading" => port_sftrst = 0

\* Between two clears all errors are unmasked, the first error is one of those
\* in the error register, and there is one if the error register holds an error
\* that can be masked and that the first error register has: a clear does not
\* forget such an error however it falls between the steps of port_err_clear.
FirstErrorRecorded ==
  (\A t \in Callers : at[t] \notin ClearPc) =>
    /\ error_mask = {}
    /\ port_first_error \subseteq port_error
    /\ port_error \cap PORT_ERR_MASK \cap FirstErrors # {} => port_first_error # {}

\* The error register only loses bits that some thread has acknowledged: it wrote
\* to the "clear" attribute every error the register holds, but for those that
\* cannot be masked and came after the comparison, and these stay.  Such errors do
\* come, although port_err_clear says that it masks all: PORT_ERR_MASK leaves out
\* those of MMIO while the port is in reset.
ClearOnlyAcknowledged ==
  [][port_error \subseteq port_error'
     \/ \E t \in Callers :
          /\ at[t] = "matched"
          /\ value[t] \subseteq port_error /\ port_error \cap PORT_ERR_MASK \subseteq value[t]
          /\ port_error' = port_error \ value[t]]_resetAll

\* If no poll ever timed out, a port that is put into reset leaves it again.
PortLeavesReset == [](leaked = 0) => (port_sftrst = 1 ~> port_sftrst = 0)

\* uapi/linux/intel-fpga.h on FPGA_PORT_RESET: "Reset the FPGA AFU Port ...
\* Return: 0 on success": a reset that returns 0 while no reconfiguration is
\* under way leaves the port out of reset.
ResetSucceeds ==
  [][\A t \in Callers :
        /\ at[t] = "disabled" /\ op[t] = "reset"
        /\ at'[t] = "idle" /\ ret'[t] = "0"
        /\ prOwner = NoCaller
        => port_sftrst' = 0]_resetAll
=============================================================================
