------------------------------ MODULE FmeError ------------------------------
(***************************************************************************)
(* The global error reporting of the FME (fme-error.c).                    *)
(*                                                                         *)
(* The FME's error register comes with registers for the first and the     *)
(* next error; the two PCIe error registers have none.  To clear one, the  *)
(* user writes the value he has read: the driver masks the errors it can   *)
(* mask, compares, clears and unmasks, under pdata->lock.                  *)
(*                                                                         *)
(* The mask and the clear reach only the errors in Maskable; the register  *)
(* has errors above FME_ERROR0_MASK, which are neither masked nor cleared. *)
(*                                                                         *)
(* External: an error that is not masked is recorded when it occurs.  The  *)
(* error registers clear the bits that are written as one.                 *)
(***************************************************************************)
EXTENDS FmeRegs

CONSTANTS Errors, Maskable,
          DefaultMasked,   \* FME_ERROR0_MASK_DEFAULT
          MaxErrors        \* bound: errors in a behaviour, per error register

ASSUME ErrorsAssumption == DefaultMasked \subseteq Maskable /\ Maskable \subseteq Errors

VARIABLES errs,     \* the error registers
          occurred  \* number of errors so far

errVars == <<errs, occurred>>

ErrRegs == {"fme", "pcie0", "pcie1"}
DefaultMask(u) == IF u = "fme" THEN DefaultMasked ELSE {}

ErrorInit ==
  /\ errs = [u \in ErrRegs |->
               [err |-> {}, first |-> {}, next |-> {}, mask |-> Maskable]]
  /\ occurred = 0

\* External.
ErrorOccurs(u, e) ==
  /\ occurred < MaxErrors[u] /\ u \in inUse
  /\ e \notin errs[u].mask \cup errs[u].err
  /\ occurred' = occurred + 1
  /\ errs' = [errs EXCEPT ![u] =
       [err |-> @.err \cup {e},
        first |-> IF u = "fme" /\ @.first = {} THEN {e} ELSE @.first,
        next |-> IF u = "fme" /\ @.first # {} /\ @.next = {} THEN {e} ELSE @.next,
        mask |-> @.mask]]
  /\ UNCHANGED <<lock, regVars, job, shown, inUse, started>>

fme_error_enable ==
  errs' = [u \in ErrRegs |-> [errs[u] EXCEPT !.mask = DefaultMask(u)]]

-----------------------------------------------------------------------------
\* The user writes the value he has just read; it may be outdated when the lock
\* is got.
Clear(u) == [at |-> "lock", kind |-> "clear", u |-> u, val |-> errs[u].err]

clear_store(t) == "fme" \in inUse /\ Begin(t, "errors", Clear("fme"))
pcie0_errors_store(t) == "pcie0" \in inUse /\ Begin(t, "errors", Clear("pcie0"))
pcie1_errors_store(t) == "pcie1" \in inUse /\ Begin(t, "errors", Clear("pcie1"))

FME_RAS_ERROR_INJ_MASK == 7
inject_error_store(t) ==
  \E v \in {1, FME_RAS_ERROR_INJ_MASK + 1} :
    Begin(t, "errors", Store("ras_error_inj", [data |-> v], v <= FME_RAS_ERROR_INJ_MASK))

error_show(t) == Begin(t, "errors", Show)

To(t, j) == job' = [job EXCEPT ![t] = Over(j, @)]

\* Mutant: the errors are not masked.
ClearUnmasked(t) ==
  /\ job[t].at = "lock" /\ job[t].kind = "clear"
  /\ lock = NoTask /\ lock' = t
  /\ To(t, [at |-> "compare"])
  /\ UNCHANGED <<errs, occurred, regVars, shown, inUse, started>>

\* mutex_lock; all errors that can be are masked ...
ClearMask(t) ==
  /\ job[t].at = "lock" /\ job[t].kind = "clear"
  /\ lock = NoTask /\ lock' = t
  /\ errs' = [errs EXCEPT ![job[t].u].mask = Maskable]
  /\ To(t, [at |-> "compare"])
  /\ UNCHANGED <<occurred, regVars, shown, inUse, started>>

\* ... the register is compared with what the user knows ...
ClearCompare(t) ==
  /\ job[t].at = "compare"
  /\ To(t, IF errs[job[t].u].err = job[t].val THEN [at |-> "first"] ELSE [at |-> "unmask"])
  /\ UNCHANGED <<lock, errVars, regVars, shown, inUse, started>>

\* ... first and next error are read ...
ClearRead(t) ==
  /\ job[t].at = "first"
  /\ To(t, [at |-> "clear", first |-> errs[job[t].u].first, next |-> errs[job[t].u].next])
  /\ UNCHANGED <<lock, errVars, regVars, shown, inUse, started>>

\* ... the three registers are written back, which clears what was read ...
ClearWrite(t) ==
  LET j == job[t] IN
  /\ j.at = "clear"
  /\ errs' = [errs EXCEPT ![j.u] =
       [err |-> @.err \ (j.val \cap Maskable), first |-> @.first \ j.first,
        next |-> @.next \ j.next, mask |-> @.mask]]
  /\ To(t, [at |-> "unmask"])
  /\ UNCHANGED <<lock, occurred, regVars, shown, inUse, started>>

\* ... and the default mask is set again.
ClearUnmask(t) ==
  /\ job[t].at = "unmask"
  /\ errs' = [errs EXCEPT ![job[t].u].mask = DefaultMask(job[t].u)]
  /\ Return(t)
  /\ UNCHANGED <<occurred, regVars, shown, inUse, started>>

ErrorSteps(t) ==
  \/ ClearMask(t) \/ ClearCompare(t) \/ ClearRead(t) \/ ClearWrite(t)
  \/ ClearUnmask(t)

ErrorBegins(t) ==
  \/ clear_store(t) \/ pcie0_errors_store(t) \/ pcie1_errors_store(t)
  \/ inject_error_store(t) \/ error_show(t)

Clearing(u) == \E t \in Tasks :
  job[t].at \in {"compare", "first", "clear", "unmask"} /\ job[t].u = u

\* Errors that the driver can mask are never half cleared: while nobody clears
\* the registers, one that is in the error register has left its trace in the
\* first error register, also if it occurred during a clear, and once the
\* directory is there the errors are unmasked.
ErrorsConsistent ==
  \A u \in ErrRegs : ~Clearing(u) =>
    /\ u = "fme" /\ errs[u].err \cap Maskable # {} => errs[u].first # {}
    /\ "errors" \in shown => errs[u].mask = DefaultMask(u)
=============================================================================
