------------------------------ MODULE FmeRegs ------------------------------
(***************************************************************************)
(* The sysfs callbacks of the FME and the registers they share.            *)
(*                                                                         *)
(* Many attributes of the FME are fields of one 64-bit register.  A store  *)
(* takes pdata->lock, reads the register, replaces its fields and writes   *)
(* it back; the reads and the writes of two callbacks interleave unless    *)
(* the lock keeps them apart.  FmePerf, FmeMgmt and FmeError say which     *)
(* attributes there are, FmeSysfs creates and removes their files.         *)
(*                                                                         *)
(* A value that does not parse before the lock is taken is refused without *)
(* any effect and is not an action of its own.                             *)
(***************************************************************************)
EXTENDS Integers, FiniteSets, Sequences

CONSTANTS Tasks,
          NoTask, Remover,   \* no holder of the lock; the removal of the FME
          MaxOps             \* bound: callbacks started in a behaviour

ASSUME TasksAssumption ==
  /\ NoTask \notin Tasks /\ Remover \notin Tasks /\ Remover # NoTask
  /\ MaxOps \in Nat

VARIABLES
  lock,     \* the holder of pdata->lock
  reg,      \* the shared registers, each a record of its fields
  want,     \* history: what the callbacks have last written to each field
  job,      \* the callback each task is in
  shown,    \* the sysfs directories whose files can be opened
  inUse,    \* what this behaviour uses: directories, error registers
  started   \* the number of callbacks started

regVars == <<reg, want>>

\* The record g with the fields of f replaced, or added.
Over(f, g) == [x \in DOMAIN f \cup DOMAIN g |-> IF x \in DOMAIN f THEN f[x] ELSE g[x]]

Idle == [at |-> "idle", node |-> "none"]

\* A task opens a file in directory n and its callback begins as job j.
Begin(t, n, j) ==
  /\ job[t].at = "idle" /\ n \in shown /\ n \in inUse
  /\ started < MaxOps
  /\ started' = started + 1
  /\ job' = [job EXCEPT ![t] = Over([node |-> n], j)]
  /\ UNCHANGED <<lock, regVars, shown, inUse>>

\* A store to register r that sets the fields of `set'; it is refused under
\* the lock if ~ok.
Store(r, set, ok) ==
  [at |-> "lock", kind |-> "store", r |-> r, set |-> set, ok |-> ok]

\* A read-only attribute: registers are read without the lock.
Show == [at |-> "show"]

ShowEnd(t) ==
  /\ job[t].at = "show"
  /\ job' = [job EXCEPT ![t] = Idle]
  /\ UNCHANGED <<lock, regVars, shown, inUse, started>>

Return(t) ==
  /\ lock' = NoTask
  /\ job' = [job EXCEPT ![t] = Idle]

\* Mutant: the register is read before the lock is taken.
RegReadEarly(t) ==
  /\ job[t].at = "lock" /\ job[t].kind \in {"store", "count"}
  /\ job' = [job EXCEPT ![t] = Over([at |-> "write", got |-> reg[job[t].r]], @)]
  /\ UNCHANGED <<lock, regVars, shown, inUse, started>>

\* mutex_lock, readq.
RegRead(t) ==
  /\ job[t].at = "lock" /\ job[t].kind \in {"store", "count"}
  /\ lock = NoTask /\ lock' = t
  /\ job' = [job EXCEPT ![t] = Over([at |-> "write", got |-> reg[job[t].r]], @)]
  /\ UNCHANGED <<regVars, shown, inUse, started>>

\* writeq of what was read with the fields replaced.
Update(t) ==
  LET j == job[t] IN
  /\ reg' = [reg EXCEPT ![j.r] = Over(j.set, j.got)]
  /\ want' = [want EXCEPT ![j.r] = Over(j.set, @)]

RegStore(t) ==
  /\ job[t].at = "write" /\ job[t].kind = "store" /\ job[t].ok
  /\ Update(t)
  /\ Return(t)
  /\ UNCHANGED <<shown, inUse, started>>

RegReject(t) ==
  /\ job[t].at = "write" /\ job[t].kind = "store" /\ ~job[t].ok
  /\ Return(t)
  /\ UNCHANGED <<regVars, shown, inUse, started>>

CallbackSteps(t) == RegRead(t) \/ RegStore(t) \/ RegReject(t) \/ ShowEnd(t)

\* No store is lost: each field of each shared register holds what was last
\* written to it, although every callback writes back all the fields of the
\* register it read a step earlier.
StoresKept == reg = want
=============================================================================
