------------------------------- MODULE SpiNor -------------------------------
(***************************************************************************)
(* The FME's flash as an MTD device: the calls of spi-nor.c and the        *)
(* transfers of altera-asmip2.c they consist of.                           *)
(*                                                                         *)
(* A call holds nor->lock and the controller's bus mutex, which is only    *)
(* taken under nor->lock, from its first to its last transfer.  Every      *)
(* transfer ends in a poll of the controller's FIFO that may time out; the *)
(* command may have reached the chip by then or not.  Between transfers    *)
(* the chip works on its own.                                              *)
(*                                                                         *)
(* FifoDepth, like all sizes, is in units, and opcode and address fit into *)
(* one.  One chip select, as the FME has (qspi_flash_init).                *)
(***************************************************************************)
EXTENDS NorLock

CONSTANTS
  Tasks, NoTask,
  FifoDepth,              \* QSPI_FIFO_DEPTH
  Chips,                  \* the chips of spi_nor_ids to be considered
  Data,                   \* what the chip holds at first
  Writes, Reads, Erases, Locks,   \* offsets and lengths of calls, in range
  MaxOps,                 \* bound: calls in a behaviour
  MaxTimeouts             \* bound: transfers that time out

VARIABLES
  nor_lock,  \* the holder of nor->lock and bus_mutex
  job,       \* the call each task is in
  scan,      \* commands that spi_nor_scan has still to send
  phase,     \* of the MTD device: absent, scan, registered
  micron,    \* the manufacturer is SNOR_MFR_MICRON
  big,       \* the chip exceeds 16 MiB
  flags,     \* the rest of its entry in spi_nor_ids
  sane,      \* history: no transfer of the scan timed out or met a busy chip
  started, timeouts

cfgVars == <<has_tb, micron, big, flags>>
vars == <<chip, nor_lock, job, scan, phase, sane, started, timeouts, cfgVars>>

ASSUME BoundsAssumption ==
  NoTask \notin Tasks /\ FifoDepth \in Nat \ {0} /\ MaxOps \in Nat /\ MaxTimeouts \in Nat
ASSUME DataAssumption == Data \subseteq Units

\* External: the MTD core refuses what exceeds the device and does nothing for
\* a length of zero.
ASSUME RangesAssumption ==
  \A r \in Writes \cup Reads \cup Erases \cup Locks :
    r \in Nat \X (Nat \ {0}) /\ r[1] + r[2] <= Size

\* LOCKED_MFR stands for the manufacturers Atmel, Intel and SST, 4B_OPCODES also
\* for Spansion.
Flags == {"HAS_LOCK", "LOCKED_MFR", "NO_CHIP_ERASE", "4B_OPCODES"}

\* SPI_NOR_HAS_TB comes with SPI_NOR_HAS_LOCK, and no Micron chip has it; opcodes
\* with four address bytes are used on big chips only.
ASSUME ChipsAssumption ==
  /\ Chips \subseteq [has_tb: BOOLEAN, micron: BOOLEAN, big: BOOLEAN, flags: SUBSET Flags]
  /\ \A c \in Chips : /\ c.has_tb => ~c.micron /\ "HAS_LOCK" \in c.flags
                      /\ "4B_OPCODES" \in c.flags => c.big

\* A call: its place, what it does, its range and its progress; clean, got and
\* was are history.
Idle == [at |-> "idle", op |-> "none", a |-> 0, n |-> 0, i |-> 0,
         remain |-> 0, written |-> 0, sr |-> [bp |-> 0, tb |-> 0],
         answer |-> FALSE, ret |-> "none",
         clean |-> FALSE, got |-> {}, was |-> {}]

\* What has opcodes with four address bytes needs no other address mode.
Init ==
  /\ \E c \in Chips :
       has_tb = c.has_tb /\ micron = c.micron /\ big = c.big /\ flags = c.flags
  /\ \E bp \in {0, MASK} :
       chip = [bp |-> bp, tb |-> 0, wel |-> FALSE, wip |-> FALSE,
               wide |-> "4B_OPCODES" \in flags, zero |-> Data]
  /\ nor_lock = NoTask /\ job = [t \in Tasks |-> Idle]
  /\ scan = <<>> /\ phase = "absent" /\ sane = TRUE /\ started = 0 /\ timeouts = 0

-----------------------------------------------------------------------------
(* Transfers.                                                              *)

\* The transfer that makes the chip c is done, or it times out.
Done(c) == chip' = c /\ UNCHANGED timeouts
TimedOut(c) ==
  /\ timeouts < MaxTimeouts /\ timeouts' = timeouts + 1
  /\ chip' \in {chip, c}

To(t, j) == job' = [job EXCEPT ![t] = j]
Unclean(j) == [j EXCEPT !.clean = FALSE]
Rest == UNCHANGED <<nor_lock, scan, phase, sane, started, cfgVars>>

\* A transfer of t: the call goes on as ok, or as bad after a timeout.
Transfer(t, c, ok, bad) ==
  /\ \/ Done(c) /\ To(t, ok)
     \/ TimedOut(c) /\ To(t, Unclean(bad))
  /\ Rest

\* Call j goes on at place p, or it ends with value ret.
At(j, p) == [j EXCEPT !.at = p]
Ends(j, ret) == [j EXCEPT !.at = "unlock", !.ret = ret]

-----------------------------------------------------------------------------
(* Probe and removal.                                                      *)

\* EN4B, or BRWR on chips of other manufacturers.
set_4byte == IF ~big \/ "4B_OPCODES" \in flags THEN <<>>
             ELSE IF micron THEN <<"WREN", "EN4B", "WRDI">> ELSE <<"EN4B">>

\* spi_nor_scan from read_id on: chips that may power up locked are unlocked,
\* big ones are switched to four address bytes.
ScanCommands ==
  (IF {"HAS_LOCK", "LOCKED_MFR"} \cap flags # {} THEN <<"WREN", "WRSR", "wait">> ELSE <<>>)
    \o set_4byte

altera_asmip2_probe ==
  /\ phase = "absent"
  /\ phase' = "scan" /\ scan' = ScanCommands /\ sane' = TRUE
  /\ UNCHANGED <<chip, nor_lock, job, started, timeouts, cfgVars>>

Command(cmd) ==
  CASE cmd = "WREN" -> WREN(chip)
    [] cmd = "WRSR" -> WRSR(chip, [bp |-> 0, tb |-> 0])
    [] cmd = "EN4B" -> EN4B(chip, micron)
    [] cmd = "WRDI" -> WRDI(chip)

\* The results of these commands are ignored.
ScanStep ==
  /\ phase = "scan" /\ scan # <<>>
  /\ scan' = Tail(scan)
  /\ IF Head(scan) = "wait" THEN UNCHANGED <<chip, timeouts, sane>>
     ELSE \/ Done(Command(Head(scan))) /\ sane' = (sane /\ ~chip.wip)
          \/ TimedOut(Command(Head(scan))) /\ sane' = FALSE
  /\ UNCHANGED <<nor_lock, job, phase, started, cfgVars>>

\* spi_nor_scan finds no chip.
ScanFails ==
  /\ phase = "scan" /\ scan = ScanCommands
  /\ phase' = "absent" /\ scan' = <<>>
  /\ UNCHANGED <<chip, nor_lock, job, sane, started, timeouts, cfgVars>>

mtd_device_register ==
  /\ phase = "scan" /\ scan = <<>>
  /\ phase' \in {"registered", "absent"}
  /\ UNCHANGED <<chip, nor_lock, job, scan, sane, started, timeouts, cfgVars>>

\* External: mtd_device_unregister refuses a device in use.
altera_asmip2_remove ==
  /\ phase = "registered" /\ \A t \in Tasks : job[t] = Idle
  /\ phase' = "absent" /\ sane' = TRUE
  /\ UNCHANGED <<chip, nor_lock, job, scan, started, timeouts, cfgVars>>

-----------------------------------------------------------------------------
(* Calls.                                                                  *)

Call(t, op, r) ==
  /\ phase = "registered" /\ job[t] = Idle /\ started < MaxOps
  /\ started' = started + 1
  /\ To(t, [Idle EXCEPT !.at = "lock", !.op = op, !.a = r[1], !.n = r[2]])
  /\ UNCHANGED <<chip, nor_lock, scan, phase, sane, timeouts, cfgVars>>

spi_nor_write(t) == \E r \in Writes : Call(t, "write", r)
spi_nor_read(t) == \E r \in Reads : Call(t, "read", r)

\* Mutant: a length that is no multiple of the erase size is not refused.
spi_nor_erase_unchecked(t) == \E r \in Erases : Call(t, "erase", r)

spi_nor_erase(t) == \E r \in Erases : r[2] % EraseSize = 0 /\ Call(t, "erase", r)

\* flash_lock and its kin exist on Micron chips and with SPI_NOR_HAS_LOCK.
HasLock == micron \/ "HAS_LOCK" \in flags
spi_nor_lock(t) == HasLock /\ \E r \in Locks : Call(t, "lock", r)
spi_nor_unlock(t) == HasLock /\ \E r \in Locks : Call(t, "unlock", r)
spi_nor_is_locked(t) == HasLock /\ \E r \in Locks : Call(t, "is_locked", r)

First == [write |-> "wren", erase |-> "wren", read |-> "read",
          lock |-> "sr", unlock |-> "sr", is_locked |-> "sr"]

\* History: clean says whether the call finds an idle chip that an undisturbed
\* scan has set up, and later that no poll timed out; was are the units
\* that are protected then.
spi_nor_lock_and_prep(t) ==
  /\ job[t].at = "lock"
  /\ nor_lock = NoTask /\ nor_lock' = t
  /\ To(t, [At(job[t], First[job[t].op]) EXCEPT !.clean = ~chip.wip /\ sane,
                                                !.was = Protected(chip)])
  /\ UNCHANGED <<chip, scan, phase, sane, started, timeouts, cfgVars>>

spi_nor_unlock_and_unprep(t) ==
  /\ job[t].at = "unlock"
  /\ nor_lock' = NoTask /\ To(t, Idle)
  /\ UNCHANGED <<chip, scan, phase, sane, started, timeouts, cfgVars>>

-----------------------------------------------------------------------------
(* The transfers of a call.                                                *)

\* Its result is ignored by all callers.
AfterWren == [write |-> "program", erase |-> "erase", lock |-> "write_sr",
              unlock |-> "write_sr"]

write_enable(t) ==
  /\ job[t].at = "wren"
  /\ LET next == At(job[t], AfterWren[job[t].op]) IN Transfer(t, WREN(chip), next, next)

\* Mutant: a write goes on into the next page.
page_ignored(j) == j.n - j.i

\* The rest of the page, or of the request.
page_remain(j) == Min({PageSize - ((j.a + j.i) % PageSize), j.n - j.i})

\* altera_asmip2_write returns what fits into the FIFO, or 0 after a timeout.
program(t) ==
  LET j == job[t]
      remain == page_remain(j)
      written == Min({remain, FifoDepth - 1})
      c == PP(chip, Target(chip, j.a + j.i, big), written)
      next(k) == [At(j, "wait") EXCEPT !.remain = remain, !.written = k]
  IN  /\ j.at = "program"
      /\ Transfer(t, c, next(written), next(0))

\* altera_asmip2_read returns 0 after a timeout, which spi_nor_read makes -EIO.
\* A busy chip does not answer: what is read is lost.
read(t) ==
  LET j == job[t]
      len == Min({j.n - j.i, FifoDepth})
      from == Target(chip, j.a + j.i, big)
      got == IF chip.wip THEN {} ELSE chip.zero \cap UnitsOf(from, len)
      next == [j EXCEPT !.i = j.i + len, !.got = j.got \cup got]
  IN  /\ j.at = "read"
      /\ Transfer(t, chip, IF j.i + len < j.n THEN next ELSE Ends(next, "ok"),
                  Ends(j, "EIO"))

\* The chip at once, if it can do that, or one sector after the other.
erase(t) ==
  LET j == job[t]
      whole == j.n = Size /\ "NO_CHIP_ERASE" \notin flags
      c == IF whole THEN CHIP_ERASE(chip) ELSE SE(chip, Target(chip, j.a + j.i, big))
  IN  /\ j.at = "erase"
      /\ Transfer(t, c, [At(j, "wait") EXCEPT !.i = IF whole THEN j.n ELSE j.i + EraseSize],
                  Ends(j, "error"))

\* read_sr, and what follows from the status.
read_sr(t) ==
  LET j == job[t]
      sr == RDSR(chip)
      todo == CASE j.op = "lock" -> stm_lock(sr, j.a, j.n)
                [] j.op = "unlock" -> stm_unlock(sr, j.a, j.n)
                [] OTHER -> Same
      answer == stm_is_locked_sr(j.a, j.n, sr)
      next == IF j.op = "is_locked" THEN [Ends(j, "ok") EXCEPT !.answer = answer]
              ELSE IF todo = Same THEN Ends(j, "ok")
              ELSE IF todo = Invalid THEN Ends(j, "EINVAL")
              ELSE [At(j, "wren") EXCEPT !.sr = todo.sr]
  IN  /\ j.at = "sr"
      /\ Transfer(t, chip, next, Ends(j, "error"))

write_sr(t) ==
  /\ job[t].at = "write_sr"
  /\ Transfer(t, WRSR(chip, job[t].sr), At(job[t], "wait"), Ends(job[t], "error"))

\* The end of a wait: the next page or sector, or the end of the call.
Waited(j) ==
  CASE j.op = "write" ->
         LET next == [j EXCEPT !.i = j.i + j.written] IN
         IF j.written # j.remain THEN Ends(next, "EIO")
         ELSE IF j.i + j.written < j.n THEN At(next, "wren")
         ELSE Ends(next, "ok")
    [] j.op = "erase" -> At(j, IF j.i < j.n THEN "wren" ELSE "wrdi")
    [] OTHER -> Ends(j, "ok")

\* spi_nor_wait_till_ready: the chip is ready, or the status cannot be read ...
spi_nor_wait_till_ready(t) ==
  /\ job[t].at = "wait"
  /\ \/ ~chip.wip /\ Done(chip) /\ To(t, Waited(job[t]))
     \/ TimedOut(chip) /\ To(t, Unclean(Ends(job[t], "error")))
  /\ Rest

\* Mutant: after the timeout it is polled again.
WaitAgain(t) ==
  /\ job[t].at = "wait" /\ chip.wip
  /\ To(t, Unclean(job[t]))
  /\ UNCHANGED <<chip, timeouts>> /\ Rest

\* ... or it is not ready for 40 seconds.
WaitTimeout(t) ==
  /\ job[t].at = "wait" /\ chip.wip
  /\ To(t, Unclean(Ends(job[t], "ETIMEDOUT")))
  /\ UNCHANGED <<chip, timeouts>> /\ Rest

write_disable(t) ==
  /\ job[t].at = "wrdi"
  /\ LET next == Ends(job[t], "ok") IN Transfer(t, WRDI(chip), next, next)

\* External.
ChipReady ==
  /\ chip.wip /\ chip' = Ready(chip)
  /\ UNCHANGED <<nor_lock, job, scan, phase, sane, started, timeouts, cfgVars>>

Begins(t) ==
  \/ spi_nor_write(t) \/ spi_nor_read(t) \/ spi_nor_erase(t)
  \/ spi_nor_lock(t) \/ spi_nor_unlock(t) \/ spi_nor_is_locked(t)

Steps(t) ==
  \/ spi_nor_lock_and_prep(t) \/ spi_nor_unlock_and_unprep(t)
  \/ write_enable(t) \/ program(t) \/ read(t) \/ erase(t) \/ read_sr(t)
  \/ write_sr(t) \/ spi_nor_wait_till_ready(t) \/ WaitTimeout(t)
  \/ write_disable(t)

Next ==
  \/ altera_asmip2_probe \/ ScanStep \/ ScanFails \/ mtd_device_register
  \/ altera_asmip2_remove \/ ChipReady
  \/ \E t \in Tasks : Begins(t) \/ Steps(t)

\* The chip owes nothing: a call ends by its timeouts.  The mutex is fair to
\* the finitely many calls (MaxOps) that wait for it.
Fairness == \A t \in Tasks : WF_vars(Steps(t))

Spec == Init /\ [][Next]_vars /\ Fairness

-----------------------------------------------------------------------------
(* Properties.                                                             *)

Held(t) == job[t].at \notin {"idle", "lock"}

Chip == [bp: 0..MASK, tb: {0, 1}, wel: BOOLEAN, wip: BOOLEAN, wide: BOOLEAN,
         zero: SUBSET Units]
Job == [at: {"idle", "lock", "wren", "program", "read", "erase", "sr", "write_sr",
             "wait", "wrdi", "unlock"},
        op: {"none", "write", "read", "erase", "lock", "unlock", "is_locked"},
        a: Nat, n: Nat, i: Nat, remain: Nat, written: Nat,
        sr: [bp: 0..MASK, tb: {0, 1}], answer: BOOLEAN,
        ret: {"none", "ok", "EIO", "EINVAL", "ETIMEDOUT", "error"},
        clean: BOOLEAN, got: SUBSET Units, was: SUBSET Units]

\* In particular no call counts more than it was asked for.
TypeOK ==
  /\ chip \in Chip /\ (~has_tb => chip.tb = 0)
  /\ has_tb \in BOOLEAN /\ micron \in BOOLEAN /\ big \in BOOLEAN /\ sane \in BOOLEAN
  /\ flags \subseteq Flags
  /\ nor_lock \in Tasks \cup {NoTask}
  /\ job \in [Tasks -> Job] /\ \A t \in Tasks : job[t].i <= job[t].n
  /\ scan \in Seq({"WREN", "WRSR", "wait", "EN4B", "WRDI"})
  /\ phase \in {"absent", "scan", "registered"}
  /\ started \in 0..MaxOps /\ timeouts \in 0..MaxTimeouts

\* The units that call j asks for; an erase is rounded down to sectors.
Asked(j) == IF j.op = "erase" THEN UNION {SectorOf(j.a + k) : k \in 0..(j.n - 1)}
            ELSE UnitsOf(j.a, j.n)
Aligned(j) == j.op = "erase" => j.a % EraseSize = 0
Writable(j) == UnitsOf(j.a, j.n) \cap j.was = {}

\* BP bits can express nothing and powers of two from the smallest block on.  A
\* lock protects its range up to either end, an unlock leaves the rest at either
\* end; only SR_TB makes the lower end one of them.
Expressible(len) == len = 0 \/ \E k \in (SizeLog - 6)..SizeLog : len = pow2[k]
LockFits(ofs, len) == Expressible(Size - ofs) /\ (has_tb => Expressible(ofs + len))
UnlockFits(ofs, len) == Expressible(Above(ofs, len)) /\ (has_tb => Expressible(ofs))

\* What a call reports has happened, if the chip was idle and no transfer of the
\* scan or of the call timed out: the bytes a write counts are programmed and
\* those of an erase erased, unless they are protected; a read returns what the
\* chip held; and is_locked says what the chip protects.  After a lock the range
\* is protected and after an unlock none of it is, if BP bits can express that:
\* stm_lock rounds other ranges down and returns 0 without having locked them.
Lands ==
  \A t \in Tasks : Held(t) /\ job[t].clean =>
    LET j == job[t]
        ok == j.at = "unlock" /\ j.ret = "ok"
        range == UnitsOf(j.a, j.n)
    IN  /\ j.op = "write" /\ Writable(j) => UnitsOf(j.a, j.i) \subseteq chip.zero
        /\ j.op = "erase" /\ ok /\ Writable(j) /\ Aligned(j) =>
             chip.zero \cap range = {}
        /\ j.op = "read" /\ ok => j.got = chip.zero \cap range
        /\ j.op = "lock" /\ ok /\ LockFits(j.a, j.n) => range \subseteq Protected(chip)
        /\ j.op = "unlock" /\ ok /\ UnlockFits(j.a, j.n) => range \cap Protected(chip) = {}
        /\ j.op = "is_locked" /\ ok => j.answer = (range \subseteq Protected(chip))

\* What an unlock leaves to protect at the end that tb selects is less than the
\* smallest block.
Vanishes(ofs, len, tb) ==
  (IF tb = 1 THEN ofs ELSE Above(ofs, len)) \in 1..(Size \div 64 - 1)

\* A call changes only what it is asked to change: a write clears and an erase
\* sets bits of its own range, neither touches the protection; a lock unlocks
\* nothing, an unlock locks nothing, and it keeps what is to remain locked unless
\* that is less than the smallest block.  The exception are steps that change
\* SR_TB.  stm_lock and stm_unlock say that they modify the protection only if
\* that "will not unlock other areas" and "will not lock other areas", but they
\* compare BP bits only: when the protection moves to the other end, a lock may
\* unlock what was protected at the first and an unlock may lock what was not.
ConfinedTo(t) ==
  LET j == job[t]
      old == Protected(chip)
      new == Protected(chip')
      moved == chip'.tb # chip.tb
  IN  /\ chip'.zero # chip.zero =>
           \/ j.op = "write" /\ chip.zero \subseteq chip'.zero
              /\ chip'.zero \ chip.zero \subseteq Asked(j)
           \/ j.op = "erase" /\ chip'.zero \subseteq chip.zero
              /\ chip.zero \ chip'.zero \subseteq Asked(j)
      /\ new # old =>
           \/ j.op = "lock" /\ (moved \/ old \subseteq new)
           \/ j.op = "unlock" /\ (moved \/ new \subseteq old)
              /\ (Vanishes(j.a, j.n, chip'.tb) \/ old \ UnitsOf(j.a, j.n) \subseteq new)

Confined ==
  [][phase = "registered" /\ sane =>
       IF nor_lock = NoTask THEN chip'.zero = chip.zero /\ Protected(chip') = Protected(chip)
       ELSE ConfinedTo(nor_lock)]_vars

\* Every call returns, also if the chip never becomes ready and the controller
\* never answers.
NorReturns == \A t \in Tasks : job[t].at # "idle" ~> job[t].at = "idle"
=============================================================================
