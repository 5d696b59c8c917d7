# OPAE Intel FPGA driver: formal models

TLA+ models of the Intel FPGA kernel driver in this repository
(`src/drivers/fpga/intel/`, with `src/drivers/fpga/fpga-mgr.c` and
`src/drivers/mtd/spi-nor/`), the TLC runs
that check them on small instances and the theorems TLAPS proves about them.

The driver attaches to a PCIe card. The card describes itself by a linked list of
feature headers; the driver turns it into one FME device (the FPGA management
engine) and one device per port (a slot that holds a user AFU, the accelerator).
User space opens the device files, configures things by ioctl and sysfs, maps
DMA buffers for the AFU, and asks the FME to load a new AFU into a port. The FME also
has performance counters, thermal and power thresholds and error registers, all
behind sysfs files, and a flash chip that the kernel sees as an MTD device.

## 1. Inventory

Paths are relative to `src/drivers/fpga/intel/` unless they start with `src/`.

| Component | Files | State it keeps | Operations |
|---|---|---|---|
| Port reset | `feature-dev.c`, `src/include/intel/feature-dev.h` | `disable_count`, the port control register | disable, enable, reset; called from user reset, last close, error clearing, reconfiguration |
| Port errors | `afu-error.c` | error, first error and mask registers | mask, clear (sysfs), interrupt (ioctl) |
| Port management, SR-IOV | `pcie.c`, `feature-dev.h` | `port_dev_list`, `released_port_num`, `open_count`, `excl_open`, access control of each port, device references | release and assign a port, open and close, enable and disable VFs, unbind |
| Enumeration | `pcie.c` | `build_feature_devs_info`, `fpga_ids`, `fme_dev`, `port_dev_list`, the static feature tables | probe: walk the list, build and register devices; remove |
| DMA buffers | `dma-region.c`, `afu.c` | region tree, pinned pages, mappings, `locked_vm` | map, unmap, last close |
| UMsg | `afu.c` | enable bit and base address, `in_use` of a region | enable, disable, set base address, mode |
| Partial reconfiguration | `fme-pr.c`, `src/drivers/fpga/fpga-mgr.c` | `pr_err`, `port_id`, `mgr->state`, registers of the PR engine | `FPGA_FME_PORT_PR`: check, reset engine, push words, complete |
| Sub-feature interrupts | `feature-dev.c`, `afu.c`, `afu-error.c`, `fme-error.c` | `ctx[].trigger`, the requested irqs, eventfd references | set a block of vectors, last close |
| Feature device lifecycle | `feature-dev.c`, `afu.c`, `fme-main.c`, `region.c` | private data, `feature->ops`, sysfs files, character device, regions | probe, sub-feature init and uinit, ioctl dispatch, remove |
| MMIO regions | `region.c`, `afu.c` | `afu->regions` | add, look up, mmap |
| FME global errors | `fme-error.c` | FME and PCIe error registers with masks, error injection | show, clear, inject (sysfs); create and remove the error device |
| FME thermal and power | `fme-main.c` | thresholds, enable bits and policy, as fields of two registers | sysfs show and store |
| FME header | `fme-main.c` | none that changes | sysfs show |
| Performance counters | `fme-iperf.c`, `fme-dperf.c` | freeze bits, selected event, filter and port of the fabric counters; the tree of sysfs objects | select and read, freeze, enable; create and destroy the tree |
| QSPI flash controller | `src/drivers/mtd/spi-nor/altera-asmip2.c` | FIFO of the controller, `bus_mutex` | register and data transfers, probe, remove |
| SPI NOR framework | `src/drivers/mtd/spi-nor/spi-nor.c` | `nor->lock`; the chip's status register, address mode and data | scan, read, write, erase, lock, unlock, is_locked |
| Backports, self tests | `backport.c`, `uuid_mod.c`, `afu-check.c`, `pcie_check.c`, `fme-perf.c` | | not this driver's logic, or not compiled |

**How the components interact.** `pdata->lock`, one per feature device, guards the
state of a port or of the FME. `drvdata->lock` guards the list of ports and SR-IOV.
A reconfiguration holds the FME's `pdata->lock` throughout, and takes and drops
that of the port twice, so the port is open to other tasks during the load. Port
release claims a port through the same open count that its device file uses, then
deletes the device, which runs the port's removal. Enumeration registers a device,
and so runs its probe and makes it visible, while it goes on with the next one.
The last close of a port resets it, halts UMsg, frees its buffers and its
interrupts. Sysfs callbacks need no open file; only the removal of the file stops
them. All sub-features of the FME share its `pdata->lock`, so the poll of a counter, the
clearing of errors and the teardown of the error device wait for each other. The flash
is below the FME only in the device tree: it has locks of its own.

**What is hard.** Operations of several tasks nest in one disable count, with a
lock that is dropped in between. Map and unmap work outside the lock. Every wait
for the hardware can time out, and what the hardware does afterwards meets the
next call. Multi-step operations fail half way: enumeration, SR-IOV, a block of
interrupt vectors, a DMA mapping, the initialisation of sub-features. Removal runs
beside everything else. The list with the line of each is under `hazards` in
`PROJECT.json`; the properties below are aimed at it.

**What makes each component correct.** The count equals the operations in progress,
a load happens only in reset and MMIO only out of it, no error is lost (port reset
and errors). A port has one owner at a time, counts and references balance, nothing
registered is forgotten (management, enumeration). Pages, mappings and the UMsg
address agree with the tree (DMA). A load that returns 0 is whole and its own, every
call returns (reconfiguration). An interrupt signals only a held eventfd, a failed
block is undone (interrupts). Nothing is used before its initialisation or after its
removal, and removal ends (lifecycle). A store changes its own fields of a shared
register and no other, a count belongs to the event and the object asked for, no error
is half cleared (FME sysfs). What a flash call reports has happened, in its own range,
and nothing else has (flash).

## 2. Modules

Each module names in its header what it models; `map` in `PROJECT.json` gives the
source lines of every definition. Actions bear the name of the function they model
where one action is one function; a function that drops its lock, sleeps or polls
is split there, and a section that holds a lock from end to end is one action.
Definitions introduced by a comment `Mutant:` are faulty variants of the definition
that follows. No specification uses them; `mutants` in `PROJECT.json` says which
property notices each, which shows that the property depends on the code.

| Module | Models | State | Not in it |
|---|---|---|---|
| `PortReset` | reset of one port and what nests in it | `disable_count`, both locks, reset and error registers, the place of each task | several ports: they share nothing but the FME's lock |
| `PortOwnership` | abstract: who owns a port | `owner`, `users`, `bound` | |
| `PortManage` | `pcie.c` port list, SR-IOV, open counts, unbinding | as in the code, with the place of each ioctl and of the administrator | hardware of the port |
| `PortProofs` | theorems on `PortReset` and `PortManage` | | |
| `AfuDma` | `dma-region.c`, UMsg, last close | tree, mappings, pins, `locked_vm`, UMsg registers | UMsg hint mode, the timeout of its enable |
| `AfuDmaProofs` | theorems on `AfuDma` | | |
| `FmePr` | `fme_pr`, the FPGA manager, the PR engine | driver variables, registers, FIFO, what each port was loaded with | port reset around the load (in `PortReset`) |
| `FmePrProofs` | theorems on `FmePr` | | |
| `FeatureIrq` | vectors and eventfds | triggers, handlers, references, the call in progress | |
| `FeatureIrqProofs` | theorems on `FeatureIrq` | | |
| `Enumerate` | probe and removal of the card | as in the code | addresses and sizes: a feature fits or does not |
| `EnumerateProofs` | theorems on `Enumerate` | | |
| `FeatureLife` | a port's device from probe to removal | private data, operations, sysfs files, regions, character device, calls | unbinding with files open |
| `FeatureLifeProofs` | theorems on `FeatureLife` | | |
| `FmeRegs` | sysfs callbacks that read and write back a shared register under `pdata->lock` | the lock, the registers by field, the callback of each task | register layout |
| `FmePerf` | counters of `fme-iperf.c` and `fme-dperf.c` | the event each counter register reports | counter values |
| `FmeMgmt` | thermal and power thresholds | the firmware's `lock_bit` | |
| `FmeError` | clearing of the FME's and the PCIe errors, injection | error, first, next and mask registers | |
| `FmeSysfs` | composes the four, with probe, failed probe and removal of the FME's sub-features | phase, object tree, allocated objects, files that can be opened | the FME's device file (in `PortManage`, `FmePr`, `FeatureIrq`) |
| `FmeSysfsProofs` | theorems on `FmeSysfs` | | |
| `NorFlash` | external: the flash chip | status bits, write enable latch, address mode, programmed units | |
| `NorLock` | `stm_lock`, `stm_unlock`, `stm_is_locked`: pure functions of the status register | | the SRWD bit |
| `SpiNor` | calls of `spi-nor.c` and transfers of `altera-asmip2.c`, scan, probe, removal | the locks, the call of each task and how far it is | SST and S3AN chips, quad mode, id table, several chip selects |
| `SpiNorProofs` | theorems on `SpiNor` | | |

External parts, modelled by what the driver relies on: the acknowledge bit of a port
comes some time after the reset bit and falls with it; errors are latched while
unmasked, the first one also in the first error register unless that has no bit for it,
and a register loses the bits that are written to it; the errors of MMIO during reset
(`mmio_rd_whilerst`, `mmio_wr_whilerst`), which `PORT_ERR_MASK` leaves out, come while the
port is in reset; the PR engine stops on reset, takes words while it has
credits and clears `pr_start_req` when the pushed image is loaded, and it may stall or
stay silent for ever; removing a sysfs file keeps new callbacks out and waits for
those in progress; each counter register reports a newly selected event on its own after
some time or not in time; the flash ignores, without telling, what is sent to it while it is busy,
without the write enable latch or to protected blocks, and programming wraps at the end
of a page.

Composition: `PortManage` implements `PortOwnership` by the refinement mapping at its
end (`OwnershipSpec`). `PortReset` takes from `FmePr` only that a load begins and ends.
`FeatureLife` takes from `PortManage` the exclusive claim. `FmeSysfs` composes `FmePerf`,
`FmeMgmt` and `FmeError`, which share the lock and the registers of `FmeRegs`; `SpiNor`
composes the driver with the chip.

## 3. Runs

| Run | States | What it checks |
|---|---|---|
| `port_reset` | 241,628 | `CountAccounted`, `ResetRespected`, `FirstErrorRecorded`, `ClearOnlyAcknowledged`; `PortLeavesReset` as liveness |
| `port_manage` | 15,200 | `UseCounted`, `VfPortsCounted`, `RefsBalanced`, refinement `OwnershipSpec` |
| `dma` | 212,156 | `BuffersAccounted`, `UmsgBacked`, `FindComplete` |
| `fme_pr` | 282,768 | `StatusIsOwn`, `LoadComplete`; `PrReturns` as liveness |
| `irq` | 21,929 | `EventfdsHeld`, `AllOrNothing`, `QuietWhenClosed` |
| `enumerate` | 354,089 | `IdsBalanced`, `DevicesMatchList` |
| `life` | 1,218 | `ReadyWhenUsed`, `NothingLeft`; `RemovalEnds` as liveness |
| `fme_sysfs` | 440,553 | `StoresKept`, `CountsAsked`, `ErrorsConsistent`, `AttrsBacked`; `TeardownEnds` as liveness |
| `nor` | 489,160 | `Lands`, `Confined`; `NorReturns` as liveness |

Each also checks the `TypeOK` of its module (`ResetTypeOK` in `PortReset`); that of `FmePr` includes that a word of the
FIFO stays free, that of `FeatureIrq` that a block stays within the vectors though
start plus count wraps, that of `AfuDma` that `locked_vm` neither wraps nor, without
`CAP_IPC_LOCK`, exceeds the limit. Three more runs end with a violation, each of a
statement the repository makes:

| Run | Statement | What TLC shows |
|---|---|---|
| `port_reset_timeout` | `FPGA_PORT_RESET`: "Return: 0 on success" | a disable that times out keeps its count, so the next reset returns 0 and leaves the port in reset |
| `port_manage_unbind` | "the port should be unregistered first." | a task that holds the FME file re-assigns a port behind the removal |
| `enumerate_pr` | `WARN_ON(!port)` in `fme_pr` | the FME is usable before its ports are listed |

### What the properties leave out, and why

The following are facts about the code that a property has to make an exception for.
Each was met as a counterexample, and each property is stated so that the exception is
as narrow as the code allows.

- `TeardownEnds` ends in `phase = "unbound"` or in `ErrorDeadlock`: `global_error_uinit`
  removes its sysfs groups with `pdata->lock` held and waits for a callback that waits
  for the lock. The property shows that it is the only way a removal hangs.
- `FirstErrorRecorded` and `ClearOnlyAcknowledged` are about all errors, but the first says
  that an error is in the first error register only if it is inside `PORT_ERR_MASK` and that
  register has it: another may come between the two writes of a clear and is then in the
  error register alone. The comments in `afu-error.c` ("Set PORT Error mask to all 1 to
  mask errors", "Mask all errors") are not true of `PORT_ERR_MASK`, which leaves out the
  errors of MMIO during reset, and `port_err_clear` keeps the port in reset.
- `StatusIsOwn` says of a call that reached the load that without `-EIO` its status is
  zero. Of a call that `fme_pr` refuses earlier it only says that the status is not
  another's: such a call copies back what its caller passed, for instance the code of its
  last `-EIO`, while `intel-fpga.h` says of the status without `-EIO` "Otherwise, it is
  always zero."
- `CountsAsked` is about the register that is polled. `read_cache_counter` waits for "the
  event type in the counter registers" in the first of two registers and adds both; the
  second latches an event on its own and may still count one selected before.
- `ErrorsConsistent` is about errors inside `FME_ERROR0_MASK`. The others are neither
  masked nor cleared by the `clear` attribute.
- `Lands` is about calls that meet an idle chip after a scan without a timeout and that
  met none themselves (`clean`, `sane`). The results of `write_enable` and `set_4byte`
  are ignored and no call waits for a chip that an earlier one left busy; without the
  condition TLC finds a write that reports success and did nothing.
- `Confined` excepts the steps that change `SR_TB`. "Only modify protection if it will
  not unlock other areas" stands in `stm_lock`, "... will not lock other areas" in
  `stm_unlock`, but both compare BP bits and not what BP and TB protect. Without the
  exception TLC finds a lock of the lower half, then one of the upper half that moves the
  protection there: the lower half is unlocked, and both calls return 0. Likewise an
  unlock can lock the other end.
- `Confined` says nothing of what an unlock keeps if what remains is below 1/64 of the
  chip, since the computed bits are then all zero (`Vanishes`); nor `Lands` of a lock or
  unlock whose result the bits cannot express (`LockFits`, `UnlockFits`): `stm_lock`
  rounds the range down and returns 0.
- An erase that does not start at a sector is rounded down (`Asked`): `spi_nor_erase`
  checks the length only.

One more disagreement of the code with itself was met in a part that a passing run
covers: a DMA buffer may be given back by a task that was not charged for it, which trips
`WARN_ON_ONCE(npages > current->mm->locked_vm)` in `dma-region.c`; `TypeOK` shows that
`locked_vm` does not wrap.

### Bounds, and why they are enough

The bounds are those of the runs. The theorems of section 4 do without them: they hold
for any number of tasks, ports, errors, vectors, events, regions, headers and calls,
and for any geometry of the flash. Only the liveness properties rest on the bounds alone.

- `PortReset`: two tasks; three errors, an ordinary one, one that cannot be masked and one
  that the first error register does not have; at most two timed-out disables
  (`MaxLeaked`). Two tasks give every pair of nested operations, which is what the
  count is about; the theorems do without the bound on tasks and errors. Timeouts past
  the first only raise the leaked count.
- `PortManage`: three ports, so that some can be released, some given to VFs and some
  open at once; two ioctl tasks and the administrator; two open files per port
  (`MaxFds`), which tells shared from exclusive opens. `UnbindWhileOpen` is FALSE in
  the passing run: with the FME file open, unbinding breaks `UnregisteredFirst`, which
  is the run `port_manage_unbind`.
- `AfuDma`: two tasks, three pages, buffers of one or two pages, two regions. Two
  regions keep the tree's shape that of a sequence; three disjoint ones would add
  rotations, which do not change a search by disjoint ranges. `LockLimit` 3 lets
  charging fail; one task has `CAP_IPC_LOCK` and exceeds it, up to `MaxLocked`, which
  two regions do not reach; `MaxLost` bounds the pages a partly failed pin loses. `Iommu` is TRUE
  in `dma`: device addresses are disjoint. With FALSE, `FindComplete` does not hold,
  since a page in two buffers gives overlapping regions and the descent by start
  address can pass by the one wanted.
- `FmePr`: two tasks, two ports, sizes below `Width` 6 with words of 2 bytes, so that
  sizes are empty, partial, exact, and wrap in the alignment; a FIFO of 2; one poll
  for credits before the timeout (`MaxDelay`).
- `FeatureIrq`: three vectors, two eventfds, numbers modulo `Width` 5, so that start
  plus count wraps; two open files.
- `Enumerate`: walks of at most five headers (`MaxSeen`) over BAR 0 and two ports, one
  known private feature and one unknown. Five headers hold an FME, two ports, and a
  feature and an AFU in any place among them, or two FMEs. Removal leads to a new
  probe with the static tables as the last one left them.
- `FeatureLife`: two tasks, a port with four of the six sub-features, which have
  between them every combination of region, sysfs files and ioctl that matters: `hdr`
  and `err` have sysfs files and an ioctl, `uafu` a region and sysfs files, `stp` a
  region only.
- `FmeSysfs`: two tasks and two callbacks in a behaviour (`MaxOps`): a lost store, a count
  under a changed selection and a freed object each take two. `Slices` says which
  directories and error registers one behaviour uses: those that share a register, and
  the errors with a counter, which share only the lock. Callbacks of two other
  directories have no state in common but the lock. Two events per unit; three errors,
  one that is masked by default, one that is not and one that cannot be; two errors
  (`MaxErrors`) per behaviour on the register that has a first and a next error.
- `SpiNor`: 256 units, since the smallest protectable block is 1/64 of the chip and must
  be more than one unit; pages of 2, sectors of 64, a FIFO of 4, so that writes cross pages
  and erases have several sectors; calls at both ends, unaligned, on the whole chip, and
  ranges that the BP bits can and cannot express. Two calls (`MaxOps`): one finds what
  the other left. One transfer that times out (`MaxTimeouts`). Six chips, one for
  each path of the scan: a big Micron chip without chip erase, one with `SR_TB`, one with
  lock bits only, one of a maker whose chips power up locked, and big ones with and without
  opcodes that take four address bytes.

`CHECK_DEADLOCK FALSE` stands where the system may stop: `PortManage` ends when the
driver is unbound, a walk of `Enumerate` stops at the bound on headers, and `FmeSysfs`
stops in the deadlock of `global_error_uinit`.

### Fairness

- `PortReset`: weak fairness of each task inside the driver and of the hardware's
  acknowledge. Strong fairness of `PrEnd`: the enable after a load waits for the port's
  mutex while others keep taking it, and a kernel mutex hands itself over to a waiter
  that has been passed by. `PortLeavesReset` assumes that no poll times out; the
  run `port_reset_timeout` is about the case that one does.
- `FmePr`: weak fairness of a task inside the call, none of the engine: each of the
  driver's waits counts its polls.
- `FeatureLife`: weak fairness of probe and removal and of calls that have begun. No
  task has to begin, end its use or close a file.
- `FmeSysfs`: weak fairness of probe and removal and of each callback that has begun; none
  of the hardware, as the poll of a counter ends by its timeout. A free mutex is got by
  each of the finitely many callbacks that wait.
- `SpiNor`: weak fairness of a task inside a call, none of the chip or the controller.

## 4. Proofs

Each `...Proofs` module proves the invariants and action properties of its run for every
value of the constants that the named assumptions of the model allow, by one inductive
invariant `IndInv` (`ResetInv` for `PortReset`): it holds initially, every action keeps
it (one case per action), and it implies each property. TLC checked it on the run's
instance before it was proved.

| Module | Theorems (property) | Assumptions |
|---|---|---|
| `PortProofs`, on `PortReset` | `ResetTypeCorrect` (`ResetTypeOK`), `CountIsAccounted` (`CountAccounted`), `ResetExcludesMmio` (`ResetRespected`), `ErrorsRecorded` (`FirstErrorRecorded`), `ClearsAcknowledged` (`ClearOnlyAcknowledged`, an action property), and `ResetInvariance` of `ResetInv` | finitely many tasks, the value of a free lock is none of them, `MaxLeaked` natural; `PORT_ERR_MASK` and `FirstErrors` are any sets of errors |
| `PortProofs`, on `PortManage` | `ManageTypeOK`, `ManageUseCounted`, `ManageVfPorts` (`VfPortsCounted`), `ManageRefs` (`RefsBalanced`), `ManageUnregisteredFirst`, `ManageOwnership` (`OwnershipSpec`, a refinement) | finitely many ports; no task is the administrator or the value of a free lock; `UnbindWhileOpen = FALSE` |
| `AfuDmaProofs` | `DmaTypeOK`, `DmaBuffersAccounted`, `DmaUmsgBacked`, `DmaFindComplete` | finitely many tasks, any of them with `CAP_IPC_LOCK`, natural bounds, `Iommu = TRUE` |
| `FmePrProofs` | `PrTypeOK`, `PrStatusIsOwn`, `PrLoadComplete` (an action property) | `PrAssumption`: words, credits and the width are not zero, the width is a multiple of a word |
| `FeatureIrqProofs` | `IrqTypeOK`, `IrqEventfdsHeld`, `IrqAllOrNothing`, `IrqQuietWhenClosed` | `IrqAssumption`: the vectors fit the width |
| `FeatureLifeProofs` | `LifeTypeOK`, `LifeReadyWhenUsed`, `LifeNothingLeft` | the port has some of the six sub-features |
| `FmeSysfsProofs` | `SysfsTypeOK`, `SysfsStoresKept`, `SysfsCountsAsked`, `SysfsErrorsConsistent`, `SysfsAttrsBacked` | the remover and the value of a free lock are no tasks; event 0 exists; the errors masked by default can be masked |
| `EnumerateProofs` | `EnumTypeOK`, `EnumIdsBalanced`, `EnumDevicesMatchList` | natural bounds; `uafu` is not the id of a private feature |
| `SpiNorProofs` | `NorTypeOK`, `NorLands`, `NorConfined` (`Confined`, an action property), and `NorInvariance` of `IndInv` | a flash of at least 64 units, their number a power of two that pages and sectors divide; a FIFO that is not empty; ranges within the flash, as the MTD core ensures; `SR_TB` only with `HAS_LOCK` and on no Micron chip, opcodes with four address bytes only on big chips; natural bounds |

Two of these are conditions on the platform and not on the sizes. `UnbindWhileOpen =
FALSE`: unbinding while the FME file is open really breaks the properties, as the run
`port_manage_unbind` shows, so the theorems say what holds as long as it does not
happen. `Iommu = TRUE`: device addresses are then disjoint, which is what the search by
address relies on.

### Why each invariant is needed

None of the properties is inductive alone.

**`PortReset`.** `LockInv`: the owner of the port's lock is the task in a locked section,
so there is at most one. `ResetBitTracksCount`: the reset bit is set exactly while the
count is not zero; with `CountAccounted` it says that a task that loads, being a holder,
keeps the bit set. `ReadInv`: the count is zero while the AFU's id is read; it needs
`LockInv`, as a disable could otherwise come in between. `ErrorInv`: the errors of
`PORT_ERR_MASK` are masked from `ClearMask` to the end of a clear, so that after the
comparison the register holds what the user wrote and otherwise only errors that cannot be
masked, and both registers agree outside the two
writes; it needs `LockInv` too, since a second clear would unmask under the first. The
lemmas on `Holders` say how their number changes when one task moves.

**`PortManage`.** `TaskInv` says who holds `drvdata->lock` and what it has done so far,
and that a working task keeps the FME open, so the driver stays bound under it. `VfInv`
counts the virtual functions' ports and `released_port_num`, which is off by one while
`attach_port_dev` has added the device and not yet decremented the counter. `ListInv`:
only the last step of unbinding empties the list. The refinement follows the mapping at
the end of `PortManage`: an initial state maps to one, `OwnershipStutter` covers the steps that
change no owner, user or binding, and the remaining actions each map to one action of
`PortOwnership`; that a released port is unused, which the abstract step asks for, comes
from the invariant.

**`AfuDma`.** `pins` is a sum of lengths over the tree and over the calls in progress.
A sum over a set would need induction, so it is stated as the cardinality of the set of
pairs of a region and a page number, about which `FiniteSetTheorems` knows enough
(`PinInv`). `HoldInv`: the region of a call that holds a mapping is in no other place,
so freeing it frees it once. `MapInv`: mapped ranges are disjoint, from which the search
by start address cannot pass by the region wanted, whatever the shape of the tree.
`UmsgInv`: the UMsg address lies in a region marked `in_use`, which `unmap` refuses.

**`FmePr`.** `EngineInv` says what a reset leaves in the engine, and `LoadInv` that from
then on the words loaded and those in the FIFO are a prefix of this call's image.
Without the first, a late word of a call that timed out would be part of the next image.

**`FeatureIrq`.** `HandlerInv`: a requested handler signals the trigger of its vector,
except for the vector in the middle of a change. `RefInv` counts the references of an
eventfd. `BlockInv` says how far a block is set or undone; the vector where it failed
separates old from new. `CallInv` has the bound on start plus count, modulo the width.

**`FeatureLife`.** `PositionInv` places the sub-features around the position of probe and
removal; `ClaimInv` says that the claim of `detach_port_dev` keeps the file closed from
there to the end of `attach_port_dev`, so that no ioctl meets the removal; `TaskInv` that
a callback's sub-feature has its files, or its removal waits for the callback.

**`FmeSysfs`.** `CallInv`: a callback past `mutex_lock` holds the lock and its object is
allocated. `HeldInv`: what the holder has read of a register is still true of it when it
writes back, which is `StoresKept` one step early, and the selected event stays while
the counter is polled. `ClearInv` and `ErrInv`: errors stay masked during a clear, so
that none comes after the comparison. `PhaseInv`, `MadeInv`, `MemInv`: the
directories are those of the initialised sub-features and a prefix of the current one's,
and all but the one that waits for its callbacks can be opened.

**`Enumerate`.** `IdInv`: the ids are the keys of the known devices and of the one being
built, which is none of them; `ListInv` makes keys distinct, and with the pigeonhole
principle gives that the id found is free (`FreeIdIsFree`). `BuildInv`: while the walk
goes on there is no known FME if one is being built, so a commit never overwrites
`fme_dev` and loses its id, and the size left in the static table belongs to the port
being built. `WalkInv`: the device being built is that of the last header that starts
one, has the features found since, and the others match the rest of the list. Its three
lemmas say what one more header changes (`EarlierFeatures`, `LastFeatures`,
`NewFeatures`), so the list need not be taken apart by induction.

**`SpiNor`.** `ExclusionInv`: a call past `nor->lock` holds it, so only its own commands
make the chip busy or change its protection. `ScanInv`: an undisturbed scan leaves the
chip in the address mode the driver uses, without which every address would be another.
`CallInv` says of the call in progress what the chip is like at each of its places:
`ChipInv` that the chip is idle, and its latch set, when the next command needs it;
`WriteInv`, `EraseInv` and `ReadInv` that the units up to the progress counter are done
and the next transfer stays within a page, a sector or the FIFO; `ProtectInv` that the
status to be written is the one `stm_lock` or `stm_unlock` computes from what the chip
has. The invariant also holds for calls whose transfers time out (`clean` is then FALSE),
which is why `NorConfined` needs no such condition and `NorLands` does.

The protected range is a power of two of the chip's size. `pow2` is a recursive
function, and the library's induction theorems are out of reach of the provers; so
what it needs (`Pow2Def` to `Blocks`) is derived from the least number for which it fails,
which `LeastMember` gives for every set of naturals. With that, `Ilog2` and `OrderBase2`
are exact on expressible lengths (`LogsExact`), and `StmLock` and `StmUnlock` say what the
new BP bits protect for every range.

### What stays with TLC

- Liveness (`PortLeavesReset`, `PrReturns`, `RemovalEnds`, `TeardownEnds`, `NorReturns`):
  the prover knows neither fairness nor `ENABLED`.
- The three statements that are violated.

## 5. Not modelled

- `fme-perf.c`, which the Makefile does not compile; `fme-iperf.c` took its place.
- In `spi-nor.c`: byte and word writes of SST chips, the addressing of S3AN chips, quad
  mode and the table of chip ids. The FME's flash uses none of them. BRWR, with which
  some makers switch the address mode, is one with EN4B, the flag status register of
  `USE_FSR` one with the busy bit, and the SRWD bit of the status is left out: `stm_lock`
  may write a status again that differs in nothing else, which protects the same. In
  `altera-asmip2.c`: several chip selects, as the FME has one, and removal while the MTD
  device is in use, where `altera_asmip2_remove` destroys its mutex first and the
  refusal of `mtd_device_unregister` is lost on the platform bus.
- The reference that `device_find_child` takes in `qspi_flash_uinit` and nobody puts.
- Lookup of MMIO regions in `mmap`: it reads a list and changes nothing. The sum
  `offset + size` it compares may wrap in 64 bits (`hazards`).
- UMsg's hint mode and the handshake of its enable, of which the driver keeps no state.
- Scatter-gather and firmware loading of the FPGA manager, which have no caller here.
- A file that stays open when the PCIe driver is unbound, after its device is gone: the
  code then uses freed memory, and no line says what it should do.
- Backports and uuid helpers are copies of kernel code; the self tests compare register
  values and log.
- Formatting of sysfs values, logging, and the layout of registers.
- Memory ordering: register accesses take effect in program order.
- Two cards that probe at once and share the static feature tables.

## 6. Plan

Done: `PortReset`, `PortManage` with `PortOwnership`, `AfuDma`, `FmePr`, `FeatureIrq`,
`Enumerate`, `FeatureLife` and the FME's sysfs files (`FmeRegs`, `FmePerf`, `FmeMgmt`,
`FmeError`, `FmeSysfs`), and the flash (`NorFlash`, `NorLock`, `SpiNor`), each with its
proofs.

Next:

- Action properties from the invariants at hand: which steps may take a device off the
  bus (`Enumerate`), or a page from the device (`AfuDma`).
