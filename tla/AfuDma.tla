------------------------------- MODULE AfuDma -------------------------------
(***************************************************************************)
(* The DMA buffers of a port and its UMsg engine (dma-region.c and the     *)
(* UMsg feature of afu.c), up to the last close of the device file.        *)
(*                                                                         *)
(* Each task has its own open file of the port.  FPGA_PORT_DMA_MAP pins    *)
(* user pages, maps them for the device and adds a region to the port's    *)
(* tree; only the last of these steps holds pdata->lock.                   *)
(* FPGA_PORT_DMA_UNMAP removes the region from the tree under the lock and *)
(* undoes the rest without it.  The UMsg ioctls and the release of the     *)
(* file run under the lock from end to end.                                *)
(*                                                                         *)
(* Addresses are page numbers.  The red-black tree is kept as the sequence *)
(* of its regions in the order they were added: with at most two regions   *)
(* the tree never rotates and the first region is its root, and for        *)
(* disjoint regions the shape does not matter.                             *)
(***************************************************************************)
EXTENDS Naturals, FiniteSets, Sequences, SequencesExt

CONSTANTS Threads,
          Privileged,   \* those that are capable(CAP_IPC_LOCK)
          MaxPage,      \* device addresses are the pages 1..MaxPage
          MaxLen,       \* longest buffer, in pages
          MaxRegions,   \* bound on the regions of the tree
          NumUmsgs,     \* afu->num_umsgs, the pages the UMsg engine uses
          LockLimit,    \* RLIMIT_MEMLOCK in pages
          MaxLocked,    \* bound on locked_vm, for tasks without a limit
          MaxLost,      \* bound on the pages lost by partial pinning
          Iommu         \* TRUE: the IOMMU hands out disjoint device addresses

ASSUME BoundsAssumption ==
  /\ {MaxPage, MaxLen, MaxRegions, NumUmsgs, LockLimit, MaxLocked,
      MaxLost} \subseteq Nat
  /\ Iommu \in BOOLEAN
  /\ IsFiniteSet(Threads) /\ Privileged \subseteq Threads

VARIABLES
  files,        \* tasks that have the port open
  pc, reg,      \* where each task is, and the region it works on
  dma_regions,  \* afu->dma_regions
  in_use,       \* iovas of the regions marked in_use
  maps,         \* ranges the device can reach
  pins,         \* pages pinned by get_user_pages_fast and not yet put
  lost,         \* pages pinned by a call that failed half way
  locked_vm,    \* mm->locked_vm of each task
  umsg_enable, base_addr  \* registers of the UMsg engine

dmaVars == <<dma_regions, in_use, maps, pins, lost, locked_vm>>
umsgVars == <<umsg_enable, base_addr>>
vars == <<files, pc, reg, dmaVars, umsgVars>>

Pages == 1..MaxPage
RegionType == [iova : 0..MaxPage, length : 1..MaxLen]
NoRegion == [iova |-> 0, length |-> 0]

\* In particular locked_vm never wraps below zero, and exceeds the limit for
\* tasks that may exceed it only.
TypeOK ==
  /\ files \subseteq Threads
  /\ pc \in [Threads -> {"idle", "pinned", "mapped", "copy", "removed"}]
  /\ reg \in [Threads -> RegionType \cup {NoRegion}]
  /\ dma_regions \in Seq(RegionType) /\ Len(dma_regions) <= MaxRegions
  /\ in_use \subseteq Pages
  /\ maps \subseteq RegionType
  /\ pins \in Nat /\ lost \in Nat
  /\ locked_vm \in [Threads -> Nat]
  /\ \A t \in Threads \ Privileged : locked_vm[t] <= LockLimit
  /\ umsg_enable \in {0, 1}
  /\ base_addr \in 0..MaxPage

Init ==
  /\ files = {}
  /\ pc = [t \in Threads |-> "idle"]
  /\ reg = [t \in Threads |-> NoRegion]
  /\ dma_regions = <<>>
  /\ in_use = {}
  /\ maps = {}
  /\ pins = 0 /\ lost = 0
  /\ locked_vm = [t \in Threads |-> 0]
  /\ umsg_enable = 0 /\ base_addr = 0

-----------------------------------------------------------------------------
(* The region tree.                                                        *)

\* Mutant: a range that ends where the region does is refused.
check_iova_strict(r, iova, size) ==
  /\ size = 0 => r.iova = iova
  /\ r.iova <= iova
  /\ r.iova + r.length > iova + size

dma_region_check_iova(r, iova, size) ==
  /\ size = 0 => r.iova = iova
  /\ r.iova <= iova
  /\ r.iova + r.length >= iova + size

\* The i-th region is compared with the key iova when none that was added
\* before it sends the search to the other side.
OnPath(i, iova) ==
  \A j \in 1..(i - 1) :
    LET this == dma_regions[i].iova
        other == dma_regions[j].iova
    IN  (iova < other /\ this < other) \/ (iova > other /\ this > other)

\* The positions afu_dma_region_find returns: the first match on the path.
Found(iova, size) ==
  {i \in DOMAIN dma_regions :
     /\ OnPath(i, iova)
     /\ dma_region_check_iova(dma_regions[i], iova, size)
     /\ \A j \in 1..(i - 1) :
          ~(OnPath(j, iova) /\ dma_region_check_iova(dma_regions[j], iova, size))}

\* afu_dma_region_add refuses a region that one on its path contains, or that
\* has the same start.
Addable(r) ==
  ~ \E i \in DOMAIN dma_regions :
      /\ OnPath(i, r.iova)
      /\ \/ dma_region_check_iova(dma_regions[i], r.iova, r.length)
         \/ dma_regions[i].iova = r.iova

Least(a, b) == IF a < b THEN a ELSE b

\* Mutant: the pages are subtracted without looking.
UnchargeAll(t, n) == locked_vm' = [locked_vm EXCEPT ![t] = @ - n]

\* afu_dma_adjust_locked_vm(..., false) never goes below zero.
Uncharge(t, n) == locked_vm' = [locked_vm EXCEPT ![t] = @ - Least(n, @)]

-----------------------------------------------------------------------------
Open(t) ==
  /\ t \notin files
  /\ files' = files \cup {t}
  /\ UNCHANGED <<pc, reg, dmaVars, umsgVars>>

Idle(t) == t \in files /\ pc[t] = "idle"

Step(t, to, r) ==
  /\ pc' = [pc EXCEPT ![t] = to]
  /\ reg' = [reg EXCEPT ![t] = r]

\* afu_dma_adjust_locked_vm(..., true) does not refuse n more pages.
Chargeable(t, n) == t \in Privileged \/ locked_vm[t] + n <= LockLimit

\* FPGA_PORT_DMA_MAP of len pages: afu_dma_pin_pages.
PinPages(t, len) ==
  /\ Idle(t)
  /\ Chargeable(t, len) /\ locked_vm[t] + len <= MaxLocked
  /\ Len(dma_regions) + Cardinality({u \in Threads : pc[u] \in {"pinned", "mapped"}})
       < MaxRegions
  /\ locked_vm' = [locked_vm EXCEPT ![t] = @ + len]
  /\ pins' = pins + len
  /\ Step(t, "pinned", [iova |-> 0, length |-> len])
  /\ UNCHANGED <<files, dma_regions, in_use, maps, lost, umsgVars>>

\* get_user_pages_fast pins only n of the pages: the charge is taken back and
\* the call fails, but the n pages are not put.
PinPagesPartly(t, len, n) ==
  /\ Idle(t)
  /\ Chargeable(t, len)
  /\ n < len /\ lost + n <= MaxLost
  /\ pins' = pins + n
  /\ lost' = lost + n
  /\ UNCHANGED <<files, pc, reg, dma_regions, in_use, maps, locked_vm, umsgVars>>

UnpinPages(t, r) ==
  /\ pins' = pins - r.length
  /\ Uncharge(t, r.length)

\* Mutant: the pages stay pinned.
MapFailsPinned(t) ==
  /\ pc[t] = "pinned"
  /\ Uncharge(t, reg[t].length)
  /\ Step(t, "idle", NoRegion)
  /\ UNCHANGED <<files, dma_regions, in_use, maps, pins, lost, umsgVars>>

\* The pages are not contiguous, or dma_map_page fails.
MapFails(t) ==
  /\ pc[t] = "pinned"
  /\ UnpinPages(t, reg[t])
  /\ Step(t, "idle", NoRegion)
  /\ UNCHANGED <<files, dma_regions, in_use, maps, lost, umsgVars>>

Overlap(r, s) == r.iova < s.iova + s.length /\ s.iova < r.iova + r.length

\* dma_map_page: an IOMMU returns any free range; without one the device
\* address is the physical address of the pages, and the pages may be part of
\* another buffer too.
MapPage(t, iova) ==
  /\ pc[t] = "pinned"
  /\ LET r == [reg[t] EXCEPT !.iova = iova]
     IN  /\ iova + r.length <= MaxPage + 1
         /\ Iommu => \A s \in maps : ~Overlap(r, s)
         /\ maps' = maps \cup {r}
         /\ Step(t, "mapped", r)
  /\ UNCHANGED <<files, dma_regions, in_use, pins, lost, locked_vm, umsgVars>>

\* The region is added to the tree; if it cannot be, all is undone.
RegionAdd(t) ==
  /\ pc[t] = "mapped"
  /\ IF Addable(reg[t])
     THEN /\ dma_regions' = Append(dma_regions, reg[t])
          /\ Step(t, "copy", reg[t])
          /\ UNCHANGED <<maps, pins, locked_vm>>
     ELSE /\ maps' = maps \ {reg[t]}
          /\ UnpinPages(t, reg[t])
          /\ Step(t, "idle", NoRegion)
          /\ UNCHANGED dma_regions
  /\ UNCHANGED <<files, in_use, lost, umsgVars>>

\* The device address is copied to the user.
CopyToUser(t) ==
  /\ pc[t] = "copy"
  /\ Step(t, "idle", NoRegion)
  /\ UNCHANGED <<files, dmaVars, umsgVars>>

\* Mutant: a region that the UMsg engine uses is removed all the same.
RemovableInUse(iova) == Found(iova, 0)

\* The region afu_dma_unmap_region removes: the one that starts at iova, if
\* there is one and it is not in use.
Removable(iova) == {i \in Found(iova, 0) : dma_regions[i].iova \notin in_use}

\* The locked part of afu_dma_unmap_region.
RegionRemove(t, iova) ==
  \E i \in Removable(iova) :
    /\ dma_regions' = RemoveAt(dma_regions, i)
    /\ Step(t, "removed", dma_regions[i])

UnmapRegion(t, iova) ==
  /\ Idle(t)
  /\ RegionRemove(t, iova)
  /\ UNCHANGED <<files, in_use, maps, pins, lost, locked_vm, umsgVars>>

\* The copy to the user fails: the region is looked up again and unmapped.
CopyFails(t) ==
  /\ pc[t] = "copy"
  /\ \/ RegionRemove(t, reg[t].iova)
     \/ /\ Removable(reg[t].iova) = {}
        /\ Step(t, "idle", NoRegion)
        /\ UNCHANGED dma_regions
  /\ UNCHANGED <<files, in_use, maps, pins, lost, locked_vm, umsgVars>>

\* The rest of it, without the lock.
UnmapEnd(t) ==
  /\ pc[t] = "removed"
  /\ maps' = maps \ {reg[t]}
  /\ UnpinPages(t, reg[t])
  /\ Step(t, "idle", NoRegion)
  /\ UNCHANGED <<files, dma_regions, in_use, lost, umsgVars>>

-----------------------------------------------------------------------------
(* The UMsg engine.                                                        *)

\* afu_port_umsg_enable: needs a base address.
UmsgEnable(t, enable) ==
  /\ Idle(t)
  /\ enable = 1 => base_addr # 0
  /\ umsg_enable' = enable
  /\ UNCHANGED <<files, pc, reg, dmaVars, base_addr>>

\* afu_port_umsg_set_addr with an address: only while the engine is off, and
\* only inside a region of the tree, which is marked in use.
UmsgSetAddr(t, iova) ==
  /\ Idle(t)
  /\ umsg_enable = 0
  /\ \E i \in Found(iova, NumUmsgs) :
       /\ base_addr' = iova
       /\ in_use' = in_use \cup {dma_regions[i].iova}
  /\ UNCHANGED <<files, pc, reg, dma_regions, maps, pins, lost, locked_vm,
                 umsg_enable>>

\* afu_port_umsg_set_addr(0): the region of the current address is unmarked.
\* Result: the new base address and the new marks.
AddrCleared ==
  LET f == Found(base_addr, NumUmsgs)
  IN  IF base_addr = 0 \/ f = {}
      THEN [base |-> base_addr, used |-> in_use]
      ELSE [base |-> 0, used |-> in_use \ {dma_regions[i].iova : i \in f}]

UmsgClearAddr(t) ==
  /\ Idle(t)
  /\ umsg_enable = 0
  /\ base_addr' = AddrCleared.base
  /\ in_use' = AddrCleared.used
  /\ UNCHANGED <<files, pc, reg, dma_regions, maps, pins, lost, locked_vm,
                 umsg_enable>>

-----------------------------------------------------------------------------
Regions == {dma_regions[i] : i \in DOMAIN dma_regions}

\* Number of pages of a set of regions.
PageCount(S) == Cardinality({x \in S \X (1..MaxLen) : x[2] <= x[1].length})

\* afu_dma_region_destroy.
RegionDestroy ==
  /\ dma_regions' = <<>>
  /\ maps' = maps \ Regions
  /\ pins' = pins - PageCount(Regions)

\* What the last close gives back to locked_vm; a task that is exiting has no
\* mm left, and a later task starts with an empty one.
Refund(t, n) ==
  \/ Uncharge(t, n)
  \/ locked_vm' = [locked_vm EXCEPT ![t] = 0]

\* afu_release: the last close halts the UMsg engine (the port reset that
\* follows is in PortReset) and destroys every region, marks included.
Release(t) ==
  /\ Idle(t)
  /\ files' = files \ {t}
  /\ IF files = {t}
     THEN /\ umsg_enable' = 0
          /\ base_addr' = AddrCleared.base
          /\ in_use' = {}
          /\ RegionDestroy
          /\ Refund(t, PageCount(Regions))
     ELSE /\ Refund(t, 0)
          /\ UNCHANGED <<dma_regions, in_use, maps, pins, umsgVars>>
  /\ UNCHANGED <<pc, reg, lost>>

Next ==
  \E t \in Threads :
    \/ Open(t) \/ Release(t)
    \/ \E len \in 1..MaxLen : PinPages(t, len)
    \/ \E len, n \in 1..MaxLen : PinPagesPartly(t, len, n)
    \/ MapFails(t)
    \/ \E iova \in Pages : MapPage(t, iova)
    \/ RegionAdd(t) \/ CopyToUser(t) \/ CopyFails(t)
    \/ \E iova \in Pages : UnmapRegion(t, iova)
    \/ UnmapEnd(t)
    \/ \E enable \in {0, 1} : UmsgEnable(t, enable)
    \/ \E iova \in Pages : UmsgSetAddr(t, iova)
    \/ UmsgClearAddr(t)

Spec == Init /\ [][Next]_vars

-----------------------------------------------------------------------------
(* Properties.                                                             *)

InFlight(S) == {t \in Threads : pc[t] \in S}

\* Every pinned page belongs to a region of the tree, to a map or unmap call
\* in progress, or was lost by afu_dma_pin_pages itself when
\* get_user_pages_fast pinned only part of the buffer: no other error path and
\* no interleaving of map, unmap and close drops or doubles a put_page.  What
\* the device can reach is exactly the buffers of the tree and of calls in
\* progress: no mapping outlives its pages and no region of the tree has lost
\* its mapping.
BuffersAccounted ==
  /\ pins = lost + PageCount(Regions)
              + Cardinality({x \in InFlight({"pinned", "mapped", "removed"})
                               \X (1..MaxLen) : x[2] <= reg[x[1]].length})
  /\ maps = Regions \cup {reg[t] : t \in InFlight({"mapped", "removed"})}

\* The UMsg engine never runs without a base address, and its base address
\* always lies in a mapped buffer that no FPGA_PORT_DMA_UNMAP can take away
\* (the in_use mark of afu_port_umsg_set_addr).  After the last close of the port
\* nothing is left to the device: the engine is off and has no address, no
\* buffer is mapped and no page is pinned, but for those lost by partial pinning.
UmsgBacked ==
  /\ umsg_enable = 1 => base_addr # 0
  /\ base_addr # 0 =>
       \E r \in Regions \cap maps :
         /\ r.iova <= base_addr /\ base_addr + NumUmsgs <= r.iova + r.length
         /\ r.iova \in in_use
  /\ files = {} => /\ umsg_enable = 0 /\ base_addr = 0
                   /\ dma_regions = <<>> /\ maps = {} /\ in_use = {}
                   /\ pins = lost

\* What the comment on afu_dma_region_find promises: it finds the region that
\* starts at the address, for size 0, and otherwise a region that contains the
\* range, whenever the tree has one.
FindComplete ==
  \A iova \in Pages, size \in 0..MaxLen :
    LET wanted == {r \in Regions :
                     IF size = 0 THEN r.iova = iova
                     ELSE (iova..(iova + size - 1))
                            \subseteq (r.iova..(r.iova + r.length - 1))}
    IN  /\ wanted # {} => Found(iova, size) # {}
        /\ \A i \in Found(iova, size) : dma_regions[i] \in wanted
=============================================================================
