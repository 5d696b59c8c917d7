---------------------------- MODULE AfuDmaProofs ----------------------------
(***************************************************************************)
(* Proofs about AfuDma, for any tasks, addresses, lengths and limits and   *)
(* any number of regions, on a platform whose IOMMU hands out disjoint     *)
(* device addresses.  Without one two buffers may share pages and          *)
(* afu_dma_region_find may miss a region.                                  *)
(***************************************************************************)
EXTENDS AfuDma, FiniteSetTheorems, SequenceTheorems, TLAPS

-----------------------------------------------------------------------------
(* The inductive invariant.                                                *)

\* The calls that may still add a region, those that hold a mapping of their own,
\* and those that hold pages.
Adding == InFlight({"pinned", "mapped"})
Holding == InFlight({"mapped", "removed"})
Pinning == InFlight({"pinned", "mapped", "removed"})

\* The pages of the members of T, of which each a has f[a].
PageSet(T, f) == {x \in T \X (1..MaxLen) : x[2] <= f[x[1]]}

\* The pages of the regions in the tree, and of the calls in progress.
Lengths == [r \in RegionType |-> r.length]
TreePages == Cardinality(PageSet(Regions, Lengths))
CallLengths == [t \in Threads |-> reg[t].length]
CallPages == Cardinality(PageSet(Pinning, CallLengths))

Distinct(s) == \A i, j \in DOMAIN s : s[i] = s[j] => i = j

\* Only tasks with CAP_IPC_LOCK exceed the limit on locked memory.
LockedOK ==
  /\ locked_vm \in [Threads -> Nat]
  /\ \A t \in Threads \ Privileged : locked_vm[t] <= LockLimit

\* Everything but the number of pinned pages has its type.
VarsOK ==
  /\ files \subseteq Threads
  /\ pc \in [Threads -> {"idle", "pinned", "mapped", "copy", "removed"}]
  /\ reg \in [Threads -> RegionType \cup {NoRegion}]
  /\ dma_regions \in Seq(RegionType)
  /\ in_use \subseteq Pages
  /\ maps \subseteq RegionType
  /\ lost \in Nat
  /\ LockedOK
  /\ umsg_enable \in {0, 1}
  /\ base_addr \in 0..MaxPage

\* A call in progress has a region and keeps its file open.
CallInv == \A t \in Threads : pc[t] # "idle" => t \in files /\ reg[t] \in RegionType

\* The region of a call that holds a mapping is not in the tree and not another
\* call's.
HoldInv ==
  \A t \in Holding :
    reg[t] \notin Regions /\ \A u \in Holding : reg[t] = reg[u] => t = u

\* No region is in the tree twice, and the bound on the regions leaves room for
\* the calls that may add one.
TreeInv ==
  /\ Distinct(dma_regions)
  /\ Len(dma_regions) + Cardinality(Adding) <= MaxRegions

\* The ranges the device can reach are those of the tree and of the calls in
\* progress; they start at real addresses and are disjoint.
MapInv ==
  /\ maps = Regions \cup {reg[t] : t \in Holding}
  /\ \A r \in maps : r.iova \in Pages
  /\ \A r, s \in maps : Overlap(r, s) => r = s

\* The UMsg base address lies in a region of the tree that is marked.
UmsgInv ==
  /\ umsg_enable = 1 => base_addr # 0
  /\ base_addr # 0 =>
       \E r \in Regions : dma_region_check_iova(r, base_addr, NumUmsgs) /\ r.iova \in in_use
  /\ files = {} => base_addr = 0 /\ dma_regions = <<>> /\ in_use = {}

PinInv == pins = lost + TreePages + CallPages

IndInv == VarsOK /\ CallInv /\ HoldInv /\ TreeInv /\ MapInv /\ UmsgInv /\ PinInv

-----------------------------------------------------------------------------
(* Counting pages.                                                         *)

\* The size of an interval and of a disjoint union.
LEMMA IntervalSize ==
  ASSUME NEW n \in Nat
  PROVE  IsFiniteSet(1..n) /\ Cardinality(1..n) = n
  <1>1. 1 \in Int /\ n \in Int
    OBVIOUS
  <1>2. IsFiniteSet(1..n) /\ Cardinality(1..n) = IF 1 > n THEN 0 ELSE n - 1 + 1
    BY <1>1, FS_Interval
  <1> QED BY <1>2

\* The size of two disjoint finite sets.
LEMMA DisjointSize ==
  ASSUME NEW S, NEW T, IsFiniteSet(S), IsFiniteSet(T), S \cap T = {}
  PROVE  IsFiniteSet(S \cup T) /\ Cardinality(S \cup T) = Cardinality(S) + Cardinality(T)
  <1>1. Cardinality(S \cap T) = 0
    <2>1. Cardinality({}) = 0
      BY FS_EmptySet
    <2> QED BY <2>1, Zenon
  <1>2. /\ IsFiniteSet(S \cup T)
        /\ Cardinality(S \cup T) = Cardinality(S) + Cardinality(T) - Cardinality(S \cap T)
    BY FS_Union, Zenon
  <1>3. Cardinality(S) \in Nat /\ Cardinality(T) \in Nat
    BY FS_CardinalityType
  <1> QED BY <1>1, <1>2, <1>3

\* Nobody has no pages; one more owner a has f[a] pages more.
LEMMA NoPages ==
  ASSUME NEW f
  PROVE  IsFiniteSet(PageSet({}, f)) /\ Cardinality(PageSet({}, f)) = 0
  <1>1. PageSet({}, f) = {}
    BY DEF PageSet
  <1> QED BY <1>1, FS_EmptySet

\* One member has as many pages as its length.
LEMMA OwnPages ==
  ASSUME NEW a, NEW f, f[a] \in 0..MaxLen
  PROVE  IsFiniteSet(PageSet({a}, f)) /\ Cardinality(PageSet({a}, f)) = f[a]
  <1> DEFINE I == 1..f[a]
             P == PageSet({a}, f)
             b == [n \in I |-> <<a, n>>]
  <1>1. MaxLen \in Nat /\ f[a] \in Nat
    BY BoundsAssumption
  <1>2. IsFiniteSet(I) /\ Cardinality(I) = f[a]
    BY <1>1, IntervalSize
  <1>3. \A x \in P : x[2] \in I /\ x = <<a, x[2]>>
    BY <1>1 DEF PageSet
  <1>4. \A n \in I : <<a, n>> \in P
    BY <1>1 DEF PageSet
  <1>5. b \in Bijection(I, P)
    <2>1. b \in [I -> P]
      BY <1>4
    <2>2. \A m, n \in I : b[m] = b[n] => m = n
      OBVIOUS
    <2>3. \A x \in P : \E n \in I : b[n] = x
      BY <1>3
    <2> QED BY <2>1, <2>2, <2>3 DEF Bijection, Injection, Surjection, IsInjective
  <1>6. ExistsBijection(I, P)
    BY <1>5 DEF ExistsBijection
  <1> QED BY <1>2, <1>6, FS_Bijection

\* A member more has its length more of pages.
LEMMA MorePages ==
  ASSUME NEW T, NEW f, NEW a, a \notin T, f[a] \in 0..MaxLen, IsFiniteSet(PageSet(T, f))
  PROVE  /\ IsFiniteSet(PageSet(T \cup {a}, f))
         /\ Cardinality(PageSet(T \cup {a}, f)) = Cardinality(PageSet(T, f)) + f[a]
  <1>1. PageSet(T \cup {a}, f) = PageSet(T, f) \cup PageSet({a}, f)
    BY DEF PageSet
  <1>2. PageSet(T, f) \cap PageSet({a}, f) = {}
    BY DEF PageSet
  <1>3. IsFiniteSet(PageSet({a}, f)) /\ Cardinality(PageSet({a}, f)) = f[a]
    BY OwnPages
  <1>4. /\ IsFiniteSet(PageSet(T, f) \cup PageSet({a}, f))
        /\ Cardinality(PageSet(T, f) \cup PageSet({a}, f)) =
             Cardinality(PageSet(T, f)) + Cardinality(PageSet({a}, f))
    BY <1>2, <1>3, DisjointSize
  <1> QED BY <1>1, <1>3, <1>4, Zenon

\* Finitely many owners have finitely many pages.
LEMMA FinitePages ==
  ASSUME NEW T, IsFiniteSet(T), NEW f
  PROVE  IsFiniteSet(PageSet(T, f)) /\ Cardinality(PageSet(T, f)) \in Nat
  <1>1. IsFiniteSet(1..MaxLen)
    BY BoundsAssumption, FS_Interval
  <1>2. IsFiniteSet(T \X (1..MaxLen))
    BY <1>1, FS_Product
  <1>3. PageSet(T, f) \subseteq T \X (1..MaxLen)
    BY DEF PageSet
  <1> QED BY <1>2, <1>3, FS_Subset, FS_CardinalityType

-----------------------------------------------------------------------------
(* The region tree.                                                        *)

\* Adding a new element to a sequence without duplicates.
LEMMA Added ==
  ASSUME NEW S, NEW s \in Seq(S), NEW e \in S, Distinct(s), e \notin Range(s)
  PROVE  /\ Append(s, e) \in Seq(S) /\ Len(Append(s, e)) = Len(s) + 1
         /\ Distinct(Append(s, e)) /\ Range(Append(s, e)) = Range(s) \cup {e}
  <1> DEFINE a == Append(s, e)
  <1>1. /\ a \in Seq(S) /\ Len(a) = Len(s) + 1 /\ Len(s) \in Nat
        /\ DOMAIN a = 1..(Len(s) + 1) /\ DOMAIN s = 1..Len(s)
        /\ a[Len(s) + 1] = e /\ \A i \in 1..Len(s) : a[i] = s[i]
    OBVIOUS
  <1> HIDE DEF a
  <1>2. Distinct(a)
    <2> SUFFICES ASSUME NEW i \in DOMAIN a, NEW j \in DOMAIN a, a[i] = a[j] PROVE i = j
      BY DEF Distinct
    <2>1. CASE i \in 1..Len(s) /\ j \in 1..Len(s)
      BY <1>1, <2>1 DEF Distinct
    <2>2. CASE i = Len(s) + 1 \/ j = Len(s) + 1
      BY <1>1, <2>2 DEF Range
    <2> QED BY <1>1, <2>1, <2>2
  <1>3. Range(a) = Range(s) \cup {e}
    <2>1. \A i \in DOMAIN a : a[i] \in Range(s) \cup {e}
      BY <1>1 DEF Range
    <2>2. \A i \in DOMAIN s : s[i] \in Range(a)
      BY <1>1 DEF Range
    <2>3. e \in Range(a)
      BY <1>1 DEF Range
    <2> QED BY <2>1, <2>2, <2>3 DEF Range
  <1> QED BY <1>1, <1>2, <1>3 DEF a

\* Removing one.
LEMMA Removed ==
  ASSUME NEW S, NEW s \in Seq(S), NEW i \in DOMAIN s, Distinct(s)
  PROVE  /\ RemoveAt(s, i) \in Seq(S) /\ Len(RemoveAt(s, i)) = Len(s) - 1
         /\ Distinct(RemoveAt(s, i)) /\ Range(RemoveAt(s, i)) = Range(s) \ {s[i]}
  <1> DEFINE a == RemoveAt(s, i)
             n == Len(s)
             p == SubSeq(s, 1, i - 1)
             q == SubSeq(s, i + 1, Len(s))
  <1>1. n \in Nat /\ DOMAIN s = 1..n /\ i \in 1..n /\ \A k \in 1..n : s[k] \in S
    OBVIOUS
  <1>2. /\ p \in Seq(S) /\ Len(p) = i - 1 /\ \A k \in 1..(i - 1) : p[k] = s[k]
    <2>1. \A k \in 1..(i - 1) : s[k] \in S
      BY <1>1
    <2>2. 1 \in Int /\ i - 1 \in Int
      BY <1>1
    <2>3. /\ p \in Seq(S) /\ Len(p) = IF 1 <= i - 1 THEN (i - 1) - 1 + 1 ELSE 0
          /\ \A k \in 1..((i - 1) - 1 + 1) : p[k] = s[1 + k - 1]
      BY <2>1, <2>2, SubSeqProperties
    <2> HIDE DEF p
    <2> QED BY <1>1, <2>3
  <1>3. /\ q \in Seq(S) /\ Len(q) = n - i /\ \A k \in 1..(n - i) : q[k] = s[i + k]
    <2>1. \A k \in (i + 1)..n : s[k] \in S
      BY <1>1
    <2>2. i + 1 \in Int /\ n \in Int
      BY <1>1
    <2>3. /\ q \in Seq(S) /\ Len(q) = IF i + 1 <= n THEN n - (i + 1) + 1 ELSE 0
          /\ \A k \in 1..(n - (i + 1) + 1) : q[k] = s[(i + 1) + k - 1]
      BY <2>1, <2>2, SubSeqProperties
    <2> HIDE DEF q, n
    <2>4. Len(q) = n - i /\ n - (i + 1) + 1 = n - i
      BY <1>1, <2>3
    <2>5. ASSUME NEW k \in 1..(n - i) PROVE q[k] = s[i + k]
      <3>1. (i + 1) + k - 1 = i + k
        BY <1>1
      <3> QED BY <2>3, <2>4, <3>1
    <2> QED BY <2>3, <2>4, <2>5
  <1>4. a = p \o q
    BY DEF RemoveAt
  <1> HIDE DEF a, p, q, n
  <1>5. /\ a \in Seq(S) /\ Len(a) = Len(p) + Len(q)
        /\ \A k \in 1..(Len(p) + Len(q)) :
             a[k] = IF k <= Len(p) THEN p[k] ELSE q[k - Len(p)]
    BY <1>2, <1>3, <1>4, ConcatProperties
  <1>6. Len(a) = n - 1 /\ DOMAIN a = 1..(n - 1)
    BY <1>1, <1>2, <1>3, <1>5
  <1>7. \A k \in 1..(n - 1) : a[k] = IF k < i THEN s[k] ELSE s[k + 1]
    <2> SUFFICES ASSUME NEW k \in 1..(n - 1)
                 PROVE  a[k] = IF k < i THEN s[k] ELSE s[k + 1]
      OBVIOUS
    <2>1. k \in 1..(Len(p) + Len(q))
      BY <1>1, <1>2, <1>3
    <2>2. CASE k < i
      BY <1>1, <1>2, <1>5, <2>1, <2>2
    <2>3. CASE k >= i
      <3>1. a[k] = q[k - (i - 1)] /\ k - (i - 1) \in 1..(n - i)
        BY <1>1, <1>2, <1>5, <2>1, <2>3
      <3>2. i + (k - (i - 1)) = k + 1
        BY <1>1
      <3> QED BY <1>1, <1>3, <2>3, <3>1, <3>2
    <2> QED BY <1>1, <2>2, <2>3
  <1>8. Distinct(a)
    <2> SUFFICES ASSUME NEW k \in 1..(n - 1), NEW l \in 1..(n - 1), a[k] = a[l]
                 PROVE  k = l
      BY <1>6 DEF Distinct
    <2>1. PICK m \in 1..n : a[k] = s[m] /\ m = IF k < i THEN k ELSE k + 1
      BY <1>1, <1>7
    <2>2. PICK o \in 1..n : a[l] = s[o] /\ o = IF l < i THEN l ELSE l + 1
      BY <1>1, <1>7
    <2>3. m = o
      BY <1>1, <2>1, <2>2 DEF Distinct
    <2> QED BY <1>1, <2>1, <2>2, <2>3
  <1>9. Range(a) = Range(s) \ {s[i]}
    <2>1. ASSUME NEW k \in DOMAIN a PROVE a[k] \in Range(s) \ {s[i]}
      <3>1. PICK m \in 1..n : m # i /\ a[k] = s[m]
        BY <1>1, <1>6, <1>7
      <3> QED BY <1>1, <3>1 DEF Range, Distinct
    <2>2. ASSUME NEW m \in DOMAIN s, s[m] # s[i] PROVE s[m] \in Range(a)
      <3>1. CASE m < i
        BY <1>1, <1>6, <1>7, <3>1 DEF Range
      <3>2. CASE m > i
        <4>1. m - 1 \in DOMAIN a /\ a[m - 1] = s[m]
          BY <1>1, <1>6, <1>7, <3>2
        <4> QED BY <4>1 DEF Range
      <3> QED BY <1>1, <2>2, <3>1, <3>2
    <2> QED BY <2>1, <2>2 DEF Range
  <1> QED BY <1>5, <1>6, <1>8, <1>9 DEF a, n

\* Where the ranges of the regions are disjoint, the search reaches every
\* region that matches, and it is the only one.
LEMMA Lookup ==
  ASSUME VarsOK, TreeInv, MapInv,
         NEW iova \in Nat, NEW size \in Nat, NEW i \in DOMAIN dma_regions,
         dma_region_check_iova(dma_regions[i], iova, size)
  PROVE  i \in Found(iova, size)
  <1>1. ASSUME NEW k \in DOMAIN dma_regions
        PROVE  /\ dma_regions[k] \in Regions /\ dma_regions[k] \in maps
               /\ dma_regions[k].iova \in Nat /\ dma_regions[k].length \in Nat \ {0}
    <2>1. dma_regions[k] \in RegionType
      BY DEF VarsOK
    <2>2. dma_regions[k].iova \in Nat /\ dma_regions[k].length \in Nat \ {0}
      BY <2>1, BoundsAssumption DEF RegionType
    <2>3. dma_regions[k] \in Regions
      BY DEF Regions
    <2>4. dma_regions[k] \in maps
      BY <2>3 DEF MapInv
    <2> QED BY <2>2, <2>3, <2>4
  <1>2. ASSUME NEW j \in DOMAIN dma_regions, j # i
        PROVE  ~Overlap(dma_regions[j], dma_regions[i])
    BY <1>1, <1>2 DEF TreeInv, MapInv, Distinct
  <1>3. DOMAIN dma_regions = 1..Len(dma_regions) /\ Len(dma_regions) \in Nat
    BY DEF VarsOK
  <1>4. ASSUME NEW j \in 1..(i - 1)
        PROVE  /\ j \in DOMAIN dma_regions
               /\ ~dma_region_check_iova(dma_regions[j], iova, size)
               /\ \/ iova < dma_regions[j].iova /\ dma_regions[i].iova < dma_regions[j].iova
                  \/ iova > dma_regions[j].iova /\ dma_regions[i].iova > dma_regions[j].iova
    <2>1. j \in DOMAIN dma_regions /\ j # i
      BY <1>3
    <2>2. ~Overlap(dma_regions[j], dma_regions[i])
      BY <1>2, <2>1
    <2> QED BY <1>1, <2>1, <2>2 DEF Overlap, dma_region_check_iova
  <1>5. OnPath(i, iova)
    BY <1>4 DEF OnPath
  <1> QED BY <1>4, <1>5 DEF Found

-----------------------------------------------------------------------------
(* What a step does to the calls in progress.                              *)

\* Every set of calls in progress is finite.
LEMMA CallsFinite ==
  ASSUME NEW S \in SUBSET Threads
  PROVE  IsFiniteSet(S) /\ Cardinality(S) \in Nat
  BY BoundsAssumption, FS_Subset, FS_CardinalityType

\* A region, or none, has as many pages as its length says.
LEMMA LengthType ==
  ASSUME NEW r \in RegionType \cup {NoRegion}
  PROVE  r.length \in 0..MaxLen
  BY BoundsAssumption DEF RegionType, NoRegion

\* The pages depend on the lengths of the members only.
LEMMA SamePages ==
  ASSUME NEW T, NEW f, NEW g, \A a \in T : f[a] = g[a]
  PROVE  PageSet(T, f) = PageSet(T, g)
  BY DEF PageSet

\* A task begins or ends to hold pages, or goes on.
LEMMA PagesEnter ==
  ASSUME VarsOK, NEW t \in Threads, NEW r \in RegionType \cup {NoRegion},
         t \notin Pinning, Pinning' = Pinning \cup {t}, reg' = [reg EXCEPT ![t] = r]
  PROVE  CallPages' = CallPages + r.length /\ CallPages \in Nat /\ r.length \in Nat
  <1>1. Pinning \subseteq Threads
    BY DEF Pinning, InFlight
  <1>2. IsFiniteSet(PageSet(Pinning, CallLengths)) /\ CallPages \in Nat
    BY <1>1, CallsFinite, FinitePages DEF CallPages
  <1>3. CallLengths'[t] = r.length /\ \A u \in Pinning : CallLengths'[u] = CallLengths[u]
    BY <1>1 DEF CallLengths, VarsOK
  <1>4. PageSet(Pinning, CallLengths') = PageSet(Pinning, CallLengths)
    BY <1>3, SamePages
  <1>5. r.length \in 0..MaxLen /\ r.length \in Nat
    BY LengthType, BoundsAssumption
  <1>6. IsFiniteSet(PageSet(Pinning, CallLengths'))
    BY <1>2, <1>4, Zenon
  <1>7. Cardinality(PageSet(Pinning \cup {t}, CallLengths')) =
          Cardinality(PageSet(Pinning, CallLengths')) + CallLengths'[t]
    BY <1>3, <1>5, <1>6, MorePages
  <1> QED BY <1>2, <1>3, <1>4, <1>5, <1>7, Zenon DEF CallPages

\* A task ends to hold pages.
LEMMA PagesLeave ==
  ASSUME VarsOK, NEW t \in Pinning, Pinning' = Pinning \ {t},
         NEW r, reg' = [reg EXCEPT ![t] = r]
  PROVE  CallPages = CallPages' + reg[t].length /\ CallPages' \in Nat /\ reg[t].length \in Nat
  <1>1. Pinning \subseteq Threads
    BY DEF Pinning, InFlight
  <1>2. Pinning \ {t} \subseteq Threads
    BY <1>1
  <1>3. IsFiniteSet(PageSet(Pinning \ {t}, CallLengths))
        /\ Cardinality(PageSet(Pinning \ {t}, CallLengths)) \in Nat
    BY <1>2, CallsFinite, FinitePages
  <1>4. CallLengths[t] = reg[t].length
        /\ \A u \in Pinning \ {t} : CallLengths'[u] = CallLengths[u]
    BY <1>1 DEF CallLengths, VarsOK
  <1>5. PageSet(Pinning \ {t}, CallLengths') = PageSet(Pinning \ {t}, CallLengths)
    BY <1>4, SamePages
  <1>6. reg[t].length \in 0..MaxLen /\ reg[t].length \in Nat
    BY <1>1, LengthType, BoundsAssumption DEF VarsOK
  <1>7. (Pinning \ {t}) \cup {t} = Pinning
    OBVIOUS
  <1>8. Cardinality(PageSet((Pinning \ {t}) \cup {t}, CallLengths)) =
          Cardinality(PageSet(Pinning \ {t}, CallLengths)) + CallLengths[t]
    <2>1. CallLengths[t] \in 0..MaxLen /\ t \notin Pinning \ {t}
      BY <1>4, <1>6
    <2> QED BY <1>3, <2>1, MorePages
  <1>9. CallPages' = Cardinality(PageSet(Pinning \ {t}, CallLengths))
    BY <1>5, Zenon DEF CallPages
  <1> QED BY <1>3, <1>4, <1>6, <1>7, <1>8, <1>9, Zenon DEF CallPages

\* A task goes on holding the same number of pages, or none.
LEMMA PagesStay ==
  ASSUME VarsOK, NEW t \in Threads, Pinning' = Pinning,
         NEW r, reg' = [reg EXCEPT ![t] = r], t \in Pinning => r.length = reg[t].length
  PROVE  CallPages' = CallPages
  <1>1. Pinning \subseteq Threads
    BY DEF Pinning, InFlight
  <1>2. \A u \in Pinning : CallLengths'[u] = CallLengths[u]
    BY <1>1 DEF CallLengths, VarsOK
  <1>3. PageSet(Pinning, CallLengths') = PageSet(Pinning, CallLengths)
    BY <1>2, SamePages
  <1> QED BY <1>3, Zenon DEF CallPages

\* The tree's pages when a region is added or removed.
LEMMA TreeFinite ==
  ASSUME NEW S, NEW s \in Seq(S)
  PROVE  IsFiniteSet(Range(s))
  <1>1. Len(s) \in Nat /\ DOMAIN s = 1..Len(s)
    OBVIOUS
  <1>2. IsFiniteSet(DOMAIN s)
    BY <1>1, IntervalSize, Zenon
  <1>3. s \in Surjection(DOMAIN s, Range(s))
    BY DEF Surjection, Range
  <1> QED BY <1>2, <1>3, FS_Surjection

\* A region enters the tree.
LEMMA TreePagesMore ==
  ASSUME VarsOK, NEW r \in RegionType, r \notin Regions, Regions' = Regions \cup {r}
  PROVE  TreePages' = TreePages + r.length /\ TreePages \in Nat /\ r.length \in Nat
  <1>1. IsFiniteSet(Regions)
    BY TreeFinite DEF Regions, Range, VarsOK
  <1>2. IsFiniteSet(PageSet(Regions, Lengths)) /\ TreePages \in Nat
    BY <1>1, FinitePages DEF TreePages
  <1>3. Lengths[r] = r.length /\ r.length \in 0..MaxLen /\ r.length \in Nat
    BY LengthType, BoundsAssumption DEF Lengths
  <1>4. Cardinality(PageSet(Regions \cup {r}, Lengths)) =
          Cardinality(PageSet(Regions, Lengths)) + Lengths[r]
    BY <1>2, <1>3, MorePages
  <1> QED BY <1>2, <1>3, <1>4, Zenon DEF TreePages, Lengths

\* A region leaves the tree.
LEMMA TreePagesLess ==
  ASSUME VarsOK, NEW r \in Regions, Regions' = Regions \ {r}
  PROVE  TreePages = TreePages' + r.length /\ TreePages' \in Nat /\ r.length \in Nat
  <1>1. IsFiniteSet(Regions) /\ r \in RegionType
    BY TreeFinite DEF Regions, Range, VarsOK
  <1>2. IsFiniteSet(Regions \ {r})
    BY <1>1, FS_RemoveElement
  <1>3. IsFiniteSet(PageSet(Regions \ {r}, Lengths))
        /\ Cardinality(PageSet(Regions \ {r}, Lengths)) \in Nat
    BY <1>2, FinitePages
  <1>4. Lengths[r] = r.length /\ r.length \in 0..MaxLen /\ r.length \in Nat
    BY <1>1, LengthType, BoundsAssumption DEF Lengths
  <1>5. (Regions \ {r}) \cup {r} = Regions
    OBVIOUS
  <1>6. Cardinality(PageSet((Regions \ {r}) \cup {r}, Lengths)) =
          Cardinality(PageSet(Regions \ {r}, Lengths)) + Lengths[r]
    BY <1>3, <1>4, MorePages
  <1>7. TreePages' = Cardinality(PageSet(Regions \ {r}, Lengths))
    BY Zenon DEF TreePages, Lengths
  <1> QED BY <1>3, <1>4, <1>5, <1>6, <1>7, Zenon DEF TreePages

-----------------------------------------------------------------------------
(* What the parts of the invariant need of a step.                         *)

\* A step that leaves the tree alone leaves its pages alone.
LEMMA SameTree ==
  ASSUME dma_regions' = dma_regions
  PROVE  Regions' = Regions /\ TreePages' = TreePages
  BY DEF Regions, TreePages, Lengths

\* The calls that hold a mapping stay as they are.
LEMMA HoldSame ==
  ASSUME VarsOK, HoldInv, MapInv, NEW t \in Threads, t \notin Holding, Holding' = Holding,
         NEW r, reg' = [reg EXCEPT ![t] = r], dma_regions' = dma_regions, maps' = maps
  PROVE  HoldInv' /\ MapInv'
  <1>1. \A u \in Holding : u \in Threads /\ reg'[u] = reg[u]
    BY DEF Holding, InFlight, VarsOK
  <1>2. Regions' = Regions
    BY SameTree
  <1>3. HoldInv'
    BY <1>1, <1>2 DEF HoldInv
  <1>4. {reg'[u] : u \in Holding'} = {reg[u] : u \in Holding}
    BY <1>1
  <1> QED BY <1>2, <1>3, <1>4 DEF MapInv, Overlap

\* One of them gives up its mapping.
LEMMA HoldLeave ==
  ASSUME VarsOK, HoldInv, MapInv, NEW t \in Holding, Holding' = Holding \ {t},
         NEW r, reg' = [reg EXCEPT ![t] = r], dma_regions' = dma_regions,
         maps' = maps \ {reg[t]}
  PROVE  HoldInv' /\ MapInv'
  <1>1. \A u \in Holding' : u \in Holding /\ u \in Threads /\ u # t /\ reg'[u] = reg[u]
    BY DEF Holding, InFlight, VarsOK
  <1>2. Regions' = Regions
    BY SameTree
  <1>3. HoldInv'
    BY <1>1, <1>2 DEF HoldInv
  <1>4. {reg'[u] : u \in Holding'} = {reg[u] : u \in Holding} \ {reg[t]}
    BY <1>1 DEF HoldInv
  <1>5. reg[t] \notin Regions
    BY DEF HoldInv
  <1> QED BY <1>2, <1>3, <1>4, <1>5 DEF MapInv, Overlap

\* The UMsg engine keeps its region as long as the tree keeps the marked ones.
LEMMA UmsgKept ==
  ASSUME UmsgInv, UNCHANGED <<in_use, umsg_enable, base_addr, files>>, files # {},
         \A r \in Regions : r.iova \in in_use => r \in Regions'
  PROVE  UmsgInv'
  BY DEF UmsgInv, dma_region_check_iova

\* What is given back to locked_vm leaves it within the limit.
LEMMA UnchargeType ==
  ASSUME VarsOK, NEW t \in Threads, NEW n \in Nat, Uncharge(t, n)
  PROVE  LockedOK'
  <1>1. locked_vm[t] \in Nat /\ LockLimit \in Nat
    BY BoundsAssumption DEF VarsOK, LockedOK
  <1>2. PICK m \in Nat : m = locked_vm[t] - Least(n, locked_vm[t]) /\ m <= locked_vm[t]
    BY <1>1 DEF Least
  <1>3. locked_vm' = [locked_vm EXCEPT ![t] = m]
    BY <1>2 DEF Uncharge
  <1> QED BY <1>1, <1>2, <1>3 DEF VarsOK, LockedOK

\* The tasks in the sets of calls.
LEMMA Members ==
  ASSUME NEW t \in Threads
  PROVE  /\ t \in Adding <=> pc[t] \in {"pinned", "mapped"}
         /\ t \in Holding <=> pc[t] \in {"mapped", "removed"}
         /\ t \in Pinning <=> pc[t] \in {"pinned", "mapped", "removed"}
  BY DEF Adding, Holding, Pinning, InFlight

\* How a step of t changes them.
LEMMA SetsMove ==
  ASSUME NEW t \in Threads, \A u \in Threads \ {t} : pc'[u] = pc[u]
  PROVE  /\ Adding' = IF pc'[t] \in {"pinned", "mapped"} THEN Adding \cup {t} ELSE Adding \ {t}
         /\ Holding' = IF pc'[t] \in {"mapped", "removed"}
                       THEN Holding \cup {t} ELSE Holding \ {t}
         /\ Pinning' = IF pc'[t] \in {"pinned", "mapped", "removed"}
                       THEN Pinning \cup {t} ELSE Pinning \ {t}
  BY DEF Adding, Holding, Pinning, InFlight

\* A step of one task leaves the others where they are.
LEMMA Moved ==
  ASSUME VarsOK, NEW t \in Threads, NEW to, pc' = [pc EXCEPT ![t] = to]
  PROVE  pc'[t] = to /\ \A u \in Threads \ {t} : pc'[u] = pc[u]
  BY DEF VarsOK

\* The number of calls that may add a region.
LEMMA AddingSize ==
  /\ Cardinality(Adding) \in Nat
  /\ \A t \in Threads \ Adding : Cardinality(Adding \cup {t}) = Cardinality(Adding) + 1
  /\ \A t \in Adding : Cardinality(Adding \ {t}) = Cardinality(Adding) - 1
  <1>1. Adding \subseteq Threads
    BY DEF Adding, InFlight
  <1>2. IsFiniteSet(Adding) /\ Cardinality(Adding) \in Nat
    BY <1>1, CallsFinite
  <1>3. ASSUME NEW t \in Threads \ Adding
        PROVE  Cardinality(Adding \cup {t}) = Cardinality(Adding) + 1
    BY <1>2, FS_AddElement
  <1>4. ASSUME NEW t \in Adding
        PROVE  Cardinality(Adding \ {t}) = Cardinality(Adding) - 1
    BY <1>2, FS_RemoveElement
  <1> QED BY <1>2, <1>3, <1>4

\* A step of t keeps CallInv if t has its file open and, unless it becomes idle,
\* a region.
LEMMA CallKept ==
  ASSUME VarsOK, CallInv, NEW t \in Threads, NEW to, NEW r,
         pc' = [pc EXCEPT ![t] = to], reg' = [reg EXCEPT ![t] = r], files' = files,
         to = "idle" \/ (t \in files /\ r \in RegionType)
  PROVE  CallInv'
  BY DEF VarsOK, CallInv

-----------------------------------------------------------------------------
(* The inductive step, one lemma per group of actions.                     *)

\* afu_dma_pin_pages: a new owner of pages, with none in the tree yet.
LEMMA PinStep ==
  ASSUME IndInv, NEW t \in Threads, NEW len \in 1..MaxLen, PinPages(t, len)
  PROVE  IndInv'
  <1> DEFINE r == [iova |-> 0, length |-> len]
  <1> USE DEF IndInv
  <1>1. /\ pc' = [pc EXCEPT ![t] = "pinned"] /\ reg' = [reg EXCEPT ![t] = r]
        /\ pc[t] = "idle" /\ t \in files /\ pins' = pins + len
        /\ UNCHANGED <<files, dma_regions, in_use, maps, lost, umsg_enable, base_addr>>
    BY DEF PinPages, Step, Idle, umsgVars
  <1>2. r \in RegionType /\ r.length = len /\ len \in Nat
    BY BoundsAssumption DEF RegionType
  <1> HIDE DEF r
  <1>3. /\ Adding' = Adding \cup {t} /\ Holding' = Holding /\ Pinning' = Pinning \cup {t}
        /\ t \notin Adding /\ t \notin Holding /\ t \notin Pinning
    <2>1. pc'[t] = "pinned" /\ \A u \in Threads \ {t} : pc'[u] = pc[u]
      BY <1>1, Moved
    <2>2. t \notin Adding /\ t \notin Holding /\ t \notin Pinning
      BY <1>1, Members
    <2> QED BY <2>1, <2>2, SetsMove
  <1>4. VarsOK'
    <2>1. LockedOK'
      <3>1. PICK m \in Nat : m = locked_vm[t] + len /\ (t \in Privileged \/ m <= LockLimit)
        BY <1>2 DEF VarsOK, LockedOK, PinPages, Chargeable
      <3>2. locked_vm' = [locked_vm EXCEPT ![t] = m]
        BY <3>1 DEF PinPages
      <3> QED BY <3>1, <3>2 DEF VarsOK, LockedOK
    <2>2. pc' \in [Threads -> {"idle", "pinned", "mapped", "copy", "removed"}]
          /\ reg' \in [Threads -> RegionType \cup {NoRegion}]
      BY <1>1, <1>2 DEF VarsOK
    <2> QED BY <1>1, <2>1, <2>2 DEF VarsOK
  <1>5. CallInv'
    BY <1>1, <1>2, CallKept
  <1>6. HoldInv' /\ MapInv'
    BY <1>1, <1>3, HoldSame
  <1>7. TreeInv'
    <2>1. Len(dma_regions) + Cardinality(Adding) < MaxRegions
      BY DEF PinPages, Adding, InFlight
    <2>2. Cardinality(Adding') = Cardinality(Adding) + 1 /\ Cardinality(Adding) \in Nat
      BY <1>3, AddingSize
    <2>3. Len(dma_regions) \in Nat
      BY DEF VarsOK
    <2> QED BY <1>1, <2>1, <2>2, <2>3, BoundsAssumption DEF TreeInv
  <1>8. UmsgInv'
    BY <1>1, SameTree, UmsgKept
  <1>9. PinInv'
    <2>1. CallPages' = CallPages + len /\ CallPages \in Nat
      BY <1>1, <1>2, <1>3, PagesEnter
    <2>2. TreePages' = TreePages /\ TreePages \in Nat
      <3>1. IsFiniteSet(Regions)
        BY TreeFinite DEF Regions, Range, VarsOK
      <3> QED BY <1>1, <3>1, SameTree, FinitePages DEF TreePages
    <2> QED BY <1>1, <1>2, <2>1, <2>2 DEF PinInv, VarsOK
  <1> QED BY <1>4, <1>5, <1>6, <1>7, <1>8, <1>9

\* The tree has a natural number of pages.
LEMMA TreePagesType ==
  ASSUME VarsOK
  PROVE  TreePages \in Nat
  <1>1. IsFiniteSet(Regions)
    BY TreeFinite DEF Regions, Range, VarsOK
  <1> QED BY <1>1, FinitePages DEF TreePages

\* The pages and, where there is one, the mapping of a call are given back.
LEMMA GiveBack ==
  ASSUME IndInv, NEW t \in Threads, t \in Pinning,
         UnpinPages(t, reg[t]), Step(t, "idle", NoRegion),
         maps' = IF t \in Holding THEN maps \ {reg[t]} ELSE maps,
         UNCHANGED <<files, dma_regions, in_use, lost, umsg_enable, base_addr>>
  PROVE  IndInv'
  <1> USE DEF IndInv
  <1>1. /\ pc' = [pc EXCEPT ![t] = "idle"] /\ reg' = [reg EXCEPT ![t] = NoRegion]
        /\ pc[t] \in {"pinned", "mapped", "removed"} /\ t \in files
    BY Members DEF Step, CallInv
  <1>2. /\ Adding' = Adding \ {t} /\ Holding' = Holding \ {t} /\ Pinning' = Pinning \ {t}
    <2>1. pc'[t] = "idle" /\ \A u \in Threads \ {t} : pc'[u] = pc[u]
      BY <1>1, Moved
    <2> QED BY <2>1, SetsMove
  <1>3. CallPages = CallPages' + reg[t].length /\ CallPages' \in Nat /\ reg[t].length \in Nat
    BY <1>1, <1>2, PagesLeave
  <1>4. VarsOK'
    <2>1. LockedOK'
      BY <1>3, UnchargeType DEF UnpinPages
    <2>2. pc' \in [Threads -> {"idle", "pinned", "mapped", "copy", "removed"}]
          /\ reg' \in [Threads -> RegionType \cup {NoRegion}]
      BY <1>1 DEF VarsOK
    <2> QED BY <2>1, <2>2 DEF VarsOK
  <1>5. CallInv'
    BY <1>1, CallKept
  <1>6. HoldInv' /\ MapInv'
    <2>1. CASE t \in Holding
      BY <1>1, <1>2, <2>1, HoldLeave
    <2>2. CASE t \notin Holding
      <3>1. Holding' = Holding
        BY <1>2, <2>2
      <3> QED BY <1>1, <2>2, <3>1, HoldSame
    <2> QED BY <2>1, <2>2
  <1>7. TreeInv'
    <2>1. Cardinality(Adding') <= Cardinality(Adding) /\ Cardinality(Adding) \in Nat
          /\ Cardinality(Adding') \in Nat
      <3>1. Adding \subseteq Threads /\ Adding' \subseteq Adding
        BY <1>2 DEF Adding, InFlight
      <3> QED BY <3>1, CallsFinite, FS_Subset
    <2>2. Len(dma_regions) \in Nat
      BY DEF VarsOK
    <2> QED BY <2>1, <2>2, BoundsAssumption DEF TreeInv
  <1>8. UmsgInv'
    BY <1>1, SameTree, UmsgKept
  <1>9. PinInv'
    <2>1. TreePages' = TreePages /\ TreePages \in Nat /\ pins' = pins - reg[t].length
      BY SameTree, TreePagesType DEF UnpinPages
    <2> QED BY <1>3, <2>1 DEF PinInv, VarsOK
  <1> QED BY <1>4, <1>5, <1>6, <1>7, <1>8, <1>9

\* dma_map_page: the IOMMU's range overlaps no other.
LEMMA MapStep ==
  ASSUME IndInv, Iommu = TRUE, NEW t \in Threads, NEW iova \in Pages, MapPage(t, iova)
  PROVE  IndInv'
  <1> DEFINE r == [reg[t] EXCEPT !.iova = iova]
  <1> USE DEF IndInv
  <1>1. /\ pc' = [pc EXCEPT ![t] = "mapped"] /\ reg' = [reg EXCEPT ![t] = r]
        /\ pc[t] = "pinned" /\ maps' = maps \cup {r} /\ \A s \in maps : ~Overlap(r, s)
        /\ UNCHANGED <<files, dma_regions, in_use, pins, lost, locked_vm, umsg_enable, base_addr>>
    BY DEF MapPage, Step, umsgVars
  <1>2. t \in files /\ reg[t] \in RegionType
    BY <1>1 DEF CallInv
  <1>3. r \in RegionType /\ r.length = reg[t].length /\ r.iova = iova
    BY <1>2, BoundsAssumption DEF RegionType, Pages
  <1> HIDE DEF r
  <1>4. /\ Adding' = Adding /\ Holding' = Holding \cup {t} /\ Pinning' = Pinning
        /\ t \notin Holding /\ t \in Pinning
    <2>1. pc'[t] = "mapped" /\ \A u \in Threads \ {t} : pc'[u] = pc[u]
      BY <1>1, Moved
    <2>2. t \notin Holding /\ t \in Pinning /\ t \in Adding
      BY <1>1, Members
    <2> QED BY <2>1, <2>2, SetsMove
  <1>5. r \notin maps
    <2>1. Overlap(r, r)
      BY <1>3, BoundsAssumption DEF Overlap, RegionType
    <2> QED BY <1>1, <2>1
  <1>6. VarsOK'
    BY <1>1, <1>3 DEF VarsOK, LockedOK
  <1>7. CallInv'
    BY <1>1, <1>2, <1>3, CallKept
  <1>8. \A u \in Holding : u # t /\ u \in Threads /\ reg'[u] = reg[u] /\ reg[u] \in maps
    BY <1>1, <1>4 DEF Holding, InFlight, VarsOK, MapInv
  <1>9. reg'[t] = r /\ Regions' = Regions /\ Regions \subseteq maps
    BY <1>1, SameTree DEF VarsOK, MapInv
  <1>10. HoldInv'
    BY <1>4, <1>5, <1>8, <1>9 DEF HoldInv
  <1>11. MapInv'
    <2>1. {reg'[u] : u \in Holding'} = {reg[u] : u \in Holding} \cup {r}
      BY <1>4, <1>8, <1>9
    <2>2. maps' = Regions' \cup {reg'[u] : u \in Holding'}
      BY <1>1, <1>9, <2>1 DEF MapInv
    <2>3. \A s \in maps' : s.iova \in Pages
      BY <1>1, <1>3 DEF MapInv
    <2>4. \A s \in maps : ~Overlap(s, r)
      BY <1>1 DEF Overlap
    <2>5. \A x, y \in maps' : Overlap(x, y) => x = y
      <3>1. \A x, y \in maps : Overlap(x, y) => x = y
        BY DEF MapInv
      <3>2. maps' = maps \cup {r} /\ \A s \in maps : ~Overlap(r, s)
        BY <1>1
      <3> QED BY <2>4, <3>1, <3>2
    <2> QED BY <2>2, <2>3, <2>5 DEF MapInv, Overlap
  <1>12. TreeInv'
    BY <1>1, <1>4 DEF TreeInv
  <1>13. UmsgInv'
    BY <1>1, <1>2, SameTree, UmsgKept
  <1>14. PinInv'
    <2>1. CallPages' = CallPages
      BY <1>1, <1>3, <1>4, PagesStay
    <2> QED BY <1>1, <2>1, SameTree DEF PinInv
  <1> QED BY <1>6, <1>7, <1>10, <1>11, <1>12, <1>13, <1>14

\* afu_dma_region_add: the mapping of the call becomes the tree's.
LEMMA AddStep ==
  ASSUME IndInv, NEW t \in Threads, pc[t] = "mapped",
         dma_regions' = Append(dma_regions, reg[t]), Step(t, "copy", reg[t]),
         UNCHANGED <<files, in_use, maps, pins, lost, locked_vm, umsg_enable, base_addr>>
  PROVE  IndInv'
  <1> USE DEF IndInv
  <1>1. pc' = [pc EXCEPT ![t] = "copy"] /\ reg' = [reg EXCEPT ![t] = reg[t]]
    BY DEF Step
  <1>2. t \in files /\ reg[t] \in RegionType
    BY DEF CallInv
  <1>3. /\ Adding' = Adding \ {t} /\ Holding' = Holding \ {t} /\ Pinning' = Pinning \ {t}
        /\ t \in Adding /\ t \in Holding /\ t \in Pinning
    <2>1. pc'[t] = "copy" /\ \A u \in Threads \ {t} : pc'[u] = pc[u]
      BY <1>1, Moved
    <2>2. t \in Adding /\ t \in Holding /\ t \in Pinning
      BY Members
    <2> QED BY <2>1, <2>2, SetsMove
  <1>4. reg[t] \notin Regions /\ Regions = Range(dma_regions) /\ Regions' = Range(dma_regions')
    BY <1>3 DEF HoldInv, Regions, Range
  <1>5. /\ dma_regions' \in Seq(RegionType) /\ Len(dma_regions') = Len(dma_regions) + 1
        /\ Distinct(dma_regions') /\ Regions' = Regions \cup {reg[t]}
    BY <1>2, <1>4, Added DEF VarsOK, TreeInv
  <1>6. VarsOK'
    BY <1>1, <1>2, <1>5 DEF VarsOK, LockedOK
  <1>7. CallInv'
    BY <1>1, <1>2, CallKept
  <1>8. reg' = reg
    BY <1>1 DEF VarsOK
  <1>9. HoldInv'
    BY <1>3, <1>5, <1>8 DEF HoldInv
  <1>10. MapInv'
    <2>1. Regions' \cup {reg'[u] : u \in Holding'} = Regions \cup {reg[u] : u \in Holding}
      BY <1>3, <1>5, <1>8
    <2> QED BY <2>1 DEF MapInv, Overlap
  <1>11. TreeInv'
    <2>1. Cardinality(Adding') = Cardinality(Adding) - 1 /\ Cardinality(Adding) \in Nat
      BY <1>3, AddingSize
    <2>2. Len(dma_regions) \in Nat
      BY DEF VarsOK
    <2> QED BY <1>5, <2>1, <2>2, BoundsAssumption DEF TreeInv
  <1>12. UmsgInv'
    BY <1>2, <1>5, UmsgKept
  <1>13. PinInv'
    <2>1. CallPages = CallPages' + reg[t].length /\ CallPages' \in Nat /\ reg[t].length \in Nat
      BY <1>1, <1>3, PagesLeave
    <2>2. TreePages' = TreePages + reg[t].length /\ TreePages \in Nat
      BY <1>2, <1>4, <1>5, TreePagesMore
    <2>3. pins = lost + TreePages + CallPages /\ lost \in Nat /\ pins' = pins /\ lost' = lost
      BY DEF PinInv, VarsOK
    <2>4. PICK n \in Nat : n = reg[t].length
      BY <2>1
    <2>5. CallPages = CallPages' + n /\ TreePages' = TreePages + n
      BY <2>1, <2>2, <2>4, Zenon
    <2> HIDE DEF IndInv
    <2>6. pins = lost + TreePages' + CallPages'
      BY <2>1, <2>2, <2>3, <2>5
    <2> QED BY <2>3, <2>6 DEF PinInv
  <1> QED BY <1>6, <1>7, <1>9, <1>10, <1>11, <1>12, <1>13

\* The map call returns, or its unmap after a failed copy finds nothing.
LEMMA ReturnStep ==
  ASSUME IndInv, NEW t \in Threads, pc[t] = "copy", Step(t, "idle", NoRegion),
         UNCHANGED <<files, dma_regions, in_use, maps, pins, lost, locked_vm, umsg_enable,
                     base_addr>>
  PROVE  IndInv'
  <1> USE DEF IndInv
  <1>1. pc' = [pc EXCEPT ![t] = "idle"] /\ reg' = [reg EXCEPT ![t] = NoRegion]
    BY DEF Step
  <1>2. t \in files
    BY DEF CallInv
  <1>3. /\ Adding' = Adding /\ Holding' = Holding /\ Pinning' = Pinning
        /\ t \notin Holding /\ t \notin Pinning
    <2>1. pc'[t] = "idle" /\ \A u \in Threads \ {t} : pc'[u] = pc[u]
      BY <1>1, Moved
    <2>2. t \notin Adding /\ t \notin Holding /\ t \notin Pinning
      BY Members
    <2> QED BY <2>1, <2>2, SetsMove
  <1>4. VarsOK'
    BY <1>1 DEF VarsOK, LockedOK
  <1>5. CallInv'
    BY <1>1, CallKept
  <1>6. HoldInv' /\ MapInv'
    BY <1>1, <1>3, HoldSame
  <1>7. TreeInv'
    BY <1>3 DEF TreeInv
  <1>8. UmsgInv'
    BY <1>2, SameTree, UmsgKept
  <1>9. PinInv'
    <2>1. CallPages' = CallPages
      BY <1>1, <1>3, PagesStay
    <2> QED BY <2>1, SameTree DEF PinInv
  <1> QED BY <1>4, <1>5, <1>6, <1>7, <1>8, <1>9

\* The locked part of afu_dma_unmap_region: a region that is not in use leaves
\* the tree for the call.
LEMMA RemoveStep ==
  ASSUME IndInv, NEW t \in Threads, t \in files, pc[t] \in {"idle", "copy"},
         NEW iova \in Nat, RegionRemove(t, iova),
         UNCHANGED <<files, in_use, maps, pins, lost, locked_vm, umsg_enable, base_addr>>
  PROVE  IndInv'
  <1> USE DEF IndInv
  <1>1. PICK i \in Removable(iova) : /\ dma_regions' = RemoveAt(dma_regions, i)
                                     /\ Step(t, "removed", dma_regions[i])
    BY DEF RegionRemove
  <1>2. i \in DOMAIN dma_regions /\ dma_regions[i].iova \notin in_use
    BY DEF Removable, Found
  <1>3. PICK r \in RegionType : r = dma_regions[i]
    BY <1>2 DEF VarsOK
  <1>4. pc' = [pc EXCEPT ![t] = "removed"] /\ reg' = [reg EXCEPT ![t] = r]
    BY <1>1, <1>3 DEF Step
  <1>5. /\ Adding' = Adding /\ Holding' = Holding \cup {t} /\ Pinning' = Pinning \cup {t}
        /\ t \notin Holding /\ t \notin Pinning
    <2>1. pc'[t] = "removed" /\ \A u \in Threads \ {t} : pc'[u] = pc[u]
      BY <1>4, Moved
    <2>2. t \notin Adding /\ t \notin Holding /\ t \notin Pinning
      BY Members
    <2> QED BY <2>1, <2>2, SetsMove
  <1>6. r \in Regions /\ Regions = Range(dma_regions) /\ Regions' = Range(dma_regions')
    BY <1>2, <1>3 DEF Regions, Range
  <1>7. /\ dma_regions' \in Seq(RegionType) /\ Len(dma_regions') = Len(dma_regions) - 1
        /\ Distinct(dma_regions') /\ Regions' = Regions \ {r}
    BY <1>1, <1>2, <1>3, <1>6, Removed DEF VarsOK, TreeInv
  <1>8. VarsOK'
    BY <1>4, <1>7 DEF VarsOK, LockedOK
  <1>9. CallInv'
    BY <1>4, CallKept
  <1>10. reg'[t] = r /\ \A u \in Holding : u # t /\ u \in Threads /\ reg'[u] = reg[u]
    BY <1>4, <1>5 DEF Holding, InFlight, VarsOK
  <1>11. HoldInv'
    BY <1>5, <1>6, <1>7, <1>10 DEF HoldInv
  <1>12. MapInv'
    <2>1. {reg'[u] : u \in Holding'} = {reg[u] : u \in Holding} \cup {r}
      BY <1>5, <1>10
    <2>2. Regions' \cup {reg'[u] : u \in Holding'} = Regions \cup {reg[u] : u \in Holding}
      BY <1>6, <1>7, <2>1
    <2> QED BY <2>2 DEF MapInv, Overlap
  <1>13. TreeInv'
    <2>1. Len(dma_regions) \in Nat /\ Cardinality(Adding) \in Nat
      BY AddingSize DEF VarsOK
    <2>2. Cardinality(Adding') = Cardinality(Adding)
      BY <1>5, Zenon
    <2> QED BY <1>7, <2>1, <2>2, BoundsAssumption DEF TreeInv
  <1>14. UmsgInv'
    BY <1>2, <1>3, <1>7, UmsgKept
  <1>15. PinInv'
    <2>1. CallPages' = CallPages + r.length /\ CallPages \in Nat /\ r.length \in Nat
      BY <1>4, <1>5, PagesEnter
    <2>2. TreePages = TreePages' + r.length /\ TreePages' \in Nat
      BY <1>6, <1>7, TreePagesLess
    <2>3. pins = lost + TreePages + CallPages /\ lost \in Nat /\ pins' = pins /\ lost' = lost
      BY DEF PinInv, VarsOK
    <2> HIDE DEF IndInv
    <2> QED BY <2>1, <2>2, <2>3 DEF PinInv
  <1> QED BY <1>8, <1>9, <1>11, <1>12, <1>13, <1>14, <1>15

\* Nothing is counted negative.
LEMMA PagesType ==
  ASSUME VarsOK
  PROVE  CallPages \in Nat /\ TreePages \in Nat /\ (PinInv => pins \in Nat)
  <1>1. Pinning \subseteq Threads
    BY DEF Pinning, InFlight
  <1>2. CallPages \in Nat /\ TreePages \in Nat
    BY <1>1, TreePagesType, CallsFinite, FinitePages DEF CallPages
  <1> QED BY <1>2 DEF PinInv, VarsOK

\* A step that changes neither the tree nor the mappings nor the calls keeps
\* what is about those.
LEMMA StandStill ==
  ASSUME VarsOK, CallInv, HoldInv, TreeInv, MapInv, PinInv,
         UNCHANGED <<pc, reg, dma_regions, maps>>, files \subseteq files',
         NEW n \in Nat, pins' = pins + n, lost' = lost + n
  PROVE  CallInv' /\ HoldInv' /\ TreeInv' /\ MapInv' /\ PinInv'
  <1>1. /\ Adding' = Adding /\ Holding' = Holding /\ Pinning' = Pinning
        /\ CallLengths' = CallLengths /\ Regions' = Regions
    BY DEF Adding, Holding, Pinning, InFlight, CallLengths, Regions
  <1>2. CallPages' = CallPages /\ TreePages' = TreePages
    BY <1>1, SameTree DEF CallPages
  <1>3. CallPages \in Nat /\ TreePages \in Nat
    BY PagesType
  <1>4. CallInv' /\ HoldInv' /\ TreeInv'
    BY <1>1 DEF CallInv, HoldInv, TreeInv
  <1>5. MapInv'
    BY <1>1 DEF MapInv, Overlap
  <1> QED BY <1>2, <1>3, <1>4, <1>5 DEF PinInv, VarsOK

\* Opening the file, and a pinning that fails half way.
LEMMA OpenStep ==
  ASSUME IndInv, NEW t \in Threads,
         Open(t) \/ \E len, n \in 1..MaxLen : PinPagesPartly(t, len, n)
  PROVE  IndInv'
  <1> USE DEF IndInv
  <1>1. PICK n \in Nat : pins' = pins + n /\ lost' = lost + n
    <2>1. CASE Open(t)
      <3>1. pins \in Nat
        BY PagesType
      <3>2. pins' = pins + 0 /\ lost' = lost + 0
        BY <2>1, <3>1 DEF Open, dmaVars, VarsOK
      <3> QED BY <3>2
    <2>2. CASE \E len, n \in 1..MaxLen : PinPagesPartly(t, len, n)
      BY <2>2, BoundsAssumption DEF PinPagesPartly
    <2> QED BY <2>1, <2>2
  <1>2. /\ UNCHANGED <<pc, reg, dma_regions, in_use, maps, locked_vm, umsg_enable, base_addr>>
        /\ files \subseteq files' /\ files' \subseteq Threads
        /\ files' = {} => files = {}
    BY DEF Open, PinPagesPartly, dmaVars, umsgVars, VarsOK
  <1>3. VarsOK'
    BY <1>1, <1>2 DEF VarsOK, LockedOK
  <1>4. UmsgInv'
    BY <1>2 DEF UmsgInv, Regions, dma_region_check_iova
  <1>5. CallInv' /\ HoldInv' /\ TreeInv' /\ MapInv' /\ PinInv'
    BY <1>1, <1>2, StandStill
  <1> QED BY <1>3, <1>4, <1>5

\* afu_port_umsg_set_addr(0) always finds the region of the current address.
LEMMA Clears ==
  ASSUME IndInv
  PROVE  AddrCleared.base = 0 /\ AddrCleared.used \subseteq in_use
  <1> USE DEF IndInv
  <1>1. CASE base_addr = 0
    BY <1>1 DEF AddrCleared
  <1>2. CASE base_addr # 0
    <2>1. PICK r \in Regions : dma_region_check_iova(r, base_addr, NumUmsgs)
      BY <1>2 DEF UmsgInv
    <2>2. PICK i \in DOMAIN dma_regions : r = dma_regions[i]
      BY DEF Regions
    <2>3. base_addr \in Nat /\ NumUmsgs \in Nat
      BY BoundsAssumption DEF VarsOK
    <2>4. Found(base_addr, NumUmsgs) # {}
      BY <2>1, <2>2, <2>3, Lookup
    <2> QED BY <1>2, <2>4 DEF AddrCleared
  <1> QED BY <1>1, <1>2

\* The UMsg ioctls.
LEMMA UmsgStep ==
  ASSUME IndInv, NEW t \in Threads,
         \/ \E enable \in {0, 1} : UmsgEnable(t, enable)
         \/ \E iova \in Pages : UmsgSetAddr(t, iova)
         \/ UmsgClearAddr(t)
  PROVE  IndInv'
  <1> USE DEF IndInv
  <1>1. t \in files /\ UNCHANGED <<files, pc, reg, dma_regions, maps, pins, lost, locked_vm>>
    BY DEF UmsgEnable, UmsgSetAddr, UmsgClearAddr, Idle, dmaVars
  <1>2. pins' = pins + 0 /\ lost' = lost + 0
    BY <1>1, PagesType DEF VarsOK
  <1>3. CallInv' /\ HoldInv' /\ TreeInv' /\ MapInv' /\ PinInv'
    BY <1>1, <1>2, StandStill
  <1>4. Regions' = Regions
    BY <1>1, SameTree
  <1>5. CASE \E enable \in {0, 1} : UmsgEnable(t, enable)
    <2>1. UNCHANGED <<in_use, base_addr>> /\ umsg_enable' \in {0, 1}
          /\ (umsg_enable' = 1 => base_addr # 0)
      BY <1>5 DEF UmsgEnable, dmaVars
    <2>2. VarsOK' /\ UmsgInv'
      BY <1>1, <1>4, <2>1 DEF VarsOK, LockedOK, UmsgInv, dma_region_check_iova
    <2> QED BY <1>3, <2>2
  <1>6. CASE \E iova \in Pages : UmsgSetAddr(t, iova)
    <2>1. PICK iova \in Pages, i \in DOMAIN dma_regions :
            /\ dma_region_check_iova(dma_regions[i], iova, NumUmsgs)
            /\ base_addr' = iova /\ in_use' = in_use \cup {dma_regions[i].iova}
            /\ umsg_enable = 0 /\ umsg_enable' = umsg_enable
      BY <1>6 DEF UmsgSetAddr, Found
    <2>2. dma_regions[i] \in Regions /\ dma_regions[i].iova \in Pages
      BY DEF Regions, MapInv
    <2>3. VarsOK'
      <3>1. in_use' \subseteq Pages /\ umsg_enable' \in {0, 1}
        BY <2>1, <2>2 DEF VarsOK
      <3>2. base_addr' \in 0..MaxPage
        BY <2>1, BoundsAssumption DEF Pages
      <3> QED BY <1>1, <3>1, <3>2 DEF VarsOK, LockedOK
    <2>4. UmsgInv'
      BY <1>1, <1>4, <2>1, <2>2 DEF UmsgInv, dma_region_check_iova
    <2> QED BY <1>3, <2>3, <2>4
  <1>7. CASE UmsgClearAddr(t)
    <2>1. base_addr' = 0 /\ in_use' \subseteq in_use /\ umsg_enable' = 0
      BY <1>7, Clears DEF UmsgClearAddr
    <2>2. VarsOK'
      BY <1>1, <2>1, BoundsAssumption DEF VarsOK, LockedOK
    <2>3. UmsgInv'
      BY <1>1, <2>1 DEF UmsgInv
    <2> QED BY <1>3, <2>2, <2>3
  <1> QED BY <1>5, <1>6, <1>7

\* The number of pages the code's loop puts.
LEMMA TreePagesCounted ==
  ASSUME VarsOK
  PROVE  PageCount(Regions) = TreePages
  <1>1. Regions \subseteq RegionType
    BY DEF Regions, VarsOK
  <1>2. \A x \in Regions \X (1..MaxLen) : Lengths[x[1]] = x[1].length
    BY <1>1 DEF Lengths
  <1>3. {x \in Regions \X (1..MaxLen) : x[2] <= x[1].length} = PageSet(Regions, Lengths)
    BY <1>2 DEF PageSet
  <1> QED BY <1>3, Zenon DEF PageCount, TreePages

\* afu_release: at the last close no call is in progress, so that everything
\* left is the tree's.
LEMMA ReleaseStep ==
  ASSUME IndInv, NEW t \in Threads, Release(t)
  PROVE  IndInv'
  <1> USE DEF IndInv
  <1>1. t \in files /\ pc[t] = "idle" /\ files' = files \ {t} /\ UNCHANGED <<pc, reg, lost>>
    BY DEF Release, Idle
  <1>2. /\ Adding' = Adding /\ Holding' = Holding /\ Pinning' = Pinning
        /\ CallLengths' = CallLengths /\ CallPages' = CallPages
    BY <1>1 DEF Adding, Holding, Pinning, InFlight, CallLengths, CallPages
  <1>3. LockedOK'
    <2>1. PageCount(Regions) \in Nat
      BY TreePagesCounted, PagesType
    <2>2. PICK n \in Nat : Refund(t, n)
      BY <2>1 DEF Release
    <2>3. CASE Uncharge(t, n)
      BY <2>3, UnchargeType
    <2>4. CASE locked_vm' = [locked_vm EXCEPT ![t] = 0]
      BY <2>4, BoundsAssumption DEF VarsOK, LockedOK
    <2> QED BY <2>2, <2>3, <2>4 DEF Refund
  <1>4. CallInv'
    BY <1>1 DEF CallInv
  <1>5. CASE files = {t}
    <2>1. /\ umsg_enable' = 0 /\ base_addr' = 0 /\ in_use' = {} /\ dma_regions' = <<>>
          /\ maps' = maps \ Regions /\ pins' = pins - PageCount(Regions)
      BY <1>5, Clears DEF Release, RegionDestroy
    <2>2. Holding = {} /\ Pinning = {}
      BY <1>1, <1>5 DEF CallInv, Holding, Pinning, InFlight
    <2>3. Regions' = {}
      BY <2>1 DEF Regions
    <2>4. maps' = {}
      BY <2>1, <2>2 DEF MapInv
    <2>5. dma_regions' \in Seq(RegionType) /\ Len(dma_regions') = 0 /\ Distinct(dma_regions')
      BY <2>1 DEF Distinct
    <2>6. VarsOK'
      BY <1>1, <1>3, <2>1, <2>4, <2>5, BoundsAssumption DEF VarsOK
    <2>7. HoldInv' /\ MapInv' /\ UmsgInv'
      BY <1>2, <2>1, <2>2, <2>3, <2>4 DEF HoldInv, MapInv, UmsgInv
    <2>8. TreeInv'
      <3>1. Cardinality(Adding) \in Nat /\ Len(dma_regions) \in Nat
        BY AddingSize DEF VarsOK
      <3>2. Cardinality(Adding') = Cardinality(Adding)
        BY <1>2, Zenon
      <3> QED BY <2>5, <3>1, <3>2, BoundsAssumption DEF TreeInv
    <2>9. PinInv'
      <3>1. TreePages' = 0
        BY <2>3, NoPages DEF TreePages
      <3>2. CallPages' = CallPages /\ CallPages \in Nat /\ TreePages \in Nat
        BY <1>2, PagesType
      <3>3. pins' = pins - TreePages /\ pins = lost + TreePages + CallPages /\ lost \in Nat
            /\ lost' = lost
        BY <1>1, <2>1, TreePagesCounted DEF PinInv, VarsOK
      <3> HIDE DEF IndInv
      <3> QED BY <3>1, <3>2, <3>3 DEF PinInv
    <2> QED BY <1>4, <2>6, <2>7, <2>8, <2>9
  <1>6. CASE files # {t}
    <2>1. UNCHANGED <<dma_regions, in_use, maps, pins, umsg_enable, base_addr>>
      BY <1>6 DEF Release, umsgVars
    <2>2. Regions' = Regions /\ TreePages' = TreePages
      BY <2>1, SameTree
    <2>3. VarsOK'
      BY <1>1, <1>3, <2>1 DEF VarsOK
    <2>4. HoldInv' /\ TreeInv'
      BY <1>1, <1>2, <2>1, <2>2 DEF HoldInv, TreeInv
    <2>5. MapInv'
      BY <1>1, <1>2, <2>1, <2>2 DEF MapInv, Overlap
    <2>6. files' # {} /\ files # {}
      BY <1>1, <1>6
    <2>7. UmsgInv'
      BY <2>1, <2>2, <2>6 DEF UmsgInv, dma_region_check_iova
    <2>8. PinInv'
      BY <1>1, <1>2, <2>1, <2>2 DEF PinInv
    <2> QED BY <1>4, <2>3, <2>4, <2>5, <2>7, <2>8
  <1> QED BY <1>5, <1>6

\* IndInv is inductive.
LEMMA Inductive ==
  ASSUME Iommu = TRUE
  PROVE  Spec => []IndInv
  <1>1. Init => IndInv
    <2> SUFFICES ASSUME Init PROVE IndInv
      OBVIOUS
    <2>1. VarsOK
      <3>1. dma_regions \in Seq(RegionType)
        BY DEF Init
      <3>2. LockedOK /\ base_addr \in 0..MaxPage
        BY BoundsAssumption DEF Init, LockedOK
      <3> QED BY <3>1, <3>2 DEF Init, VarsOK
    <2>2. Adding = {} /\ Holding = {} /\ Pinning = {} /\ Regions = {}
      BY DEF Init, Adding, Holding, Pinning, InFlight, Regions
    <2>3. CallInv /\ HoldInv /\ MapInv /\ UmsgInv
      BY <2>2 DEF Init, CallInv, HoldInv, MapInv, UmsgInv
    <2>4. TreeInv
      <3>1. Len(dma_regions) = 0 /\ Distinct(dma_regions)
        BY DEF Init, Distinct
      <3>2. Cardinality(Adding) = 0
        BY <2>2, FS_EmptySet
      <3> QED BY <3>1, <3>2, BoundsAssumption DEF TreeInv
    <2>5. PinInv
      <3>1. TreePages = 0 /\ CallPages = 0
        BY <2>2, NoPages DEF TreePages, CallPages
      <3> QED BY <3>1 DEF Init, PinInv
    <2> QED BY <2>1, <2>3, <2>4, <2>5 DEF IndInv
  <1>2. IndInv /\ [Next]_vars => IndInv'
    <2> SUFFICES ASSUME IndInv, [Next]_vars PROVE IndInv'
      OBVIOUS
    <2>1. ASSUME NEW t \in Threads, NEW len \in 1..MaxLen, PinPages(t, len) PROVE IndInv'
      BY <2>1, PinStep
    <2>2. ASSUME NEW t \in Threads, Open(t) \/ \E len, n \in 1..MaxLen : PinPagesPartly(t, len, n)
          PROVE  IndInv'
      BY <2>2, OpenStep
    <2>3. ASSUME NEW t \in Threads, MapFails(t) PROVE IndInv'
      <3>1. t \in Pinning /\ t \notin Holding
        BY <2>3, Members DEF MapFails
      <3> QED BY <2>3, <3>1, GiveBack DEF MapFails, umsgVars
    <2>4. ASSUME NEW t \in Threads, NEW iova \in Pages, MapPage(t, iova) PROVE IndInv'
      BY <2>4, MapStep
    <2>5. ASSUME NEW t \in Threads, RegionAdd(t) PROVE IndInv'
      <3>1. CASE Addable(reg[t])
        BY <2>5, <3>1, AddStep DEF RegionAdd, umsgVars
      <3>2. CASE ~Addable(reg[t])
        <4>1. t \in Pinning /\ t \in Holding
          BY <2>5, Members DEF RegionAdd
        <4> QED BY <2>5, <3>2, <4>1, GiveBack DEF RegionAdd, umsgVars
      <3> QED BY <3>1, <3>2
    <2>6. ASSUME NEW t \in Threads, CopyToUser(t) PROVE IndInv'
      BY <2>6, ReturnStep DEF CopyToUser, dmaVars, umsgVars
    <2>7. ASSUME NEW t \in Threads, CopyFails(t) PROVE IndInv'
      <3>1. t \in files /\ reg[t].iova \in Nat
        BY <2>7, BoundsAssumption DEF CopyFails, IndInv, CallInv, RegionType
      <3>2. CASE RegionRemove(t, reg[t].iova)
        BY <2>7, <3>1, <3>2, RemoveStep DEF CopyFails, umsgVars
      <3>3. CASE Step(t, "idle", NoRegion) /\ UNCHANGED dma_regions
        BY <2>7, <3>3, ReturnStep DEF CopyFails, umsgVars
      <3> QED BY <2>7, <3>2, <3>3 DEF CopyFails
    <2>8. ASSUME NEW t \in Threads, NEW iova \in Pages, UnmapRegion(t, iova) PROVE IndInv'
      <3>1. iova \in Nat
        BY BoundsAssumption DEF Pages
      <3> QED BY <2>8, <3>1, RemoveStep DEF UnmapRegion, Idle, umsgVars
    <2>9. ASSUME NEW t \in Threads, UnmapEnd(t) PROVE IndInv'
      <3>1. t \in Pinning /\ t \in Holding
        BY <2>9, Members DEF UnmapEnd
      <3> QED BY <2>9, <3>1, GiveBack DEF UnmapEnd, umsgVars
    <2>10. ASSUME NEW t \in Threads,
                  \/ \E enable \in {0, 1} : UmsgEnable(t, enable)
                  \/ \E iova \in Pages : UmsgSetAddr(t, iova)
                  \/ UmsgClearAddr(t)
           PROVE  IndInv'
      BY <2>10, UmsgStep
    <2>11. ASSUME NEW t \in Threads, Release(t) PROVE IndInv'
      BY <2>11, ReleaseStep
    <2>12. CASE UNCHANGED vars
      <3> USE <2>12 DEF vars, dmaVars, umsgVars, IndInv
      <3>1. pins' = pins + 0 /\ lost' = lost + 0
        BY PagesType DEF VarsOK
      <3>2. CallInv' /\ HoldInv' /\ TreeInv' /\ MapInv' /\ PinInv'
        BY <3>1, StandStill
      <3>3. VarsOK' /\ UmsgInv'
        BY DEF VarsOK, LockedOK, UmsgInv, Regions, dma_region_check_iova
      <3> QED BY <3>2, <3>3
    <2> QED BY <2>1, <2>2, <2>3, <2>4, <2>5, <2>6, <2>7, <2>8, <2>9, <2>10, <2>11, <2>12 DEF Next
  <1> QED BY <1>1, <1>2, PTL DEF Spec

-----------------------------------------------------------------------------
(* The theorems.                                                           *)

\* Every variable keeps its type: neither the count of pinned pages nor locked_vm
\* goes below zero, and locked_vm exceeds the limit only for tasks with
\* CAP_IPC_LOCK.
THEOREM DmaTypeOK ==
  ASSUME Iommu = TRUE
  PROVE  Spec => []TypeOK
  <1>1. IndInv => TypeOK
    <2> SUFFICES ASSUME IndInv PROVE TypeOK
      OBVIOUS
    <2>1. pins \in Nat
      BY PagesType DEF IndInv
    <2>2. Len(dma_regions) <= MaxRegions
      <3>1. Cardinality(Adding) \in Nat /\ Len(dma_regions) \in Nat
        BY AddingSize DEF IndInv, VarsOK
      <3> QED BY <3>1, BoundsAssumption DEF IndInv, TreeInv
    <2> QED BY <2>1, <2>2 DEF IndInv, VarsOK, LockedOK, TypeOK
  <1> QED BY <1>1, Inductive, PTL

\* Every pinned page is the tree's, a call's or lost by afu_dma_pin_pages, and
\* the device reaches exactly the buffers of the tree and of calls in progress.
THEOREM DmaBuffersAccounted ==
  ASSUME Iommu = TRUE
  PROVE  Spec => []BuffersAccounted
  <1>1. IndInv => BuffersAccounted
    <2> SUFFICES ASSUME IndInv PROVE BuffersAccounted
      OBVIOUS
    <2>1. PageCount(Regions) = TreePages
      BY TreePagesCounted DEF IndInv
    <2>2. \A x \in Pinning \X (1..MaxLen) : CallLengths[x[1]] = reg[x[1]].length
      BY DEF Pinning, InFlight, CallLengths
    <2>3. {x \in Pinning \X (1..MaxLen) : x[2] <= reg[x[1]].length} = PageSet(Pinning, CallLengths)
      BY <2>2 DEF PageSet
    <2>4. pins = lost + PageCount(Regions)
            + Cardinality({x \in Pinning \X (1..MaxLen) : x[2] <= reg[x[1]].length})
      BY <2>1, <2>3, Zenon DEF IndInv, PinInv, CallPages
    <2>5. maps = Regions \cup {reg[t] : t \in Holding}
      BY DEF IndInv, MapInv
    <2> QED BY <2>4, <2>5, Zenon DEF BuffersAccounted, Pinning, Holding
  <1> QED BY <1>1, Inductive, PTL

\* The UMsg engine only ever has an address inside a mapped buffer that no unmap
\* can take away, and after the last close nothing is left to the device.
THEOREM DmaUmsgBacked ==
  ASSUME Iommu = TRUE
  PROVE  Spec => []UmsgBacked
  <1>1. IndInv => UmsgBacked
    <2> SUFFICES ASSUME IndInv PROVE UmsgBacked
      OBVIOUS
    <2> USE DEF IndInv
    <2>1. ASSUME base_addr # 0
          PROVE  \E r \in Regions \cap maps :
                   /\ r.iova <= base_addr /\ base_addr + NumUmsgs <= r.iova + r.length
                   /\ r.iova \in in_use
      <3>1. PICK r \in Regions : dma_region_check_iova(r, base_addr, NumUmsgs) /\ r.iova \in in_use
        BY <2>1 DEF UmsgInv
      <3>2. r \in maps /\ r \in RegionType
        BY DEF MapInv, Regions, VarsOK
      <3>3. /\ r.iova \in Nat /\ r.length \in Nat /\ base_addr \in Nat /\ NumUmsgs \in Nat
        BY <3>2, BoundsAssumption DEF RegionType, VarsOK
      <3>4. r.iova <= base_addr /\ base_addr + NumUmsgs <= r.iova + r.length
        BY <3>1, <3>3 DEF dma_region_check_iova
      <3> QED BY <3>1, <3>2, <3>4
    <2>2. ASSUME files = {}
          PROVE  /\ umsg_enable = 0 /\ base_addr = 0
                 /\ dma_regions = <<>> /\ maps = {} /\ in_use = {} /\ pins = lost
      <3>1. umsg_enable = 0 /\ base_addr = 0 /\ dma_regions = <<>> /\ in_use = {}
        BY <2>2 DEF UmsgInv, VarsOK
      <3>2. Holding = {} /\ Pinning = {} /\ Regions = {}
        BY <2>2, <3>1 DEF CallInv, Holding, Pinning, InFlight, Regions
      <3>3. TreePages = 0 /\ CallPages = 0
        BY <3>2, NoPages DEF TreePages, CallPages
      <3>4. pins = lost
        BY <3>3 DEF PinInv, VarsOK
      <3> QED BY <3>1, <3>2, <3>4 DEF MapInv
    <2> QED BY <2>1, <2>2 DEF UmsgBacked, UmsgInv
  <1> QED BY <1>1, Inductive, PTL

\* afu_dma_region_find keeps the promise of its comment for every address and
\* size, however many regions the tree has.
THEOREM DmaFindComplete ==
  ASSUME Iommu = TRUE
  PROVE  Spec => []FindComplete
  <1>1. IndInv => FindComplete
    <2> SUFFICES ASSUME IndInv, NEW iova \in Pages, NEW size \in 0..MaxLen
                 PROVE  LET wanted == {r \in Regions :
                              IF size = 0 THEN r.iova = iova
                              ELSE (iova..(iova + size - 1))
                                     \subseteq (r.iova..(r.iova + r.length - 1))}
                        IN  /\ wanted # {} => Found(iova, size) # {}
                            /\ \A i \in Found(iova, size) : dma_regions[i] \in wanted
      BY DEF FindComplete
    <2> DEFINE Wants(r) == IF size = 0 THEN r.iova = iova
                           ELSE (iova..(iova + size - 1))
                                  \subseteq (r.iova..(r.iova + r.length - 1))
    <2>1. iova \in Nat /\ size \in Nat
      BY BoundsAssumption DEF Pages
    <2>2. ASSUME NEW i \in DOMAIN dma_regions
          PROVE  Wants(dma_regions[i]) <=> dma_region_check_iova(dma_regions[i], iova, size)
      <3>1. PICK r \in RegionType : r = dma_regions[i]
        BY DEF IndInv, VarsOK
      <3>2. r.iova \in Nat /\ r.length \in Nat \ {0}
        BY BoundsAssumption DEF RegionType
      <3>3. ASSUME NEW a \in Nat, NEW l \in Nat, l > 0
            PROVE  IF size = 0 THEN a = iova <=> (a = iova /\ a <= iova /\ a + l >= iova + size)
                   ELSE ((iova..(iova + size - 1)) \subseteq (a..(a + l - 1)))
                          <=> (a <= iova /\ a + l >= iova + size)
        <4>1. CASE size = 0
          BY <2>1, <3>3, <4>1
        <4>2. CASE size # 0
          <5>1. ASSUME (iova..(iova + size - 1)) \subseteq (a..(a + l - 1))
                PROVE  a <= iova /\ a + l >= iova + size
            <6>1. iova \in iova..(iova + size - 1) /\ iova + size - 1 \in iova..(iova + size - 1)
              BY <2>1, <4>2
            <6> QED BY <2>1, <5>1, <6>1
          <5>2. ASSUME a <= iova /\ a + l >= iova + size
                PROVE  (iova..(iova + size - 1)) \subseteq (a..(a + l - 1))
            BY <2>1, <5>2
          <5> QED BY <4>2, <5>1, <5>2
        <4> QED BY <4>1, <4>2
      <3> QED BY <2>1, <3>1, <3>2, <3>3 DEF dma_region_check_iova
    <2> HIDE DEF Wants
    <2>3. ASSUME NEW r \in Regions, Wants(r) PROVE Found(iova, size) # {}
      <3>1. PICK i \in DOMAIN dma_regions : r = dma_regions[i]
        BY DEF Regions
      <3> QED BY <2>1, <2>2, <2>3, <3>1, Lookup DEF IndInv
    <2>4. ASSUME NEW i \in Found(iova, size)
          PROVE  dma_regions[i] \in Regions /\ Wants(dma_regions[i])
      BY <2>2 DEF Found, Regions
    <2> QED BY <2>3, <2>4 DEF Wants
  <1> QED BY <1>1, Inductive, PTL
=============================================================================
