---------------------------- MODULE SpiNorProofs ----------------------------
(***************************************************************************)
(* Proofs about SpiNor, for flashes of any size, any page, sector and FIFO *)
(* sizes, any tasks and any ranges within the flash.                       *)
(***************************************************************************)
EXTENDS SpiNor, FiniteSetTheorems, SequenceTheorems, TLAPS

-----------------------------------------------------------------------------
(* The inductive invariant.  Its parts are about a call j and the chip c.  *)

Busy(j) == j.at \notin {"idle", "lock"}
Ok(j) == j.at = "unlock" /\ j.ret = "ok"

PlacesOf ==
  [write |-> {"lock", "wren", "program", "wait", "unlock"},
   erase |-> {"lock", "wren", "erase", "wait", "wrdi", "unlock"},
   read |-> {"lock", "read", "unlock"},
   lock |-> {"lock", "sr", "wren", "write_sr", "wait", "unlock"},
   unlock |-> {"lock", "sr", "wren", "write_sr", "wait", "unlock"},
   is_locked |-> {"lock", "sr", "unlock"}]

\* A call is at one of its places and has a range in the flash.
PlaceInv(j) ==
  /\ j.at = "idle" => j = Idle
  /\ j.at # "idle" =>
       /\ j.op \in DOMAIN PlacesOf /\ j.at \in PlacesOf[j.op]
       /\ j.n > 0 /\ j.a + j.n <= Size /\ j.i <= j.n
       /\ j.op = "erase" => j.n % EraseSize = 0
  /\ j.at = "lock" => j.i = 0 /\ j.got = {}

\* Nobody else makes the chip busy or changes its protection, and a chip that
\* listens has its latch set when a command needs it.
ChipInv(j, c) ==
  /\ j.clean => sane
  /\ j.clean /\ j.at # "wait" => ~c.wip
  /\ j.clean /\ j.at \in {"program", "erase", "write_sr"} => c.wel
  /\ j.op \in {"write", "erase", "read", "is_locked"} => Protected(c) = j.was

\* What has been written, page by page.
WriteInv(j, c) ==
  j.op = "write" =>
    /\ j.at \in {"wren", "program"} => j.i < j.n
    /\ j.at = "wait" => j.written <= j.remain /\ j.i + j.remain <= j.n
    /\ j.clean /\ Writable(j) =>
         /\ UnitsOf(j.a, j.i) \subseteq c.zero
         /\ j.at = "wait" => UnitsOf(j.a + j.i, j.written) \subseteq c.zero

\* What has been erased, sector by sector.
EraseInv(j, c) ==
  j.op = "erase" =>
    /\ j.i % EraseSize = 0
    /\ j.at \in {"wren", "erase"} => j.i < j.n
    /\ j.at = "wrdi" \/ Ok(j) => j.i = j.n
    /\ j.clean /\ Writable(j) /\ Aligned(j) => c.zero \cap UnitsOf(j.a, j.i) = {}

\* What has been read.
ReadInv(j, c) ==
  j.op = "read" =>
    /\ Ok(j) => j.i = j.n
    /\ j.clean => j.got = c.zero \cap UnitsOf(j.a, j.i)

\* The status to be written is the one computed from the chip's, and once it is
\* written the range is protected or is not.
Written(j) == j.clean /\ (j.at = "wait" \/ Ok(j))

ProtectInv(j, c) ==
  LET range == UnitsOf(j.a, j.n)
  IN  /\ j.op = "lock" /\ j.at \in {"wren", "write_sr"} =>
           stm_lock(RDSR(c), j.a, j.n) = WriteSr(j.sr)
      /\ j.op = "unlock" /\ j.at \in {"wren", "write_sr"} =>
           stm_unlock(RDSR(c), j.a, j.n) = WriteSr(j.sr)
      /\ j.op = "lock" /\ Written(j) /\ LockFits(j.a, j.n) => range \subseteq Protected(c)
      /\ j.op = "unlock" /\ Written(j) /\ UnlockFits(j.a, j.n) => range \cap Protected(c) = {}
      /\ j.op = "is_locked" /\ Ok(j) => j.answer = (range \subseteq Protected(c))

CallInv(j, c) ==
  Busy(j) => /\ ChipInv(j, c)
             /\ WriteInv(j, c)
             /\ EraseInv(j, c)
             /\ ReadInv(j, c)
             /\ ProtectInv(j, c)

\* nor->lock excludes, and only a registered device is called.
ExclusionInv ==
  /\ \A t \in Tasks : Busy(job[t]) <=> nor_lock = t
  /\ phase # "registered" => \A t \in Tasks : job[t] = Idle

\* A scan that nothing disturbed leaves the chip in the driver's address mode.
ScanInv ==
  /\ phase # "scan" => scan = <<>>
  /\ \A k \in DOMAIN scan : scan[k] = "EN4B" => big
  /\ "4B_OPCODES" \in flags => chip.wide
  /\ phase = "scan" /\ sane /\ big =>
       chip.wide \/ \E k \in DOMAIN scan : scan[k] = "EN4B"
  /\ phase = "scan" /\ sane /\ micron =>
       \A k \in DOMAIN scan : scan[k] = "EN4B" =>
         IF k = 1 THEN ~chip.wip /\ chip.wel ELSE scan[k - 1] = "WREN"
  /\ chip.wide => big
  /\ phase = "registered" /\ sane /\ big => chip.wide

CallsInv == \A t \in Tasks : PlaceInv(job[t]) /\ CallInv(job[t], chip)

IndInv == TypeOK /\ ExclusionInv /\ ScanInv /\ CallsInv

-----------------------------------------------------------------------------
(* Powers of two.                                                          *)

\* Every set of natural numbers that is not empty has a least member.
LEMMA LeastMember ==
  ASSUME NEW S \in SUBSET Nat, S # {}
  PROVE  \E x \in S : \A y \in S : x <= y
  <1> DEFINE T == {0..i : i \in S}
  <1>1. T \subseteq FiniteSubsetsOf(Nat)
    <2>1. ASSUME NEW i \in S PROVE 0..i \in FiniteSubsetsOf(Nat)
      <3>1. IsFiniteSet(0..i) /\ 0..i \subseteq Nat
        BY FS_Interval
      <3> QED BY <3>1 DEF FiniteSubsetsOf
    <2> QED BY <2>1
  <1>2. PICK X \in T : \A Y \in T : <<Y, X>> \notin StrictSubsetOrdering(Nat)
    <2>1. T # {}
      OBVIOUS
    <2> HIDE DEF T
    <2> QED BY <1>1, <2>1, WFMin, FS_StrictSubsetOrderingWellFounded
  <1>3. PICK x \in S : X = 0..x
    OBVIOUS
  <1>4. ASSUME NEW y \in S PROVE x <= y
    <2>1. 0..y \in T /\ 0..y \subseteq Nat /\ 0..x \subseteq Nat
      OBVIOUS
    <2>2. ~(0..y \subseteq 0..x /\ 0..y # 0..x)
      BY <1>2, <1>3, <2>1 DEF StrictSubsetOrdering
    <2>3. SUFFICES ASSUME y < x PROVE FALSE
      OBVIOUS
    <2>4. 0..y \subseteq 0..x /\ x \in 0..x /\ x \notin 0..y
      BY <2>3
    <2> QED BY <2>2, <2>4
  <1> QED BY <1>4

\* f is the table of the powers of two up to n.
Table(f, n) ==
  f \in [0..n -> Nat] /\ f[0] = 1 /\ \A k \in 1..n : f[k] = 2 * f[k - 1]

\* There is such a table for every n ...
LEMMA TableExists ==
  ASSUME NEW n \in Nat
  PROVE  \E f : Table(f, n)
  <1> DEFINE S == {m \in Nat : ~\E f : Table(f, m)}
  <1>1. SUFFICES ASSUME S # {} PROVE FALSE
    OBVIOUS
  <1>2. PICK m \in S : \A y \in S : m <= y
    BY <1>1, LeastMember
  <1>3. CASE m = 0
    <2> DEFINE f == [k \in 0..0 |-> 1]
    <2>1. Table(f, 0)
      BY DEF Table
    <2> QED BY <1>3, <2>1
  <1>4. CASE m # 0
    <2>1. m - 1 \in Nat /\ m \in Nat /\ m - 1 \notin S
      BY <1>2, <1>4
    <2>2. PICK f : Table(f, m - 1)
      BY <2>1
    <2> DEFINE g == [k \in 0..m |-> IF k = m THEN 2 * f[m - 1] ELSE f[k]]
    <2>3. Table(g, m)
      BY <2>1, <2>2, <1>4 DEF Table
    <2> QED BY <2>3
  <1> QED BY <1>3, <1>4

\* ... and two tables agree where both are defined.
LEMMA TablesAgree ==
  ASSUME NEW n \in Nat, NEW m \in Nat, NEW f, NEW g, Table(f, n), Table(g, m),
         NEW k \in Nat, k <= n, k <= m
  PROVE  f[k] = g[k]
  <1> DEFINE S == {j \in 0..k : f[j] # g[j]}
  <1>1. SUFFICES ASSUME S # {} PROVE FALSE
    OBVIOUS
  <1>2. PICK j \in S : \A y \in S : j <= y
    <2>1. S \in SUBSET Nat
      OBVIOUS
    <2> QED BY <1>1, <2>1, LeastMember
  <1>3. j # 0
    BY DEF Table
  <1>4. j - 1 \in 0..k /\ j - 1 \notin S /\ j \in 1..n /\ j \in 1..m
    BY <1>2, <1>3
  <1> QED BY <1>4 DEF Table

\* The recursive definition of pow2 has a solution.
LEMMA Pow2Def == pow2 = [k \in Nat |-> IF k = 0 THEN 1 ELSE 2 * pow2[k - 1]]
  <1> DEFINE T(n) == CHOOSE f : Table(f, n)
             F == [n \in Nat |-> T(n)[n]]
             G(g) == [k \in Nat |-> IF k = 0 THEN 1 ELSE 2 * g[k - 1]]
  <1>1. ASSUME NEW n \in Nat PROVE Table(T(n), n)
    BY TableExists
  <1>2. ASSUME NEW n \in Nat PROVE F[n] = IF n = 0 THEN 1 ELSE 2 * F[n - 1]
    <2>1. CASE n = 0
      BY <1>1, <2>1 DEF Table
    <2>2. CASE n # 0
      <3>1. n - 1 \in Nat /\ n \in 1..n
        BY <2>2
      <3>2. T(n)[n - 1] = T(n - 1)[n - 1]
        BY <1>1, <3>1, TablesAgree
      <3>3. T(n)[n] = 2 * T(n)[n - 1]
        BY <1>1, <3>1 DEF Table
      <3> HIDE DEF T
      <3> QED BY <2>2, <3>1, <3>2, <3>3
    <2> QED BY <2>1, <2>2
  <1>3. F = G(F)
    <2> HIDE DEF T
    <2>1. \A n \in Nat : F[n] = G(F)[n]
      BY <1>2
    <2> QED BY <2>1
  <1>4. \E g : g = G(g)
    BY <1>3
  <1>5. pow2 = CHOOSE g : g = G(g)
    BY DEF pow2
  <1> HIDE DEF G
  <1>6. pow2 = G(pow2)
    BY <1>4, <1>5
  <1> QED BY <1>6 DEF G

\* Its values.
LEMMA Pow2 ==
  /\ pow2 \in [Nat -> Nat \ {0}]
  /\ pow2[0] = 1
  /\ \A k \in Nat : pow2[k + 1] = 2 * pow2[k]
  <1>1. pow2[0] = 1 /\ \A k \in Nat : pow2[k + 1] = 2 * pow2[k]
    <2>1. \A k \in Nat : pow2[k] = IF k = 0 THEN 1 ELSE 2 * pow2[k - 1]
      BY Pow2Def, Zenon
    <2>2. pow2[0] = 1
      BY <2>1
    <2>3. ASSUME NEW k \in Nat PROVE pow2[k + 1] = 2 * pow2[k]
      BY <2>1, k + 1 \in Nat, k + 1 # 0, (k + 1) - 1 = k
    <2> QED BY <2>2, <2>3
  <1>2. ASSUME NEW k \in Nat PROVE pow2[k] \in Nat \ {0}
    <2> DEFINE S == {j \in Nat : pow2[j] \notin Nat \ {0}}
    <2>1. SUFFICES ASSUME S # {} PROVE FALSE
      OBVIOUS
    <2>2. PICK j \in S : \A y \in S : j <= y
      BY <2>1, LeastMember
    <2>3. j # 0
      BY <1>1
    <2>4. j - 1 \in Nat /\ j - 1 \notin S
      BY <2>2, <2>3
    <2>5. pow2[(j - 1) + 1] = 2 * pow2[j - 1] /\ (j - 1) + 1 = j
      BY <1>1, <2>4
    <2> QED BY <2>4, <2>5
  <1>3. pow2 \in [Nat -> Nat \ {0}]
    <2>1. DOMAIN pow2 = Nat /\ pow2 = [k \in Nat |-> pow2[k]]
      BY Pow2Def, Zenon
    <2> QED BY <1>2, <2>1
  <1> QED BY <1>1, <1>3

\* They grow.
LEMMA Pow2Grows ==
  ASSUME NEW j \in Nat, NEW k \in Nat, j < k
  PROVE  pow2[j] < pow2[k]
  <1> DEFINE S == {m \in Nat : j < m /\ ~(pow2[j] < pow2[m])}
  <1>1. SUFFICES ASSUME S # {} PROVE FALSE
    OBVIOUS
  <1>2. PICK m \in S : \A y \in S : m <= y
    BY <1>1, LeastMember
  <1>3. m - 1 \in Nat /\ m - 1 \notin S /\ m \in Nat /\ j < m
    BY <1>2
  <1>4. pow2[(m - 1) + 1] = 2 * pow2[m - 1] /\ (m - 1) + 1 = m
    BY <1>3, Pow2
  <1>5. pow2[m - 1] \in Nat \ {0} /\ pow2[j] \in Nat \ {0}
    BY <1>3, Pow2
  <1>6. pow2[j] < pow2[m]
    BY <1>3, <1>4, <1>5
  <1> QED BY <1>2, <1>6

\* The size of the smallest block that can be protected.
Block == pow2[SizeLog - 6]

\* The flash has 64 such blocks, and the bits express 2^k of them.
LEMMA Blocks ==
  /\ Block \in Nat \ {0} /\ Size = 64 * Block /\ SizeLog \in Nat /\ SizeLog >= 6
  /\ \A bp \in 1..7 : pow2[SizeLog - 7 + bp] = Size \div pow2[7 - bp]
  /\ Size \div pow2[6] = Block /\ Size \div pow2[5] = 2 * Block
  /\ Size \div pow2[4] = 4 * Block /\ Size \div pow2[3] = 8 * Block
  /\ Size \div pow2[2] = 16 * Block /\ Size \div pow2[1] = 32 * Block
  /\ Size \div pow2[0] = 64 * Block
  <1> DEFINE z == SizeLog - 6
  <1>1. z \in Nat /\ SizeLog = z + 6 /\ SizeLog \in Nat /\ SizeLog >= 6
    BY FlashAssumption
  <1> HIDE DEF z
  <1>2. PICK b \in Nat \ {0} : b = pow2[z]
    BY <1>1, Pow2
  <1>3. /\ pow2[z + 1] = 2 * b /\ pow2[z + 2] = 4 * b /\ pow2[z + 3] = 8 * b
        /\ pow2[z + 4] = 16 * b /\ pow2[z + 5] = 32 * b /\ pow2[z + 6] = 64 * b
    <2>1. /\ pow2[z + 1] = 2 * pow2[z] /\ pow2[(z + 1) + 1] = 2 * pow2[z + 1]
          /\ pow2[(z + 2) + 1] = 2 * pow2[z + 2] /\ pow2[(z + 3) + 1] = 2 * pow2[z + 3]
          /\ pow2[(z + 4) + 1] = 2 * pow2[z + 4] /\ pow2[(z + 5) + 1] = 2 * pow2[z + 5]
      BY <1>1, Pow2
    <2>2. /\ (z + 1) + 1 = z + 2 /\ (z + 2) + 1 = z + 3 /\ (z + 3) + 1 = z + 4
          /\ (z + 4) + 1 = z + 5 /\ (z + 5) + 1 = z + 6
      BY <1>1
    <2> QED BY <1>2, <2>1, <2>2
  <1>4. /\ pow2[0] = 1 /\ pow2[1] = 2 /\ pow2[2] = 4 /\ pow2[3] = 8 /\ pow2[4] = 16
        /\ pow2[5] = 32 /\ pow2[6] = 64
    <2>1. /\ pow2[0 + 1] = 2 * pow2[0] /\ pow2[1 + 1] = 2 * pow2[1] /\ pow2[2 + 1] = 2 * pow2[2]
          /\ pow2[3 + 1] = 2 * pow2[3] /\ pow2[4 + 1] = 2 * pow2[4] /\ pow2[5 + 1] = 2 * pow2[5]
      BY Pow2
    <2> QED BY <2>1, Pow2
  <1>5. Size = 64 * b
    BY <1>1, <1>3 DEF Size
  <1>6. Block = b
    BY <1>1, <1>2 DEF Block, z
  <1>7. /\ Size \div 64 = b /\ Size \div 32 = 2 * b /\ Size \div 16 = 4 * b
        /\ Size \div 8 = 8 * b /\ Size \div 4 = 16 * b /\ Size \div 2 = 32 * b
        /\ Size \div 1 = 64 * b
    BY <1>5
  <1>8. ASSUME NEW bp \in 1..7 PROVE pow2[SizeLog - 7 + bp] = Size \div pow2[7 - bp]
    <2>1. SizeLog - 7 + bp = z + (bp - 1)
      BY <1>1
    <2>2. pow2[z + (bp - 1)] = Size \div pow2[7 - bp]
      <3>1. bp = 1 \/ bp = 2 \/ bp = 3 \/ bp = 4 \/ bp = 5 \/ bp = 6 \/ bp = 7
        OBVIOUS
      <3>2. z + 0 = z
        BY <1>1
      <3> QED BY <3>1, <3>2, <1>2, <1>3, <1>4, <1>7
    <2> QED BY <2>1, <2>2
  <1> QED BY <1>1, <1>2, <1>4, <1>5, <1>6, <1>7, <1>8

-----------------------------------------------------------------------------
(* Block protection.                                                       *)

Status == [bp: 0..MASK, tb: {0, 1}]

\* A status that the chip can have.
Possible(s) == s.bp \in 0..MASK /\ s.tb \in {0, 1} /\ (~has_tb => s.tb = 0)

\* The number of units that bp protects.
LockLen(bp) == Size \div pow2[MASK - bp]

\* It grows with bp, from a block to the flash.
LEMMA LockLenGrows ==
  ASSUME NEW b \in 1..MASK, NEW c \in 1..MASK
  PROVE  /\ LockLen(b) \in Nat /\ Block <= LockLen(b) /\ LockLen(b) <= Size
         /\ b <= c => LockLen(b) <= LockLen(c)
         /\ LockLen(b) = pow2[SizeLog - 7 + b]
  <1>1. PICK k \in Nat \ {0} : k = Block
    BY Blocks
  <1>2. /\ LockLen(1) = k /\ LockLen(2) = 2 * k /\ LockLen(3) = 4 * k /\ LockLen(4) = 8 * k
        /\ LockLen(5) = 16 * k /\ LockLen(6) = 32 * k /\ LockLen(7) = 64 * k /\ Size = 64 * k
    BY <1>1, Blocks DEF LockLen, MASK
  <1>3. \A d \in 1..7 : d = 1 \/ d = 2 \/ d = 3 \/ d = 4 \/ d = 5 \/ d = 6 \/ d = 7
    OBVIOUS
  <1>4. b \in 1..7 /\ c \in 1..7
    BY DEF MASK
  <1>5. LockLen(b) = pow2[SizeLog - 7 + b]
    BY <1>4, Blocks DEF LockLen, MASK
  <1>6. LockLen(b) \in Nat /\ k <= LockLen(b) /\ LockLen(b) <= Size
    BY <1>2, <1>3, <1>4
  <1>7. b <= c => LockLen(b) <= LockLen(c)
    <2> SUFFICES ASSUME b <= c PROVE LockLen(b) <= LockLen(c)
      OBVIOUS
    <2>1. CASE b = 1
      BY <1>2, <1>3, <1>4, <2>1
    <2>2. CASE b = 2
      BY <1>2, <1>3, <1>4, <2>2
    <2>3. CASE b = 3
      BY <1>2, <1>3, <1>4, <2>3
    <2>4. CASE b = 4
      BY <1>2, <1>3, <1>4, <2>4
    <2>5. CASE b = 5
      BY <1>2, <1>3, <1>4, <2>5
    <2>6. CASE b = 6
      BY <1>2, <1>3, <1>4, <2>6
    <2>7. CASE b = 7
      BY <1>2, <1>3, <1>4, <2>7
    <2> QED BY <1>3, <1>4, <2>1, <2>2, <2>3, <2>4, <2>5, <2>6, <2>7
  <1> QED BY <1>1, <1>5, <1>6, <1>7

\* What is protected, as an interval.
LEMMA ProtectedIs ==
  ASSUME NEW s, s.bp \in 0..MASK
  PROVE  /\ s.bp = 0 => Protected(s) = {}
         /\ s.bp # 0 => Protected(s) =
              IF s.tb = 1 THEN 0..(LockLen(s.bp) - 1) ELSE (Size - LockLen(s.bp))..(Size - 1)
         /\ Protected(s) \subseteq Units
  <1>1. CASE s.bp = 0
    BY <1>1 DEF Protected
  <1>2. CASE s.bp # 0
    <2>1. PICK b \in 1..MASK : b = s.bp
      BY <1>2 DEF MASK
    <2>2. PICK l \in Nat : l = LockLen(b) /\ l <= Size
      BY LockLenGrows
    <2>3. Size \in Nat
      BY Blocks
    <2>4. Protected(s) = UnitsOf(IF s.tb = 1 THEN 0 ELSE Size - l, l)
      BY <1>2, <2>1, <2>2 DEF Protected, LockLen, MASK
    <2>5. Protected(s) = IF s.tb = 1 THEN 0..(l - 1) ELSE (Size - l)..(Size - 1)
      BY <2>2, <2>3, <2>4 DEF UnitsOf
    <2> QED BY <1>2, <2>1, <2>2, <2>3, <2>5 DEF Units
  <1> QED BY <1>1, <1>2

\* More bits protect more at the same end.
LEMMA ProtectedGrows ==
  ASSUME NEW s, NEW r, s.bp \in 0..MASK, r.bp \in 0..MASK, s.bp <= r.bp,
         s.tb = r.tb
  PROVE  Protected(s) \subseteq Protected(r)
  <1>1. CASE s.bp = 0
    BY <1>1, ProtectedIs
  <1>2. CASE s.bp # 0
    <2>1. s.bp \in 1..MASK /\ r.bp \in 1..MASK /\ r.bp # 0
      BY <1>2 DEF MASK
    <2>2. PICK l \in Nat, m \in Nat : l = LockLen(s.bp) /\ m = LockLen(r.bp) /\ l <= m /\ m <= Size
      BY <2>1, LockLenGrows
    <2>3. /\ Protected(s) = IF r.tb = 1 THEN 0..(l - 1) ELSE (Size - l)..(Size - 1)
          /\ Protected(r) = IF r.tb = 1 THEN 0..(m - 1) ELSE (Size - m)..(Size - 1)
      BY <1>2, <2>1, <2>2, ProtectedIs
    <2>4. Size \in Nat
      BY Blocks
    <2> QED BY <2>2, <2>3, <2>4
  <1> QED BY <1>1, <1>2

\* stm_get_locked_range is the range that the chip protects.
LEMMA LockedRange ==
  ASSUME NEW s, Possible(s)
  PROVE  \E o, l \in Nat : /\ stm_get_locked_range(s) = <<o, l>>
                           /\ o + l <= Size
                           /\ Protected(s) = UnitsOf(o, l)
  <1>0. Size \in Nat
    BY Blocks
  <1>1. CASE s.bp = 0
    <2>1. stm_get_locked_range(s) = <<0, 0>> /\ Protected(s) = {} /\ UnitsOf(0, 0) = {}
      BY <1>1 DEF stm_get_locked_range, Protected, UnitsOf
    <2> QED BY <1>0, <2>1
  <1>2. CASE s.bp # 0
    <2>1. s.bp \in 1..MASK /\ s.bp \in 0..MASK
      BY <1>2 DEF Possible, MASK
    <2>2. PICK l \in Nat : l = LockLen(s.bp) /\ l <= Size
      BY <2>1, LockLenGrows
    <2>3. PICK o \in Nat : o = IF s.tb = 1 THEN 0 ELSE Size - l
      BY <1>0, <2>2
    <2>4. stm_get_locked_range(s) = <<o, l>>
      BY <1>2, <2>2, <2>3 DEF stm_get_locked_range, LockLen, Possible
    <2>5. Protected(s) = UnitsOf(o, l)
      BY <1>2, <2>2, <2>3 DEF Protected, LockLen, MASK
    <2>6. o + l <= Size
      BY <1>0, <2>2, <2>3
    <2> QED BY <2>4, <2>5, <2>6
  <1> QED BY <1>1, <1>2

\* stm_is_locked_sr says whether all of a range is protected ...
LEMMA IsLocked ==
  ASSUME NEW s, Possible(s), NEW ofs \in Nat, NEW len \in Nat
  PROVE  stm_is_locked_sr(ofs, len, s) <=> UnitsOf(ofs, len) \subseteq Protected(s)
  <1>1. PICK o \in Nat, l \in Nat : /\ stm_get_locked_range(s) = <<o, l>>
                                    /\ Protected(s) = UnitsOf(o, l)
    BY LockedRange
  <1>2. stm_is_locked_sr(ofs, len, s) <=> (len = 0 \/ (ofs + len <= o + l /\ ofs >= o))
    BY <1>1 DEF stm_is_locked_sr
  <1>3. CASE len = 0
    BY <1>2, <1>3 DEF UnitsOf
  <1>4. CASE len # 0
    <2>1. ofs \in UnitsOf(ofs, len) /\ ofs + len - 1 \in UnitsOf(ofs, len)
      BY <1>4 DEF UnitsOf
    <2>2. ASSUME UnitsOf(ofs, len) \subseteq UnitsOf(o, l)
          PROVE  ofs + len <= o + l /\ ofs >= o
      <3>1. ofs \in UnitsOf(o, l) /\ ofs + len - 1 \in UnitsOf(o, l)
        BY <2>1, <2>2
      <3> QED BY <3>1 DEF UnitsOf
    <2>3. ASSUME ofs + len <= o + l, ofs >= o
          PROVE  UnitsOf(ofs, len) \subseteq UnitsOf(o, l)
      BY <2>3 DEF UnitsOf
    <2> QED BY <1>1, <1>2, <1>4, <2>2, <2>3
  <1> QED BY <1>3, <1>4

\* ... and stm_is_unlocked_sr whether none of it is.
LEMMA IsUnlocked ==
  ASSUME NEW s, Possible(s), NEW ofs \in Nat, NEW len \in Nat
  PROVE  stm_is_unlocked_sr(ofs, len, s) => UnitsOf(ofs, len) \cap Protected(s) = {}
  <1>1. PICK o \in Nat, l \in Nat : /\ stm_get_locked_range(s) = <<o, l>>
                                    /\ Protected(s) = UnitsOf(o, l)
    BY LockedRange
  <1>2. stm_is_unlocked_sr(ofs, len, s) => (len = 0 \/ ofs >= o + l \/ ofs + len <= o)
    BY <1>1 DEF stm_is_unlocked_sr
  <1> QED BY <1>1, <1>2 DEF UnitsOf

\* ilog2 rounds down ...
LEMMA Ilog2 ==
  ASSUME NEW n \in 1..Size
  PROVE  ilog2(n) \in 0..SizeLog /\ pow2[ilog2(n)] <= n /\ n < pow2[ilog2(n) + 1]
  <1> DEFINE P(k) == pow2[k] <= n /\ n < pow2[k + 1]
             S == {k \in Nat : n < pow2[k + 1]}
  <1>1. SizeLog \in S /\ n \in Nat /\ n >= 1 /\ SizeLog \in Nat
    <2>1. Size \in Nat /\ SizeLog \in Nat /\ pow2[SizeLog] = Size
      BY Blocks DEF Size
    <2>2. pow2[SizeLog] < pow2[SizeLog + 1] /\ pow2[SizeLog + 1] \in Nat
      BY <2>1, Pow2Grows, Pow2
    <2> QED BY <2>1, <2>2
  <1>2. PICK k \in S : \A y \in S : k <= y
    BY <1>1, LeastMember
  <1>3. k \in 0..SizeLog
    BY <1>1, <1>2
  <1>4. pow2[k] <= n
    <2>1. CASE k = 0
      BY <1>1, <2>1, Pow2
    <2>2. CASE k # 0
      <3>1. k - 1 \in Nat /\ k - 1 \notin S /\ (k - 1) + 1 = k
        BY <1>2, <2>2
      <3>2. pow2[k] \in Nat
        BY <1>2, Pow2
      <3> QED BY <1>1, <3>1, <3>2
    <2> QED BY <2>1, <2>2
  <1>5. \E x \in 0..SizeLog : P(x)
    BY <1>3, <1>4
  <1>6. ilog2(n) = CHOOSE x \in 0..SizeLog : P(x)
    BY DEF ilog2
  <1> HIDE DEF P
  <1>7. ilog2(n) \in 0..SizeLog /\ P(ilog2(n))
    BY <1>5, <1>6
  <1> QED BY <1>7 DEF P

\* ... and order_base_2 up.
LEMMA OrderBase2 ==
  ASSUME NEW n \in 1..Size
  PROVE  /\ order_base_2(n) \in 0..SizeLog /\ n <= pow2[order_base_2(n)]
         /\ order_base_2(n) = 0 \/ pow2[order_base_2(n) - 1] < n
  <1> DEFINE P(k) == n <= pow2[k] /\ (k = 0 \/ pow2[k - 1] < n)
             S == {k \in Nat : n <= pow2[k]}
  <1>1. SizeLog \in S /\ n \in Nat /\ SizeLog \in Nat
    BY Blocks DEF Size
  <1>2. PICK k \in S : \A y \in S : k <= y
    BY <1>1, LeastMember
  <1>3. k \in 0..SizeLog
    BY <1>1, <1>2
  <1>4. k = 0 \/ pow2[k - 1] < n
    <2>1. SUFFICES ASSUME k # 0 PROVE pow2[k - 1] < n
      OBVIOUS
    <2>2. k - 1 \in Nat /\ k - 1 \notin S
      BY <1>2, <2>1
    <2>3. pow2[k - 1] \in Nat
      BY <2>2, Pow2
    <2> QED BY <1>1, <2>2, <2>3
  <1>5. \E x \in 0..SizeLog : P(x)
    BY <1>3, <1>4
  <1>6. order_base_2(n) = CHOOSE x \in 0..SizeLog : P(x)
    BY DEF order_base_2
  <1> HIDE DEF P
  <1>7. order_base_2(n) \in 0..SizeLog /\ P(order_base_2(n))
    BY <1>5, <1>6
  <1> QED BY <1>7 DEF P

\* Both are exact for powers of two.
LEMMA LogsExact ==
  ASSUME NEW k \in 0..SizeLog
  PROVE  pow2[k] \in 1..Size /\ ilog2(pow2[k]) = k /\ order_base_2(pow2[k]) = k
  <1>1. SizeLog \in Nat /\ Size = pow2[SizeLog] /\ Size \in Nat /\ k \in Nat
    BY Blocks DEF Size
  <1>2. PICK n \in Nat \ {0} : n = pow2[k]
    BY <1>1, Pow2
  <1>3. n <= Size
    <2>1. k = SizeLog \/ k < SizeLog
      BY <1>1
    <2>2. CASE k < SizeLog
      BY <1>1, <1>2, <2>2, Pow2Grows
    <2> QED BY <1>1, <1>2, <2>1, <2>2
  <1>4. n \in 1..Size
    BY <1>1, <1>2, <1>3
  <1>5. ilog2(n) = k
    <2>1. PICK x \in 0..SizeLog : x = ilog2(n) /\ pow2[x] <= n /\ n < pow2[x + 1]
      BY <1>4, Ilog2
    <2>2. x \in Nat /\ x + 1 \in Nat /\ pow2[x] \in Nat /\ pow2[x + 1] \in Nat
      BY <1>1, <2>1, Pow2
    <2>3. ~(k < x)
      BY <1>1, <1>2, <2>1, <2>2, Pow2Grows
    <2>4. ~(x + 1 < k) /\ x + 1 # k
      BY <1>1, <1>2, <2>1, <2>2, Pow2Grows
    <2> QED BY <1>1, <2>1, <2>2, <2>3, <2>4
  <1>6. order_base_2(n) = k
    <2>1. PICK x \in 0..SizeLog : /\ x = order_base_2(n) /\ n <= pow2[x]
                                  /\ x = 0 \/ pow2[x - 1] < n
      BY <1>4, OrderBase2
    <2>2. x \in Nat /\ pow2[x] \in Nat
      BY <1>1, <2>1, Pow2
    <2>3. ~(x < k)
      BY <1>1, <1>2, <2>1, <2>2, Pow2Grows
    <2>4. CASE x = 0
      BY <1>1, <2>1, <2>3, <2>4
    <2>5. CASE x # 0
      <3>1. x - 1 \in Nat /\ pow2[x - 1] \in Nat /\ pow2[x - 1] < n
        BY <2>1, <2>2, <2>5, Pow2
      <3>2. ~(k < x - 1) /\ k # x - 1
        BY <1>1, <1>2, <3>1, Pow2Grows
      <3> QED BY <1>1, <2>1, <2>2, <2>3, <3>1, <3>2
    <2> QED BY <2>4, <2>5
  <1> QED BY <1>2, <1>4, <1>5, <1>6

\* What stm_lock may write: it protects no less than before and, if the bits can
\* express the range, the range.
LEMMA StmLock ==
  ASSUME NEW s \in Status, Possible(s), NEW ofs \in Nat, NEW len \in Nat \ {0},
         ofs + len <= Size
  PROVE  /\ \/ stm_lock(s, ofs, len) = Same
            \/ stm_lock(s, ofs, len) = Invalid
            \/ \E r \in Status : stm_lock(s, ofs, len) = WriteSr(r)
         /\ \A r \in Status : stm_lock(s, ofs, len) = WriteSr(r) =>
              /\ Possible(r) /\ s.bp <= r.bp
              /\ LockFits(ofs, len) => UnitsOf(ofs, len) \subseteq Protected(r)
         /\ LockFits(ofs, len) /\ stm_lock(s, ofs, len) = Same =>
              UnitsOf(ofs, len) \subseteq Protected(s)
  <1> DEFINE locked == stm_is_locked_sr(ofs, len, s)
             bottom == has_tb /\ stm_is_locked_sr(0, ofs, s)
             top == stm_is_locked_sr(ofs + len, Above(ofs, len), s)
             lock_len == IF top THEN Size - ofs ELSE ofs + len
             bp == MASK - (SizeLog - ilog2(lock_len))
             new == [bp |-> bp, tb |-> IF top THEN 0 ELSE 1]
  <1>1. lock_len \in 1..Size /\ Size \in Nat /\ SizeLog \in Nat /\ SizeLog >= 6
    BY Blocks
  <1>2. bp \in Int /\ bp <= MASK
    BY <1>1, Ilog2 DEF MASK
  <1>3. stm_lock(s, ofs, len) =
          IF locked THEN Same
          ELSE IF ~bottom /\ ~top THEN Invalid
          ELSE IF bp <= 0 THEN Invalid
          ELSE IF new = s THEN Same
          ELSE IF bp < s.bp THEN Invalid
          ELSE WriteSr(new)
    BY DEF stm_lock
  <1>4. ASSUME LockFits(ofs, len), bottom \/ top, bp > 0
        PROVE  UnitsOf(ofs, len) \subseteq Protected(new)
    <2>1. PICK k \in (SizeLog - 6)..SizeLog : lock_len = pow2[k]
      <3>1. Expressible(lock_len)
        BY <1>4 DEF LockFits
      <3> QED BY <1>1, <3>1 DEF Expressible
    <2>2. k \in 0..SizeLog /\ ilog2(lock_len) = k
      BY <1>1, <2>1, LogsExact
    <2>3. bp = 7 - (SizeLog - k) /\ bp \in 1..MASK /\ k = SizeLog - 7 + bp
      BY <1>1, <1>4, <2>1, <2>2 DEF MASK
    <2>4. LockLen(bp) = lock_len
      BY <2>1, <2>3, LockLenGrows
    <2>5. new.bp = bp /\ new.tb = IF top THEN 0 ELSE 1
      OBVIOUS
    <2>6. lock_len = IF top THEN Size - ofs ELSE ofs + len
      OBVIOUS
    <2> HIDE DEF new, bp, lock_len, top
    <2>7. Protected(new) =
            IF new.tb = 1 THEN 0..(LockLen(new.bp) - 1) ELSE (Size - LockLen(new.bp))..(Size - 1)
      <3>1. bp \in 0..MASK /\ bp # 0
        BY <2>3 DEF MASK
      <3> QED BY <2>5, <3>1, ProtectedIs
    <2>8. Protected(new) = IF top THEN ofs..(Size - 1) ELSE 0..(ofs + len - 1)
      BY <1>1, <2>4, <2>5, <2>6, <2>7
    <2> QED BY <1>1, <2>8 DEF UnitsOf
  <1>5. locked => UnitsOf(ofs, len) \subseteq Protected(s)
    BY IsLocked
  <1>6. new.bp = bp /\ new.tb = IF top THEN 0 ELSE 1
    OBVIOUS
  <1>7. bottom => has_tb
    OBVIOUS
  <1>8. /\ Same # Invalid /\ \A r : WriteSr(r) # Same /\ WriteSr(r) # Invalid
        /\ \A r, q : WriteSr(r) = WriteSr(q) => r = q
    <2>1. Same.do = "same" /\ Invalid.do = "invalid"
      BY DEF Same, Invalid
    <2>2. \A r : WriteSr(r).do = "write" /\ WriteSr(r).sr = r
      BY DEF WriteSr
    <2> QED BY <2>1, <2>2
  <1>9. s.bp \in 0..MASK
    BY DEF Status
  <1>10. bp > 0 => new \in Status
    BY <1>2 DEF Status, MASK
  <1> HIDE DEF locked, bottom, top, lock_len, bp, new
  <1>11. CASE locked
    BY <1>3, <1>5, <1>8, <1>11
  <1>12. CASE ~locked /\ ~bottom /\ ~top
    BY <1>3, <1>8, <1>12
  <1>13. CASE ~locked /\ (bottom \/ top) /\ bp <= 0
    BY <1>3, <1>8, <1>13
  <1>14. CASE ~locked /\ (bottom \/ top) /\ ~(bp <= 0) /\ new = s
    <2>1. stm_lock(s, ofs, len) = Same
      BY <1>3, <1>14
    <2> QED BY <1>2, <1>4, <1>8, <1>14, <2>1
  <1>15. CASE ~locked /\ (bottom \/ top) /\ ~(bp <= 0) /\ new # s /\ bp < s.bp
    <2>1. stm_lock(s, ofs, len) = Invalid
      BY <1>3, <1>15
    <2> QED BY <1>8, <2>1
  <1>16. CASE ~locked /\ (bottom \/ top) /\ ~(bp <= 0) /\ new # s /\ ~(bp < s.bp)
    <2>1. stm_lock(s, ofs, len) = WriteSr(new)
      BY <1>3, <1>16
    <2>2. new \in Status /\ Possible(new) /\ s.bp <= new.bp
      <3>1. new \in Status /\ s.bp <= bp
        BY <1>2, <1>9, <1>10, <1>16 DEF MASK
      <3>2. ~has_tb => new.tb = 0
        BY <1>6, <1>7, <1>16
      <3> QED BY <1>6, <3>1, <3>2 DEF Possible, Status
    <2>3. LockFits(ofs, len) => UnitsOf(ofs, len) \subseteq Protected(new)
      BY <1>2, <1>4, <1>16
    <2> QED BY <1>8, <2>1, <2>2, <2>3
  <1> QED BY <1>11, <1>12, <1>13, <1>14, <1>15, <1>16

\* What stm_unlock may write: it protects no more than before, the range no
\* longer if the bits can express the rest, and what is to remain protected
\* unless that is less than a block.
LEMMA StmUnlock ==
  ASSUME NEW s \in Status, Possible(s), NEW ofs \in Nat, NEW len \in Nat \ {0},
         ofs + len <= Size
  PROVE  /\ \/ stm_unlock(s, ofs, len) = Same
            \/ stm_unlock(s, ofs, len) = Invalid
            \/ \E r \in Status : stm_unlock(s, ofs, len) = WriteSr(r)
         /\ \A r \in Status : stm_unlock(s, ofs, len) = WriteSr(r) =>
              /\ Possible(r) /\ r.bp <= s.bp
              /\ UnlockFits(ofs, len) => UnitsOf(ofs, len) \cap Protected(r) = {}
              /\ ~Vanishes(ofs, len, r.tb) =>
                   Protected(s) \ UnitsOf(ofs, len) \subseteq Protected(r)
         /\ UnlockFits(ofs, len) /\ stm_unlock(s, ofs, len) = Same =>
              UnitsOf(ofs, len) \cap Protected(s) = {}
  <1> DEFINE unlocked == stm_is_unlocked_sr(ofs, len, s)
             bottom == has_tb /\ stm_is_unlocked_sr(ofs + len, Above(ofs, len), s)
             top == stm_is_unlocked_sr(0, ofs, s)
             lock_len == IF top THEN Above(ofs, len) ELSE ofs
             bp == IF lock_len = 0 THEN 0 ELSE MASK - (SizeLog - order_base_2(lock_len))
             new == [bp |-> bp, tb |-> IF top THEN 0 ELSE 1]
             above == Above(ofs, len)
  <1>1. /\ lock_len \in 0..Size /\ Size \in Nat /\ SizeLog \in Nat /\ SizeLog >= 6
        /\ above \in Nat /\ above = Size - (ofs + len) /\ above < Size
    BY Blocks DEF Above
  <1>2. bp \in Int /\ bp <= MASK
    <2>1. CASE lock_len = 0
      BY <2>1 DEF MASK
    <2>2. CASE lock_len # 0
      <3>1. lock_len \in 1..Size
        BY <1>1, <2>2
      <3>2. PICK k \in 0..SizeLog : k = order_base_2(lock_len)
        BY <3>1, OrderBase2
      <3>3. bp = MASK - (SizeLog - k)
        BY <2>2, <3>2
      <3> QED BY <1>1, <3>2, <3>3 DEF MASK
    <2> QED BY <2>1, <2>2
  <1>3. stm_unlock(s, ofs, len) =
          IF unlocked THEN Same
          ELSE IF ~bottom /\ ~top THEN Invalid
          ELSE IF bp < 0 THEN Invalid
          ELSE IF new = s THEN Same
          ELSE IF bp > s.bp THEN Invalid
          ELSE WriteSr(new)
    BY DEF stm_unlock
  <1>4. /\ new.bp = bp /\ new.tb = IF top THEN 0 ELSE 1
        /\ lock_len = IF top THEN above ELSE ofs
    OBVIOUS
  <1>5. ASSUME bottom \/ top, bp >= 0, UnlockFits(ofs, len)
        PROVE  UnitsOf(ofs, len) \cap Protected(new) = {}
    <2>1. Expressible(lock_len)
      BY <1>5 DEF UnlockFits
    <2>2. CASE lock_len = 0
      <3>1. new.bp = 0
        BY <2>2
      <3> HIDE DEF new
      <3> QED BY <3>1, ProtectedIs DEF MASK
    <2>3. CASE lock_len # 0
      <3>1. PICK k \in (SizeLog - 6)..SizeLog : lock_len = pow2[k]
        BY <2>1, <2>3 DEF Expressible
      <3>2. k \in 0..SizeLog /\ order_base_2(lock_len) = k
        BY <1>1, <3>1, LogsExact
      <3>3. bp = 7 - (SizeLog - k) /\ bp \in 1..MASK /\ k = SizeLog - 7 + bp
        BY <1>1, <2>3, <3>1, <3>2 DEF MASK
      <3>4. LockLen(bp) = lock_len
        BY <3>1, <3>3, LockLenGrows
      <3> HIDE DEF new, bp, above, lock_len, top
      <3>5. Protected(new) =
              IF top THEN (Size - lock_len)..(Size - 1) ELSE 0..(lock_len - 1)
        BY <1>4, <3>3, <3>4, ProtectedIs DEF MASK
      <3> QED BY <1>4, <1>1, <3>5 DEF UnitsOf
    <2> QED BY <2>2, <2>3
  <1>6. ASSUME bottom \/ top, bp >= 0, ~Vanishes(ofs, len, new.tb)
        PROVE  Protected(s) \ UnitsOf(ofs, len) \subseteq Protected(new)
    <2>1. lock_len \notin 1..(Size \div 64 - 1)
      BY <1>6 DEF Vanishes
    <2>2. /\ top => UnitsOf(0, ofs) \cap Protected(s) = {}
          /\ ~top => UnitsOf(ofs + len, above) \cap Protected(s) = {}
          /\ Protected(s) \subseteq Units
      <3>1. above \in Nat /\ ofs + len \in Nat /\ 0 \in Nat
        BY <1>1
      <3> QED BY <1>6, <3>1, IsUnlocked, ProtectedIs DEF Status
    <2>3. Protected(s) \ UnitsOf(ofs, len) \subseteq
            IF top THEN (ofs + len)..(Size - 1) ELSE 0..(ofs - 1)
      <3> HIDE DEF top, above
      <3> QED BY <1>1, <2>2 DEF UnitsOf, Units
    <2>4. CASE lock_len = 0
      <3>1. top => above = 0
        BY <2>4
      <3>2. ~top => ofs = 0
        BY <2>4
      <3> HIDE DEF top, above, new
      <3> QED BY <1>1, <2>3, <3>1, <3>2
    <2>5. CASE lock_len # 0
      <3>1. PICK k \in 0..SizeLog : k = order_base_2(lock_len) /\ lock_len <= pow2[k]
        <4>1. lock_len \in 1..Size
          BY <1>1, <2>5
        <4> QED BY <4>1, OrderBase2
      <3>2. bp = 7 - (SizeLog - k)
        BY <2>5, <3>1 DEF MASK
      <3>3. Size \div 64 = Block /\ Block \in Nat
        BY Blocks
      <3>4. bp # 0
        <4>1. SUFFICES ASSUME bp = 0 PROVE FALSE
          OBVIOUS
        <4>2. k = SizeLog - 7 /\ k \in Nat /\ SizeLog - 6 \in Nat /\ k < SizeLog - 6
          BY <1>1, <3>1, <3>2, <4>1
        <4>3. pow2[k] < Block /\ pow2[k] \in Nat
          BY <4>2, Pow2, Pow2Grows DEF Block
        <4> HIDE DEF lock_len
        <4> QED BY <1>1, <2>1, <2>5, <3>1, <3>3, <4>3
      <3>5. bp \in 1..MASK /\ k = SizeLog - 7 + bp
        BY <1>1, <1>2, <1>6, <3>1, <3>2, <3>4 DEF MASK
      <3>6. LockLen(bp) = pow2[k] /\ LockLen(bp) \in Nat /\ LockLen(bp) <= Size
        BY <3>5, LockLenGrows
      <3> HIDE DEF new, bp, above, lock_len, top
      <3>7. Protected(new) =
              IF top THEN (Size - LockLen(bp))..(Size - 1) ELSE 0..(LockLen(bp) - 1)
        BY <1>4, <3>5, ProtectedIs DEF MASK
      <3>8. /\ top => (ofs + len)..(Size - 1) \subseteq (Size - LockLen(bp))..(Size - 1)
            /\ ~top => 0..(ofs - 1) \subseteq 0..(LockLen(bp) - 1)
        BY <1>4, <1>1, <3>1, <3>6
      <3> QED BY <2>3, <3>7, <3>8
    <2> QED BY <2>4, <2>5
  <1>7. unlocked => UnitsOf(ofs, len) \cap Protected(s) = {}
    BY IsUnlocked
  <1>8. bottom => has_tb
    OBVIOUS
  <1>9. /\ Same # Invalid /\ \A r : WriteSr(r) # Same /\ WriteSr(r) # Invalid
        /\ \A r, q : WriteSr(r) = WriteSr(q) => r = q
    <2>1. Same.do = "same" /\ Invalid.do = "invalid"
      BY DEF Same, Invalid
    <2>2. \A r : WriteSr(r).do = "write" /\ WriteSr(r).sr = r
      BY DEF WriteSr
    <2> QED BY <2>1, <2>2
  <1>10. s.bp \in 0..MASK
    BY DEF Status
  <1>11. bp >= 0 => new \in Status
    BY <1>2 DEF Status, MASK
  <1> HIDE DEF unlocked, bottom, top, lock_len, bp, new
  <1>12. CASE unlocked
    BY <1>3, <1>7, <1>9, <1>12
  <1>13. CASE ~unlocked /\ ~bottom /\ ~top
    BY <1>3, <1>9, <1>13
  <1>14. CASE ~unlocked /\ (bottom \/ top) /\ bp < 0
    BY <1>3, <1>9, <1>14
  <1>15. CASE ~unlocked /\ (bottom \/ top) /\ ~(bp < 0) /\ new = s
    <2>1. stm_unlock(s, ofs, len) = Same
      BY <1>3, <1>15
    <2> QED BY <1>2, <1>5, <1>9, <1>15, <2>1
  <1>16. CASE ~unlocked /\ (bottom \/ top) /\ ~(bp < 0) /\ new # s /\ bp > s.bp
    <2>1. stm_unlock(s, ofs, len) = Invalid
      BY <1>3, <1>16
    <2> QED BY <1>9, <2>1
  <1>17. CASE ~unlocked /\ (bottom \/ top) /\ ~(bp < 0) /\ new # s /\ ~(bp > s.bp)
    <2>1. stm_unlock(s, ofs, len) = WriteSr(new)
      BY <1>3, <1>17
    <2>2. new \in Status /\ Possible(new) /\ new.bp <= s.bp
      <3>1. new \in Status /\ bp <= s.bp
        BY <1>2, <1>10, <1>11, <1>17 DEF MASK
      <3>2. ~has_tb => new.tb = 0
        BY <1>4, <1>8, <1>17
      <3> QED BY <1>4, <3>1, <3>2 DEF Possible, Status
    <2>3. UnlockFits(ofs, len) => UnitsOf(ofs, len) \cap Protected(new) = {}
      BY <1>2, <1>5, <1>17
    <2>4. ~Vanishes(ofs, len, new.tb) =>
            Protected(s) \ UnitsOf(ofs, len) \subseteq Protected(new)
      BY <1>2, <1>6, <1>17
    <2> QED BY <1>9, <2>1, <2>2, <2>3, <2>4
  <1> QED BY <1>12, <1>13, <1>14, <1>15, <1>16, <1>17

-----------------------------------------------------------------------------
(* Pages and sectors.                                                      *)

\* Every number is a multiple and a remainder ...
LEMMA Division ==
  ASSUME NEW x \in Nat, NEW m \in Nat \ {0}
  PROVE  x % m \in 0..(m - 1) /\ x % m <= x /\ \E q \in Nat : x = q * m + (x % m)
  <1>1. x % m \in 0..(m - 1)
    OBVIOUS
  <1>2. x = m * (x \div m) + (x % m) /\ x \div m \in Nat
    OBVIOUS
  <1>3. PICK q \in Nat : q = x \div m
    BY <1>2
  <1>4. PICK r \in 0..(m - 1) : r = x % m
    BY <1>1
  <1>5. x = q * m + r /\ q * m \in Nat
    <2>1. m * q = q * m /\ q * m >= 0
      OBVIOUS
    <2> QED BY <1>2, <1>3, <1>4, <2>1
  <1>6. r <= x
    BY <1>5
  <1> QED BY <1>1, <1>4, <1>5, <1>6

\* ... in one way only.
LEMMA Remainder ==
  ASSUME NEW q \in Nat, NEW m \in Nat \ {0}, NEW r \in 0..(m - 1)
  PROVE  (q * m + r) % m = r
  <1>1. PICK x \in Nat : x = q * m + r
    OBVIOUS
  <1>2. PICK p \in Nat : x = p * m + (x % m)
    BY Division
  <1>3. PICK s \in 0..(m - 1) : s = x % m
    BY Division
  <1>4. q * m + r = p * m + s
    BY <1>1, <1>2, <1>3
  <1>5. q = p
    <2>1. CASE q < p
      <3>1. p = q + (p - q) /\ p - q >= 1 /\ p - q \in Nat
        BY <2>1
      <3>2. PICK d \in Nat : d = p - q /\ d >= 1 /\ p = q + d
        BY <3>1
      <3>3. p * m = q * m + d * m /\ d * m >= m
        BY <3>2
      <3>4. r = d * m + s
        BY <1>4, <3>3
      <3> QED BY <3>3, <3>4
    <2>2. CASE p < q
      <3>1. PICK d \in Nat : d = q - p /\ d >= 1 /\ q = p + d
        BY <2>2
      <3>3. q * m = p * m + d * m /\ d * m >= m
        BY <3>1
      <3>4. s = d * m + r
        BY <1>4, <3>3
      <3> QED BY <3>3, <3>4
    <2> QED BY <2>1, <2>2
  <1> QED BY <1>1, <1>3, <1>4, <1>5

\* Multiples are m apart, and their sums are multiples.
LEMMA Multiples ==
  ASSUME NEW x \in Nat, NEW y \in Nat, NEW m \in Nat \ {0}, x % m = 0, y % m = 0
  PROVE  (x < y => x + m <= y) /\ (x + y) % m = 0 /\ (x + m) % m = 0
  <1>0. \A k \in Nat : k * m \in Nat /\ k * m + 0 = k * m
    OBVIOUS
  <1>1. ASSUME NEW z \in Nat, z % m = 0 PROVE \E k \in Nat : z = k * m
    <2>1. PICK k \in Nat : z = k * m + (z % m)
      BY Division
    <2>2. z = k * m
      BY <2>1, <1>1, <1>0
    <2> QED BY <2>2
  <1>2. PICK p \in Nat : x = p * m
    BY <1>1
  <1>3. PICK q \in Nat : y = q * m
    BY <1>1
  <1>4. ASSUME x < y PROVE x + m <= y
    <2>1. CASE q <= p
      <3>1. PICK d \in Nat : p = q + d
        BY <2>1
      <3>2. p * m = q * m + d * m /\ d * m >= 0
        BY <3>1
      <3> QED BY <1>2, <1>3, <1>4, <3>2
    <2>2. CASE p < q
      <3>1. PICK d \in Nat : q = p + 1 + d
        BY <2>2
      <3>2. q * m = p * m + m + d * m /\ d * m >= 0
        BY <3>1
      <3> QED BY <1>2, <1>3, <3>2
    <2> QED BY <2>1, <2>2
  <1>5. (x + y) % m = 0
    <2>1. PICK k \in Nat : k = p + q
      OBVIOUS
    <2>2. k * m = p * m + q * m
      BY <2>1
    <2>3. (k * m + 0) % m = 0 /\ k * m \in Nat
      BY Remainder
    <2> QED BY <1>2, <1>3, <2>2, <2>3
  <1>6. (x + m) % m = 0
    <2>1. (p + 1) * m = p * m + m
      OBVIOUS
    <2>2. ((p + 1) * m + 0) % m = 0 /\ (p + 1) * m \in Nat
      BY Remainder
    <2> QED BY <1>2, <2>1, <2>2
  <1> QED BY <1>4, <1>5, <1>6

\* Within m the remainders follow each other.
LEMMA Consecutive ==
  ASSUME NEW x \in Nat, NEW m \in Nat \ {0}, NEW d \in Nat, (x % m) + d < m
  PROVE  (x + d) % m = (x % m) + d
  <1>1. PICK q \in Nat : x = q * m + (x % m)
    BY Division
  <1>2. PICK r \in Nat : r = x % m
    BY Division
  <1>3. r + d \in 0..(m - 1)
    BY <1>2
  <1>4. (q * m + (r + d)) % m = r + d
    BY <1>3, Remainder
  <1>5. PICK y \in Nat : y = q * m
    OBVIOUS
  <1>6. x + d = y + (r + d)
    BY <1>1, <1>2, <1>5
  <1> QED BY <1>2, <1>4, <1>5, <1>6

\* The start of the page or sector with x.
LEMMA Start ==
  ASSUME NEW x \in Nat, NEW m \in Nat \ {0}
  PROVE  x - (x % m) \in Nat /\ (x - (x % m)) % m = 0 /\ x - (x % m) <= x
         /\ x < x - (x % m) + m
  <1>1. PICK r \in 0..(m - 1) : r = x % m /\ r <= x
    BY Division
  <1>2. PICK q \in Nat : x = q * m + r
    BY <1>1, Division
  <1>3. PICK y \in Nat : y = q * m
    OBVIOUS
  <1>4. (y + 0) % m = 0
    BY <1>3, Remainder
  <1>5. x - r = y /\ y + 0 = y
    BY <1>2, <1>3
  <1> QED BY <1>1, <1>4, <1>5

\* The page or sector with x is within the flash.
LEMMA WithinFlash ==
  ASSUME NEW x \in Units, NEW m \in Nat \ {0}, Size % m = 0
  PROVE  x - (x % m) \in Nat /\ x - (x % m) + m <= Size
  <1>1. x \in Nat /\ Size \in Nat /\ x < Size
    BY Blocks DEF Units
  <1>2. PICK y \in Nat : y = x - (x % m) /\ y % m = 0 /\ y <= x
    BY <1>1, Start
  <1>3. y < Size => y + m <= Size
    BY <1>1, <1>2, Multiples
  <1> QED BY <1>1, <1>2, <1>3

\* What the chip programs is in a page of the flash, and it is what is sent if
\* that fits into the page.
LEMMA PageUnits ==
  ASSUME NEW x \in Units, NEW n \in Nat
  PROVE  LET units == {x - (x % PageSize) + (u % PageSize) : u \in UnitsOf(x, n)}
         IN  /\ units \subseteq Units
             /\ n <= PageSize - (x % PageSize) => units = UnitsOf(x, n)
  <1> DEFINE m == PageSize
             f(u) == x - (x % m) + (u % m)
             units == {f(u) : u \in UnitsOf(x, n)}
  <1>0. m \in Nat \ {0} /\ Size % m = 0 /\ x \in Nat /\ Size \in Nat
    BY FlashAssumption, Blocks DEF Units
  <1>1. PICK y \in Nat : y = x - (x % m) /\ y + m <= Size
    BY <1>0, WithinFlash
  <1>2. ASSUME NEW u \in UnitsOf(x, n) PROVE f(u) \in Units
    <2>1. u \in Nat
      BY <1>0 DEF UnitsOf
    <2>2. PICK r \in 0..(m - 1) : r = u % m
      BY <1>0, <2>1, Division
    <2> QED BY <1>0, <1>1, <2>2 DEF Units
  <1>3. ASSUME n <= m - (x % m), NEW u \in UnitsOf(x, n) PROVE f(u) = u
    <2>1. PICK d \in Nat : u = x + d /\ d < n
      BY <1>0 DEF UnitsOf
    <2>2. PICK r \in 0..(m - 1) : r = x % m
      BY <1>0, Division
    <2>3. (x % m) + d < m
      BY <1>0, <1>3, <2>1, <2>2
    <2>4. (x + d) % m = (x % m) + d
      BY <1>0, <2>3, Consecutive
    <2> QED BY <1>0, <2>1, <2>2, <2>4
  <1>4. units \subseteq Units
    BY <1>2
  <1>5. n <= m - (x % m) => units = UnitsOf(x, n)
    <2> HIDE DEF f
    <2> QED BY <1>3
  <1> QED BY <1>4, <1>5

\* The sector with x.
LEMMA Sectors ==
  ASSUME NEW x \in Units
  PROVE  /\ SectorOf(x) \subseteq Units /\ x \in SectorOf(x)
         /\ x % EraseSize = 0 => SectorOf(x) = UnitsOf(x, EraseSize)
  <1>0. EraseSize \in Nat \ {0} /\ Size % EraseSize = 0 /\ x \in Nat /\ Size \in Nat
    BY FlashAssumption, Blocks DEF Units
  <1>1. PICK y \in Nat : /\ y = x - (x % EraseSize) /\ y + EraseSize <= Size
                         /\ y <= x /\ x < y + EraseSize
    BY <1>0, WithinFlash, Start
  <1>2. SectorOf(x) = y..(y + EraseSize - 1)
    BY <1>1 DEF SectorOf, UnitsOf
  <1>3. x % EraseSize = 0 => y = x
    BY <1>0, <1>1
  <1>4. SectorOf(x) \subseteq Units /\ x \in SectorOf(x)
    BY <1>0, <1>1, <1>2 DEF Units
  <1>5. x % EraseSize = 0 => SectorOf(x) = UnitsOf(x, EraseSize)
    BY <1>2, <1>3 DEF UnitsOf
  <1> QED BY <1>4, <1>5

-----------------------------------------------------------------------------
(* The chip.                                                               *)

\* The status that is read is the chip's.
LEMMA ReadStatus ==
  ASSUME NEW c \in Chip, ~has_tb => c.tb = 0
  PROVE  /\ RDSR(c) \in Status /\ Possible(RDSR(c)) /\ Protected(RDSR(c)) = Protected(c)
         /\ Protected(c) \subseteq Units
         /\ RDSR(c).bp = c.bp /\ RDSR(c).tb = c.tb
  <1>1. c.bp \in 0..MASK /\ c.tb \in {0, 1}
    BY DEF Chip
  <1>2. RDSR(c).bp = c.bp /\ RDSR(c).tb = c.tb /\ RDSR(c) \in Status
    BY <1>1 DEF RDSR, Status
  <1>3. Protected(RDSR(c)) = Protected(c)
    BY <1>2 DEF Protected
  <1>4. Protected(c) \subseteq Units
    BY <1>1, ProtectedIs
  <1> QED BY <1>1, <1>2, <1>3, <1>4 DEF Possible

\* Two chips with the same data and the same protection.
SameData(c, d) == d.zero = c.zero
SameProt(c, d) == d.bp = c.bp /\ d.tb = c.tb

\* They protect the same units.
LEMMA SameProtected ==
  ASSUME NEW c, NEW d, SameProt(c, d)
  PROVE  Protected(d) = Protected(c) /\ RDSR(d) = RDSR(c)
  BY DEF SameProt, Protected, RDSR

\* The commands that change neither data nor protection.
LEMMA LatchCommands ==
  ASSUME NEW c \in Chip, NEW needs \in BOOLEAN
  PROVE  /\ \A d \in {WREN(c), WRDI(c), EN4B(c, needs), Ready(c)} :
              d \in Chip /\ SameData(c, d) /\ SameProt(c, d)
         /\ \A d \in {WREN(c), WRDI(c), EN4B(c, needs)} : d.wip = c.wip
         /\ \A d \in {WREN(c), WRDI(c), Ready(c)} : d.wide = c.wide
         /\ ~c.wip => WREN(c).wel
         /\ EN4B(c, needs).wel = c.wel
         /\ ~c.wip /\ (needs => c.wel) => EN4B(c, needs).wide
         /\ c.wide => EN4B(c, needs).wide
         /\ Ready(c).wip = FALSE
  <1>1. ASSUME NEW b \in BOOLEAN
        PROVE  LET d == [c EXCEPT !.wel = b]
               IN  /\ d \in Chip /\ SameData(c, d) /\ SameProt(c, d) /\ d.wip = c.wip
                   /\ d.wide = c.wide /\ d.wel = b
    BY DEF Chip, SameData, SameProt
  <1>2. LET d == [c EXCEPT !.wide = TRUE]
        IN  /\ d \in Chip /\ SameData(c, d) /\ SameProt(c, d) /\ d.wip = c.wip
            /\ d.wel = c.wel /\ d.wide = TRUE
    BY DEF Chip, SameData, SameProt
  <1>3. LET d == Ready(c)
        IN  /\ d \in Chip /\ SameData(c, d) /\ SameProt(c, d) /\ d.wip = FALSE
            /\ d.wide = c.wide
    BY DEF Chip, SameData, SameProt, Ready
  <1>4. SameData(c, c) /\ SameProt(c, c)
    BY DEF SameData, SameProt
  <1>5. LET d == WREN(c)
        IN  /\ d \in Chip /\ SameData(c, d) /\ SameProt(c, d) /\ d.wip = c.wip
            /\ d.wide = c.wide /\ (~c.wip => d.wel)
    BY <1>1, <1>4 DEF WREN
  <1>6. LET d == WRDI(c)
        IN  /\ d \in Chip /\ SameData(c, d) /\ SameProt(c, d) /\ d.wip = c.wip
            /\ d.wide = c.wide
    BY <1>1, <1>4 DEF WRDI
  <1>7. LET d == EN4B(c, needs)
        IN  /\ d \in Chip /\ SameData(c, d) /\ SameProt(c, d) /\ d.wip = c.wip
            /\ d.wel = c.wel /\ (~c.wip /\ (needs => c.wel) => d.wide) /\ (c.wide => d.wide)
    BY <1>2, <1>4 DEF EN4B
  <1> QED BY <1>3, <1>5, <1>6, <1>7

\* A status write changes the protection, if it is heard.
LEMMA StatusWrite ==
  ASSUME NEW c \in Chip, NEW s \in Status
  PROVE  /\ WRSR(c, s) \in Chip /\ SameData(c, WRSR(c, s)) /\ WRSR(c, s).wide = c.wide
         /\ SameProt(c, WRSR(c, s)) \/ SameProt(s, WRSR(c, s))
         /\ ~c.wip /\ c.wel => SameProt(s, WRSR(c, s))
         /\ c.wip \/ ~c.wel => WRSR(c, s) = c
  <1>1. LET d == [c EXCEPT !.bp = s.bp, !.tb = s.tb, !.wip = TRUE]
        IN  d \in Chip /\ SameData(c, d) /\ d.wide = c.wide /\ SameProt(s, d)
    BY DEF Chip, Status, SameData, SameProt
  <1>2. SameData(c, c) /\ SameProt(c, c)
    BY DEF SameData, SameProt
  <1> QED BY <1>1, <1>2 DEF WRSR

\* A program or erase changes nothing but the data, if it is heard.
LEMMA DataWrite ==
  ASSUME NEW c \in Chip, NEW units, NEW zero \in SUBSET Units
  PROVE  LET d == Modify(c, units, zero)
         IN  /\ d \in Chip /\ SameProt(c, d) /\ d.wide = c.wide
             /\ d.zero = c.zero \/ d.zero = zero
             /\ ~c.wip /\ c.wel /\ units \cap Protected(c) = {} => d.zero = zero
  <1>1. LET d == [c EXCEPT !.wel = FALSE]
        IN  d \in Chip /\ SameProt(c, d) /\ d.wide = c.wide /\ d.zero = c.zero
    BY DEF Chip, SameProt
  <1>2. LET d == [c EXCEPT !.zero = zero, !.wip = TRUE]
        IN  d \in Chip /\ SameProt(c, d) /\ d.wide = c.wide /\ d.zero = zero
    BY DEF Chip, SameProt
  <1>3. SameProt(c, c)
    BY DEF SameProt
  <1> QED BY <1>1, <1>2, <1>3 DEF Modify

-----------------------------------------------------------------------------
(* The steps of a call, from call j and chip c to call k and chip d.       *)

\* Call k has the request and the history of j and has come no further.
Keeps(j, k) ==
  /\ k.op = j.op /\ k.a = j.a /\ k.n = j.n /\ k.was = j.was
  /\ k.clean => j.clean
Stays(j, k) == Keeps(j, k) /\ k.i = j.i /\ k.got = j.got /\ k.sr = j.sr

Good(j, c) == PlaceInv(j) /\ CallInv(j, c)

\* Chip c is what the driver takes it for.
ChipOK(c) == c \in Chip /\ (~has_tb => c.tb = 0)

\* The places at which a call holds nor->lock.
Within == {"wren", "program", "read", "erase", "sr", "write_sr", "wait", "wrdi", "unlock"}
Results == {"none", "ok", "EIO", "EINVAL", "ETIMEDOUT", "error"}

\* The records that a step makes: a call goes on at another place, ...
LEMMA AtRecord ==
  ASSUME NEW j \in Job, NEW p \in Within
  PROVE  /\ At(j, p) \in Job /\ Stays(j, At(j, p)) /\ At(j, p).at = p
         /\ At(j, p).clean = j.clean /\ At(j, p).ret = j.ret
  BY DEF Job, At, Stays, Keeps, Within

\* ... it ends, ...
LEMMA EndsRecord ==
  ASSUME NEW j \in Job, NEW ret \in Results
  PROVE  /\ Ends(j, ret) \in Job /\ Stays(j, Ends(j, ret))
         /\ Ends(j, ret).at = "unlock" /\ Ends(j, ret).ret = ret
         /\ Ends(j, ret).clean = j.clean
  BY DEF Job, Ends, Stays, Keeps, Results

\* ... or something timed out.
LEMMA UncleanRecord ==
  ASSUME NEW j \in Job
  PROVE  /\ Unclean(j) \in Job /\ Stays(j, Unclean(j)) /\ Unclean(j).at = j.at
         /\ Unclean(j).ret = j.ret /\ Unclean(j).clean = FALSE
         /\ Unclean(j).remain = j.remain /\ Unclean(j).written = j.written
  BY DEF Job, Unclean, Stays, Keeps

\* A call that fails leaves nothing to be said of the chip, except that it did
\* not change the protection unless that was its purpose.
LEMMA Failing ==
  ASSUME NEW j \in Job, NEW c \in Chip, Good(j, c), Busy(j),
         NEW k \in Job, Stays(j, k), k.at = "unlock", k.ret # "ok", ~k.clean,
         NEW d, SameProt(c, d) \/ j.op \in {"lock", "unlock"}
  PROVE  Good(k, d) /\ Busy(k)
  <1>1. /\ k.op = j.op /\ k.a = j.a /\ k.n = j.n /\ k.was = j.was /\ k.i = j.i
    BY DEF Stays, Keeps
  <1>2. PlaceInv(k)
    BY <1>1 DEF Good, PlaceInv, Busy, PlacesOf
  <1>3. k.op \in {"write", "erase", "read", "is_locked"} => Protected(d) = k.was
    BY <1>1, SameProtected DEF Good, CallInv, ChipInv
  <1>4. ChipInv(k, d)
    BY <1>3 DEF ChipInv
  <1>5. WriteInv(k, d)
    BY DEF WriteInv
  <1>6. EraseInv(k, d)
    BY <1>1 DEF EraseInv, Good, CallInv, Ok
  <1>7. ReadInv(k, d)
    BY DEF ReadInv, Ok
  <1>8. ProtectInv(k, d)
    BY DEF ProtectInv, Written, Ok
  <1> QED BY <1>2, <1>4, <1>5, <1>6, <1>7, <1>8 DEF Good, CallInv, Busy

\* After write_enable an idle chip has its latch set.
LEMMA Enabling ==
  ASSUME NEW j \in Job, NEW c \in Chip, Good(j, c), j.at = "wren",
         NEW k \in Job, Stays(j, k), k.at = AfterWren[j.op],
         NEW d \in Chip, SameData(c, d), SameProt(c, d), d.wip = c.wip,
         k.clean /\ ~c.wip => d.wel
  PROVE  Good(k, d) /\ Busy(k)
  <1>1. /\ k.op = j.op /\ k.a = j.a /\ k.n = j.n /\ k.was = j.was /\ k.i = j.i /\ k.sr = j.sr
        /\ k.clean => j.clean
    BY DEF Stays, Keeps
  <1>2. /\ j.op \in {"write", "erase", "lock", "unlock"}
        /\ j.n > 0 /\ j.a + j.n <= Size /\ j.i <= j.n
        /\ j.op = "erase" => j.n % EraseSize = 0
    BY DEF Good, PlaceInv, PlacesOf
  <1>3. /\ k.at \in {"program", "erase", "write_sr"}
        /\ k.op = "write" => k.at = "program"
        /\ k.op = "erase" => k.at = "erase"
        /\ k.op \in {"lock", "unlock"} => k.at = "write_sr"
    BY <1>1, <1>2 DEF AfterWren
  <1>4. PlaceInv(k)
    BY <1>1, <1>2, <1>3 DEF PlaceInv, PlacesOf
  <1>5. CallInv(j, c)
    BY DEF Good, CallInv, Busy
  <1>6. Protected(d) = Protected(c) /\ RDSR(d) = RDSR(c) /\ d.zero = c.zero
    BY SameProtected DEF SameData
  <1>7. Busy(j)
    BY DEF Busy
  <1>8. ChipInv(k, d)
    BY <1>1, <1>3, <1>5, <1>6, <1>7 DEF ChipInv, CallInv
  <1>9. WriteInv(k, d)
    BY <1>1, <1>3, <1>5, <1>6, <1>7 DEF WriteInv, CallInv, Writable
  <1>10. EraseInv(k, d)
    BY <1>1, <1>3, <1>5, <1>6, <1>7 DEF EraseInv, CallInv, Writable, Aligned, Ok
  <1>11. ReadInv(k, d)
    BY <1>1, <1>2 DEF ReadInv
  <1>12. ProtectInv(k, d)
    BY <1>1, <1>2, <1>3, <1>5, <1>6, <1>7 DEF ProtectInv, CallInv, Written, Ok
  <1> QED BY <1>3, <1>4, <1>8, <1>9, <1>10, <1>11, <1>12 DEF Good, CallInv, Busy

\* The lesser of two numbers.
LEMMA Lesser ==
  ASSUME NEW x \in Int, NEW y \in Int
  PROVE  Min({x, y}) \in {x, y} /\ Min({x, y}) <= x /\ Min({x, y}) <= y
  <1>1. \E z \in {x, y} : \A w \in {x, y} : z <= w
    <2>1. CASE x <= y
      BY <2>1
    <2>2. CASE y <= x
      BY <2>2
    <2> QED BY <2>1, <2>2
  <1>2. Min({x, y}) \in {x, y} /\ \A w \in {x, y} : Min({x, y}) <= w
    BY <1>1 DEF Min
  <1> QED BY <1>2

\* The place of a call that is in the midst of its range.
LEMMA Midst ==
  ASSUME NEW j \in Job, PlaceInv(j), j.at # "idle", j.i < j.n
  PROVE  /\ j.a + j.i \in Units /\ 0 \in Units
         /\ \A l \in Nat : l <= j.n - j.i =>
              UnitsOf(j.a + j.i, l) \subseteq UnitsOf(j.a, j.n) /\ UnitsOf(j.a, j.n) \subseteq Units
         /\ \A c : Target(c, j.a + j.i, big) \in Units
  <1>1. j.a \in Nat /\ j.n \in Nat /\ j.i \in Nat /\ j.a + j.n <= Size /\ Size \in Nat
    BY Blocks DEF Job, PlaceInv
  <1>2. j.a + j.i \in Units /\ 0 \in Units
    BY <1>1 DEF Units
  <1>3. ASSUME NEW l \in Nat, l <= j.n - j.i
        PROVE  /\ UnitsOf(j.a + j.i, l) \subseteq UnitsOf(j.a, j.n)
               /\ UnitsOf(j.a, j.n) \subseteq Units
    BY <1>1, <1>3 DEF UnitsOf, Units
  <1> QED BY <1>2, <1>3 DEF Target

\* What is sent for a page fits into the page, the request and the FIFO.
LEMMA PageRemain ==
  ASSUME NEW j \in Job, PlaceInv(j), j.at # "idle", j.i < j.n
  PROVE  /\ page_remain(j) \in Nat /\ page_remain(j) <= j.n - j.i
         /\ page_remain(j) <= PageSize - ((j.a + j.i) % PageSize)
         /\ Min({page_remain(j), FifoDepth - 1}) \in Nat
         /\ Min({page_remain(j), FifoDepth - 1}) <= page_remain(j)
  <1>1. j.a \in Nat /\ j.n \in Nat /\ j.i \in Nat /\ j.a + j.i \in Nat
    BY DEF Job
  <1>2. PICK r \in 0..(PageSize - 1) : r = (j.a + j.i) % PageSize
    BY <1>1, FlashAssumption, Division
  <1>3. PICK p \in Nat, q \in Nat : p = PageSize - r /\ q = j.n - j.i
    BY <1>1, <1>2, FlashAssumption
  <1>4. page_remain(j) = Min({p, q})
    BY <1>2, <1>3 DEF page_remain
  <1>5. Min({p, q}) \in {p, q} /\ Min({p, q}) <= p /\ Min({p, q}) <= q
    <2>1. p \in Int /\ q \in Int
      OBVIOUS
    <2> QED BY <2>1, Lesser, Zenon
  <1>6. PICK m \in Nat : m = page_remain(j) /\ m <= p /\ m <= q
    BY <1>4, <1>5
  <1>7. FifoDepth - 1 \in Nat
    BY BoundsAssumption
  <1>8. Min({m, FifoDepth - 1}) \in {m, FifoDepth - 1} /\ Min({m, FifoDepth - 1}) <= m
    BY <1>7, Lesser
  <1> QED BY <1>2, <1>3, <1>6, <1>7, <1>8

\* What the chip makes of it.
LEMMA ProgramResult ==
  ASSUME NEW j \in Job, PlaceInv(j), j.at # "idle", j.i < j.n, NEW c \in Chip,
         NEW w \in Nat, w <= page_remain(j),
         NEW d, d = PP(c, Target(c, j.a + j.i, big), w)
  PROVE  /\ d \in Chip /\ SameProt(c, d) /\ d.wide = c.wide /\ c.zero \subseteq d.zero
         /\ c.wide = big => d.zero \subseteq c.zero \cup UnitsOf(j.a + j.i, w)
         /\ ~c.wip /\ c.wel /\ c.wide = big /\ UnitsOf(j.a + j.i, w) \cap Protected(c) = {} =>
              UnitsOf(j.a + j.i, w) \subseteq d.zero
  <1>1. PICK x \in Units : x = Target(c, j.a + j.i, big)
    BY Midst
  <1> DEFINE units == {x - (x % PageSize) + (u % PageSize) : u \in UnitsOf(x, w)}
  <1>2. units \subseteq Units /\ (w <= PageSize - (x % PageSize) => units = UnitsOf(x, w))
    BY PageUnits
  <1>3. d = Modify(c, units, c.zero \cup units)
    BY <1>1 DEF PP
  <1>4. c.wide = big => units = UnitsOf(j.a + j.i, w)
    <2> SUFFICES ASSUME c.wide = big PROVE units = UnitsOf(j.a + j.i, w)
      OBVIOUS
    <2>1. x = j.a + j.i
      BY <1>1 DEF Target
    <2>2. w <= PageSize - (x % PageSize)
      <3>1. PICK r \in 0..(PageSize - 1) : r = x % PageSize
        <4>1. x \in Nat
          BY Blocks DEF Units
        <4> QED BY <4>1, FlashAssumption, Division
      <3>2. PICK m \in Nat : m = page_remain(j) /\ m <= PageSize - r
        BY <2>1, <3>1, PageRemain
      <3>3. w <= m
        BY <3>2
      <3> QED BY <3>1, <3>2, <3>3, FlashAssumption
    <2> HIDE DEF units
    <2> QED BY <1>2, <2>1, <2>2
  <1> HIDE DEF units
  <1>5. c.zero \cup units \in SUBSET Units
    BY <1>2 DEF Chip
  <1>6. PICK zero \in SUBSET Units : zero = c.zero \cup units
    BY <1>5
  <1>7. d = Modify(c, units, zero)
    BY <1>3, <1>6
  <1>8. /\ d \in Chip /\ SameProt(c, d) /\ d.wide = c.wide
        /\ d.zero = c.zero \/ d.zero = zero
        /\ ~c.wip /\ c.wel /\ units \cap Protected(c) = {} => d.zero = zero
    BY <1>7, DataWrite
  <1> QED BY <1>4, <1>6, <1>8

\* A page is programmed.
LEMMA Programming ==
  ASSUME NEW j \in Job, NEW c \in Chip, Good(j, c), j.at = "program",
         sane => c.wide = big, NEW w \in Nat, w <= page_remain(j),
         NEW k \in Job, Stays(j, k), k.at = "wait", k.remain = page_remain(j), k.written <= w,
         NEW d, d = PP(c, Target(c, j.a + j.i, big), w),
         NEW e \in {c, d}, k.clean => e = d /\ k.written = w
  PROVE  Good(k, e) /\ Busy(k)
  <1>1. /\ k.op = j.op /\ k.a = j.a /\ k.n = j.n /\ k.was = j.was /\ k.i = j.i /\ k.sr = j.sr
        /\ k.clean => j.clean
    BY DEF Stays, Keeps
  <1>2. j.op = "write" /\ PlaceInv(j) /\ CallInv(j, c) /\ Busy(j)
    BY DEF Good, PlaceInv, PlacesOf, Busy
  <1>3. j.i < j.n
    BY <1>2 DEF CallInv, WriteInv
  <1>4. /\ SameProt(c, d) /\ c.zero \subseteq d.zero
        /\ ~c.wip /\ c.wel /\ c.wide = big /\ UnitsOf(j.a + j.i, w) \cap Protected(c) = {} =>
              UnitsOf(j.a + j.i, w) \subseteq d.zero
    BY <1>2, <1>3, ProgramResult
  <1>5. Protected(e) = Protected(c) /\ c.zero \subseteq e.zero
    BY <1>4, SameProtected
  <1>6. PlaceInv(k)
    BY <1>1, <1>2 DEF PlaceInv, PlacesOf
  <1>7. ChipInv(k, e)
    BY <1>1, <1>2, <1>5 DEF ChipInv, CallInv
  <1>8. page_remain(j) \in Nat /\ page_remain(j) <= j.n - j.i
    BY <1>2, <1>3, PageRemain
  <1>9. k.written <= k.remain /\ k.i + k.remain <= k.n
    BY <1>1, <1>8 DEF Job
  <1>10. ASSUME k.clean, Writable(k)
         PROVE  UnitsOf(k.a, k.i) \subseteq e.zero /\ UnitsOf(k.a + k.i, k.written) \subseteq e.zero
    <2>1. j.clean /\ Writable(j) /\ e = d /\ k.written = w
      BY <1>1, <1>10 DEF Writable
    <2>2. /\ ~c.wip /\ c.wel /\ c.wide = big /\ Protected(c) = j.was
          /\ UnitsOf(j.a, j.i) \subseteq c.zero
      BY <1>2, <2>1 DEF CallInv, ChipInv, WriteInv
    <2>3. w <= j.n - j.i
      BY <1>8 DEF Job
    <2>4. UnitsOf(j.a + j.i, w) \subseteq UnitsOf(j.a, j.n)
      BY <1>2, <1>3, <2>3, Midst
    <2>5. UnitsOf(j.a + j.i, w) \cap Protected(c) = {}
      BY <2>1, <2>2, <2>4 DEF Writable
    <2> QED BY <1>1, <1>4, <2>1, <2>2, <2>5
  <1>11. WriteInv(k, e)
    BY <1>9, <1>10 DEF WriteInv
  <1>12. EraseInv(k, e) /\ ReadInv(k, e) /\ ProtectInv(k, e)
    BY <1>1, <1>2 DEF EraseInv, ReadInv, ProtectInv
  <1> QED BY <1>6, <1>7, <1>11, <1>12 DEF Good, CallInv, Busy

\* What call j gets from chip c for l units.
Got(j, c, l) ==
  IF c.wip THEN {} ELSE c.zero \cap UnitsOf(Target(c, j.a + j.i, big), l)

\* A load of the FIFO is read.
LEMMA Reading ==
  ASSUME NEW j \in Job, NEW c \in Chip, Good(j, c), j.at = "read",
         sane => c.wide = big, NEW l \in Nat, l <= j.n - j.i,
         NEW k \in Job, Keeps(j, k), k.i = j.i + l, k.got = j.got \cup Got(j, c, l),
         \/ k.at = "read"
         \/ k.at = "unlock" /\ k.i = k.n
  PROVE  Good(k, c) /\ Busy(k)
  <1>1. /\ k.op = j.op /\ k.a = j.a /\ k.n = j.n /\ k.was = j.was
        /\ k.clean => j.clean
    BY DEF Keeps
  <1>2. j.op = "read" /\ PlaceInv(j) /\ CallInv(j, c) /\ Busy(j)
    BY DEF Good, PlaceInv, PlacesOf, Busy
  <1>3. j.a \in Nat /\ j.i \in Nat /\ j.n \in Nat /\ k.i <= k.n
    BY <1>1 DEF Job
  <1>4. PlaceInv(k)
    BY <1>1, <1>2, <1>3 DEF PlaceInv, PlacesOf
  <1>5. ChipInv(k, c)
    BY <1>1, <1>2 DEF ChipInv, CallInv
  <1>6. ASSUME k.clean PROVE k.got = c.zero \cap UnitsOf(k.a, k.i)
    <2>1. ~c.wip /\ c.wide = big /\ j.got = c.zero \cap UnitsOf(j.a, j.i)
      BY <1>1, <1>2, <1>6 DEF CallInv, ChipInv, ReadInv
    <2>2. Got(j, c, l) = c.zero \cap UnitsOf(j.a + j.i, l)
      BY <2>1 DEF Got, Target
    <2>3. UnitsOf(j.a, j.i + l) = UnitsOf(j.a, j.i) \cup UnitsOf(j.a + j.i, l)
      BY <1>3 DEF UnitsOf
    <2> QED BY <1>1, <2>1, <2>2, <2>3
  <1>7. ReadInv(k, c)
    BY <1>6 DEF ReadInv, Ok
  <1>8. WriteInv(k, c) /\ EraseInv(k, c) /\ ProtectInv(k, c)
    BY <1>1, <1>2 DEF WriteInv, EraseInv, ProtectInv
  <1> QED BY <1>4, <1>5, <1>7, <1>8 DEF Good, CallInv, Busy

\* An erase step: the chip after it and the progress of the call.
Whole(j) == j.n = Size /\ "NO_CHIP_ERASE" \notin flags
Erased(j, c) ==
  IF Whole(j) THEN CHIP_ERASE(c) ELSE SE(c, Target(c, j.a + j.i, big))
EraseStep(j) == IF Whole(j) THEN j.n ELSE j.i + EraseSize

\* What the chip makes of an erase of the flash or of a sector.
LEMMA EraseResult ==
  ASSUME NEW j \in Job, PlaceInv(j), j.at # "idle", j.op = "erase", j.i < j.n,
         j.i % EraseSize = 0, NEW c \in Chip,
         NEW d, d = Erased(j, c), NEW i, i = EraseStep(j)
  PROVE  /\ d \in Chip /\ SameProt(c, d) /\ d.wide = c.wide /\ d.zero \subseteq c.zero
         /\ c.wide = big => c.zero \ d.zero \subseteq Asked(j)
         /\ i \in Nat /\ i <= j.n /\ i % EraseSize = 0
         /\ ~c.wip /\ c.wel /\ c.wide = big /\ UnitsOf(j.a, j.n) \cap Protected(c) = {}
              /\ Aligned(j) /\ c.zero \cap UnitsOf(j.a, j.i) = {} =>
              d.zero \cap UnitsOf(j.a, i) = {}
  <1>1. /\ j.a \in Nat /\ j.n \in Nat /\ j.i \in Nat /\ j.a + j.n <= Size /\ Size \in Nat
        /\ j.n % EraseSize = 0 /\ EraseSize \in Nat \ {0} /\ c.zero \subseteq Units
    BY Blocks, FlashAssumption DEF Job, Chip, PlaceInv
  <1>2. Asked(j) = UNION {SectorOf(j.a + m) : m \in 0..(j.n - 1)}
    BY DEF Asked
  <1>3. CASE Whole(j)
    <2>1. j.a = 0 /\ UnitsOf(j.a, j.n) = Units /\ UnitsOf(j.a, i) = Units
      BY <1>1, <1>3 DEF UnitsOf, Units, EraseStep, Whole
    <2>2. d = Modify(c, Units, {})
      BY <1>3 DEF CHIP_ERASE, Erased
    <2>3. /\ d \in Chip /\ SameProt(c, d) /\ d.wide = c.wide
          /\ d.zero = c.zero \/ d.zero = {}
          /\ ~c.wip /\ c.wel /\ Units \cap Protected(c) = {} => d.zero = {}
      BY <2>2, DataWrite
    <2>4. ASSUME NEW u \in Units PROVE u \in Asked(j)
      <3>1. u \in 0..(j.n - 1) /\ j.a + u = u
        BY <1>1, <1>3, <2>1 DEF Units, Whole
      <3>2. u \in SectorOf(u)
        BY Sectors
      <3> QED BY <1>2, <3>1, <3>2
    <2>5. i \in Nat /\ i <= j.n /\ i % EraseSize = 0
      BY <1>1, <1>3 DEF EraseStep
    <2> QED BY <1>1, <2>1, <2>3, <2>4, <2>5
  <1>4. CASE ~Whole(j)
    <2>1. PICK x \in Units : x = Target(c, j.a + j.i, big)
      BY Midst
    <2>2. d = Modify(c, SectorOf(x), c.zero \ SectorOf(x))
      BY <1>4, <2>1 DEF SE, Erased
    <2>3. PICK zero \in SUBSET Units : zero = c.zero \ SectorOf(x)
      BY <1>1
    <2>4. d = Modify(c, SectorOf(x), zero)
      BY <2>2, <2>3
    <2>5. /\ d \in Chip /\ SameProt(c, d) /\ d.wide = c.wide
          /\ d.zero = c.zero \/ d.zero = zero
          /\ ~c.wip /\ c.wel /\ SectorOf(x) \cap Protected(c) = {} => d.zero = zero
      BY <2>4, DataWrite
    <2>6. c.wide = big => SectorOf(x) \subseteq Asked(j)
      <3> SUFFICES ASSUME c.wide = big PROVE SectorOf(x) \subseteq Asked(j)
        OBVIOUS
      <3>1. x = j.a + j.i
        BY <2>1 DEF Target
      <3>2. j.i \in 0..(j.n - 1)
        BY <1>1
      <3> QED BY <1>2, <3>1, <3>2
    <2>7. i \in Nat /\ i = j.i + EraseSize /\ i <= j.n /\ i % EraseSize = 0
      <3>1. j.i + EraseSize <= j.n /\ (j.i + EraseSize) % EraseSize = 0
        BY <1>1, Multiples
      <3>2. i = j.i + EraseSize
        BY <1>4, Zenon DEF EraseStep
      <3> QED BY <1>1, <3>1, <3>2
    <2>8. ASSUME ~c.wip, c.wel, c.wide = big, UnitsOf(j.a, j.n) \cap Protected(c) = {},
                 Aligned(j), c.zero \cap UnitsOf(j.a, j.i) = {}
          PROVE  d.zero \cap UnitsOf(j.a, i) = {}
      <3>1. x = j.a + j.i
        BY <2>1, <2>8 DEF Target
      <3>2. (j.a + j.i) % EraseSize = 0
        <4>1. j.a % EraseSize = 0
          BY <2>8 DEF Aligned
        <4> QED BY <1>1, <4>1, Multiples
      <3>3. SectorOf(x) = UnitsOf(j.a + j.i, EraseSize)
        BY <3>1, <3>2, Sectors
      <3>4. EraseSize \in Nat /\ EraseSize <= j.n - j.i
        BY <1>1, <2>7
      <3>5. UnitsOf(j.a + j.i, EraseSize) \subseteq UnitsOf(j.a, j.n)
        BY <3>4, Midst
      <3>6. d.zero = c.zero \ SectorOf(x)
        BY <2>3, <2>5, <2>8, <3>3, <3>5
      <3>7. UnitsOf(j.a, i) = UnitsOf(j.a, j.i) \cup UnitsOf(j.a + j.i, EraseSize)
        BY <1>1, <2>7 DEF UnitsOf
      <3> QED BY <2>8, <3>3, <3>6, <3>7
    <2> QED BY <2>3, <2>5, <2>6, <2>7, <2>8
  <1> QED BY <1>3, <1>4

\* The flash or a sector is erased.
LEMMA Erasing ==
  ASSUME NEW j \in Job, NEW c \in Chip, Good(j, c), j.at = "erase",
         sane => c.wide = big,
         NEW k \in Job, Keeps(j, k), k.i = EraseStep(j), k.at = "wait",
         NEW d, d = Erased(j, c)
  PROVE  Good(k, d) /\ Busy(k)
  <1>1. /\ k.op = j.op /\ k.a = j.a /\ k.n = j.n /\ k.was = j.was
        /\ k.clean => j.clean
    BY DEF Keeps
  <1>2. j.op = "erase" /\ PlaceInv(j) /\ CallInv(j, c) /\ Busy(j)
    BY DEF Good, PlaceInv, PlacesOf, Busy
  <1>3. j.i < j.n /\ j.i % EraseSize = 0
    BY <1>2 DEF CallInv, EraseInv
  <1>4. PICK i : i = EraseStep(j)
    OBVIOUS
  <1>5. /\ SameProt(c, d)
        /\ i \in Nat /\ i <= j.n /\ i % EraseSize = 0
        /\ ~c.wip /\ c.wel /\ c.wide = big /\ UnitsOf(j.a, j.n) \cap Protected(c) = {}
             /\ Aligned(j) /\ c.zero \cap UnitsOf(j.a, j.i) = {} =>
              d.zero \cap UnitsOf(j.a, i) = {}
    BY <1>2, <1>3, <1>4, EraseResult
  <1>6. Protected(d) = Protected(c)
    BY <1>4, <1>5, SameProtected
  <1>7. PlaceInv(k)
    <2>1. k.n > 0 /\ k.a + k.n <= Size /\ k.i <= k.n /\ k.n % EraseSize = 0
      BY <1>1, <1>2, <1>4, <1>5 DEF PlaceInv
    <2> QED BY <1>1, <1>2, <2>1 DEF PlaceInv, PlacesOf
  <1>8. ChipInv(k, d)
    BY <1>1, <1>2, <1>6 DEF ChipInv, CallInv
  <1>9. ASSUME k.clean, Writable(k), Aligned(k) PROVE d.zero \cap UnitsOf(k.a, k.i) = {}
    <2>1. j.clean /\ Writable(j) /\ Aligned(j)
      BY <1>1, <1>9 DEF Writable, Aligned
    <2>2. /\ ~c.wip /\ c.wel /\ c.wide = big /\ Protected(c) = j.was
          /\ c.zero \cap UnitsOf(j.a, j.i) = {}
      BY <1>2, <2>1 DEF CallInv, ChipInv, EraseInv
    <2>3. UnitsOf(j.a, j.n) \cap Protected(c) = {}
      BY <2>1, <2>2 DEF Writable
    <2> QED BY <1>1, <1>4, <1>5, <2>1, <2>2, <2>3
  <1>10. EraseInv(k, d)
    BY <1>1, <1>2, <1>4, <1>5, <1>9 DEF EraseInv, Ok
  <1>11. WriteInv(k, d) /\ ReadInv(k, d) /\ ProtectInv(k, d)
    BY <1>1, <1>2 DEF WriteInv, ReadInv, ProtectInv
  <1> QED BY <1>7, <1>8, <1>10, <1>11 DEF Good, CallInv, Busy

\* The answer of stm_is_locked_sr is the truth about the chip.
LEMMA Answer ==
  ASSUME NEW c, ChipOK(c), NEW ofs \in Nat, NEW len \in Nat
  PROVE  /\ stm_is_locked_sr(ofs, len, RDSR(c)) \in BOOLEAN
         /\ stm_is_locked_sr(ofs, len, RDSR(c)) = (UnitsOf(ofs, len) \subseteq Protected(c))
  <1>1. Possible(RDSR(c)) /\ Protected(RDSR(c)) = Protected(c)
    BY ReadStatus DEF ChipOK
  <1>2. stm_is_locked_sr(ofs, len, RDSR(c)) <=> UnitsOf(ofs, len) \subseteq Protected(c)
    BY <1>1, IsLocked
  <1>3. stm_is_locked_sr(ofs, len, RDSR(c)) \in BOOLEAN
    BY DEF stm_is_locked_sr
  <1> QED BY <1>2, <1>3

\* How call j goes on after it has read the status of chip c.
Todo(j, c) ==
  CASE j.op = "lock" -> stm_lock(RDSR(c), j.a, j.n)
    [] j.op = "unlock" -> stm_unlock(RDSR(c), j.a, j.n)
    [] OTHER -> Same
Judged(j, c) ==
  IF j.op = "is_locked"
  THEN [Ends(j, "ok") EXCEPT !.answer = stm_is_locked_sr(j.a, j.n, RDSR(c))]
  ELSE IF Todo(j, c) = Same THEN Ends(j, "ok")
  ELSE IF Todo(j, c) = Invalid THEN Ends(j, "EINVAL")
  ELSE [At(j, "wren") EXCEPT !.sr = Todo(j, c).sr]

\* The three outcomes are different.
LEMMA Outcomes ==
  ASSUME NEW r
  PROVE  WriteSr(r) # Same /\ WriteSr(r) # Invalid /\ Same # Invalid /\ WriteSr(r).sr = r
  <1>1. Same.do = "same" /\ Invalid.do = "invalid" /\ WriteSr(r).do = "write" /\ WriteSr(r).sr = r
    BY DEF Same, Invalid, WriteSr
  <1> QED BY <1>1

\* The status is read, and the call knows what to do.
LEMMA Judging ==
  ASSUME NEW j \in Job, NEW c, ChipOK(c), Good(j, c), j.at = "sr",
         NEW k, k = Judged(j, c)
  PROVE  k \in Job /\ Good(k, c) /\ Busy(k) /\ k.i = j.i /\ k.n = j.n
  <1>1. /\ PlaceInv(j) /\ CallInv(j, c) /\ Busy(j)
        /\ j.op \in {"lock", "unlock", "is_locked"}
        /\ j.n > 0 /\ j.a + j.n <= Size /\ j.i <= j.n
    BY DEF Good, PlaceInv, PlacesOf, Busy
  <1>2. /\ j.a \in Nat /\ j.n \in Nat \ {0} /\ RDSR(c) \in Status /\ Possible(RDSR(c))
        /\ Protected(RDSR(c)) = Protected(c)
    BY <1>1, ReadStatus DEF Job, ChipOK
  <1>3. ChipInv(j, c)
    BY <1>1 DEF CallInv
  <1>4. CASE j.op = "is_locked"
    <2>1. PICK e \in Job : /\ e = Ends(j, "ok") /\ Stays(j, e) /\ e.at = "unlock" /\ e.ret = "ok"
                           /\ e.clean = j.clean
      <3>1. "ok" \in Results
        BY DEF Results
      <3> QED BY <3>1, EndsRecord
    <2>2. PICK b \in BOOLEAN : /\ b = stm_is_locked_sr(j.a, j.n, RDSR(c))
                               /\ b = (UnitsOf(j.a, j.n) \subseteq Protected(c))
      BY <1>2, Answer
    <2>3. k = [e EXCEPT !.answer = b]
      BY <1>4, <2>1, <2>2 DEF Judged
    <2>4. /\ k \in Job /\ k.at = "unlock" /\ k.ret = "ok" /\ k.answer = b /\ k.op = e.op
          /\ k.a = e.a /\ k.n = e.n /\ k.was = e.was /\ k.i = e.i /\ k.clean = e.clean
      BY <2>1, <2>3 DEF Job
    <2>5. /\ k.op = "is_locked" /\ k.a = j.a /\ k.n = j.n /\ k.was = j.was /\ k.i = j.i
          /\ k.clean = j.clean
      BY <1>4, <2>1, <2>4 DEF Stays, Keeps
    <2>6. PlaceInv(k)
      BY <1>1, <2>4, <2>5 DEF PlaceInv, PlacesOf
    <2>7. ChipInv(k, c)
      BY <1>3, <1>4, <2>4, <2>5 DEF ChipInv
    <2>8. WriteInv(k, c) /\ EraseInv(k, c) /\ ReadInv(k, c)
      BY <2>5 DEF WriteInv, EraseInv, ReadInv
    <2>9. k.answer = (UnitsOf(k.a, k.n) \subseteq Protected(c))
      BY <2>2, <2>4, <2>5
    <2>10. ProtectInv(k, c)
      BY <2>5, <2>9 DEF ProtectInv
    <2> QED BY <2>4, <2>5, <2>6, <2>7, <2>8, <2>10 DEF Good, CallInv, Busy
  <1>5. CASE j.op # "is_locked"
    <2>1. PICK s : s = RDSR(c)
      OBVIOUS
    <2>2. PICK todo : todo = Todo(j, c)
      OBVIOUS
    <2>3. /\ j.op = "lock" => todo = stm_lock(s, j.a, j.n)
          /\ j.op = "unlock" => todo = stm_unlock(s, j.a, j.n)
          /\ j.op \in {"lock", "unlock"}
      BY <1>1, <1>5, <2>1, <2>2 DEF Todo
    <2>4. todo = Same \/ todo = Invalid \/ \E r \in Status : todo = WriteSr(r)
      BY <1>1, <1>2, <2>1, <2>3, StmLock, StmUnlock
    <2>5. CASE todo \in {Same, Invalid}
      <3>1. k = Ends(j, IF todo = Same THEN "ok" ELSE "EINVAL")
        BY <1>5, <2>2, <2>5 DEF Judged
      <3>2. /\ k \in Job /\ Stays(j, k) /\ k.at = "unlock" /\ k.clean = j.clean
            /\ todo = Invalid => k.ret # "ok"
        <4>1. "ok" \in Results /\ "EINVAL" \in Results
          BY DEF Results
        <4>2. CASE todo = Same
          <5>1. k = Ends(j, "ok") /\ todo # Invalid
            BY <3>1, <4>2, Outcomes
          <5> QED BY <4>1, <5>1, EndsRecord
        <4>3. CASE todo # Same
          <5>1. k = Ends(j, "EINVAL")
            BY <3>1, <4>3
          <5> QED BY <4>1, <5>1, EndsRecord
        <4> QED BY <4>2, <4>3
      <3>3. /\ k.op = j.op /\ k.a = j.a /\ k.n = j.n /\ k.was = j.was /\ k.i = j.i
        BY <3>2 DEF Stays, Keeps
      <3>4. PlaceInv(k)
        BY <1>1, <2>3, <3>2, <3>3 DEF PlaceInv, PlacesOf
      <3>5. ChipInv(k, c)
        BY <1>3, <2>3, <3>2, <3>3 DEF ChipInv
      <3>6. WriteInv(k, c) /\ EraseInv(k, c) /\ ReadInv(k, c)
        BY <2>3, <3>3 DEF WriteInv, EraseInv, ReadInv
      <3>7. ASSUME k.op = "lock", Written(k), LockFits(k.a, k.n)
            PROVE  UnitsOf(k.a, k.n) \subseteq Protected(c)
        <4>1. todo = Same
          BY <2>5, <3>2, <3>7 DEF Written, Ok
        <4> QED BY <1>1, <1>2, <2>1, <2>3, <3>3, <3>7, <4>1, StmLock
      <3>8. ASSUME k.op = "unlock", Written(k), UnlockFits(k.a, k.n)
            PROVE  UnitsOf(k.a, k.n) \cap Protected(c) = {}
        <4>1. todo = Same
          BY <2>5, <3>2, <3>8 DEF Written, Ok
        <4> QED BY <1>1, <1>2, <2>1, <2>3, <3>3, <3>8, <4>1, StmUnlock
      <3>9. ProtectInv(k, c)
        BY <2>3, <3>2, <3>3, <3>7, <3>8 DEF ProtectInv
      <3> QED BY <3>2, <3>3, <3>4, <3>5, <3>6, <3>9 DEF Good, CallInv, Busy
    <2>6. CASE \E r \in Status : todo = WriteSr(r)
      <3>1. PICK r \in Status : todo = WriteSr(r)
        BY <2>6
      <3>2. PICK e \in Job : /\ e = At(j, "wren") /\ Stays(j, e) /\ e.at = "wren"
                             /\ e.clean = j.clean
        <4>1. "wren" \in Within
          BY DEF Within
        <4> QED BY <4>1, AtRecord
      <3>3. todo # Same /\ todo # Invalid /\ todo.sr = r
        BY <3>1, Outcomes
      <3>4. k = [e EXCEPT !.sr = r]
        BY <1>5, <2>2, <3>2, <3>3 DEF Judged
      <3>5. /\ k \in Job /\ k.at = "wren" /\ k.sr = r /\ k.op = e.op
            /\ k.a = e.a /\ k.n = e.n /\ k.was = e.was /\ k.i = e.i /\ k.clean = e.clean
        BY <3>2, <3>4 DEF Job, Status
      <3>6. /\ k.op = j.op /\ k.a = j.a /\ k.n = j.n /\ k.was = j.was /\ k.i = j.i
            /\ k.clean = j.clean
        BY <3>2, <3>5 DEF Stays, Keeps
      <3>7. PlaceInv(k)
        BY <1>1, <2>3, <3>5, <3>6 DEF PlaceInv, PlacesOf
      <3>8. ChipInv(k, c)
        BY <1>3, <2>3, <3>5, <3>6 DEF ChipInv
      <3>9. WriteInv(k, c) /\ EraseInv(k, c) /\ ReadInv(k, c)
        BY <2>3, <3>6 DEF WriteInv, EraseInv, ReadInv
      <3>10. ProtectInv(k, c)
        BY <2>1, <2>3, <3>1, <3>5, <3>6 DEF ProtectInv, Written, Ok
      <3> QED BY <3>5, <3>6, <3>7, <3>8, <3>9, <3>10 DEF Good, CallInv, Busy
    <2> QED BY <2>4, <2>5, <2>6
  <1> QED BY <1>4, <1>5

\* The status that a lock or unlock is about to write.
LEMMA NewStatus ==
  ASSUME NEW j \in Job, NEW c, ChipOK(c), Good(j, c), j.at = "write_sr"
  PROVE  /\ j.op \in {"lock", "unlock"} /\ j.sr \in Status /\ Possible(j.sr)
         /\ j.op = "lock" => c.bp <= j.sr.bp
         /\ j.op = "unlock" => j.sr.bp <= c.bp
         /\ j.op = "lock" /\ LockFits(j.a, j.n) => UnitsOf(j.a, j.n) \subseteq Protected(j.sr)
         /\ j.op = "unlock" /\ UnlockFits(j.a, j.n) =>
              UnitsOf(j.a, j.n) \cap Protected(j.sr) = {}
         /\ j.op = "unlock" /\ ~Vanishes(j.a, j.n, j.sr.tb) =>
              Protected(c) \ UnitsOf(j.a, j.n) \subseteq Protected(j.sr)
  <1>1. /\ PlaceInv(j) /\ CallInv(j, c) /\ Busy(j) /\ j.op \in {"lock", "unlock"}
        /\ j.n > 0 /\ j.a + j.n <= Size
    BY DEF Good, PlaceInv, PlacesOf, Busy
  <1>2. PICK r \in Status : r = j.sr
    BY DEF Job, Status
  <1>3. PICK s \in Status : /\ s = RDSR(c) /\ Possible(s) /\ Protected(s) = Protected(c)
                            /\ s.bp = c.bp
    BY ReadStatus DEF ChipOK
  <1>4. PICK a \in Nat, n \in Nat \ {0} : a = j.a /\ n = j.n /\ a + n <= Size
    BY <1>1 DEF Job
  <1>5. ProtectInv(j, c)
    BY <1>1 DEF CallInv
  <1>6. CASE j.op = "lock"
    <2>1. stm_lock(s, a, n) = WriteSr(r)
      BY <1>2, <1>3, <1>4, <1>5, <1>6 DEF ProtectInv
    <2>2. /\ Possible(r) /\ s.bp <= r.bp
          /\ LockFits(a, n) => UnitsOf(a, n) \subseteq Protected(r)
      BY <1>3, <1>4, <2>1, StmLock
    <2> QED BY <1>2, <1>3, <1>4, <1>6, <2>2
  <1>7. CASE j.op = "unlock"
    <2>1. stm_unlock(s, a, n) = WriteSr(r)
      BY <1>2, <1>3, <1>4, <1>5, <1>7 DEF ProtectInv
    <2>2. /\ Possible(r) /\ r.bp <= s.bp
          /\ UnlockFits(a, n) => UnitsOf(a, n) \cap Protected(r) = {}
          /\ ~Vanishes(a, n, r.tb) => Protected(s) \ UnitsOf(a, n) \subseteq Protected(r)
      BY <1>3, <1>4, <2>1, StmUnlock
    <2> QED BY <1>2, <1>3, <1>4, <1>7, <2>2
  <1> QED BY <1>1, <1>6, <1>7

\* The status is written.
LEMMA Writing ==
  ASSUME NEW j \in Job, NEW c, ChipOK(c), Good(j, c), j.at = "write_sr",
         NEW k \in Job, Stays(j, k), k.at = "wait",
         NEW d, d = WRSR(c, j.sr)
  PROVE  Good(k, d) /\ Busy(k) /\ ChipOK(d) /\ d.wide = c.wide
  <1>1. /\ k.op = j.op /\ k.a = j.a /\ k.n = j.n /\ k.was = j.was /\ k.i = j.i /\ k.sr = j.sr
        /\ k.clean => j.clean
    BY DEF Stays, Keeps
  <1>2. /\ PlaceInv(j) /\ CallInv(j, c) /\ Busy(j) /\ j.op \in {"lock", "unlock"}
        /\ j.n > 0 /\ j.a + j.n <= Size /\ j.i <= j.n
    BY DEF Good, PlaceInv, PlacesOf, Busy
  <1>3. PICK s \in Status : s = j.sr /\ Possible(s)
    BY NewStatus
  <1>4. /\ d \in Chip /\ d.wide = c.wide
        /\ SameProt(c, d) \/ SameProt(s, d)
        /\ ~c.wip /\ c.wel => SameProt(s, d)
    BY <1>3, StatusWrite DEF ChipOK
  <1>5. ChipOK(d)
    BY <1>3, <1>4 DEF ChipOK, Possible, SameProt
  <1>6. PlaceInv(k)
    BY <1>1, <1>2 DEF PlaceInv, PlacesOf
  <1>7. ChipInv(k, d)
    BY <1>1, <1>2 DEF ChipInv, CallInv
  <1>8. WriteInv(k, d) /\ EraseInv(k, d) /\ ReadInv(k, d)
    BY <1>1, <1>2 DEF WriteInv, EraseInv, ReadInv
  <1>9. Written(k) => Protected(d) = Protected(j.sr)
    <2> SUFFICES ASSUME Written(k) PROVE Protected(d) = Protected(j.sr)
      OBVIOUS
    <2>1. j.clean
      BY <1>1 DEF Written
    <2>2. ~c.wip /\ c.wel
      BY <1>2, <2>1 DEF CallInv, ChipInv
    <2> QED BY <1>3, <1>4, <2>1, <2>2, SameProtected
  <1>10. ASSUME k.op = "lock", Written(k), LockFits(k.a, k.n)
         PROVE  UnitsOf(k.a, k.n) \subseteq Protected(d)
    BY <1>1, <1>9, <1>10, NewStatus
  <1>11. ASSUME k.op = "unlock", Written(k), UnlockFits(k.a, k.n)
         PROVE  UnitsOf(k.a, k.n) \cap Protected(d) = {}
    BY <1>1, <1>9, <1>11, NewStatus
  <1>12. ProtectInv(k, d)
    BY <1>1, <1>2, <1>10, <1>11 DEF ProtectInv
  <1> QED BY <1>4, <1>5, <1>6, <1>7, <1>8, <1>12 DEF Good, CallInv, Busy

\* The chip has become ready, and the call goes on or ends.
LEMMA Waiting ==
  ASSUME NEW j \in Job, NEW c \in Chip, Good(j, c), j.at = "wait", ~c.wip,
         NEW k, k = Waited(j)
  PROVE  k \in Job /\ Good(k, c) /\ Busy(k)
  <1>1. /\ PlaceInv(j) /\ CallInv(j, c) /\ Busy(j)
        /\ j.op \in {"write", "erase", "lock", "unlock"}
        /\ j.n > 0 /\ j.a + j.n <= Size /\ j.i <= j.n
        /\ j.op = "erase" => j.n % EraseSize = 0
    BY DEF Good, PlaceInv, PlacesOf, Busy
  <1>2. ChipInv(j, c) /\ WriteInv(j, c) /\ EraseInv(j, c) /\ ProtectInv(j, c)
    BY <1>1 DEF CallInv
  <1>3. "ok" \in Results /\ "EIO" \in Results /\ "wren" \in Within /\ "wrdi" \in Within
    BY DEF Results, Within
  <1>4. CASE j.op = "write"
    <2>1. PICK i \in Nat : i = j.i + j.written /\ i <= j.n
      BY <1>2, <1>4 DEF WriteInv, Job
    <2>2. PICK e : e = [j EXCEPT !.i = i]
      OBVIOUS
    <2>3. e \in Job /\ Keeps(j, e) /\ e.i = i /\ e.clean = j.clean
      BY <2>2 DEF Job, Keeps
    <2>4. k = IF j.written # j.remain THEN Ends(e, "EIO")
              ELSE IF i < j.n THEN At(e, "wren") ELSE Ends(e, "ok")
      BY <1>4, <2>1, <2>2 DEF Waited
    <2>5. /\ k \in Job /\ Stays(e, k) /\ k.clean = e.clean
          /\ k.at \in {"wren", "unlock"} /\ (k.at = "wren" => i < j.n)
      <3>1. /\ Ends(e, "EIO") \in Job /\ Stays(e, Ends(e, "EIO"))
            /\ Ends(e, "EIO").at = "unlock" /\ Ends(e, "EIO").clean = e.clean
        BY <1>3, <2>3, EndsRecord
      <3>2. /\ Ends(e, "ok") \in Job /\ Stays(e, Ends(e, "ok"))
            /\ Ends(e, "ok").at = "unlock" /\ Ends(e, "ok").clean = e.clean
        BY <1>3, <2>3, EndsRecord
      <3>3. /\ At(e, "wren") \in Job /\ Stays(e, At(e, "wren"))
            /\ At(e, "wren").at = "wren" /\ At(e, "wren").clean = e.clean
        BY <1>3, <2>3, AtRecord
      <3> QED BY <2>4, <3>1, <3>2, <3>3
    <2>6. /\ k.op = "write" /\ k.a = j.a /\ k.n = j.n /\ k.was = j.was /\ k.i = i
          /\ k.clean = j.clean
      BY <1>4, <2>3, <2>5 DEF Stays, Keeps
    <2>7. PlaceInv(k)
      BY <1>1, <2>1, <2>5, <2>6 DEF PlaceInv, PlacesOf
    <2>8. ChipInv(k, c)
      BY <1>2, <1>4, <2>5, <2>6 DEF ChipInv
    <2>9. ASSUME k.clean, Writable(k) PROVE UnitsOf(k.a, k.i) \subseteq c.zero
      <3>1. j.clean /\ Writable(j)
        BY <2>6, <2>9 DEF Writable
      <3>2. UnitsOf(j.a, j.i) \subseteq c.zero /\ UnitsOf(j.a + j.i, j.written) \subseteq c.zero
        BY <1>2, <1>4, <3>1 DEF WriteInv
      <3>3. UnitsOf(j.a, i) \subseteq UnitsOf(j.a, j.i) \cup UnitsOf(j.a + j.i, j.written)
        BY <2>1 DEF UnitsOf, Job
      <3> QED BY <2>6, <3>2, <3>3
    <2>10. WriteInv(k, c)
      BY <2>5, <2>6, <2>9 DEF WriteInv
    <2>11. EraseInv(k, c) /\ ReadInv(k, c) /\ ProtectInv(k, c)
      BY <2>6 DEF EraseInv, ReadInv, ProtectInv
    <2> QED BY <2>5, <2>7, <2>8, <2>10, <2>11 DEF Good, CallInv, Busy
  <1>5. CASE j.op = "erase"
    <2>1. k = At(j, IF j.i < j.n THEN "wren" ELSE "wrdi")
      BY <1>5 DEF Waited
    <2>2. /\ k \in Job /\ Stays(j, k) /\ k.clean = j.clean
          /\ k.at = IF j.i < j.n THEN "wren" ELSE "wrdi"
      BY <1>3, <2>1, AtRecord
    <2>3. /\ k.op = "erase" /\ k.a = j.a /\ k.n = j.n /\ k.was = j.was /\ k.i = j.i
      BY <1>5, <2>2 DEF Stays, Keeps
    <2>4. k.at = "wrdi" => k.i = k.n
      BY <1>1, <2>2, <2>3 DEF Job
    <2>5. k.at \in {"wren", "wrdi"} /\ (k.at = "wren" => k.i < k.n)
      BY <2>2, <2>3
    <2>6. PlaceInv(k)
      BY <1>1, <1>5, <2>3, <2>5 DEF PlaceInv, PlacesOf
    <2>7. ChipInv(k, c)
      BY <1>2, <1>5, <2>2, <2>3, <2>5 DEF ChipInv
    <2>8. EraseInv(k, c)
      BY <1>2, <1>5, <2>2, <2>3, <2>4, <2>5 DEF EraseInv, Writable, Aligned, Ok
    <2>9. WriteInv(k, c) /\ ReadInv(k, c) /\ ProtectInv(k, c)
      BY <2>3 DEF WriteInv, ReadInv, ProtectInv
    <2> QED BY <2>2, <2>5, <2>6, <2>7, <2>8, <2>9 DEF Good, CallInv, Busy
  <1>6. CASE j.op \in {"lock", "unlock"}
    <2>1. k = Ends(j, "ok")
      BY <1>6 DEF Waited
    <2>2. /\ k \in Job /\ Stays(j, k) /\ k.clean = j.clean /\ k.at = "unlock"
      BY <1>3, <2>1, EndsRecord
    <2>3. /\ k.op = j.op /\ k.a = j.a /\ k.n = j.n /\ k.was = j.was /\ k.i = j.i
      BY <2>2 DEF Stays, Keeps
    <2>4. PlaceInv(k)
      BY <1>1, <1>6, <2>2, <2>3 DEF PlaceInv, PlacesOf
    <2>5. ChipInv(k, c)
      BY <1>2, <1>6, <2>2, <2>3 DEF ChipInv
    <2>6. WriteInv(k, c) /\ EraseInv(k, c) /\ ReadInv(k, c)
      BY <1>6, <2>3 DEF WriteInv, EraseInv, ReadInv
    <2>7. Written(k) => Written(j)
      BY <2>2 DEF Written
    <2>8. ProtectInv(k, c)
      BY <1>2, <1>6, <2>2, <2>3, <2>7 DEF ProtectInv
    <2> QED BY <2>2, <2>4, <2>5, <2>6, <2>8 DEF Good, CallInv, Busy
  <1> QED BY <1>1, <1>4, <1>5, <1>6

\* An erase ends with write_disable.
LEMMA Disabling ==
  ASSUME NEW j \in Job, NEW c \in Chip, Good(j, c), j.at = "wrdi",
         NEW k \in Job, Stays(j, k), k.at = "unlock",
         NEW d \in Chip, SameData(c, d), SameProt(c, d), d.wip = c.wip
  PROVE  Good(k, d) /\ Busy(k)
  <1>1. /\ k.op = j.op /\ k.a = j.a /\ k.n = j.n /\ k.was = j.was /\ k.i = j.i
        /\ k.clean => j.clean
    BY DEF Stays, Keeps
  <1>2. /\ PlaceInv(j) /\ CallInv(j, c) /\ Busy(j) /\ j.op = "erase"
    BY DEF Good, PlaceInv, PlacesOf, Busy
  <1>3. Protected(d) = Protected(c) /\ d.zero = c.zero
    BY SameProtected DEF SameData
  <1>4. PlaceInv(k)
    BY <1>1, <1>2 DEF PlaceInv, PlacesOf
  <1>5. ChipInv(k, d)
    BY <1>1, <1>2, <1>3 DEF ChipInv, CallInv
  <1>6. EraseInv(k, d)
    BY <1>1, <1>2, <1>3 DEF EraseInv, CallInv, Writable, Aligned, Ok
  <1>7. WriteInv(k, d) /\ ReadInv(k, d) /\ ProtectInv(k, d)
    BY <1>1, <1>2 DEF WriteInv, ReadInv, ProtectInv
  <1> QED BY <1>4, <1>5, <1>6, <1>7 DEF Good, CallInv, Busy

\* A call has got nor->lock.
LEMMA Beginning ==
  ASSUME NEW j \in Job, NEW c \in Chip, PlaceInv(j), j.at = "lock",
         NEW k, k = [At(j, First[j.op]) EXCEPT !.clean = ~c.wip /\ sane, !.was = Protected(c)],
         Protected(c) \subseteq Units, sane \in BOOLEAN
  PROVE  k \in Job /\ Good(k, c) /\ Busy(k)
  <1>1. /\ j.op \in DOMAIN PlacesOf /\ j.n > 0 /\ j.a + j.n <= Size /\ j.i = 0 /\ j.got = {}
        /\ j.op = "erase" => j.n % EraseSize = 0
    BY DEF PlaceInv
  <1>2. j.op \in {"write", "erase", "read", "lock", "unlock", "is_locked"}
    BY <1>1 DEF PlacesOf
  <1>3. PICK p \in {"wren", "read", "sr"} :
          /\ p = First[j.op]
          /\ j.op \in {"write", "erase"} => p = "wren"
          /\ j.op = "read" => p = "read"
          /\ j.op \in {"lock", "unlock", "is_locked"} => p = "sr"
    BY <1>2 DEF First
  <1>4. PICK e \in Job : e = At(j, p) /\ Stays(j, e) /\ e.at = p
    BY AtRecord DEF Within
  <1>5. PICK b \in BOOLEAN : b = (~c.wip /\ sane)
    OBVIOUS
  <1>6. PICK w \in SUBSET Units : w = Protected(c)
    OBVIOUS
  <1>7. k = [e EXCEPT !.clean = b, !.was = w]
    BY <1>3, <1>4, <1>5, <1>6
  <1>8. /\ k \in Job /\ k.op = e.op /\ k.a = e.a /\ k.n = e.n /\ k.i = e.i /\ k.got = e.got
        /\ k.at = e.at /\ k.clean = b /\ k.was = w
    BY <1>7 DEF Job
  <1>9. k.op = j.op /\ k.a = j.a /\ k.n = j.n /\ k.i = 0 /\ k.got = {} /\ k.at = p
    BY <1>1, <1>4, <1>8 DEF Stays, Keeps
  <1>10. PlaceInv(k)
    BY <1>1, <1>2, <1>3, <1>9 DEF PlaceInv, PlacesOf
  <1>11. ChipInv(k, c)
    BY <1>3, <1>5, <1>6, <1>8, <1>9 DEF ChipInv
  <1>12. UnitsOf(k.a, k.i) = {} /\ k.i % EraseSize = 0 /\ k.i < k.n
    <2>1. k.a \in Nat /\ k.n \in Nat /\ EraseSize \in Nat \ {0}
      BY <1>8, FlashAssumption DEF Job
    <2>2. UnitsOf(k.a, k.i) = {} /\ k.i < k.n
      BY <1>1, <1>9, <2>1 DEF UnitsOf
    <2>3. k.i % EraseSize = 0
      <3>1. PICK r \in Nat : r = 0 % EraseSize /\ r <= 0
        BY <2>1, Division
      <3> QED BY <1>9, <3>1
    <2> QED BY <2>2, <2>3
  <1>13. WriteInv(k, c) /\ EraseInv(k, c) /\ ReadInv(k, c)
    BY <1>3, <1>9, <1>12 DEF WriteInv, EraseInv, ReadInv, Ok
  <1>14. ProtectInv(k, c)
    BY <1>3, <1>9 DEF ProtectInv, Written, Ok
  <1> QED BY <1>8, <1>9, <1>10, <1>11, <1>13, <1>14 DEF Good, CallInv, Busy

\* The chip ends what it is doing.
LEMMA Readying ==
  ASSUME NEW j \in Job, NEW c \in Chip, Good(j, c), c.wip, NEW d, d = Ready(c)
  PROVE  Good(j, d)
  <1>1. d \in Chip /\ SameData(c, d) /\ SameProt(c, d) /\ ~d.wip
    BY LatchCommands
  <1>2. Protected(d) = Protected(c) /\ RDSR(d) = RDSR(c) /\ d.zero = c.zero
    BY <1>1, SameProtected DEF SameData
  <1>3. ASSUME Busy(j) PROVE CallInv(j, d)
    <2>1. ChipInv(j, c) /\ WriteInv(j, c) /\ EraseInv(j, c) /\ ReadInv(j, c) /\ ProtectInv(j, c)
      BY <1>3 DEF Good, CallInv
    <2>2. ChipInv(j, d)
      BY <1>1, <1>2, <2>1 DEF ChipInv
    <2>3. WriteInv(j, d) /\ EraseInv(j, d) /\ ReadInv(j, d)
      <3>1. WriteInv(j, d)
        BY <1>2, <2>1 DEF WriteInv
      <3>2. EraseInv(j, d)
        BY <1>2, <2>1 DEF EraseInv
      <3>3. ReadInv(j, d)
        BY <1>2, <2>1 DEF ReadInv
      <3> QED BY <3>1, <3>2, <3>3
    <2>4. ProtectInv(j, d)
      BY <1>2, <2>1 DEF ProtectInv
    <2> QED BY <2>2, <2>3, <2>4 DEF CallInv
  <1> QED BY <1>3 DEF Good, CallInv

-----------------------------------------------------------------------------
(* The inductive invariant.                                                *)

\* What is said of a call does not change with the other variables.
LEMMA Frame ==
  ASSUME sane' = sane, has_tb' = has_tb, NEW k, NEW d
  PROVE  /\ Good(k, d)' <=> Good(k, d)
         /\ ChipOK(d)' <=> ChipOK(d)
  <1>1. \A s, o, l : stm_is_locked_sr(o, l, s)' <=> stm_is_locked_sr(o, l, s)
    BY DEF stm_is_locked_sr, stm_get_locked_range
  <1>2. \A s, o, l : stm_is_unlocked_sr(o, l, s)' <=> stm_is_unlocked_sr(o, l, s)
    BY DEF stm_is_unlocked_sr, stm_get_locked_range
  <1>3. \A s, o, l : stm_lock(s, o, l)' = stm_lock(s, o, l)
    BY DEF stm_lock, stm_is_locked_sr, stm_get_locked_range
  <1>4. \A s, o, l : stm_unlock(s, o, l)' = stm_unlock(s, o, l)
    BY DEF stm_unlock, stm_is_unlocked_sr, stm_get_locked_range
  <1>5. ProtectInv(k, d)' <=> ProtectInv(k, d)
    BY <1>3, <1>4 DEF ProtectInv, Written, LockFits, UnlockFits
  <1>6. ChipInv(k, d)' <=> ChipInv(k, d)
    BY DEF ChipInv
  <1>7. Good(k, d)' <=> Good(k, d)
    BY <1>5, <1>6 DEF Good, CallInv
  <1> QED BY <1>7 DEF ChipOK

\* The caller that holds nor->lock.
LEMMA Holder ==
  ASSUME IndInv, NEW t \in Tasks, Busy(job[t])
  PROVE  /\ nor_lock = t /\ phase = "registered" /\ scan = <<>> /\ ChipOK(chip)
         /\ job[t] \in Job /\ Good(job[t], chip) /\ (sane => chip.wide = big)
  <1>1. TypeOK /\ ExclusionInv /\ ScanInv /\ CallsInv
    BY DEF IndInv
  <1>2. nor_lock = t /\ phase = "registered"
    BY <1>1 DEF ExclusionInv, Busy, Idle
  <1>3. scan = <<>>
    BY <1>1, <1>2 DEF ScanInv
  <1>4. ChipOK(chip) /\ job[t] \in Job
    BY <1>1 DEF TypeOK, ChipOK
  <1>5. Good(job[t], chip)
    BY <1>1 DEF CallsInv, Good
  <1>6. chip.wide \in BOOLEAN /\ big \in BOOLEAN
    BY <1>1 DEF TypeOK, Chip
  <1>7. sane => chip.wide = big
    BY <1>1, <1>2, <1>6 DEF ScanInv
  <1> QED BY <1>2, <1>3, <1>4, <1>5, <1>7

\* Call k and chip d are a good continuation.
Fine(k, d) == k \in Job /\ Good(k, d) /\ Busy(k) /\ ChipOK(d) /\ d.wide = chip.wide

\* A step of the holder that leads to a good continuation keeps the invariant.
LEMMA Stepping ==
  ASSUME IndInv, NEW t \in Tasks, Busy(job[t]), NEW k, NEW d, Fine(k, d),
         To(t, k), chip' = d, Rest, timeouts' \in 0..MaxTimeouts
  PROVE  IndInv'
  <1>1. TypeOK /\ ExclusionInv /\ ScanInv /\ CallsInv
    BY DEF IndInv
  <1>2. nor_lock = t /\ phase = "registered" /\ scan = <<>>
    BY Holder
  <1>3. /\ nor_lock' = nor_lock /\ scan' = scan /\ phase' = phase /\ sane' = sane
        /\ started' = started /\ has_tb' = has_tb /\ micron' = micron /\ flags' = flags /\ big' = big
    BY DEF Rest, cfgVars
  <1>4. /\ job \in [Tasks -> Job] /\ job' = [job EXCEPT ![t] = k] /\ k \in Job
    BY <1>1 DEF TypeOK, To, Fine
  <1>5. job' \in [Tasks -> Job] /\ job'[t] = k /\ \A u \in Tasks \ {t} : job'[u] = job[u]
    BY <1>4
  <1>6. k.i <= k.n
    BY DEF Fine, Good, PlaceInv, Busy
  <1>7. \A u \in Tasks : job'[u].i <= job'[u].n
    BY <1>1, <1>5, <1>6 DEF TypeOK
  <1>8. chip' \in Chip /\ (~has_tb' => chip'.tb = 0)
    BY <1>3 DEF Fine, ChipOK
  <1>9. TypeOK'
    BY <1>1, <1>3, <1>5, <1>7, <1>8 DEF TypeOK
  <1>10. ExclusionInv'
    <2>1. \A u \in Tasks : Busy(job'[u]) <=> nor_lock' = u
      BY <1>1, <1>2, <1>3, <1>5 DEF ExclusionInv, Fine
    <2>2. \A u \in Tasks : Busy(job[u])' <=> nor_lock' = u
      BY <2>1 DEF Busy
    <2> QED BY <1>2, <1>3, <2>2 DEF ExclusionInv
  <1>11. ScanInv'
    BY <1>1, <1>2, <1>3 DEF ScanInv, Fine
  <1>12. CallsInv'
    <2>1. ASSUME NEW u \in Tasks PROVE (PlaceInv(job[u]) /\ CallInv(job[u], chip))'
      <3>1. CASE u = t
        <4>1. Good(k, d)'
          BY <1>3, Frame DEF Fine
        <4> QED BY <1>5, <3>1, <4>1 DEF Good, PlaceInv, CallInv, Busy, ChipInv, WriteInv,
              EraseInv, ReadInv, ProtectInv, Written, Ok, Writable, Aligned
      <3>2. CASE u # t
        <4>1. PICK m : m = job[u] /\ job'[u] = m
          BY <1>5, <3>2
        <4>2. PlaceInv(m) /\ ~Busy(m)
          BY <1>1, <1>2, <3>2, <4>1 DEF CallsInv, ExclusionInv
        <4> QED BY <4>1, <4>2 DEF PlaceInv, CallInv, Busy
      <3> QED BY <3>1, <3>2
    <2> QED BY <2>1 DEF CallsInv
  <1> QED BY <1>9, <1>10, <1>11, <1>12 DEF IndInv

\* So does a transfer that leads to good continuations, whether it times out or
\* not.
LEMMA Transferring ==
  ASSUME IndInv, NEW t \in Tasks, Busy(job[t]), NEW p, NEW ok, NEW bad,
         Transfer(t, p, ok, bad),
         Fine(ok, p), Fine(Unclean(bad), chip), Fine(Unclean(bad), p)
  PROVE  IndInv'
  <1>1. timeouts \in 0..MaxTimeouts /\ MaxTimeouts \in Nat
    BY BoundsAssumption DEF IndInv, TypeOK
  <1>2. PICK u : u = Unclean(bad)
    OBVIOUS
  <1>3. PICK c : c = chip
    OBVIOUS
  <1>4. \/ chip' = p /\ timeouts' = timeouts /\ To(t, ok)
        \/ timeouts < MaxTimeouts /\ timeouts' = timeouts + 1 /\ chip' \in {c, p} /\ To(t, u)
    BY <1>2, <1>3 DEF Transfer, Done, TimedOut
  <1>5. Rest
    BY DEF Transfer
  <1>6. timeouts' \in 0..MaxTimeouts
    BY <1>1, <1>4
  <1>7. CASE chip' = p /\ To(t, ok)
    BY <1>5, <1>6, <1>7, Stepping
  <1>8. CASE chip' \in {c, p} /\ To(t, u)
    <2>1. PICK d : d = chip' /\ d \in {c, p}
      BY <1>8
    <2>2. Fine(u, d)
      BY <1>2, <1>3, <2>1
    <2> QED BY <1>5, <1>6, <1>8, <2>1, <2>2, Stepping
  <1> QED BY <1>4, <1>7, <1>8

\* What a transfer starts from: the holder's call j and the chip c.
LEMMA Starting ==
  ASSUME IndInv, NEW t \in Tasks, Busy(job[t])
  PROVE  \E j \in Job, c \in Chip :
           /\ j = job[t] /\ c = chip /\ ChipOK(c) /\ Good(j, c) /\ Busy(j)
           /\ sane => c.wide = big
  BY Holder DEF ChipOK

\* Each action of the holder keeps the invariant.
LEMMA StepWriteEnable ==
  ASSUME IndInv, NEW t \in Tasks, write_enable(t)
  PROVE  IndInv'
  <1>1. job[t].at = "wren" /\ Busy(job[t])
    BY DEF write_enable, Busy
  <1>2. PICK j \in Job, c \in Chip : j = job[t] /\ c = chip /\ ChipOK(c) /\ Good(j, c)
    BY <1>1, Starting
  <1>3. j.op \in {"write", "erase", "lock", "unlock"}
    BY <1>1, <1>2 DEF Good, PlaceInv, PlacesOf
  <1>4. PICK q \in Within : q = AfterWren[j.op]
    BY <1>3 DEF AfterWren, Within
  <1>5. PICK k \in Job : k = At(j, q) /\ Stays(j, k) /\ k.at = q
    BY AtRecord
  <1>6. PICK u \in Job : u = Unclean(k) /\ Stays(k, u) /\ u.at = q /\ ~u.clean
    BY <1>5, UncleanRecord
  <1>7. PICK d \in Chip : /\ d = WREN(c) /\ SameData(c, d) /\ SameProt(c, d) /\ d.wip = c.wip
                          /\ d.wide = c.wide /\ (~c.wip => d.wel)
    <2>1. TRUE \in BOOLEAN
      OBVIOUS
    <2> QED BY <2>1, LatchCommands
  <1>8. Transfer(t, d, k, k)
    BY <1>2, <1>4, <1>5, <1>7 DEF write_enable
  <1>9. Good(k, d) /\ Busy(k)
    BY <1>1, <1>2, <1>4, <1>5, <1>7, Enabling
  <1>10. Stays(j, u)
    BY <1>5, <1>6 DEF Stays, Keeps
  <1>11. Good(u, d) /\ Good(u, c) /\ Busy(u)
    <2>1. SameData(c, c) /\ SameProt(c, c)
      BY DEF SameData, SameProt
    <2> QED BY <1>1, <1>2, <1>4, <1>6, <1>7, <1>10, <2>1, Enabling
  <1>12. ChipOK(d)
    BY <1>2, <1>7 DEF ChipOK, SameProt
  <1>13. Fine(k, d) /\ Fine(u, c) /\ Fine(u, d)
    BY <1>2, <1>7, <1>9, <1>11, <1>12 DEF Fine
  <1> QED BY <1>1, <1>2, <1>6, <1>8, <1>13, Transferring

\* The same for a page.
LEMMA StepProgram ==
  ASSUME IndInv, NEW t \in Tasks, program(t)
  PROVE  IndInv'
  <1>1. job[t].at = "program" /\ Busy(job[t])
    BY DEF program, Busy
  <1>2. PICK j \in Job, c \in Chip : /\ j = job[t] /\ c = chip /\ ChipOK(c) /\ Good(j, c)
                                     /\ Busy(j) /\ (sane => c.wide = big)
    BY <1>1, Starting
  <1>3. j.i < j.n /\ PlaceInv(j) /\ j.at # "idle"
    BY <1>1, <1>2 DEF Good, PlaceInv, PlacesOf, CallInv, WriteInv, Busy
  <1>4. PICK m \in Nat, w \in Nat : /\ m = page_remain(j) /\ w <= m
                                    /\ w = Min({m, FifoDepth - 1})
    BY <1>3, PageRemain
  <1>5. PICK d : d = PP(c, Target(c, j.a + j.i, big), w)
    OBVIOUS
  <1>6. PICK e \in Job : e = At(j, "wait") /\ Stays(j, e) /\ e.at = "wait"
    <2>1. "wait" \in Within
      BY DEF Within
    <2> QED BY <2>1, AtRecord
  <1> DEFINE next(x) == [e EXCEPT !.remain = m, !.written = x]
  <1>7. ASSUME NEW x \in Nat
        PROVE  /\ next(x) \in Job /\ Stays(j, next(x)) /\ next(x).at = "wait"
               /\ next(x).remain = m /\ next(x).written = x
    BY <1>6 DEF Job, Stays, Keeps
  <1>8. Transfer(t, d, next(w), next(0))
    BY <1>2, <1>4, <1>5, <1>6 DEF program
  <1>9. PICK k \in Job : /\ k = next(w) /\ Stays(j, k) /\ k.at = "wait" /\ k.remain = m
                         /\ k.written = w
    BY <1>7
  <1>10. PICK b \in Job : /\ b = next(0) /\ Stays(j, b) /\ b.at = "wait" /\ b.remain = m
                          /\ b.written = 0
    BY <1>7
  <1> HIDE DEF next
  <1>11. PICK u \in Job : /\ u = Unclean(b) /\ Stays(b, u) /\ u.at = "wait" /\ ~u.clean
                          /\ u.remain = m /\ u.written = 0
    <2>1. /\ Unclean(b) \in Job /\ Stays(b, Unclean(b)) /\ Unclean(b).at = b.at
          /\ Unclean(b).clean = FALSE /\ Unclean(b).remain = b.remain
          /\ Unclean(b).written = b.written
      BY UncleanRecord
    <2> QED BY <1>10, <2>1
  <1>12. Stays(j, u)
    BY <1>10, <1>11 DEF Stays, Keeps
  <1>13. Good(k, d) /\ Busy(k)
    <2>1. d \in {c, d} /\ k.written <= w
      BY <1>9
    <2> QED BY <1>1, <1>2, <1>4, <1>5, <1>9, <2>1, Programming
  <1>14. Good(u, d) /\ Good(u, c) /\ Busy(u)
    <2>1. d \in {c, d} /\ c \in {c, d} /\ u.written <= w
      BY <1>11
    <2> QED BY <1>1, <1>2, <1>4, <1>5, <1>11, <1>12, <2>1, Programming
  <1>15. d \in Chip /\ SameProt(c, d) /\ d.wide = c.wide
    BY <1>3, <1>4, <1>5, ProgramResult
  <1>16. ChipOK(d)
    BY <1>2, <1>15 DEF ChipOK, SameProt
  <1>17. Fine(k, d) /\ Fine(u, c) /\ Fine(u, d)
    BY <1>2, <1>13, <1>14, <1>15, <1>16 DEF Fine
  <1>18. Transfer(t, d, k, b)
    BY <1>8, <1>9, <1>10
  <1> QED BY <1>1, <1>2, <1>11, <1>17, <1>18, Transferring

\* A call that ends badly is a good continuation.
LEMMA EndsFine ==
  ASSUME NEW j \in Job, NEW c \in Chip, Good(j, c), Busy(j), c.wide = chip.wide,
         NEW ret \in Results, ret # "ok",
         NEW d, ChipOK(d), d.wide = c.wide, SameProt(c, d) \/ j.op \in {"lock", "unlock"}
  PROVE  Fine(Unclean(Ends(j, ret)), d)
  <1>1. PICK e \in Job : e = Ends(j, ret) /\ Stays(j, e) /\ e.at = "unlock" /\ e.ret = ret
    BY EndsRecord
  <1>2. PICK u \in Job : /\ u = Unclean(e) /\ Stays(e, u) /\ u.at = "unlock" /\ u.ret = ret
                         /\ ~u.clean
    BY <1>1, UncleanRecord
  <1>3. Stays(j, u)
    BY <1>1, <1>2 DEF Stays, Keeps
  <1>4. Good(u, d) /\ Busy(u)
    BY <1>2, <1>3, Failing
  <1> QED BY <1>1, <1>2, <1>4 DEF Fine

\* The same for a load of the FIFO that is read.
LEMMA StepRead ==
  ASSUME IndInv, NEW t \in Tasks, read(t)
  PROVE  IndInv'
  <1>1. job[t].at = "read" /\ Busy(job[t])
    BY DEF read, Busy
  <1>2. PICK j \in Job, c \in Chip : /\ j = job[t] /\ c = chip /\ ChipOK(c) /\ Good(j, c)
                                     /\ Busy(j) /\ (sane => c.wide = big)
    BY <1>1, Starting
  <1>3. j.i \in Nat /\ j.n \in Nat /\ j.i <= j.n /\ FifoDepth \in Nat
    BY <1>1, <1>2, BoundsAssumption DEF Job, Good, PlaceInv
  <1>4. PICK l \in Nat : l = Min({j.n - j.i, FifoDepth}) /\ l <= j.n - j.i
    <2>1. PICK x \in Int, y \in Int : x = j.n - j.i /\ y = FifoDepth /\ x >= 0 /\ y >= 0
      BY <1>3
    <2>2. Min({x, y}) \in {x, y} /\ Min({x, y}) <= x
      BY Lesser
    <2> QED BY <2>1, <2>2
  <1>5. PICK got : got = Got(j, c, l)
    OBVIOUS
  <1>6. PICK e : e = [j EXCEPT !.i = j.i + l, !.got = j.got \cup got]
    OBVIOUS
  <1>7. got \in SUBSET Units
    BY <1>5 DEF Chip, Got
  <1>8. PICK i \in Nat, g \in SUBSET Units : i = j.i + l /\ g = j.got \cup got
    <2>1. j.i + l \in Nat
      BY <1>3
    <2>2. j.got \cup got \in SUBSET Units
      BY <1>7 DEF Job
    <2> QED BY <2>1, <2>2
  <1>9. /\ e \in Job /\ Keeps(j, e) /\ e.i = i /\ e.got = g /\ e.at = "read" /\ e.n = j.n
    BY <1>1, <1>2, <1>6, <1>8 DEF Job, Keeps
  <1>10. PICK k : k = IF i < j.n THEN e ELSE Ends(e, "ok")
    OBVIOUS
  <1>11. "ok" \in Results /\ "EIO" \in Results
    BY DEF Results
  <1>12. /\ k \in Job /\ Keeps(j, k) /\ k.i = j.i + l /\ k.got = j.got \cup got
         /\ k.at = "read" \/ (k.at = "unlock" /\ k.i = k.n)
    <2>1. CASE i < j.n
      BY <1>8, <1>9, <1>10, <2>1
    <2>2. CASE ~(i < j.n)
      <3>1. k = Ends(e, "ok") /\ i = j.n
        BY <1>3, <1>4, <1>8, <1>10, <2>2
      <3>2. k \in Job /\ Stays(e, k) /\ k.at = "unlock"
        BY <1>9, <1>11, <3>1, EndsRecord
      <3> QED BY <1>8, <1>9, <3>1, <3>2 DEF Stays, Keeps
    <2> QED BY <2>1, <2>2
  <1>13. Good(k, c) /\ Busy(k)
    BY <1>1, <1>2, <1>4, <1>5, <1>12, Reading
  <1>14. Fine(k, c)
    BY <1>2, <1>12, <1>13 DEF Fine
  <1>15. SameProt(c, c) /\ "EIO" # "ok"
    BY DEF SameProt
  <1>16. Fine(Unclean(Ends(j, "EIO")), c)
    BY <1>2, <1>11, <1>15, EndsFine
  <1>17. Transfer(t, c, k, Ends(j, "EIO"))
    BY <1>2, <1>4, <1>5, <1>6, <1>8, <1>10 DEF read, Got
  <1> QED BY <1>1, <1>2, <1>14, <1>16, <1>17, Transferring

\* The same for a sector or the chip.
LEMMA StepErase ==
  ASSUME IndInv, NEW t \in Tasks, erase(t)
  PROVE  IndInv'
  <1>1. job[t].at = "erase" /\ Busy(job[t])
    BY DEF erase, Busy
  <1>2. PICK j \in Job, c \in Chip : /\ j = job[t] /\ c = chip /\ ChipOK(c) /\ Good(j, c)
                                     /\ Busy(j) /\ (sane => c.wide = big)
    BY <1>1, Starting
  <1>3. /\ j.op = "erase" /\ PlaceInv(j) /\ j.at # "idle" /\ j.i < j.n
        /\ j.i % EraseSize = 0
    BY <1>1, <1>2 DEF Good, PlaceInv, PlacesOf, CallInv, EraseInv, Busy
  <1>4. PICK d, i : d = Erased(j, c) /\ i = EraseStep(j)
    OBVIOUS
  <1>5. d \in Chip /\ SameProt(c, d) /\ d.wide = c.wide /\ i \in Nat
    BY <1>3, <1>4, EraseResult
  <1>6. PICK e \in Job : e = At(j, "wait") /\ Stays(j, e) /\ e.at = "wait"
    <2>1. "wait" \in Within
      BY DEF Within
    <2> QED BY <2>1, AtRecord
  <1>7. PICK k : k = [e EXCEPT !.i = i]
    OBVIOUS
  <1>8. k \in Job /\ Keeps(j, k) /\ k.i = i /\ k.at = "wait"
    BY <1>5, <1>6, <1>7 DEF Job, Stays, Keeps
  <1>9. Good(k, d) /\ Busy(k)
    BY <1>1, <1>2, <1>4, <1>8, Erasing
  <1>10. ChipOK(d) /\ ChipOK(c)
    BY <1>2, <1>5 DEF ChipOK, SameProt
  <1>11. Fine(k, d)
    BY <1>2, <1>5, <1>8, <1>9, <1>10 DEF Fine
  <1>12. SameProt(c, c) /\ "error" # "ok" /\ "error" \in Results
    BY DEF SameProt, Results
  <1>13. Fine(Unclean(Ends(j, "error")), c) /\ Fine(Unclean(Ends(j, "error")), d)
    BY <1>2, <1>5, <1>10, <1>12, EndsFine
  <1>14. Transfer(t, d, k, Ends(j, "error"))
    BY <1>2, <1>4, <1>6, <1>7 DEF erase, Erased, EraseStep, Whole
  <1> QED BY <1>1, <1>2, <1>11, <1>13, <1>14, Transferring

\* The same for the status that is read ...
LEMMA StepReadSr ==
  ASSUME IndInv, NEW t \in Tasks, read_sr(t)
  PROVE  IndInv'
  <1>1. job[t].at = "sr" /\ Busy(job[t])
    BY DEF read_sr, Busy
  <1>2. PICK j \in Job, c \in Chip : j = job[t] /\ c = chip /\ ChipOK(c) /\ Good(j, c) /\ Busy(j)
    BY <1>1, Starting
  <1>3. PICK k : k = Judged(j, c)
    OBVIOUS
  <1>4. k \in Job /\ Good(k, c) /\ Busy(k)
    BY <1>1, <1>2, <1>3, Judging
  <1>5. Fine(k, c)
    BY <1>2, <1>4 DEF Fine
  <1>6. SameProt(c, c) /\ "error" # "ok" /\ "error" \in Results
    BY DEF SameProt, Results
  <1>7. Fine(Unclean(Ends(j, "error")), c)
    BY <1>2, <1>6, EndsFine
  <1>8. Transfer(t, c, k, Ends(j, "error"))
    BY <1>2, <1>3 DEF read_sr, Judged, Todo
  <1> QED BY <1>1, <1>2, <1>5, <1>7, <1>8, Transferring

\* ... and for the one that is written.
LEMMA StepWriteSr ==
  ASSUME IndInv, NEW t \in Tasks, write_sr(t)
  PROVE  IndInv'
  <1>1. job[t].at = "write_sr" /\ Busy(job[t])
    BY DEF write_sr, Busy
  <1>2. PICK j \in Job, c \in Chip : j = job[t] /\ c = chip /\ ChipOK(c) /\ Good(j, c) /\ Busy(j)
    BY <1>1, Starting
  <1>3. PICK d : d = WRSR(c, j.sr)
    OBVIOUS
  <1>4. PICK k \in Job : k = At(j, "wait") /\ Stays(j, k) /\ k.at = "wait"
    <2>1. "wait" \in Within
      BY DEF Within
    <2> QED BY <2>1, AtRecord
  <1>5. Good(k, d) /\ Busy(k) /\ ChipOK(d) /\ d.wide = c.wide
    BY <1>1, <1>2, <1>3, <1>4, Writing
  <1>6. Fine(k, d)
    BY <1>2, <1>5 DEF Fine
  <1>7. "error" # "ok" /\ "error" \in Results /\ j.op \in {"lock", "unlock"}
    BY <1>1, <1>2, NewStatus DEF Results
  <1>8. Fine(Unclean(Ends(j, "error")), c) /\ Fine(Unclean(Ends(j, "error")), d)
    BY <1>2, <1>5, <1>7, EndsFine
  <1>9. Transfer(t, d, k, Ends(j, "error"))
    BY <1>2, <1>3, <1>4 DEF write_sr
  <1> QED BY <1>1, <1>2, <1>6, <1>8, <1>9, Transferring

\* The same for the end of a wait, a wait that fails, ...
LEMMA StepWait ==
  ASSUME IndInv, NEW t \in Tasks, spi_nor_wait_till_ready(t) \/ WaitTimeout(t)
  PROVE  IndInv'
  <1>1. job[t].at = "wait" /\ Busy(job[t])
    BY DEF spi_nor_wait_till_ready, WaitTimeout, Busy
  <1>2. PICK j \in Job, c \in Chip : j = job[t] /\ c = chip /\ ChipOK(c) /\ Good(j, c) /\ Busy(j)
    BY <1>1, Starting
  <1>3. PICK k : k = Waited(j)
    OBVIOUS
  <1>4. ~c.wip => Fine(k, c)
    BY <1>1, <1>2, <1>3, Waiting DEF Fine
  <1>5. /\ SameProt(c, c) /\ "error" # "ok" /\ "error" \in Results
        /\ "ETIMEDOUT" # "ok" /\ "ETIMEDOUT" \in Results
    BY DEF SameProt, Results
  <1>6. Fine(Unclean(Ends(j, "error")), c) /\ Fine(Unclean(Ends(j, "ETIMEDOUT")), c)
    BY <1>2, <1>5, EndsFine
  <1>7. PICK u, v : u = Unclean(Ends(j, "error")) /\ v = Unclean(Ends(j, "ETIMEDOUT"))
    OBVIOUS
  <1>8. timeouts \in 0..MaxTimeouts /\ MaxTimeouts \in Nat
    BY BoundsAssumption DEF IndInv, TypeOK
  <1>9. Rest /\ chip' = c /\ timeouts' \in 0..MaxTimeouts
    BY <1>2, <1>8 DEF spi_nor_wait_till_ready, WaitTimeout, Done, TimedOut
  <1>10. (~c.wip /\ To(t, k)) \/ To(t, u) \/ To(t, v)
    BY <1>2, <1>3, <1>7 DEF spi_nor_wait_till_ready, WaitTimeout
  <1> QED BY <1>1, <1>4, <1>6, <1>7, <1>9, <1>10, Stepping

\* ... and the last command of an erase.
LEMMA StepWriteDisable ==
  ASSUME IndInv, NEW t \in Tasks, write_disable(t)
  PROVE  IndInv'
  <1>1. job[t].at = "wrdi" /\ Busy(job[t])
    BY DEF write_disable, Busy
  <1>2. PICK j \in Job, c \in Chip : j = job[t] /\ c = chip /\ ChipOK(c) /\ Good(j, c) /\ Busy(j)
    BY <1>1, Starting
  <1>3. PICK k \in Job : k = Ends(j, "ok") /\ Stays(j, k) /\ k.at = "unlock"
    <2>1. "ok" \in Results
      BY DEF Results
    <2> QED BY <2>1, EndsRecord
  <1>4. PICK u \in Job : u = Unclean(k) /\ Stays(k, u) /\ u.at = "unlock"
    BY <1>3, UncleanRecord
  <1>5. Stays(j, u)
    BY <1>3, <1>4 DEF Stays, Keeps
  <1>6. PICK d \in Chip : /\ d = WRDI(c) /\ SameData(c, d) /\ SameProt(c, d) /\ d.wip = c.wip
                          /\ d.wide = c.wide
    <2>1. /\ \A e \in {WREN(c), WRDI(c), EN4B(c, TRUE), Ready(c)} :
               e \in Chip /\ SameData(c, e) /\ SameProt(c, e)
          /\ \A e \in {WREN(c), WRDI(c), EN4B(c, TRUE)} : e.wip = c.wip
          /\ \A e \in {WREN(c), WRDI(c), Ready(c)} : e.wide = c.wide
      BY LatchCommands
    <2> QED BY <2>1
  <1>7. SameData(c, c) /\ SameProt(c, c)
    BY DEF SameData, SameProt
  <1>8. Good(k, d) /\ Busy(k) /\ Good(u, d) /\ Good(u, c) /\ Busy(u)
    BY <1>1, <1>2, <1>3, <1>4, <1>5, <1>6, <1>7, Disabling
  <1>9. ChipOK(d)
    BY <1>2, <1>6 DEF ChipOK, SameProt
  <1>10. Fine(k, d) /\ Fine(u, c) /\ Fine(u, d)
    BY <1>2, <1>6, <1>8, <1>9 DEF Fine
  <1>11. Transfer(t, d, k, k)
    BY <1>2, <1>3, <1>6 DEF write_disable
  <1> QED BY <1>1, <1>2, <1>4, <1>10, <1>11, Transferring

\* A call that does not hold nor->lock says nothing of the chip.
LEMMA Waits ==
  ASSUME NEW k, NEW d, PlaceInv(k), ~Busy(k)
  PROVE  Good(k, d)
  BY DEF Good, CallInv

\* The calls after a step that changes only the call of t, to k, and leaves the
\* scan's result alone.
LEMMA OneCall ==
  ASSUME IndInv, NEW t \in Tasks, NEW k, NEW d, k \in Job, k.i <= k.n, Good(k, d), To(t, k),
         chip' = d, sane' = sane, has_tb' = has_tb,
         \A u \in Tasks \ {t} : ~Busy(job[u]) \/ d = chip
  PROVE  /\ job' \in [Tasks -> Job] /\ (\A u \in Tasks : job'[u].i <= job'[u].n)
         /\ job'[t] = k /\ (\A u \in Tasks \ {t} : job'[u] = job[u])
         /\ CallsInv'
  <1>1. TypeOK /\ CallsInv
    BY DEF IndInv
  <1>2. job \in [Tasks -> Job] /\ job' = [job EXCEPT ![t] = k]
    BY <1>1 DEF TypeOK, To
  <1>3. job' \in [Tasks -> Job] /\ job'[t] = k /\ \A u \in Tasks \ {t} : job'[u] = job[u]
    BY <1>2
  <1>4. \A u \in Tasks : job'[u].i <= job'[u].n
    BY <1>1, <1>3 DEF TypeOK
  <1>5. ASSUME NEW u \in Tasks PROVE (PlaceInv(job[u]) /\ CallInv(job[u], chip))'
    <2>1. PICK m : m = job'[u]
      OBVIOUS
    <2>2. Good(m, d)
      <3>1. CASE u = t
        BY <1>3, <2>1, <3>1
      <3>2. CASE u # t
        <4>1. m = job[u]
          BY <1>3, <2>1, <3>2
        <4>2. PlaceInv(m) /\ CallInv(m, chip)
          BY <1>1, <4>1 DEF CallsInv
        <4>3. CASE ~Busy(m)
          BY <4>2, <4>3, Waits
        <4>4. CASE d = chip
          BY <4>2, <4>4 DEF Good
        <4> QED BY <3>2, <4>1, <4>3, <4>4
      <3> QED BY <3>1, <3>2
    <2>3. Good(m, d)'
      BY <2>2, Frame
    <2> QED BY <2>1, <2>3 DEF Good, PlaceInv, CallInv, Busy, ChipInv, WriteInv,
          EraseInv, ReadInv, ProtectInv, Written, Ok, Writable, Aligned
  <1>6. CallsInv'
    BY <1>5 DEF CallsInv
  <1> QED BY <1>3, <1>4, <1>6

\* Taking nor->lock keeps the invariant, ...
LEMMA StepLock ==
  ASSUME IndInv, NEW t \in Tasks, spi_nor_lock_and_prep(t)
  PROVE  IndInv'
  <1>1. TypeOK /\ ExclusionInv /\ ScanInv /\ CallsInv
    BY DEF IndInv
  <1>2. PICK j \in Job, c \in Chip : j = job[t] /\ c = chip /\ ChipOK(c) /\ PlaceInv(j)
    BY <1>1 DEF TypeOK, CallsInv, ChipOK
  <1>3. /\ j.at = "lock" /\ nor_lock = NoTask /\ nor_lock' = t
        /\ chip' = chip /\ scan' = scan /\ phase' = phase /\ sane' = sane /\ started' = started
        /\ timeouts' = timeouts /\ has_tb' = has_tb /\ micron' = micron /\ flags' = flags /\ big' = big
    BY <1>2 DEF spi_nor_lock_and_prep, cfgVars
  <1>4. Protected(c) \subseteq Units /\ sane \in BOOLEAN
    BY <1>1, <1>2, ReadStatus DEF ChipOK, TypeOK
  <1>5. PICK k : k = [At(j, First[j.op]) EXCEPT !.clean = ~c.wip /\ sane, !.was = Protected(c)]
    OBVIOUS
  <1>6. k \in Job /\ Good(k, c) /\ Busy(k)
    BY <1>2, <1>3, <1>4, <1>5, Beginning
  <1>7. To(t, k)
    BY <1>2, <1>5 DEF spi_nor_lock_and_prep
  <1>8. k.i <= k.n
    BY <1>6 DEF Good, PlaceInv, Busy
  <1>9. /\ job' \in [Tasks -> Job] /\ (\A u \in Tasks : job'[u].i <= job'[u].n)
        /\ job'[t] = k /\ (\A u \in Tasks \ {t} : job'[u] = job[u])
        /\ CallsInv'
    BY <1>2, <1>3, <1>6, <1>7, <1>8, OneCall
  <1>10. TypeOK'
    BY <1>1, <1>3, <1>9 DEF TypeOK
  <1>11. phase = "registered"
    BY <1>1, <1>2, <1>3 DEF ExclusionInv, Idle
  <1>12. ExclusionInv'
    <2>1. \A u \in Tasks : ~Busy(job[u])
      BY <1>1, <1>3, BoundsAssumption DEF ExclusionInv
    <2>2. \A u \in Tasks : Busy(job'[u]) <=> nor_lock' = u
      BY <1>3, <1>6, <1>9, <2>1
    <2>3. \A u \in Tasks : Busy(job[u])' <=> nor_lock' = u
      BY <2>2 DEF Busy
    <2> QED BY <1>3, <1>11, <2>3 DEF ExclusionInv
  <1>13. ScanInv'
    BY <1>1, <1>3 DEF ScanInv
  <1> QED BY <1>9, <1>10, <1>12, <1>13 DEF IndInv

\* A call that has not begun.
LEMMA IdleIs ==
  /\ Idle \in Job /\ Idle.at = "idle" /\ Idle.i = 0 /\ Idle.n = 0 /\ Idle.got = {}
  /\ PlaceInv(Idle) /\ ~Busy(Idle)
  <1>1. Idle \in Job
    BY DEF Idle, Job, MASK
  <1>2. Idle.at = "idle" /\ Idle.i = 0 /\ Idle.n = 0 /\ Idle.got = {}
    BY DEF Idle
  <1> QED BY <1>1, <1>2 DEF PlaceInv, Busy

\* ... and so does giving it back, ...
LEMMA StepUnlock ==
  ASSUME IndInv, NEW t \in Tasks, spi_nor_unlock_and_unprep(t)
  PROVE  IndInv'
  <1>1. TypeOK /\ ExclusionInv /\ ScanInv /\ CallsInv
    BY DEF IndInv
  <1>2. /\ job[t].at = "unlock" /\ nor_lock' = NoTask /\ To(t, Idle)
        /\ chip' = chip /\ scan' = scan /\ phase' = phase /\ sane' = sane /\ started' = started
        /\ timeouts' = timeouts /\ has_tb' = has_tb /\ micron' = micron /\ flags' = flags /\ big' = big
    BY DEF spi_nor_unlock_and_unprep, cfgVars
  <1>3. nor_lock = t /\ phase = "registered"
    BY <1>2, Holder DEF Busy
  <1>4. PICK k, d : k = Idle /\ d = chip
    OBVIOUS
  <1>5. k \in Job /\ k.i <= k.n /\ Good(k, d)
    BY <1>4, IdleIs, Waits
  <1>6. /\ job' \in [Tasks -> Job] /\ (\A u \in Tasks : job'[u].i <= job'[u].n)
        /\ job'[t] = k /\ (\A u \in Tasks \ {t} : job'[u] = job[u])
        /\ CallsInv'
    BY <1>2, <1>4, <1>5, OneCall
  <1>7. TypeOK'
    BY <1>1, <1>2, <1>6 DEF TypeOK
  <1>8. ExclusionInv'
    <2>1. \A u \in Tasks : Busy(job'[u]) <=> nor_lock' = u
      BY <1>1, <1>2, <1>3, <1>4, <1>6, IdleIs, BoundsAssumption DEF ExclusionInv
    <2>2. \A u \in Tasks : Busy(job[u])' <=> nor_lock' = u
      BY <2>1 DEF Busy
    <2> QED BY <1>2, <1>3, <2>2 DEF ExclusionInv
  <1>9. ScanInv'
    BY <1>1, <1>2 DEF ScanInv
  <1> QED BY <1>6, <1>7, <1>8, <1>9 DEF IndInv

\* ... and a new call.
LEMMA StepBegins ==
  ASSUME IndInv, NEW t \in Tasks, Begins(t)
  PROVE  IndInv'
  <1>1. TypeOK /\ ExclusionInv /\ ScanInv /\ CallsInv
    BY DEF IndInv
  <1>2. PICK op \in {"write", "read", "erase", "lock", "unlock", "is_locked"},
             r \in Writes \cup Reads \cup Erases \cup Locks :
          Call(t, op, r) /\ (op = "erase" => r[2] % EraseSize = 0)
    BY DEF Begins, spi_nor_write, spi_nor_read, spi_nor_erase, spi_nor_lock, spi_nor_unlock,
           spi_nor_is_locked
  <1>3. PICK a \in Nat, n \in Nat \ {0} : a = r[1] /\ n = r[2] /\ a + n <= Size
    BY RangesAssumption
  <1>4. PICK k : k = [Idle EXCEPT !.at = "lock", !.op = op, !.a = a, !.n = n]
    OBVIOUS
  <1>5. /\ phase = "registered" /\ job[t] = Idle /\ started < MaxOps /\ started' = started + 1
        /\ To(t, k) /\ chip' = chip /\ nor_lock' = nor_lock /\ scan' = scan /\ phase' = phase
        /\ sane' = sane /\ timeouts' = timeouts /\ has_tb' = has_tb /\ micron' = micron /\ flags' = flags
        /\ big' = big
    BY <1>2, <1>3, <1>4 DEF Call, cfgVars
  <1>6. PICK e \in Job : e = Idle /\ e.i = 0 /\ e.got = {}
    BY IdleIs
  <1>7. k = [e EXCEPT !.at = "lock", !.op = op, !.a = a, !.n = n]
    BY <1>4, <1>6
  <1>8. /\ k \in Job /\ k.at = "lock" /\ k.op = op /\ k.a = a /\ k.n = n /\ k.i = e.i
        /\ k.got = e.got
    BY <1>7 DEF Job
  <1>9. PlaceInv(k) /\ ~Busy(k)
    <2>1. k.n > 0 /\ k.a + k.n <= Size /\ k.i <= k.n /\ k.i = 0 /\ k.got = {}
      BY <1>3, <1>6, <1>8
    <2>2. k.op = "erase" => k.n % EraseSize = 0
      BY <1>2, <1>3, <1>8
    <2> QED BY <1>8, <2>1, <2>2 DEF PlaceInv, PlacesOf, Busy
  <1>10. PICK d : d = chip
    OBVIOUS
  <1>11. Good(k, d) /\ k.i <= k.n
    BY <1>3, <1>6, <1>8, <1>9, Waits
  <1>12. /\ job' \in [Tasks -> Job] /\ (\A u \in Tasks : job'[u].i <= job'[u].n)
         /\ job'[t] = k /\ (\A u \in Tasks \ {t} : job'[u] = job[u])
         /\ CallsInv'
    BY <1>5, <1>8, <1>10, <1>11, OneCall
  <1>13. started' \in 0..MaxOps
    BY <1>1, <1>5, BoundsAssumption DEF TypeOK
  <1>14. TypeOK'
    BY <1>1, <1>5, <1>12, <1>13 DEF TypeOK
  <1>15. ExclusionInv'
    <2>1. \A u \in Tasks : Busy(job'[u]) <=> nor_lock' = u
      BY <1>1, <1>5, <1>9, <1>12, IdleIs DEF ExclusionInv
    <2>2. \A u \in Tasks : Busy(job[u])' <=> nor_lock' = u
      BY <2>1 DEF Busy
    <2> QED BY <1>5, <2>2 DEF ExclusionInv
  <1>16. ScanInv'
    BY <1>1, <1>5 DEF ScanInv
  <1> QED BY <1>12, <1>14, <1>15, <1>16 DEF IndInv

\* The chip that becomes ready keeps it, too.
LEMMA StepChipReady ==
  ASSUME IndInv, ChipReady
  PROVE  IndInv'
  <1>1. TypeOK /\ ExclusionInv /\ ScanInv /\ CallsInv
    BY DEF IndInv
  <1>2. PICK c \in Chip : c = chip /\ ChipOK(c) /\ c.wip
    BY <1>1 DEF TypeOK, ChipOK, ChipReady
  <1>3. PICK d \in Chip : /\ d = Ready(c) /\ SameData(c, d) /\ SameProt(c, d)
                          /\ d.wide = c.wide /\ d.wip = FALSE
    <2>1. /\ \A e \in {WREN(c), WRDI(c), EN4B(c, TRUE), Ready(c)} :
               e \in Chip /\ SameData(c, e) /\ SameProt(c, e)
          /\ \A e \in {WREN(c), WRDI(c), Ready(c)} : e.wide = c.wide
          /\ Ready(c).wip = FALSE
      BY LatchCommands
    <2> QED BY <2>1
  <1>4. /\ chip' = d /\ nor_lock' = nor_lock /\ job' = job /\ scan' = scan /\ phase' = phase
        /\ sane' = sane /\ started' = started /\ timeouts' = timeouts /\ has_tb' = has_tb
        /\ micron' = micron /\ flags' = flags /\ big' = big
    BY <1>2, <1>3 DEF ChipReady, cfgVars
  <1>5. ChipOK(d)
    BY <1>2, <1>3 DEF ChipOK, SameProt
  <1>6. TypeOK'
    BY <1>1, <1>4, <1>5 DEF TypeOK, ChipOK
  <1>7. ExclusionInv'
    BY <1>1, <1>4 DEF ExclusionInv, Busy
  <1>8. ScanInv'
    BY <1>1, <1>2, <1>3, <1>4 DEF ScanInv
  <1>9. ASSUME NEW u \in Tasks PROVE (PlaceInv(job[u]) /\ CallInv(job[u], chip))'
    <2>1. PICK m \in Job : m = job[u]
      BY <1>1 DEF TypeOK
    <2>2. Good(m, c)
      BY <1>1, <1>2, <2>1 DEF CallsInv, Good
    <2>3. Good(m, d)
      BY <1>2, <1>3, <2>2, Readying
    <2>4. Good(m, d)'
      BY <1>4, <2>3, Frame
    <2> QED BY <1>4, <2>1, <2>4 DEF Good, PlaceInv, CallInv, Busy, ChipInv, WriteInv,
          EraseInv, ReadInv, ProtectInv, Written, Ok, Writable, Aligned
  <1>10. CallsInv'
    BY <1>9 DEF CallsInv
  <1> QED BY <1>6, <1>7, <1>8, <1>10 DEF IndInv

\* While nobody calls, nothing is said of calls.
LEMMA Quiet ==
  ASSUME IndInv, \A t \in Tasks : job[t] = Idle, job' = job, nor_lock' = nor_lock
  PROVE  ExclusionInv' /\ CallsInv'
  <1>1. \A t \in Tasks : job'[t] = Idle
    OBVIOUS
  <1>2. ExclusionInv'
    BY <1>1 DEF IndInv, ExclusionInv, Busy
  <1>3. CallsInv'
    BY <1>1, IdleIs DEF CallsInv, PlaceInv, CallInv, Busy
  <1> QED BY <1>2, <1>3

\* The commands of a scan.
Commands == {"WREN", "WRSR", "wait", "EN4B", "WRDI"}

\* A list of commands that is right: EN4B is sent to big chips that need it, and to
\* Micron chips after WREN.
Right(q) ==
  /\ q \in Seq(Commands)
  /\ \A k \in DOMAIN q : q[k] = "EN4B" => big
  /\ big /\ "4B_OPCODES" \notin flags => \E k \in DOMAIN q : q[k] = "EN4B"
  /\ \A k \in DOMAIN q : q[k] = "EN4B" /\ micron => k # 1 /\ q[k - 1] = "WREN"

\* The list of a scan is right.
LEMMA RightList == Right(ScanCommands)
  <1>1. PICK q : q = set_4byte
    OBVIOUS
  <1>2. Right(q)
    <2>1. CASE ~big \/ "4B_OPCODES" \in flags
      <3>1. q = <<>> /\ DOMAIN q = {}
        BY <1>1, <2>1 DEF set_4byte
      <3> QED BY <2>1, <3>1 DEF Right
    <2>2. CASE big /\ "4B_OPCODES" \notin flags /\ ~micron
      BY <1>1, <2>2 DEF Right, Commands, set_4byte
    <2>3. CASE big /\ "4B_OPCODES" \notin flags /\ micron
      BY <1>1, <2>3 DEF Right, Commands, set_4byte
    <2> QED BY <2>1, <2>2, <2>3
  <1>3. q \in Seq(Commands) /\ DOMAIN q = 1..Len(q) /\ Len(q) \in Nat
    BY <1>2 DEF Right
  <1>4. CASE {"HAS_LOCK", "LOCKED_MFR"} \cap flags # {}
    <2>1. PICK p \in Seq(Commands) : /\ p = <<"WREN", "WRSR", "wait">> /\ Len(p) = 3
                                     /\ \A k \in 1..3 : p[k] # "EN4B"
      <3>1. PICK p : p = <<"WREN", "WRSR", "wait">>
        OBVIOUS
      <3>2. p \in Seq(Commands) /\ Len(p) = 3
        BY <3>1 DEF Commands
      <3>3. p[1] = "WREN" /\ p[2] = "WRSR" /\ p[3] = "wait"
        BY <3>1
      <3>4. \A k \in 1..3 : k = 1 \/ k = 2 \/ k = 3
        OBVIOUS
      <3> QED BY <3>1, <3>2, <3>3, <3>4
    <2>2. PICK r \in Seq(Commands) :
            /\ r = p \o q /\ Len(r) = 3 + Len(q)
            /\ \A k \in 1..(3 + Len(q)) : r[k] = IF k <= 3 THEN p[k] ELSE q[k - 3]
      <3>1. /\ p \o q \in Seq(Commands)
            /\ Len(p \o q) = Len(p) + Len(q)
            /\ \A i \in 1 .. Len(p) + Len(q) :
                 (p \o q)[i] = IF i <= Len(p) THEN p[i] ELSE q[i - Len(p)]
        BY <1>3, ConcatProperties
      <3>2. PICK r : r = p \o q
        OBVIOUS
      <3> QED BY <2>1, <3>1, <3>2
    <2>3. DOMAIN r = 1..(3 + Len(q))
      BY <2>2
    <2>4. ASSUME NEW k \in DOMAIN r, r[k] = "EN4B"
          PROVE  /\ k - 3 \in DOMAIN q /\ q[k - 3] = "EN4B"
                 /\ k - 1 \in DOMAIN r /\ (k - 3 # 1 => r[k - 1] = q[(k - 3) - 1])
      <3>1. k \in 1..(3 + Len(q)) /\ ~(k <= 3)
        BY <2>1, <2>2, <2>3, <2>4
      <3>2. k - 3 \in DOMAIN q /\ q[k - 3] = "EN4B" /\ k - 1 \in DOMAIN r
        BY <1>3, <2>2, <2>3, <2>4, <3>1
      <3>3. k - 3 # 1 => ~(k - 1 <= 3) /\ (k - 1) - 3 = (k - 3) - 1
        BY <3>1
      <3> QED BY <2>2, <2>3, <3>2, <3>3
    <2>5. \A k \in DOMAIN r : r[k] = "EN4B" => big
      BY <1>2, <2>4 DEF Right
    <2>6. big /\ "4B_OPCODES" \notin flags => \E k \in DOMAIN r : r[k] = "EN4B"
      <3> SUFFICES ASSUME big, "4B_OPCODES" \notin flags PROVE \E k \in DOMAIN r : r[k] = "EN4B"
        OBVIOUS
      <3>1. PICK k \in DOMAIN q : q[k] = "EN4B"
        BY <1>2 DEF Right
      <3>2. k + 3 \in 1..(3 + Len(q)) /\ ~(k + 3 <= 3) /\ (k + 3) - 3 = k
        BY <1>3, <3>1
      <3>3. r[k + 3] = "EN4B"
        BY <2>2, <3>1, <3>2
      <3> QED BY <2>3, <3>2, <3>3
    <2>7. ASSUME NEW k \in DOMAIN r, r[k] = "EN4B", micron
          PROVE  k # 1 /\ r[k - 1] = "WREN"
      <3>1. k - 3 # 1 /\ q[(k - 3) - 1] = "WREN"
        BY <1>2, <2>4, <2>7 DEF Right
      <3> QED BY <1>3, <2>3, <2>4, <2>7, <3>1
    <2>8. Right(r)
      BY <2>5, <2>6, <2>7 DEF Right
    <2> QED BY <1>1, <1>4, <2>1, <2>2, <2>8 DEF ScanCommands
  <1>5. CASE {"HAS_LOCK", "LOCKED_MFR"} \cap flags = {}
    <2>1. ScanCommands = <<>> \o q
      BY <1>1, <1>5 DEF ScanCommands
    <2>2. <<>> \o q = q
      BY <1>3, ConcatEmptySeq
    <2> QED BY <1>2, <2>1, <2>2
  <1> QED BY <1>4, <1>5

\* The probe keeps the invariant, ...
LEMMA StepProbe ==
  ASSUME IndInv, altera_asmip2_probe
  PROVE  IndInv'
  <1>1. TypeOK /\ ExclusionInv /\ ScanInv /\ CallsInv
    BY DEF IndInv
  <1>2. /\ phase = "absent" /\ phase' = "scan" /\ scan' = ScanCommands /\ sane' = TRUE
        /\ chip' = chip /\ nor_lock' = nor_lock /\ job' = job /\ started' = started
        /\ timeouts' = timeouts /\ has_tb' = has_tb /\ micron' = micron /\ flags' = flags /\ big' = big
    BY DEF altera_asmip2_probe, cfgVars
  <1>3. \A t \in Tasks : job[t] = Idle
    BY <1>1, <1>2 DEF ExclusionInv
  <1>4. PICK q : q = ScanCommands /\ Right(q)
    BY RightList
  <1>5. TypeOK'
    BY <1>1, <1>2, <1>4 DEF TypeOK, Right, Commands
  <1>6. ScanInv'
    BY <1>1, <1>2, <1>4 DEF ScanInv, Right
  <1> QED BY <1>2, <1>3, <1>5, <1>6, Quiet DEF IndInv

\* ... and so do the end of a scan, whether it succeeds or not, ...
LEMMA StepScanEnd ==
  ASSUME IndInv, ScanFails \/ mtd_device_register
  PROVE  IndInv'
  <1>1. TypeOK /\ ExclusionInv /\ ScanInv /\ CallsInv
    BY DEF IndInv
  <1>2. /\ phase = "scan" /\ phase' \in {"registered", "absent"} /\ scan' = <<>>
        /\ phase' = "registered" => scan = <<>>
        /\ chip' = chip /\ nor_lock' = nor_lock /\ job' = job /\ sane' = sane
        /\ started' = started
        /\ timeouts' = timeouts /\ has_tb' = has_tb /\ micron' = micron /\ flags' = flags /\ big' = big
    BY DEF ScanFails, mtd_device_register, cfgVars
  <1>3. \A t \in Tasks : job[t] = Idle
    BY <1>1, <1>2 DEF ExclusionInv
  <1>4. TypeOK'
    BY <1>1, <1>2 DEF TypeOK
  <1>5. ScanInv'
    BY <1>1, <1>2 DEF ScanInv
  <1> QED BY <1>2, <1>3, <1>4, <1>5, Quiet DEF IndInv

\* ... the removal, ...
LEMMA StepRemove ==
  ASSUME IndInv, altera_asmip2_remove
  PROVE  IndInv'
  <1>1. TypeOK /\ ExclusionInv /\ ScanInv /\ CallsInv
    BY DEF IndInv
  <1>2. /\ phase = "registered" /\ phase' = "absent" /\ (\A t \in Tasks : job[t] = Idle)
        /\ sane' = TRUE /\ scan' = scan
        /\ chip' = chip /\ nor_lock' = nor_lock /\ job' = job /\ started' = started
        /\ timeouts' = timeouts /\ has_tb' = has_tb /\ micron' = micron /\ flags' = flags /\ big' = big
    BY DEF altera_asmip2_remove, cfgVars
  <1>3. TypeOK'
    BY <1>1, <1>2 DEF TypeOK
  <1>4. ScanInv'
    BY <1>1, <1>2 DEF ScanInv
  <1> QED BY <1>2, <1>3, <1>4, Quiet DEF IndInv

\* What a command of the scan does to the chip.
LEMMA CommandResult ==
  ASSUME NEW h \in Commands \ {"wait"}, NEW c, c = chip, ChipOK(c), micron \in BOOLEAN,
         NEW d, d = Command(h)
  PROVE  /\ ChipOK(d)
         /\ h # "EN4B" => d.wide = c.wide
         /\ h = "EN4B" /\ ~c.wip /\ (micron => c.wel) => d.wide
         /\ c.wide => d.wide
         /\ h = "WREN" /\ ~c.wip => ~d.wip /\ d.wel
  <1>1. c \in Chip /\ (~has_tb => c.tb = 0)
    BY DEF ChipOK
  <1>2. PICK z : z = [bp |-> 0, tb |-> 0] /\ z \in Status /\ z.tb = 0
    <2>1. 0 \in 0..MASK /\ 0 \in {0, 1}
      BY DEF MASK
    <2>2. [bp |-> 0, tb |-> 0] \in Status
      BY <2>1 DEF Status
    <2> QED BY <2>2
  <1>3. CASE h = "WREN"
    <2>1. d = WREN(c)
      BY <1>3 DEF Command
    <2>2. /\ d \in Chip /\ SameProt(c, d) /\ d.wip = c.wip /\ d.wide = c.wide
          /\ ~c.wip => d.wel
      <3>1. /\ WREN(c) \in Chip /\ SameProt(c, WREN(c)) /\ WREN(c).wip = c.wip
            /\ WREN(c).wide = c.wide /\ (~c.wip => WREN(c).wel)
        BY <1>1, LatchCommands
      <3> QED BY <2>1, <3>1
    <2> QED BY <1>1, <1>3, <2>2 DEF ChipOK, SameProt
  <1>4. CASE h = "WRSR"
    <2>1. d = WRSR(c, z)
      BY <1>2, <1>4 DEF Command
    <2>2. d \in Chip /\ d.wide = c.wide /\ (SameProt(c, d) \/ SameProt(z, d))
      BY <1>1, <1>2, <2>1, StatusWrite
    <2> QED BY <1>1, <1>2, <1>4, <2>2 DEF ChipOK, SameProt
  <1>5. CASE h = "EN4B"
    <2>1. d = EN4B(c, micron)
      BY <1>5 DEF Command
    <2>2. PICK m \in BOOLEAN : m = micron
      OBVIOUS
    <2>3. /\ EN4B(c, m) \in Chip /\ SameProt(c, EN4B(c, m))
          /\ ~c.wip /\ (m => c.wel) => EN4B(c, m).wide
          /\ c.wide => EN4B(c, m).wide
      BY <1>1, LatchCommands
    <2> QED BY <1>1, <1>5, <2>1, <2>2, <2>3 DEF ChipOK, SameProt
  <1>6. CASE h = "WRDI"
    <2>1. d = WRDI(c)
      BY <1>6 DEF Command
    <2>2. WRDI(c) \in Chip /\ SameProt(c, WRDI(c)) /\ WRDI(c).wide = c.wide
      BY <1>1, LatchCommands
    <2> QED BY <1>1, <1>6, <2>1, <2>2 DEF ChipOK, SameProt
  <1> QED BY <1>3, <1>4, <1>5, <1>6 DEF Commands

\* ... and each command of the scan.
LEMMA StepScan ==
  ASSUME IndInv, ScanStep
  PROVE  IndInv'
  <1>1. TypeOK /\ ExclusionInv /\ ScanInv /\ CallsInv
    BY DEF IndInv
  <1>2. /\ phase = "scan" /\ phase' = "scan" /\ scan # <<>> /\ scan' = Tail(scan)
        /\ nor_lock' = nor_lock /\ job' = job /\ started' = started
        /\ has_tb' = has_tb /\ micron' = micron /\ flags' = flags /\ big' = big
    BY DEF ScanStep, cfgVars
  <1>3. \A t \in Tasks : job[t] = Idle
    BY <1>1, <1>2 DEF ExclusionInv
  <1>4. PICK q \in Seq(Commands) : q = scan /\ q # <<>>
    BY <1>1, <1>2 DEF TypeOK, Commands
  <1>5. PICK r \in Seq(Commands) : r = Tail(q) /\ scan' = r
    BY <1>2, <1>4
  <1>6. /\ Len(q) \in Nat \ {0} /\ DOMAIN q = 1..Len(q) /\ DOMAIN r = 1..(Len(q) - 1)
        /\ \A k \in 1..(Len(q) - 1) : r[k] = q[k + 1]
    BY <1>4, <1>5
  <1>7. PICK h \in Commands : h = q[1] /\ h = Head(q)
    BY <1>4, <1>6
  <1>8. PICK c \in Chip : c = chip /\ ChipOK(c)
    BY <1>1 DEF TypeOK, ChipOK
  <1>9. PICK d : d = IF h = "wait" THEN c ELSE Command(h)
    OBVIOUS
  <1>10. /\ ChipOK(d)
         /\ h # "EN4B" => d.wide = c.wide
         /\ h = "EN4B" /\ ~c.wip /\ (micron => c.wel) => d.wide
         /\ c.wide => d.wide
         /\ h = "WREN" /\ ~c.wip => ~d.wip /\ d.wel
    <2>1. CASE h = "wait"
      BY <1>8, <1>9, <2>1
    <2>2. CASE h # "wait"
      <3>1. d = Command(h) /\ h \in Commands \ {"wait"} /\ micron \in BOOLEAN
        BY <1>1, <1>9, <2>2 DEF TypeOK
      <3> QED BY <1>8, <3>1, CommandResult
    <2> QED BY <2>1, <2>2
  <1>11. timeouts \in 0..MaxTimeouts /\ MaxTimeouts \in Nat /\ sane \in BOOLEAN
    BY <1>1, BoundsAssumption DEF TypeOK
  <1>12. /\ chip' \in {c, d} /\ timeouts' \in 0..MaxTimeouts /\ sane' \in BOOLEAN
         /\ sane' => sane /\ chip' = d /\ (h # "wait" => ~c.wip)
    <2>1. CASE h = "wait"
      BY <1>4, <1>7, <1>8, <1>9, <1>11, <2>1 DEF ScanStep
    <2>2. CASE h # "wait"
      <3>1. d = Command(Head(scan)) /\ Head(scan) # "wait"
        BY <1>4, <1>7, <1>9, <2>2
      <3>2. \/ chip' = d /\ timeouts' = timeouts /\ sane' = (sane /\ ~c.wip)
            \/ timeouts < MaxTimeouts /\ timeouts' = timeouts + 1 /\ chip' \in {c, d}
                 /\ sane' = FALSE
        BY <1>8, <3>1, Zenon DEF ScanStep, Done, TimedOut
      <3>3. sane' \in BOOLEAN /\ (sane' => sane /\ chip' = d /\ ~c.wip)
        BY <1>11, <3>2, Zenon
      <3>4. timeouts' \in 0..MaxTimeouts
        BY <1>11, <3>2
      <3> QED BY <3>2, <3>3, <3>4
    <2> QED BY <2>1, <2>2
  <1>13. ChipOK(chip')
    BY <1>8, <1>10, <1>12
  <1>14. TypeOK'
    BY <1>1, <1>2, <1>5, <1>12, <1>13 DEF TypeOK, ChipOK, Commands
  <1>15. ScanInv'
    <2>1. \A k \in DOMAIN r : r[k] = "EN4B" => big
      BY <1>1, <1>4, <1>6 DEF ScanInv
    <2>2. chip'.wide => big
      BY <1>1, <1>4, <1>6, <1>7, <1>8, <1>10, <1>12 DEF ScanInv
    <2>3. ASSUME sane', micron, NEW k \in DOMAIN r, r[k] = "EN4B"
          PROVE  IF k = 1 THEN ~chip'.wip /\ chip'.wel ELSE r[k - 1] = "WREN"
      <3>1. sane /\ chip' = d /\ (h # "wait" => ~c.wip)
        BY <1>12, <2>3
      <3>2. k \in 1..(Len(q) - 1) /\ k + 1 \in DOMAIN q /\ q[k + 1] = "EN4B" /\ k + 1 # 1
        BY <1>6, <2>3
      <3>3. q[(k + 1) - 1] = "WREN" /\ (k + 1) - 1 = k
        BY <1>1, <1>2, <1>4, <2>3, <3>1, <3>2 DEF ScanInv
      <3>4. CASE k = 1
        BY <1>7, <1>10, <3>1, <3>3, <3>4
      <3>5. CASE k # 1
        <4>1. k - 1 \in 1..(Len(q) - 1) /\ (k - 1) + 1 = k
          BY <3>2, <3>5, <1>6
        <4> QED BY <1>6, <3>3, <3>5, <4>1
      <3> QED BY <3>4, <3>5
    <2>4. ASSUME sane', big PROVE chip'.wide \/ \E k \in DOMAIN r : r[k] = "EN4B"
      <3>1. sane /\ chip' = d /\ (h # "wait" => ~c.wip)
        BY <1>12, <2>4
      <3>2. c.wide \/ \E k \in DOMAIN q : q[k] = "EN4B"
        BY <1>1, <1>2, <1>4, <1>8, <2>4, <3>1 DEF ScanInv
      <3>3. CASE h = "EN4B"
        <4>1. 1 \in DOMAIN q
          BY <1>6
        <4>2. micron => c.wel
          BY <1>1, <1>2, <1>4, <1>7, <1>8, <3>1, <3>3, <4>1 DEF ScanInv
        <4> QED BY <1>10, <3>1, <3>3, <4>2
      <3>4. CASE h # "EN4B" /\ c.wide
        BY <1>10, <3>1, <3>4
      <3>5. CASE h # "EN4B" /\ \E k \in DOMAIN q : q[k] = "EN4B"
        <4>1. PICK k \in DOMAIN q : q[k] = "EN4B"
          BY <3>5
        <4>2. k # 1
          BY <1>7, <3>5, <4>1
        <4>3. k - 1 \in 1..(Len(q) - 1) /\ (k - 1) + 1 = k
          BY <1>6, <4>1, <4>2
        <4>4. r[k - 1] = "EN4B" /\ k - 1 \in DOMAIN r
          BY <1>6, <4>1, <4>3
        <4> QED BY <4>4
      <3> QED BY <3>2, <3>3, <3>4, <3>5
    <2>5. "4B_OPCODES" \in flags => chip'.wide
      BY <1>1, <1>8, <1>10, <1>12 DEF ScanInv
    <2> QED BY <1>2, <1>5, <2>1, <2>2, <2>3, <2>4, <2>5 DEF ScanInv
  <1> QED BY <1>2, <1>3, <1>14, <1>15, Quiet DEF IndInv

\* The invariant holds at first ...
LEMMA NorInit == Init => IndInv
  <1> SUFFICES ASSUME Init PROVE IndInv
    OBVIOUS
  <1>1. PICK f \in Chips :
          has_tb = f.has_tb /\ micron = f.micron /\ big = f.big /\ flags = f.flags
    BY DEF Init
  <1>2. /\ has_tb \in BOOLEAN /\ micron \in BOOLEAN /\ big \in BOOLEAN /\ flags \subseteq Flags
        /\ "4B_OPCODES" \in flags => big
    BY <1>1, ChipsAssumption
  <1>3. PICK bp \in {0, MASK} :
          chip = [bp |-> bp, tb |-> 0, wel |-> FALSE, wip |-> FALSE,
                  wide |-> "4B_OPCODES" \in flags, zero |-> Data]
    BY DEF Init
  <1>4. bp \in 0..MASK
    BY DEF MASK
  <1>5. chip \in Chip /\ chip.tb = 0 /\ chip.wide = ("4B_OPCODES" \in flags)
    BY <1>3, <1>4, DataAssumption DEF Chip
  <1>6. /\ nor_lock = NoTask /\ job = [t \in Tasks |-> Idle] /\ scan = <<>> /\ phase = "absent"
        /\ sane = TRUE /\ started = 0 /\ timeouts = 0
    BY DEF Init
  <1>7. job \in [Tasks -> Job] /\ \A t \in Tasks : job[t] = Idle
    BY <1>6, IdleIs
  <1>8. TypeOK
    <2>1. \A t \in Tasks : job[t].i <= job[t].n
      BY <1>7, IdleIs
    <2>2. started \in 0..MaxOps /\ timeouts \in 0..MaxTimeouts
      BY <1>6, BoundsAssumption
    <2>3. scan \in Seq({"WREN", "WRSR", "wait", "EN4B", "WRDI"})
      BY <1>6
    <2> QED BY <1>2, <1>5, <1>6, <1>7, <2>1, <2>2, <2>3 DEF TypeOK
  <1>9. ExclusionInv
    BY <1>6, <1>7, IdleIs, BoundsAssumption DEF ExclusionInv
  <1>10. ScanInv
    BY <1>2, <1>5, <1>6 DEF ScanInv
  <1>11. CallsInv
    BY <1>7, IdleIs DEF CallsInv, CallInv
  <1> QED BY <1>8, <1>9, <1>10, <1>11 DEF IndInv

\* ... and no step breaks it.
LEMMA NorStep == IndInv /\ [Next]_vars => IndInv'
  <1> SUFFICES ASSUME IndInv, [Next]_vars PROVE IndInv'
    OBVIOUS
  <1>1. CASE altera_asmip2_probe
    BY <1>1, StepProbe
  <1>2. CASE ScanStep
    BY <1>2, StepScan
  <1>3. CASE ScanFails \/ mtd_device_register
    BY <1>3, StepScanEnd
  <1>4. CASE altera_asmip2_remove
    BY <1>4, StepRemove
  <1>5. CASE ChipReady
    BY <1>5, StepChipReady
  <1>6. ASSUME NEW t \in Tasks, Begins(t) PROVE IndInv'
    BY <1>6, StepBegins
  <1>7. ASSUME NEW t \in Tasks, Steps(t) PROVE IndInv'
    <2>1. CASE spi_nor_lock_and_prep(t)
      BY <2>1, StepLock
    <2>2. CASE spi_nor_unlock_and_unprep(t)
      BY <2>2, StepUnlock
    <2>3. CASE write_enable(t)
      BY <2>3, StepWriteEnable
    <2>4. CASE program(t)
      BY <2>4, StepProgram
    <2>5. CASE read(t)
      BY <2>5, StepRead
    <2>6. CASE erase(t)
      BY <2>6, StepErase
    <2>7. CASE read_sr(t)
      BY <2>7, StepReadSr
    <2>8. CASE write_sr(t)
      BY <2>8, StepWriteSr
    <2>9. CASE spi_nor_wait_till_ready(t) \/ WaitTimeout(t)
      BY <2>9, StepWait
    <2>10. CASE write_disable(t)
      BY <2>10, StepWriteDisable
    <2> QED BY <1>7, <2>1, <2>2, <2>3, <2>4, <2>5, <2>6, <2>7, <2>8, <2>9, <2>10 DEF Steps
  <1>8. CASE UNCHANGED vars
    <2>1. TypeOK /\ ExclusionInv /\ ScanInv /\ CallsInv
      BY DEF IndInv
    <2>2. /\ chip' = chip /\ nor_lock' = nor_lock /\ job' = job /\ scan' = scan
          /\ phase' = phase /\ sane' = sane /\ started' = started /\ timeouts' = timeouts
          /\ has_tb' = has_tb /\ micron' = micron /\ flags' = flags /\ big' = big
      BY <1>8 DEF vars, cfgVars
    <2>3. TypeOK'
      BY <2>1, <2>2 DEF TypeOK
    <2>4. ExclusionInv'
      BY <2>1, <2>2 DEF ExclusionInv, Busy
    <2>5. ScanInv'
      BY <2>1, <2>2 DEF ScanInv
    <2>6. ASSUME NEW u \in Tasks PROVE (PlaceInv(job[u]) /\ CallInv(job[u], chip))'
      <3>1. PICK m, d : m = job[u] /\ d = chip
        OBVIOUS
      <3>2. Good(m, d)
        BY <2>1, <3>1 DEF CallsInv, Good
      <3>3. Good(m, d)'
        BY <2>2, <3>2, Frame
      <3> QED BY <2>2, <3>1, <3>3 DEF Good, PlaceInv, CallInv, Busy, ChipInv, WriteInv,
            EraseInv, ReadInv, ProtectInv, Written, Ok, Writable, Aligned
    <2>7. CallsInv'
      BY <2>6 DEF CallsInv
    <2> QED BY <2>3, <2>4, <2>5, <2>7 DEF IndInv
  <1> QED BY <1>1, <1>2, <1>3, <1>4, <1>5, <1>6, <1>7, <1>8 DEF Next

\* The invariant follows from the specification, without its fairness.
THEOREM NorInvariance == Spec => []IndInv
  BY NorInit, NorStep, PTL DEF Spec

\* Type correctness: the chip's registers keep their widths, a chip without SR_TB
\* never has the bit set, and no call counts more than it was asked for.
THEOREM NorTypeOK == Spec => []TypeOK
  <1>1. IndInv => TypeOK
    BY DEF IndInv
  <1> QED BY <1>1, NorInvariance, PTL

\* What a call reports has happened: the bytes that spi_nor_write counts are
\* programmed, spi_nor_erase has erased its range, spi_nor_read returns the chip's
\* data and stm_is_locked finds the protection the chip has, whatever the page, sector
\* and FIFO sizes.  Of lock and unlock it speaks for ranges that BP bits can express: stm_lock
\* leaves its range protected and stm_unlock unprotected.
THEOREM NorLands == Spec => []Lands
  <1>1. IndInv => Lands
    <2> SUFFICES ASSUME IndInv, NEW t \in Tasks, Held(t), job[t].clean
                 PROVE  LET j == job[t]
                            ok == j.at = "unlock" /\ j.ret = "ok"
                            range == UnitsOf(j.a, j.n)
                        IN  /\ j.op = "write" /\ Writable(j) =>
                                 UnitsOf(j.a, j.i) \subseteq chip.zero
                            /\ j.op = "erase" /\ ok /\ Writable(j) /\ Aligned(j) =>
                                 chip.zero \cap range = {}
                            /\ j.op = "read" /\ ok => j.got = chip.zero \cap range
                            /\ j.op = "lock" /\ ok /\ LockFits(j.a, j.n) =>
                                 range \subseteq Protected(chip)
                            /\ j.op = "unlock" /\ ok /\ UnlockFits(j.a, j.n) =>
                                 range \cap Protected(chip) = {}
                            /\ j.op = "is_locked" /\ ok =>
                                 j.answer = (range \subseteq Protected(chip))
      BY DEF Lands
    <2>1. PICK j, c : j = job[t] /\ c = chip
      OBVIOUS
    <2>2. Busy(j) /\ j.clean
      BY <2>1 DEF Held, Busy
    <2>3. Good(j, c)
      BY <2>1, <2>2, Holder
    <2>4. WriteInv(j, c) /\ EraseInv(j, c) /\ ReadInv(j, c) /\ ProtectInv(j, c)
      BY <2>2, <2>3 DEF Good, CallInv
    <2>5. j.op = "write" /\ Writable(j) => UnitsOf(j.a, j.i) \subseteq c.zero
      BY <2>2, <2>4 DEF WriteInv
    <2>6. j.op = "erase" /\ Ok(j) /\ Writable(j) /\ Aligned(j) =>
            c.zero \cap UnitsOf(j.a, j.n) = {}
      BY <2>2, <2>4 DEF EraseInv
    <2>7. j.op = "read" /\ Ok(j) => j.got = c.zero \cap UnitsOf(j.a, j.n)
      BY <2>2, <2>4 DEF ReadInv
    <2>8. /\ j.op = "lock" /\ Ok(j) /\ LockFits(j.a, j.n) =>
               UnitsOf(j.a, j.n) \subseteq Protected(c)
          /\ j.op = "unlock" /\ Ok(j) /\ UnlockFits(j.a, j.n) =>
               UnitsOf(j.a, j.n) \cap Protected(c) = {}
          /\ j.op = "is_locked" /\ Ok(j) =>
               j.answer = (UnitsOf(j.a, j.n) \subseteq Protected(c))
      BY <2>2, <2>4 DEF ProtectInv, Written
    <2> QED BY <2>1, <2>5, <2>6, <2>7, <2>8 DEF Ok
  <1> QED BY <1>1, NorInvariance, PTL

-----------------------------------------------------------------------------
(* What a step may change.                                                 *)

\* What Confined says of a step.
Confines ==
  phase = "registered" /\ sane =>
    IF nor_lock = NoTask THEN chip'.zero = chip.zero /\ Protected(chip') = Protected(chip)
    ELSE ConfinedTo(nor_lock)

\* A step that changes neither data nor protection is confined.
LEMMA Harmless ==
  ASSUME NEW c, NEW d, c = chip, d = chip', SameData(c, d), SameProt(c, d)
  PROVE  Confines
  <1>1. d.zero = c.zero /\ Protected(d) = Protected(c)
    BY SameProtected DEF SameData
  <1>2. chip'.zero = chip.zero /\ Protected(chip') = Protected(chip)
    BY <1>1
  <1> QED BY <1>2 DEF Confines, ConfinedTo

\* After a transfer, and after one that timed out, the chip has heard the command
\* or is as before.
LEMMA Heard ==
  ASSUME NEW t, NEW p, NEW c, c = chip, NEW ok, NEW bad, Transfer(t, p, ok, bad)
  PROVE  chip' \in {c, p}
  BY DEF Transfer, Done, TimedOut

\* The step from c to d by the holder's call j, without variables.
Change(j, c, d) ==
  /\ d.zero # c.zero =>
       \/ j.op = "write" /\ c.zero \subseteq d.zero /\ d.zero \ c.zero \subseteq Asked(j)
       \/ j.op = "erase" /\ d.zero \subseteq c.zero /\ c.zero \ d.zero \subseteq Asked(j)
  /\ Protected(d) # Protected(c) =>
       \/ j.op = "lock" /\ (d.tb # c.tb \/ Protected(c) \subseteq Protected(d))
       \/ j.op = "unlock" /\ (d.tb # c.tb \/ Protected(d) \subseteq Protected(c))
          /\ (Vanishes(j.a, j.n, d.tb) \/ Protected(c) \ UnitsOf(j.a, j.n) \subseteq Protected(d))

\* A confined step of the holder.
LEMMA HolderConfined ==
  ASSUME IndInv, NEW t \in Tasks, Busy(job[t]), NEW j, NEW c, NEW d,
         j = job[t], c = chip, d = chip', sane => Change(j, c, d)
  PROVE  Confines
  <1>1. nor_lock = t /\ t # NoTask
    BY Holder, BoundsAssumption
  <1>2. sane => ConfinedTo(t)
    BY DEF Change, ConfinedTo
  <1> QED BY <1>1, <1>2 DEF Confines

\* A page is programmed within the range of the call.
LEMMA ConfinedProgram ==
  ASSUME IndInv, NEW t \in Tasks, program(t)
  PROVE  Confines
  <1>1. job[t].at = "program" /\ Busy(job[t])
    BY DEF program, Busy
  <1>2. PICK j \in Job, c \in Chip : /\ j = job[t] /\ c = chip /\ ChipOK(c) /\ Good(j, c)
                                     /\ Busy(j) /\ (sane => c.wide = big)
    BY <1>1, Starting
  <1>3. j.i < j.n /\ PlaceInv(j) /\ j.at # "idle" /\ j.op = "write"
    BY <1>1, <1>2 DEF Good, PlaceInv, PlacesOf, CallInv, WriteInv, Busy
  <1>4. PICK m \in Nat, w \in Nat : /\ m = page_remain(j) /\ w <= m /\ m <= j.n - j.i
                                    /\ w = Min({m, FifoDepth - 1})
    BY <1>3, PageRemain
  <1>5. PICK p : p = PP(c, Target(c, j.a + j.i, big), w)
    OBVIOUS
  <1>6. chip' \in {c, p}
    <2>1. \E ok, bad : Transfer(t, p, ok, bad)
      BY <1>2, <1>4, <1>5 DEF program
    <2> QED BY <1>2, <2>1, Heard
  <1>7. /\ SameProt(c, p) /\ c.zero \subseteq p.zero
        /\ c.wide = big => p.zero \subseteq c.zero \cup UnitsOf(j.a + j.i, w)
    <2>1. w <= page_remain(j)
      BY <1>4
    <2> QED BY <1>3, <1>5, <2>1, ProgramResult
  <1>8. UnitsOf(j.a + j.i, w) \subseteq UnitsOf(j.a, j.n)
    <2>1. w <= j.n - j.i
      BY <1>4 DEF Job
    <2> QED BY <1>3, <2>1, Midst
  <1>9. Asked(j) = UnitsOf(j.a, j.n)
    BY <1>3 DEF Asked
  <1>10. PICK d \in {c, p} : d = chip'
    BY <1>6
  <1>11. Protected(d) = Protected(c)
    BY <1>7, SameProtected
  <1>12. c.wide = big => c.zero \subseteq d.zero /\ d.zero \ c.zero \subseteq Asked(j)
    BY <1>7, <1>8, <1>9
  <1>13. sane => Change(j, c, d)
    BY <1>2, <1>3, <1>11, <1>12 DEF Change
  <1> QED BY <1>1, <1>2, <1>10, <1>13, HolderConfined

\* So is a sector erased.
LEMMA ConfinedErase ==
  ASSUME IndInv, NEW t \in Tasks, erase(t)
  PROVE  Confines
  <1>1. job[t].at = "erase" /\ Busy(job[t])
    BY DEF erase, Busy
  <1>2. PICK j \in Job, c \in Chip : /\ j = job[t] /\ c = chip /\ ChipOK(c) /\ Good(j, c)
                                     /\ Busy(j) /\ (sane => c.wide = big)
    BY <1>1, Starting
  <1>3. /\ j.op = "erase" /\ PlaceInv(j) /\ j.at # "idle" /\ j.i < j.n
        /\ j.i % EraseSize = 0
    BY <1>1, <1>2 DEF Good, PlaceInv, PlacesOf, CallInv, EraseInv, Busy
  <1>4. PICK p, i : p = Erased(j, c) /\ i = EraseStep(j)
    OBVIOUS
  <1>5. /\ SameProt(c, p) /\ p.zero \subseteq c.zero
        /\ c.wide = big => c.zero \ p.zero \subseteq Asked(j)
    BY <1>3, <1>4, EraseResult
  <1>6. chip' \in {c, p}
    <2>1. \E ok, bad : Transfer(t, p, ok, bad)
      BY <1>2, <1>4 DEF erase, Erased, Whole
    <2> QED BY <1>2, <2>1, Heard
  <1>7. PICK d \in {c, p} : d = chip'
    BY <1>6
  <1>8. Protected(d) = Protected(c)
    BY <1>5, SameProtected
  <1>9. sane => Change(j, c, d)
    BY <1>2, <1>3, <1>5, <1>8 DEF Change
  <1> QED BY <1>1, <1>2, <1>7, <1>9, HolderConfined

\* And a status write protects or releases what it may.
LEMMA ConfinedStatus ==
  ASSUME IndInv, NEW t \in Tasks, write_sr(t)
  PROVE  Confines
  <1>1. job[t].at = "write_sr" /\ Busy(job[t])
    BY DEF write_sr, Busy
  <1>2. PICK j \in Job, c \in Chip : j = job[t] /\ c = chip /\ ChipOK(c) /\ Good(j, c) /\ Busy(j)
    BY <1>1, Starting
  <1>3. PICK s \in Status :
          /\ s = j.sr /\ Possible(s) /\ j.op \in {"lock", "unlock"}
          /\ j.op = "lock" => c.bp <= s.bp
          /\ j.op = "unlock" => s.bp <= c.bp
          /\ j.op = "unlock" /\ ~Vanishes(j.a, j.n, s.tb) =>
               Protected(c) \ UnitsOf(j.a, j.n) \subseteq Protected(s)
    BY <1>1, <1>2, NewStatus
  <1>4. PICK p : p = WRSR(c, s)
    OBVIOUS
  <1>5. SameData(c, p) /\ (SameProt(c, p) \/ SameProt(s, p))
    BY <1>4, StatusWrite
  <1>6. chip' \in {c, p}
    <2>1. \E ok, bad : Transfer(t, p, ok, bad)
      BY <1>2, <1>3, <1>4 DEF write_sr
    <2> QED BY <1>2, <2>1, Heard
  <1>7. PICK d \in {c, p} : d = chip'
    BY <1>6
  <1>8. /\ d.zero = c.zero
        /\ \/ Protected(d) = Protected(c)
           \/ Protected(d) = Protected(s) /\ d.tb = s.tb
    BY <1>5, SameProtected DEF SameData, SameProt
  <1>9. /\ j.op = "lock" /\ s.tb = c.tb => Protected(c) \subseteq Protected(s)
        /\ j.op = "unlock" /\ s.tb = c.tb => Protected(s) \subseteq Protected(c)
    <2>1. c.bp \in 0..MASK /\ s.bp \in 0..MASK
      BY DEF Chip, Status
    <2> QED BY <1>3, <2>1, ProtectedGrows
  <1>10. Change(j, c, d)
    BY <1>3, <1>8, <1>9 DEF Change
  <1> QED BY <1>1, <1>2, <1>7, <1>10, HolderConfined

\* Every step is confined.
LEMMA NorConfines == IndInv /\ [Next]_vars => Confines
  <1> SUFFICES ASSUME IndInv, [Next]_vars PROVE Confines
    OBVIOUS
  <1>1. PICK c \in Chip : c = chip
    BY DEF IndInv, TypeOK
  <1>2. ASSUME chip' = chip PROVE Confines
    <2>1. SameData(c, c) /\ SameProt(c, c) /\ c = chip'
      BY <1>1, <1>2 DEF SameData, SameProt
    <2> QED BY <1>1, <2>1, Harmless
  <1>3. ASSUME NEW d \in {WREN(c), WRDI(c), Ready(c)}, chip' = d PROVE Confines
    <2>1. \A e \in {WREN(c), WRDI(c), EN4B(c, TRUE), Ready(c)} :
            e \in Chip /\ SameData(c, e) /\ SameProt(c, e)
      <3>1. TRUE \in BOOLEAN
        OBVIOUS
      <3> QED BY <3>1, LatchCommands, Zenon
    <2> QED BY <1>1, <1>3, <2>1, Harmless
  <1>4. CASE altera_asmip2_probe \/ ScanFails \/ mtd_device_register \/ altera_asmip2_remove
    BY <1>2, <1>4 DEF altera_asmip2_probe, ScanFails, mtd_device_register, altera_asmip2_remove
  <1>5. CASE ScanStep
    BY <1>5 DEF ScanStep, Confines
  <1>6. CASE ChipReady
    <2>1. chip' = Ready(c)
      BY <1>1, <1>6 DEF ChipReady
    <2> QED BY <1>3, <2>1
  <1>7. ASSUME NEW t \in Tasks, Begins(t) PROVE Confines
    BY <1>2, <1>7 DEF Begins, spi_nor_write, spi_nor_read, spi_nor_erase, spi_nor_lock,
          spi_nor_unlock, spi_nor_is_locked, Call
  <1>8. ASSUME NEW t \in Tasks, Steps(t) PROVE Confines
    <2>1. CASE spi_nor_lock_and_prep(t) \/ spi_nor_unlock_and_unprep(t)
      BY <1>2, <2>1 DEF spi_nor_lock_and_prep, spi_nor_unlock_and_unprep
    <2>2. CASE write_enable(t) \/ write_disable(t)
      <3>1. PICK d \in {WREN(c), WRDI(c)} : \E ok, bad : Transfer(t, d, ok, bad)
        BY <1>1, <2>2 DEF write_enable, write_disable
      <3>2. chip' \in {c, d}
        BY <1>1, <3>1, Heard
      <3> QED BY <1>1, <1>2, <1>3, <3>2
    <2>3. CASE read(t) \/ read_sr(t)
      <3>1. \E ok, bad : Transfer(t, c, ok, bad)
        BY <1>1, <2>3 DEF read, read_sr
      <3>2. chip' \in {c, c}
        BY <1>1, <3>1, Heard
      <3> QED BY <1>1, <1>2, <3>2
    <2>4. CASE spi_nor_wait_till_ready(t) \/ WaitTimeout(t)
      BY <1>2, <2>4 DEF spi_nor_wait_till_ready, WaitTimeout, Done, TimedOut
    <2>5. CASE program(t)
      BY <2>5, ConfinedProgram
    <2>6. CASE erase(t)
      BY <2>6, ConfinedErase
    <2>7. CASE write_sr(t)
      BY <2>7, ConfinedStatus
    <2> QED BY <1>8, <2>1, <2>2, <2>3, <2>4, <2>5, <2>6, <2>7 DEF Steps
  <1>9. CASE UNCHANGED vars
    BY <1>2, <1>9 DEF vars
  <1> QED BY <1>4, <1>5, <1>6, <1>7, <1>8, <1>9 DEF Next

\* After an undisturbed scan a call changes only what it was asked to change, for
\* every geometry and also if its transfers time out: spi_nor_write and spi_nor_erase
\* touch data of their own range and never the protection; what stm_unlock writes
\* keeps what is to remain protected unless that is less than a block; and what
\* stm_lock writes releases no unit and what stm_unlock writes protects none, unless
\* SR_TB changes, which their comparison of the BP bits overlooks.
THEOREM NorConfined == Spec => Confined
  <1>1. IndInv /\ [Next]_vars =>
          [phase = "registered" /\ sane =>
             IF nor_lock = NoTask
             THEN chip'.zero = chip.zero /\ Protected(chip') = Protected(chip)
             ELSE ConfinedTo(nor_lock)]_vars
    BY NorConfines DEF Confines
  <1> QED BY <1>1, NorInvariance, PTL DEF Spec, Confined
=============================================================================
