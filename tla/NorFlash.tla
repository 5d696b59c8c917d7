------------------------------ MODULE NorFlash ------------------------------
(***************************************************************************)
(* External: the flash chip behind the QSPI controller, as spi-nor.c uses  *)
(* it.  Its data is the set of units whose bits have been programmed to    *)
(* zero; erasing sets them to one.  A unit is a part of a page; all sizes  *)
(* are in units.                                                           *)
(*                                                                         *)
(* While an operation is in progress the chip hears nothing but the        *)
(* reading of its status.  Program, erase and status writes need the write *)
(* enable latch, which they reset; they are ignored without a word if the  *)
(* latch is off or the units are protected.                                *)
(***************************************************************************)
EXTENDS Integers, FiniteSets, Sequences, FiniteSetsExt

CONSTANTS SizeLog, PageSize, EraseSize

pow2[k \in Nat] == IF k = 0 THEN 1 ELSE 2 * pow2[k - 1]
Size == pow2[SizeLog]

ASSUME FlashAssumption ==
  /\ SizeLog \in Nat /\ SizeLog >= 6
  /\ PageSize \in Nat \ {0} /\ EraseSize \in Nat \ {0}
  /\ Size % PageSize = 0 /\ Size % EraseSize = 0

VARIABLE chip   \* status bits, address mode and data

Units == 0..(Size - 1)
UnitsOf(a, n) == a..(a + n - 1)
SectorOf(a) == UnitsOf(a - (a % EraseSize), EraseSize)

\* The sample table in front of stm_lock.
Protected(s) ==
  IF s.bp = 0 THEN {}
  ELSE LET n == Size \div pow2[7 - s.bp]
       IN  UnitsOf(IF s.tb = 1 THEN 0 ELSE Size - n, n)

\* The status register as it is read.
RDSR(c) == [bp |-> c.bp, tb |-> c.tb]

WREN(c) == IF c.wip THEN c ELSE [c EXCEPT !.wel = TRUE]
WRDI(c) == IF c.wip THEN c ELSE [c EXCEPT !.wel = FALSE]

\* needsWren: some Micron chips need the latch for this, too.
EN4B(c, needsWren) ==
  IF c.wip \/ (needsWren /\ ~c.wel) THEN c ELSE [c EXCEPT !.wide = TRUE]

WRSR(c, s) ==
  IF c.wip \/ ~c.wel THEN c ELSE [c EXCEPT !.bp = s.bp, !.tb = s.tb, !.wip = TRUE]

Modify(c, units, zero) ==
  IF c.wip \/ ~c.wel THEN c
  ELSE IF units \cap Protected(c) # {} THEN [c EXCEPT !.wel = FALSE]
  ELSE [c EXCEPT !.zero = zero, !.wip = TRUE]

\* A chip that expects another number of address bytes takes the upper bytes
\* for the address.
Target(c, a, wide) == IF c.wide = wide THEN a ELSE 0

\* Programming wraps at the end of the page.
PP(c, a, n) ==
  LET units == {a - (a % PageSize) + (u % PageSize) : u \in UnitsOf(a, n)}
  IN  Modify(c, units, c.zero \cup units)

SE(c, a) == Modify(c, SectorOf(a), c.zero \ SectorOf(a))
CHIP_ERASE(c) == Modify(c, Units, {})

\* The operation in progress ends.
Ready(c) == [c EXCEPT !.wip = FALSE, !.wel = FALSE]
=============================================================================
