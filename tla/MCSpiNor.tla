----------------------------- MODULE MCSpiNor -----------------------------
(* A flash of 256 units, so that the smallest block that can be protected  *)
(* has four; ranges within and over pages, sectors and FIFO loads, at both *)
(* ends, unaligned, the whole flash, and ranges that block protection can  *)
(* and cannot express.                                                     *)
EXTENDS SpiNor

\* n25q00, gd25q64, mx25l25635e, f25l64qa, 640s33b and mx25u25635f.
MCChip(tb, mfr, large, fl) == [has_tb |-> tb, micron |-> mfr, big |-> large, flags |-> fl]
MCChips == {MCChip(FALSE, TRUE, TRUE, {"NO_CHIP_ERASE"}),
            MCChip(TRUE, FALSE, FALSE, {"HAS_LOCK"}),
            MCChip(FALSE, FALSE, TRUE, {}),
            MCChip(FALSE, FALSE, FALSE, {"HAS_LOCK"}),
            MCChip(FALSE, FALSE, FALSE, {"LOCKED_MFR"}),
            MCChip(FALSE, FALSE, TRUE, {"4B_OPCODES"})}
MCData == {u \in 0..255 : u % 3 = 0}
MCWrites == {<<1, 5>>, <<252, 4>>}
MCReads == {<<0, 6>>}
MCErases == {<<0, 128>>, <<32, 64>>, <<0, 256>>, <<0, 5>>}
MCLocks == {<<64, 192>>, <<0, 128>>, <<128, 128>>, <<252, 4>>, <<128, 127>>}
=============================================================================
