------------------------------- MODULE NorLock -------------------------------
(***************************************************************************)
(* Block protection as spi-nor.c computes it from the status register      *)
(* (stm_lock, stm_unlock, stm_is_locked).  A status s has the fields bp,   *)
(* the number in BP2..BP0, and tb.  SRWD, which matters only with the      *)
(* write protect pin, is left out.                                         *)
(***************************************************************************)
EXTENDS NorFlash

VARIABLE has_tb   \* SNOR_F_HAS_SR_TB

MASK == 7         \* SR_BP2 | SR_BP1 | SR_BP0, shifted

ilog2(n) == CHOOSE k \in 0..SizeLog : pow2[k] <= n /\ n < pow2[k + 1]
order_base_2(n) == CHOOSE k \in 0..SizeLog : n <= pow2[k] /\ (k = 0 \/ pow2[k - 1] < n)

\* Offset and length.
stm_get_locked_range(s) ==
  IF s.bp = 0 THEN <<0, 0>>
  ELSE LET len == Size \div pow2[MASK - s.bp]
       IN  <<IF has_tb /\ s.tb = 1 THEN 0 ELSE Size - len, len>>

stm_is_locked_sr(ofs, len, s) ==
  LET r == stm_get_locked_range(s)
  IN  len = 0 \/ (ofs + len <= r[1] + r[2] /\ ofs >= r[1])

stm_is_unlocked_sr(ofs, len, s) ==
  LET r == stm_get_locked_range(s)
  IN  len = 0 \/ ofs >= r[1] + r[2] \/ ofs + len <= r[1]

Above(ofs, len) == Size - (ofs + len)
Same == [do |-> "same"]          \* nothing to be done: returns 0
Invalid == [do |-> "invalid"]    \* -EINVAL
WriteSr(s) == [do |-> "write", sr |-> s]

\* What stm_lock does with status s.
stm_lock(s, ofs, len) ==
  LET bottom == has_tb /\ stm_is_locked_sr(0, ofs, s)
      top == stm_is_locked_sr(ofs + len, Above(ofs, len), s)
      lock_len == IF top THEN Size - ofs ELSE ofs + len
      bp == MASK - (SizeLog - ilog2(lock_len))
      new == [bp |-> bp, tb |-> IF top THEN 0 ELSE 1]
  IN  IF stm_is_locked_sr(ofs, len, s) THEN Same
      ELSE IF ~bottom /\ ~top THEN Invalid
      ELSE IF bp <= 0 THEN Invalid     \* below zero in an u8, or no region
      ELSE IF new = s THEN Same
      ELSE IF bp < s.bp THEN Invalid   \* would unlock other areas
      ELSE WriteSr(new)

\* Mutant: other areas may be locked.
stm_unlock_unchecked(s, ofs, len) ==
  LET top == TRUE
      lock_len == Above(ofs, len)
      bp == IF lock_len = 0 THEN 0 ELSE MASK - (SizeLog - order_base_2(lock_len))
  IN  IF stm_is_unlocked_sr(ofs, len, s) THEN Same
      ELSE IF bp < 0 THEN Invalid ELSE WriteSr([bp |-> bp, tb |-> 0])

\* What stm_unlock does with status s.
stm_unlock(s, ofs, len) ==
  LET bottom == has_tb /\ stm_is_unlocked_sr(ofs + len, Above(ofs, len), s)
      top == stm_is_unlocked_sr(0, ofs, s)
      lock_len == IF top THEN Above(ofs, len) ELSE ofs
      bp == IF lock_len = 0 THEN 0 ELSE MASK - (SizeLog - order_base_2(lock_len))
      new == [bp |-> bp, tb |-> IF top THEN 0 ELSE 1]
  IN  IF stm_is_unlocked_sr(ofs, len, s) THEN Same
      ELSE IF ~bottom /\ ~top THEN Invalid
      ELSE IF bp < 0 THEN Invalid
      ELSE IF new = s THEN Same
      ELSE IF bp > s.bp THEN Invalid   \* would lock other areas
      ELSE WriteSr(new)
=============================================================================
