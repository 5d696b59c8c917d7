CONSTANTS
  t1 = t1
  t2 = t2
  tx_ch0_overflow = tx_ch0_overflow
  mmio_rd_whilerst = mmio_rd_whilerst
  ap6_event = ap6_event
  NoCaller = NoCaller
  Callers <- MCCallers
  Errors <- MCErrors
  PORT_ERR_MASK <- MCMask
  FirstErrors <- MCFirst
  MaxLeaked = 2
SPECIFICATION ResetSpec
PROPERTY ResetSucceeds
