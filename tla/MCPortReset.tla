----------------------------- MODULE MCPortReset -----------------------------
(* Constants for the TLC runs of PortReset: an error of either kind and one    *)
(* that the first error register does not have.                                *)
EXTENDS PortReset
CONSTANTS t1, t2, tx_ch0_overflow, mmio_rd_whilerst, ap6_event
MCCallers == {t1, t2}
MCErrors == {tx_ch0_overflow, mmio_rd_whilerst, ap6_event}
MCMask == {tx_ch0_overflow, ap6_event}
MCFirst == {tx_ch0_overflow, mmio_rd_whilerst}
=============================================================================
