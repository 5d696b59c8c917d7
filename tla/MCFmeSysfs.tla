----------------------------- MODULE MCFmeSysfs -----------------------------
(* Two tasks and two callbacks in a behaviour, on attributes that share a  *)
(* register, or, with errors and counters together, only the lock.         *)
EXTENDS FmeSysfs

MCSlices == {{"errors", "fme"}, {"errors", "pcie0"}, {"errors", "pcie1"},
             {"errors", "dfabric"}, {"thermal"}, {"power"}, {"iperf"},
             {"iommu", "afu0"}, {"fabric", "port0"}, {"dperf", "dfabric", "dport0"}}
MCMaxErrors == [fme |-> 2, pcie0 |-> 1, pcie1 |-> 1]
MCEvents == 0..1
=============================================================================
