----------------------------- MODULE MCUsbUrbs -----------------------------
(* A bulk transfer whose URBs stay queued when one of them ends in a stall. *)
EXTENDS UsbUrbs

StallKinds ==
  {[type |-> "bulk", out |-> FALSE, cap |-> "none", length |-> 5, packets |-> << >>, strict |-> FALSE, faults |-> {"stall"}]}
=============================================================================
