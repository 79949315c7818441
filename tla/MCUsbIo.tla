------------------------------ MODULE MCUsbIo ------------------------------
(* Instances of UsbIo: threads that open the device, transfer and close it. *)
EXTENDS UsbIo
CONSTANTS t1, t2, t3
=============================================================================
