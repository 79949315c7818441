---------------------------- MODULE MCUsbDevices ----------------------------
(* An instance of UsbDevices: a root hub, a hub and a device behind it.    *)
EXTENDS UsbDevices

MCHub == [p \in Places |->
            CASE p = "usb1" -> None [] p = "1-1" -> "usb1" [] p = "1-1.1" -> "1-1"]
ASSUME UsbDevicesAssumption
=============================================================================
