------------------------------ MODULE MCUsbNic ------------------------------
(* Instances of UsbNic for TLC: a thread of the stack and the USB thread send. *)
EXTENDS UsbNic

CONSTANTS stack, usb, txt
=============================================================================
