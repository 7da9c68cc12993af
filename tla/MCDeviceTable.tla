---------------------------- MODULE MCDeviceTable ----------------------------
(* DeviceTable on a small instance. *)
EXTENDS DeviceTable
=============================================================================
