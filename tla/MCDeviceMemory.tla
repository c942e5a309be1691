--------------------------- MODULE MCDeviceMemory ---------------------------
(* DeviceMemory for TLC. *)
EXTENDS DeviceMemory, TLC
=============================================================================
