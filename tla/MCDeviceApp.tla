---------------------------- MODULE MCDeviceApp ----------------------------
(* A device that is started a few times, for TLC. *)
EXTENDS DeviceApp
=============================================================================
