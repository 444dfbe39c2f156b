---------------------------- MODULE MCAppliance ----------------------------
(* The instance of Appliance for TLC: three processes, so that a handler   *)
(* can wait inside one that waits and a launched process run beside both.  *)
EXTENDS Appliance
=============================================================================
