---------------------------- MODULE MCCrateInUse ----------------------------
(***************************************************************************)
(* The devices of MCDeviceCrate; a program with two contexts runs on one   *)
(* of them, and uses a register of MCDeviceAccess.                         *)
(***************************************************************************)
EXTENDS CrateInUse, MCDeviceCrate, MCDeviceAccess

\* A peripheral in a group that the build may leave out, and one in none.
MCPrograms ==
  {<<d, c>> \in MCDevices \X MCConfigs :
     /\ Len(d) = 2 /\ d[1].names = <<"A">> /\ d[1].group = {"G"} /\ d[1].kind = "plain"
     /\ d[1].registers # {} /\ d[1].interrupts = <<>>
     /\ d[2].names = <<"B">> /\ d[2].group = {} /\ d[2].base = {}
     /\ c.target = "CortexM" /\ c.feature_group /\ ~c.feature_peripheral}
=============================================================================
