------------------------------ MODULE Firmware ------------------------------
(***************************************************************************)
(* The program that uses a device crate.                                   *)
(***************************************************************************)
CONSTANT Contexts   \* its threads, interrupt handlers and cores
=============================================================================
