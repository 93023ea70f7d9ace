----------------------------- MODULE CrateInUse -----------------------------
(***************************************************************************)
(* A device crate from its generation to its use.  The crate is rendered   *)
(* and built with a choice of features (DeviceCrate); then a program runs  *)
(* on the device and calls what is in the build: the singleton and the     *)
(* methods of a register (DeviceAccess).                                   *)
(***************************************************************************)
EXTENDS DeviceCrate, DeviceAccess

CONSTANT Programs   \* the devices, with settings, that a program is considered for

useVars == <<vars, deviceVars>>

InUse == stage = "built" /\ <<svd, config>> \in Programs

\* The register is one of the first peripheral of the device.
Home == svd[1].names[1]

\* What take() returns has the peripheral if it is a member of Peripherals; its
\* ptr() and steal() need no more than its type.
Taken   == IsMember(Home)
Pointed == \E t \in types : t.name = Home /\ Present(t, enabled)

Generate == Next /\ UNCHANGED deviceVars


Use(c) ==
  /\ InUse
  /\ (CallOwned(c) /\ Taken) \/ (CallShared(c) /\ Pointed) \/ Others(c)
  /\ UNCHANGED vars

GoOn(c) == InUse /\ Proceed(c) /\ UNCHANGED vars

Occur(b) == InUse /\ Hardware(b) /\ UNCHANGED <<vars, perVars>>

\* Where no program is considered the register does not matter.
UseInit ==
  /\ Init /\ DeviceInit
  /\ <<svd, config>> \notin Programs => reg = CHOOSE r \in OwnedRegisters : TRUE

UseNext ==
  \/ Generate
  \/ \E c \in Contexts : Use(c) \/ GoOn(c)
  \/ \E b \in Bits : Occur(b)

Taking(c) == TakeStep(c) /\ InUse /\ ~shared /\ UNCHANGED <<vars, regVars>>

\* A context that runs take() goes on, and gets the critical section if it is
\* free: nothing in take() loops or waits for anything else.
UseSpec ==
  /\ UseInit /\ [][UseNext]_useVars
  /\ \A c \in Contexts : WF_useVars(Taking(c))

----------------------------------------------------------------------------
(* Properties *)

=============================================================================
