---------------------------- MODULE DeviceAccess ----------------------------
(***************************************************************************)
(* A device crate in use: contexts that get the peripherals from take(),   *)
(* hand them on and call the methods of a register, next to the hardware   *)
(* of the device.  A method that is not atomic needs a register of which   *)
(* no one else has a reference: that is what the singleton is for.         *)
(***************************************************************************)
EXTENDS RegisterAccess, Peripherals

deviceVars == <<regVars, perVars>>

DeviceInit == RegInit /\ PerInit

InCall(c) == calls[c] # {}

\* An owned register: by its holder.
CallOwned(c) ==
  /\ ~shared /\ c \in holders /\ pc[c] = "idle"
  /\ \E op \in Methods(reg) \ Atomics : Call(c, op)
  /\ UNCHANGED perVars

\* A shared register: by anyone, through Periph::ptr() or steal().
CallShared(c) ==
  /\ shared /\ pc[c] = "idle"
  /\ \E op \in Methods(reg) \cap Atomics : Call(c, op)
  /\ UNCHANGED perVars

Proceed(c) == MethodStep(c) /\ UNCHANGED perVars

\* A context that is in a method of the register has lent the peripheral to it:
\* it can neither move it nor make another call.  Whether the peripherals are
\* taken makes no difference to a shared register.
Others(c) ==
  /\ ~InCall(c)
  /\ ~shared
  /\ \/ CallTake(c) \/ TakeStep(c) \/ Steal(c)
     \/ \E d \in Contexts : Give(c, d)
  /\ UNCHANGED regVars

DeviceNext ==
  \/ \E c \in Contexts :
       \/ CallOwned(c) \/ CallShared(c)
       \/ Proceed(c)
       \/ Others(c)
  \/ \E b \in Bits : Hardware(b) /\ UNCHANGED perVars

DeviceSpec == DeviceInit /\ [][DeviceNext]_deviceVars

----------------------------------------------------------------------------
(* Properties *)

\* The registers of a device are changed as the methods of Reg promise: every
\* call takes effect at once, changes the bits that its closure assigns and no
\* other field, and loses no flag that the hardware raises meanwhile.
KeepsContract == Contract!ContractSpec

\* Two contexts are never in a method of an owned register at once.
OneAtATime == ~shared => \A c, d \in Contexts : InCall(c) /\ InCall(d) => c = d
=============================================================================
