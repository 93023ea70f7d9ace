--------------------------- MODULE RegisterAccess ---------------------------
(***************************************************************************)
(* The methods of Reg, from generic_reg_vcell.rs and generic_atomic.rs, on *)
(* one register of a device that goes on running between their steps.  A   *)
(* volatile read and a volatile write are a step each; an atomic operation *)
(* is one step.                                                            *)
(*                                                                         *)
(* The closure that a method is given is modelled by what it did to the    *)
(* write proxy: the bits it assigned, field by field or all together with  *)
(* bits(), and what it assigned to them.                                   *)
(***************************************************************************)
EXTENDS Firmware, Registers

CONSTANTS
  OwnedRegisters,   \* registers reached through the peripheral that take() returned
  SharedRegisters   \* registers that all contexts reach, with atomic operations

ASSUME RegistersAssumption ==
  \A r \in OwnedRegisters \cup SharedRegisters : WellFormed(r)

VARIABLES
  reg,      \* the register
  shared,   \* whether it is a shared one
  value,    \* its value
  calls,    \* the call that each context is in: {} or {call}
  got       \* what the read of a modify returned: {} or {bits}

regVars == <<reg, shared, value, calls, got>>

----------------------------------------------------------------------------
(* The write proxy *)

\* W as write() makes it ...
WriteProxy == (reg.reset \ ONE_TO_MODIFY(reg)) \cup ZERO_TO_MODIFY(reg)

\* A mutant of ModifyProxy: flags are written back as they were read.
ReadBack(bits) == bits

\* ... and as modify() makes it of what it read.
ModifyProxy(bits) == (bits \ ONE_TO_MODIFY(reg)) \cup ZERO_TO_MODIFY(reg)

\* W after the closure.
Closure(proxy, call) == (proxy \ call.touch) \cup call.ones

\* The sets of bits that a closure can assign.
Touches == {BitsOf(fields) : fields \in SUBSET Written(reg)} \cup {Bits}

----------------------------------------------------------------------------
(* The methods *)

Call(c, op) ==
  /\ calls[c] = {}
  /\ op \in Methods(reg)
  /\ \E touch \in Touches : \E ones \in SUBSET touch :
       calls' = [calls EXCEPT ![c] = {[op |-> op, touch |-> touch, ones |-> ones]}]
  /\ UNCHANGED <<reg, shared, value, got>>

\* A mutant of Set: what a modify read is left for the next one.
SetAndRemember(c, bits) ==
  /\ value' = Store(reg, value, bits)
  /\ calls' = [calls EXCEPT ![c] = {}]
  /\ UNCHANGED <<reg, shared, got>>

\* The last step of a method: register.set(bits).
Set(c, bits) ==
  /\ value' = Store(reg, value, bits)
  /\ calls' = [calls EXCEPT ![c] = {}]
  /\ got' = [got EXCEPT ![c] = {}]
  /\ UNCHANGED <<reg, shared>>

Write(c) == \E call \in calls[c] :
  call.op = "write" /\ Set(c, Closure(WriteProxy, call))

WriteWithZero(c) == \E call \in calls[c] :
  call.op = "write_with_zero" /\ Set(c, Closure({}, call))

Reset(c) == \E call \in calls[c] :
  call.op = "reset" /\ Set(c, reg.reset)

ModifyRead(c) == \E call \in calls[c] :
  /\ call.op = "modify"
  /\ got[c] = {}
  /\ \E bits \in Reads(reg, value) : got' = [got EXCEPT ![c] = {bits}]
  /\ UNCHANGED <<reg, shared, value, calls>>

ModifyWrite(c) == \E call \in calls[c], bits \in got[c] :
  Set(c, Closure(ModifyProxy(bits), call))

\* fetch_or, fetch_and and fetch_xor read and write the register in one step.
SetBits(c) == \E call \in calls[c], bits \in Reads(reg, value) :
  call.op = "set_bits" /\ Set(c, bits \cup Closure({}, call))

ClearBits(c) == \E call \in calls[c], bits \in Reads(reg, value) :
  call.op = "clear_bits" /\ Set(c, bits \cap Closure(Bits, call))

ToggleBits(c) == \E call \in calls[c], bits \in Reads(reg, value) :
  /\ call.op = "toggle_bits"
  /\ LET mask == Closure({}, call)
     IN  Set(c, (bits \ mask) \cup (mask \ bits))

AtomicStep(c) == SetBits(c) \/ ClearBits(c) \/ ToggleBits(c)

MethodStep(c) ==
  \/ Write(c) \/ WriteWithZero(c) \/ Reset(c)
  \/ ModifyRead(c) \/ ModifyWrite(c)
  \/ AtomicStep(c)

\* The device raises a flag, counts, receives ...
Hardware(b) ==
  /\ b \in Volatile(reg)
  /\ value' = IF b \in value THEN value \ {b} ELSE value \cup {b}
  /\ UNCHANGED <<reg, shared, calls, got>>

RegInit ==
  /\ \/ reg \in OwnedRegisters /\ shared = FALSE
     \/ reg \in SharedRegisters /\ shared = TRUE
  /\ value = reg.reset
  /\ calls = [c \in Contexts |-> {}]
  /\ got = [c \in Contexts |-> {}]

----------------------------------------------------------------------------
(* Properties *)

RegTypeOK ==
  /\ reg \in OwnedRegisters \cup SharedRegisters
  /\ shared \in BOOLEAN
  /\ value \subseteq Bits
  /\ \A c \in Contexts :
       /\ calls[c] \subseteq [op : Methods(reg), touch : SUBSET Bits, ones : SUBSET Bits]
       /\ got[c] \subseteq SUBSET Bits
       /\ got[c] # {} => \E call \in calls[c] : call.op = "modify"

\* The bits that the methods keep their promises for: those of plain fields,
\* and of an owned register also the flags.
Kept == IF shared THEN Plain(reg) ELSE Plain(reg) \cup Flags(reg)

Contract == INSTANCE RegisterContract WITH kept <- Kept, val <- value \cap Kept

\* `Resets the register to its initial state', says generic_reg_vcell.rs (line 47)
\* of reset(), and of write() that the fields which the closure leaves alone `will
\* be set to their reset value'.
Restores(c) ==
  Reset(c) \/ Write(c) =>
    \A call \in calls[c] :
      \A b \in (Plain(reg) \cup Flags(reg)) \ (IF call.op = "write" THEN call.touch ELSE {}) :
         b \in value' <=> b \in reg.reset
InitialStateRestored == [][\A c \in Contexts : Restores(c)]_regVars

\* `Leave other bits untouched', says generic_atomic.rs of each operation.
LeavesOthers(c) ==
  AtomicStep(c) => \A call \in calls[c] : \A b \in (Plain(reg) \cup Flags(reg)) \ call.touch :
                      b \in value' <=> b \in value
AtomicsLeaveOthers == [][\A c \in Contexts : LeavesOthers(c)]_regVars
=============================================================================
