-------------------------- MODULE RegisterContract --------------------------
(***************************************************************************)
(* What the methods of Reg promise in the comments of generic_reg_vcell.rs *)
(* and generic_atomic.rs, for the bits `kept' that the promise can be made *)
(* for.  A call takes effect at once, on the bits that its closure touches *)
(* and on no other, whatever the hardware and other contexts do meanwhile. *)
(***************************************************************************)
EXTENDS Firmware, Registers

VARIABLES
  reg,      \* the register
  kept,     \* the bits that this is about
  val,      \* their value
  calls     \* the call that each context is in: {} or {call}

contractVars == <<reg, kept, val, calls>>

\* A call names the method, the bits that its closure assigns in the write
\* proxy and those of them that it assigns 1 to.
CallRecords == [op : Methods(reg), touch : SUBSET Bits, ones : SUBSET Bits]

\* The bits that are 1 after the call: modify leaves other fields as they were,
\* write sets them to their reset value, write_with_zero to 0, and reset restores
\* the initial state.
Promise(call) ==
  LET assigned == Store(reg, val, call.ones) \cap call.touch
  IN  CASE call.op = "modify"          -> (val \ call.touch) \cup assigned
        [] call.op = "write"           -> (reg.reset \ call.touch) \cup assigned
        [] call.op = "write_with_zero" -> assigned
        [] call.op = "reset"           -> reg.reset
        [] call.op = "set_bits"        -> val \cup call.ones
        [] call.op = "clear_bits"      -> val \ (call.touch \ call.ones)
        [] call.op = "toggle_bits"     -> (val \ call.ones) \cup (call.ones \ val)

\* The flags that a call writes without having been told to.  What they become is
\* up to the kind of flag and not to the promise: InitialStateRestored, which the
\* code violates, is what the comments say of them.
Unsaid(call) ==
  CASE call.op \in {"write", "write_with_zero"} -> Flags(reg) \ call.touch
    [] call.op = "reset"                        -> Flags(reg)
    [] OTHER                                    -> {}

Invoke(c) ==
  /\ calls[c] = {}
  /\ \E call \in CallRecords : calls' = [calls EXCEPT ![c] = {call}]
  /\ UNCHANGED <<reg, kept, val>>

TakeEffect(c) ==
  /\ \E call \in calls[c] : \E any \in SUBSET (Unsaid(call) \cap kept) :
       val' = ((Promise(call) \cap kept) \ Unsaid(call)) \cup any
  /\ calls' = [calls EXCEPT ![c] = {}]
  /\ UNCHANGED <<reg, kept>>

HardwareEvent(b) ==
  /\ b \in kept \cap Volatile(reg)
  /\ val' = IF b \in val THEN val \ {b} ELSE val \cup {b}
  /\ UNCHANGED <<reg, kept, calls>>

ContractInit ==
  /\ WellFormed(reg)
  /\ kept \subseteq Plain(reg) \cup Flags(reg)
  /\ val \subseteq kept
  /\ calls = [c \in Contexts |-> {}]

ContractNext ==
  \/ \E c \in Contexts : Invoke(c) \/ TakeEffect(c)
  \/ \E b \in Bits : HardwareEvent(b)

ContractSpec == ContractInit /\ [][ContractNext]_contractVars
=============================================================================
