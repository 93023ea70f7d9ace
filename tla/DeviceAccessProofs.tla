------------------------- MODULE DeviceAccessProofs -------------------------
(***************************************************************************)
(* The methods of Reg keep their contract, proved for every set of well-   *)
(* formed registers, every number of contexts and every behaviour of the   *)
(* hardware.  The argument: the singleton lets one context at a time into  *)
(* the methods of an owned register, so that no plain bit changes between  *)
(* the read and the write of a modify; and the bitmaps make modify() write *)
(* to every flag that the closure left alone what does nothing to it.      *)
(***************************************************************************)
EXTENDS DeviceAccess, RegistersProofs, TLAPS

(***************************************************************************)
(* The singleton, for every number of contexts and calls.                  *)
(***************************************************************************)

Gone == returned > 0 \/ stolen

(***************************************************************************)
(* The inductive invariant.  That take() returns Some once rests on two    *)
(* facts: whoever is between the check and the return is alone in the      *)
(* critical section, and the flag tells exactly whether the peripherals    *)
(* are gone or about to be returned.                                       *)
(***************************************************************************)
Alone == \A c \in Contexts : pc[c] \in Inside => section = {c}

FlagTells == DEVICE_PERIPHERALS <=> Gone \/ \E c \in Contexts : pc[c] = "some"

NotYet == \A c \in Contexts : pc[c] \in {"steal", "some"} => returned = 0

LateIsLate == \A c \in late : Gone

PerInv == /\ PerTypeOK
          /\ Alone
          /\ FlagTells
          /\ NotYet
          /\ LateIsLate
          /\ TakenOnce
          /\ NoneWhenLate
          /\ NoneOnlyIfGone

\* A call leaves the budget in its bounds.
LEMMA SpendTyped ==
  ASSUME PerInv, NEW c \in Contexts, budget[c] > 0,
         budget' = [budget EXCEPT ![c] = @ - 1]
  PROVE  budget' \in [Contexts -> 0..MaxCalls]
<1>1. budget[c] - 1 \in 0..MaxCalls
  BY MaxCallsAssumption DEF PerInv, PerTypeOK
<1> QED BY <1>1 DEF PerInv, PerTypeOK

\* Calling take() changes no place but that of the caller.
LEMMA CallPreserves ==
  ASSUME PerInv, NEW c \in Contexts, CallTake(c)
  PROVE  PerInv'
<1>1. /\ pc[c] = "idle" /\ pc' = [pc EXCEPT ![c] = "waiting"]
      /\ budget[c] > 0 /\ budget' = [budget EXCEPT ![c] = @ - 1]
      /\ late' = IF Gone THEN late \cup {c} ELSE late \ {c}
      /\ UNCHANGED <<DEVICE_PERIPHERALS, section, returned, stolen, holders>>
  BY DEF CallTake, Go, SpendCall, Gone
<1>2. \A d \in Contexts : pc'[d] = IF d = c THEN "waiting" ELSE pc[d]
  BY <1>1 DEF PerInv, PerTypeOK
<1>3. PerTypeOK'
  BY <1>1, SpendTyped DEF PerInv, PerTypeOK, Places
<1>4. Alone' /\ NotYet' /\ TakenOnce' /\ NoneOnlyIfGone'
  BY <1>1, <1>2 DEF PerInv, Alone, NotYet, TakenOnce, NoneOnlyIfGone, Inside
<1>5. FlagTells'
  BY <1>1, <1>2 DEF PerInv, FlagTells, Gone
<1>6. LateIsLate' /\ NoneWhenLate'
  BY <1>1, <1>2 DEF PerInv, PerTypeOK, LateIsLate, NoneWhenLate, Gone
<1> QED BY <1>3, <1>4, <1>5, <1>6 DEF PerInv

LEMMA EnterPreserves ==
  ASSUME PerInv, NEW c \in Contexts, Enter(c)
  PROVE  PerInv'
<1>1. /\ pc[c] = "waiting" /\ pc' = [pc EXCEPT ![c] = "check"]
      /\ section = {} /\ section' = {c}
      /\ UNCHANGED <<DEVICE_PERIPHERALS, budget, returned, stolen, late, holders>>
  BY DEF Enter, Go
<1>2. \A d \in Contexts : pc'[d] = IF d = c THEN "check" ELSE pc[d]
  BY <1>1 DEF PerInv, PerTypeOK
<1>3. PerTypeOK'
  BY <1>1 DEF PerInv, PerTypeOK, Places, Inside
<1>4. Alone' /\ NotYet' /\ TakenOnce' /\ NoneOnlyIfGone'
  BY <1>1, <1>2 DEF PerInv, Alone, NotYet, TakenOnce, NoneOnlyIfGone, Inside
<1>5. FlagTells'
  BY <1>1, <1>2 DEF PerInv, FlagTells, Gone
<1>6. LateIsLate' /\ NoneWhenLate'
  BY <1>1, <1>2 DEF PerInv, PerTypeOK, LateIsLate, NoneWhenLate, Gone
<1> QED BY <1>3, <1>4, <1>5, <1>6 DEF PerInv

\* The heart of it: a context that finds the flag down is the first.
LEMMA CheckPreserves ==
  ASSUME PerInv, NEW c \in Contexts, Check(c)
  PROVE  PerInv'
<1> DEFINE next == IF DEVICE_PERIPHERALS THEN "none" ELSE "steal"
<1>1. /\ pc[c] = "check" /\ pc' = [pc EXCEPT ![c] = next]
      /\ UNCHANGED <<DEVICE_PERIPHERALS, section, budget, returned, stolen, late, holders>>
  BY DEF Check, Go
<1>2. \A d \in Contexts : pc'[d] = IF d = c THEN next ELSE pc[d]
  BY <1>1 DEF PerInv, PerTypeOK
<1>3. PerTypeOK'
  BY <1>1 DEF PerInv, PerTypeOK, Places, Inside
<1>4. \A d \in Contexts : pc[d] # "some"
  BY <1>1 DEF PerInv, Alone, Inside
<1>5. DEVICE_PERIPHERALS <=> Gone
  BY <1>4 DEF PerInv, FlagTells
<1>6. Alone' /\ TakenOnce'
  BY <1>1, <1>2 DEF PerInv, Alone, TakenOnce, Inside
<1>7. NotYet' /\ NoneOnlyIfGone'
  BY <1>1, <1>2, <1>5 DEF PerInv, PerTypeOK, NotYet, NoneOnlyIfGone, Gone
<1>8. FlagTells'
  BY <1>1, <1>2, <1>4, <1>5 DEF FlagTells, Gone
<1>9. LateIsLate' /\ NoneWhenLate'
  BY <1>1, <1>2, <1>5 DEF PerInv, PerTypeOK, LateIsLate, NoneWhenLate, Gone
<1> QED BY <1>3, <1>6, <1>7, <1>8, <1>9 DEF PerInv

LEMMA SetFlagPreserves ==
  ASSUME PerInv, NEW c \in Contexts, SetFlag(c)
  PROVE  PerInv'
<1>1. /\ pc[c] = "steal" /\ pc' = [pc EXCEPT ![c] = "some"]
      /\ DEVICE_PERIPHERALS' = TRUE
      /\ UNCHANGED <<section, budget, returned, stolen, late, holders>>
  BY DEF SetFlag, Go
<1>2. \A d \in Contexts : pc'[d] = IF d = c THEN "some" ELSE pc[d]
  BY <1>1 DEF PerInv, PerTypeOK
<1>3. PerTypeOK'
  BY <1>1 DEF PerInv, PerTypeOK, Places, Inside
<1>4. Alone' /\ NotYet' /\ TakenOnce' /\ NoneOnlyIfGone'
  BY <1>1, <1>2 DEF PerInv, Alone, NotYet, TakenOnce, NoneOnlyIfGone, Inside
<1>5. FlagTells'
  BY <1>1, <1>2 DEF FlagTells
<1>6. LateIsLate' /\ NoneWhenLate'
  BY <1>1, <1>2 DEF PerInv, PerTypeOK, LateIsLate, NoneWhenLate, Gone
<1> QED BY <1>3, <1>4, <1>5, <1>6 DEF PerInv

LEMMA ReturnSomePreserves ==
  ASSUME PerInv, NEW c \in Contexts, ReturnSome(c)
  PROVE  PerInv'
<1>1. /\ pc[c] = "some" /\ pc' = [pc EXCEPT ![c] = "idle"]
      /\ section' = section \ {c} /\ returned' = returned + 1
      /\ holders' = holders \cup {c}
      /\ UNCHANGED <<DEVICE_PERIPHERALS, budget, stolen, late>>
  BY DEF ReturnSome, Go, Leave
<1>2. \A d \in Contexts : pc'[d] = IF d = c THEN "idle" ELSE pc[d]
  BY <1>1 DEF PerInv, PerTypeOK
<1>3. returned = 0 /\ returned' = 1 /\ holders = {}
  BY <1>1 DEF PerInv, NotYet, TakenOnce
<1>4. PerTypeOK'
  BY <1>1, <1>3 DEF PerInv, PerTypeOK, Places
<1>5. \A d \in Contexts : pc[d] \in Inside => d = c
  BY <1>1 DEF PerInv, Alone, Inside
<1>6. Alone' /\ NotYet' /\ TakenOnce' /\ NoneOnlyIfGone'
  BY <1>1, <1>2, <1>3, <1>5 DEF Alone, NotYet, TakenOnce, NoneOnlyIfGone, Inside
<1>7. FlagTells'
  BY <1>1, <1>2, <1>3 DEF PerInv, FlagTells, Gone
<1>8. LateIsLate' /\ NoneWhenLate'
  BY <1>1, <1>2, <1>3 DEF PerInv, PerTypeOK, LateIsLate, NoneWhenLate, Gone
<1> QED BY <1>4, <1>6, <1>7, <1>8 DEF PerInv

LEMMA ReturnNonePreserves ==
  ASSUME PerInv, NEW c \in Contexts, ReturnNone(c)
  PROVE  PerInv'
<1>1. /\ pc[c] = "none" /\ pc' = [pc EXCEPT ![c] = "idle"]
      /\ section' = section \ {c}
      /\ UNCHANGED <<DEVICE_PERIPHERALS, budget, returned, stolen, late, holders>>
  BY DEF ReturnNone, Go, Leave
<1>2. \A d \in Contexts : pc'[d] = IF d = c THEN "idle" ELSE pc[d]
  BY <1>1 DEF PerInv, PerTypeOK
<1>3. PerTypeOK'
  BY <1>1 DEF PerInv, PerTypeOK, Places
<1>4. \A d \in Contexts : pc[d] \in Inside => d = c
  BY <1>1 DEF PerInv, Alone, Inside
<1>5. Alone' /\ NotYet' /\ TakenOnce' /\ NoneOnlyIfGone'
  BY <1>1, <1>2, <1>4 DEF PerInv, Alone, NotYet, TakenOnce, NoneOnlyIfGone, Inside
<1>6. FlagTells'
  BY <1>1, <1>2 DEF PerInv, FlagTells, Gone
<1>7. LateIsLate' /\ NoneWhenLate'
  BY <1>1, <1>2 DEF PerInv, PerTypeOK, LateIsLate, NoneWhenLate, Gone
<1> QED BY <1>3, <1>5, <1>6, <1>7 DEF PerInv

LEMMA StealPreserves ==
  ASSUME PerInv, NEW c \in Contexts, Steal(c)
  PROVE  PerInv'
<1>1. /\ budget[c] > 0 /\ budget' = [budget EXCEPT ![c] = @ - 1]
      /\ DEVICE_PERIPHERALS' = TRUE /\ stolen' = TRUE
      /\ UNCHANGED <<section, pc, returned, late, holders>>
  BY DEF Steal, SpendCall
<1>2. PerTypeOK'
  BY <1>1, SpendTyped DEF PerInv, PerTypeOK
<1>3. Alone' /\ NotYet' /\ TakenOnce' /\ NoneOnlyIfGone'
  BY <1>1 DEF PerInv, Alone, NotYet, TakenOnce, NoneOnlyIfGone
<1>4. FlagTells' /\ LateIsLate' /\ NoneWhenLate'
  BY <1>1 DEF PerInv, FlagTells, LateIsLate, NoneWhenLate, Gone
<1> QED BY <1>2, <1>3, <1>4 DEF PerInv

LEMMA GivePreserves ==
  ASSUME PerInv, NEW c \in Contexts, NEW d \in Contexts, Give(c, d)
  PROVE  PerInv'
<1>1. /\ c \in holders /\ holders' = (holders \ {c}) \cup {d}
      /\ UNCHANGED takeVars
  BY DEF Give
<1>2. PerTypeOK'
  BY <1>1 DEF PerInv, PerTypeOK, takeVars
<1>3. TakenOnce'
  BY <1>1 DEF PerInv, TakenOnce, takeVars
<1>4. Alone' /\ NotYet' /\ NoneOnlyIfGone' /\ FlagTells' /\ LateIsLate' /\ NoneWhenLate'
  BY <1>1 DEF PerInv, Alone, NotYet, NoneOnlyIfGone, FlagTells, LateIsLate, NoneWhenLate,
              Gone, takeVars
<1> QED BY <1>2, <1>3, <1>4 DEF PerInv

LEMMA PerStutterPreserves ==
  ASSUME PerInv, UNCHANGED perVars
  PROVE  PerInv'
  BY DEF perVars, takeVars, PerInv, PerTypeOK, Alone, FlagTells, NotYet, LateIsLate, TakenOnce,
         NoneWhenLate, NoneOnlyIfGone, Gone

LEMMA PerInitially == PerInit => PerInv
<1> SUFFICES ASSUME PerInit
             PROVE  PerInv
  OBVIOUS
<1>1. MaxCalls \in 0..MaxCalls
  BY MaxCallsAssumption
<1>2. PerTypeOK
  BY <1>1 DEF PerInit, PerTypeOK, Places
<1>3. Alone /\ FlagTells /\ NotYet /\ LateIsLate
  BY DEF PerInit, Alone, FlagTells, NotYet, LateIsLate, Gone, Inside
<1>4. TakenOnce /\ NoneWhenLate /\ NoneOnlyIfGone
  BY DEF PerInit, TakenOnce, NoneWhenLate, NoneOnlyIfGone
<1> QED BY <1>2, <1>3, <1>4 DEF PerInv

LEMMA PerPreserves == PerInv /\ [PerNext]_perVars => PerInv'
<1> SUFFICES ASSUME PerInv, [PerNext]_perVars
             PROVE  PerInv'
  OBVIOUS
<1>1. ASSUME NEW c \in Contexts, CallTake(c) \/ TakeStep(c)
      PROVE  PerInv'
  BY <1>1, CallPreserves, EnterPreserves, CheckPreserves, SetFlagPreserves,
     ReturnSomePreserves, ReturnNonePreserves DEF TakeStep
<1>2. ASSUME NEW c \in Contexts, Steal(c) \/ \E d \in Contexts : Give(c, d)
      PROVE  PerInv'
  BY <1>2, StealPreserves, GivePreserves
<1> QED BY <1>1, <1>2, PerStutterPreserves DEF PerNext

(***************************************************************************)
(* The theorems.                                                           *)
(***************************************************************************)

\* The invariant holds wherever the singleton is used, fairly scheduled or not.
THEOREM PerInvariance == PerInit /\ [][PerNext]_perVars => []PerInv
  BY PerInitially, PerPreserves, PTL

\* The variables of the singleton keep their types.
THEOREM PerTypeCorrect == PerSpec => []PerTypeOK
  BY PerInvariance, PTL DEF PerSpec, PerInv

\* take() returns the peripherals at most once, and never two contexts hold them.
THEOREM TakeIsOnce == PerSpec => []TakenOnce
  BY PerInvariance, PTL DEF PerSpec, PerInv

\* A take() that starts after the peripherals were handed out returns None.
THEOREM LateTakesFail == PerSpec => []NoneWhenLate
  BY PerInvariance, PTL DEF PerSpec, PerInv

\* take() returns None only if a take() or a steal() did hand them out.
THEOREM NoneMeansGone == PerSpec => []NoneOnlyIfGone
  BY PerInvariance, PTL DEF PerSpec, PerInv

----------------------------------------------------------------------------
(***************************************************************************)
(* The inductive invariant, next to that of the singleton.                 *)
(***************************************************************************)

\* Calls of an owned register are made by its holder, and what a context is in
\* is one call of a method that the register has and that is fit for it.
CallersHold == ~shared => \A c \in Contexts : InCall(c) => c \in holders

OneCall == \A c \in Contexts : \A x, y \in calls[c] : x = y

CallsFit == \A c \in Contexts : \A call \in calls[c] :
              /\ call.op \in Atomics <=> shared
              /\ call.ones \subseteq call.touch

\* What a modify has read still stands, as far as plain bits go.
ReadStands == \A c \in Contexts : \A bits \in got[c] :
                /\ \E call \in calls[c] : call.op = "modify"
                /\ \A b \in Plain(reg) : b \in bits <=> b \in value

DevInv == /\ RegTypeOK
          /\ calls \in [Contexts -> SUBSET [op : Methods(reg), touch : SUBSET Bits,
                                            ones : SUBSET Bits]]
          /\ got \in [Contexts -> SUBSET (SUBSET Bits)]
          /\ CallersHold
          /\ OneCall
          /\ CallsFit
          /\ ReadStands
          /\ OneAtATime

LEMMA RegWellFormed == ASSUME RegTypeOK PROVE WellFormed(reg)
  BY RegistersAssumption DEF RegTypeOK

(***************************************************************************)
(* The invariant is preserved.                                             *)
(***************************************************************************)

LEMMA TouchesAreBits == ASSUME RegTypeOK PROVE Touches \subseteq SUBSET Bits
<1>1. \A f \in Written(reg) : f.bits \subseteq Bits
  BY RegWellFormed DEF WellFormed, Written, Rendered
<1> QED BY <1>1 DEF Touches, BitsOf

LEMMA CallPreservesDev ==
  ASSUME DevInv, TakenOnce', NEW c \in Contexts, CallOwned(c) \/ CallShared(c)
  PROVE  DevInv'
<1>1. PICK op \in Methods(reg) : (op \in Atomics <=> shared) /\ Call(c, op)
  BY DEF CallOwned, CallShared
<1>2. PICK touch \in Touches : \E ones \in SUBSET touch :
        calls' = [calls EXCEPT ![c] = {[op |-> op, touch |-> touch, ones |-> ones]}]
  BY <1>1 DEF Call
<1>3. PICK ones \in SUBSET touch :
        calls' = [calls EXCEPT ![c] = {[op |-> op, touch |-> touch, ones |-> ones]}]
  BY <1>2
<1>4. UNCHANGED <<reg, shared, value, got, holders>> /\ calls[c] = {}
  BY <1>1 DEF Call, CallOwned, CallShared, perVars
<1>5. shared \/ c \in holders
  BY DEF CallOwned, CallShared
<1> DEFINE call == [op |-> op, touch |-> touch, ones |-> ones]
<1>6. call \in [op : Methods(reg), touch : SUBSET Bits, ones : SUBSET Bits]
  BY TouchesAreBits DEF DevInv
<1>7. \A d \in Contexts : calls'[d] = IF d = c THEN {call} ELSE calls[d]
  BY <1>3 DEF DevInv
<1> HIDE DEF call
<1>8. /\ reg' \in OwnedRegisters \cup SharedRegisters /\ shared' \in BOOLEAN
      /\ value' \subseteq Bits
      /\ calls' \in [Contexts -> SUBSET [op : Methods(reg)', touch : SUBSET Bits,
                                         ones : SUBSET Bits]]
      /\ got' \in [Contexts -> SUBSET (SUBSET Bits)]
  <2>1. Methods(reg)' = Methods(reg)
    BY <1>4
  <2>2. calls' \in [Contexts -> SUBSET [op : Methods(reg), touch : SUBSET Bits,
                                        ones : SUBSET Bits]]
    BY <1>3, <1>6 DEF DevInv, call
  <2> QED BY <1>4, <2>1, <2>2 DEF DevInv, RegTypeOK
<1>9. CallersHold'
  BY <1>4, <1>5, <1>7 DEF DevInv, CallersHold, InCall
<1>10. OneCall'
  BY <1>7 DEF DevInv, OneCall
<1>11. CallsFit'
  <2>1. call.op = op /\ call.ones \subseteq call.touch
    BY DEF call
  <2> QED BY <1>1, <1>4, <1>7, <2>1 DEF DevInv, CallsFit
<1>12. ReadStands'
  <2>1. got[c] = {}
    BY <1>4 DEF DevInv, ReadStands
  <2>2. Plain(reg)' = Plain(reg)
    BY <1>4
  <2> QED BY <1>4, <1>7, <2>1, <2>2 DEF DevInv, ReadStands
<1>13. OneAtATime'
  BY <1>9 DEF TakenOnce, CallersHold, OneAtATime
<1>14. RegTypeOK'
  BY <1>8, <1>12 DEF RegTypeOK, ReadStands
<1> QED BY <1>8, <1>9, <1>10, <1>11, <1>12, <1>13, <1>14 DEF DevInv

\* While a modify is under way, no other context is in a call.
LEMMA ModifyIsAlone ==
  ASSUME DevInv, NEW c \in Contexts, NEW d \in Contexts, got[c] # {}, InCall(d)
  PROVE  c = d
<1>1. PICK call \in calls[c] : call.op = "modify"
  BY DEF DevInv, ReadStands
<1>2. ~shared
  BY <1>1 DEF DevInv, CallsFit, Atomics
<1> QED BY <1>1, <1>2 DEF DevInv, OneAtATime, InCall

LEMMA SetPreservesDev ==
  ASSUME DevInv, TakenOnce', UNCHANGED holders, NEW c \in Contexts, InCall(c),
         NEW bits, Set(c, bits)
  PROVE  DevInv'
<1>1. /\ value' = Store(reg, value, bits)
      /\ calls' = [calls EXCEPT ![c] = {}]
      /\ got' = [got EXCEPT ![c] = {}]
      /\ UNCHANGED <<reg, shared>>
  BY DEF Set
<1>2. \A d \in Contexts : /\ calls'[d] = IF d = c THEN {} ELSE calls[d]
                          /\ got'[d] = IF d = c THEN {} ELSE got[d]
  BY <1>1 DEF DevInv
<1>3. /\ RegTypeOK'
      /\ calls' \in [Contexts -> SUBSET [op : Methods(reg)', touch : SUBSET Bits,
                                         ones : SUBSET Bits]]
      /\ got' \in [Contexts -> SUBSET (SUBSET Bits)]
  <2>1. Methods(reg)' = Methods(reg)
    BY <1>1
  <2>2. value' \subseteq Bits
    BY <1>1 DEF Store
  <2>3. calls' \in [Contexts -> SUBSET [op : Methods(reg), touch : SUBSET Bits,
                                        ones : SUBSET Bits]]
    BY <1>1 DEF DevInv
  <2>4. got' \in [Contexts -> SUBSET (SUBSET Bits)]
    BY <1>1 DEF DevInv
  <2> QED BY <1>1, <2>1, <2>2, <2>3, <2>4 DEF DevInv, RegTypeOK
<1>4. CallersHold' /\ OneCall' /\ CallsFit'
  BY <1>1, <1>2 DEF DevInv, CallersHold, OneCall, CallsFit, InCall
<1>5. \A d \in Contexts : got'[d] = {}
  BY <1>2, ModifyIsAlone
<1>6. ReadStands'
  BY <1>5 DEF ReadStands
<1>7. OneAtATime'
  BY <1>4 DEF TakenOnce, CallersHold, OneAtATime
<1> QED BY <1>3, <1>4, <1>6, <1>7 DEF DevInv

LEMMA ReadPreservesDev ==
  ASSUME DevInv, TakenOnce', UNCHANGED holders, NEW c \in Contexts, ModifyRead(c)
  PROVE  DevInv'
<1>1. PICK call \in calls[c] : call.op = "modify"
  BY DEF ModifyRead
<1>2. PICK bits \in Reads(reg, value) : got' = [got EXCEPT ![c] = {bits}]
  BY DEF ModifyRead
<1>3. UNCHANGED <<reg, shared, value, calls>>
  BY DEF ModifyRead
<1>4. bits \subseteq Bits
  BY RegWellFormed DEF DevInv, RegTypeOK, Reads, Unreadable, BitsOf, WellFormed
<1>5. got' \in [Contexts -> SUBSET (SUBSET Bits)]
  BY <1>2, <1>4 DEF DevInv
<1>6. /\ reg' \in OwnedRegisters \cup SharedRegisters /\ shared' \in BOOLEAN
      /\ value' \subseteq Bits
      /\ calls' \in [Contexts -> SUBSET [op : Methods(reg)', touch : SUBSET Bits,
                                         ones : SUBSET Bits]]
  BY <1>3, <1>5 DEF DevInv, RegTypeOK
<1>7. CallersHold' /\ OneCall' /\ CallsFit'
  BY <1>3 DEF DevInv, CallersHold, OneCall, CallsFit, InCall
<1>8. ReadStands'
  <2>1. \A b \in Plain(reg) : b \in bits <=> b \in value
    BY ReadsPlain, RegWellFormed DEF DevInv
  <2>2. \A d \in Contexts : got'[d] = IF d = c THEN {bits} ELSE got[d]
    BY <1>2 DEF DevInv
  <2>3. Plain(reg)' = Plain(reg)
    BY <1>3
  <2> QED BY <1>1, <1>3, <2>1, <2>2, <2>3 DEF DevInv, ReadStands
<1>9. OneAtATime'
  BY <1>7 DEF TakenOnce, CallersHold, OneAtATime
<1>10. RegTypeOK'
  BY <1>5, <1>6, <1>8 DEF RegTypeOK, ReadStands
<1> QED BY <1>5, <1>6, <1>7, <1>8, <1>9, <1>10 DEF DevInv

LEMMA HardwarePreservesDev ==
  ASSUME DevInv, TakenOnce', UNCHANGED holders, NEW b \in Bits, Hardware(b)
  PROVE  DevInv'
<1>1. /\ b \in Volatile(reg)
      /\ value' = (IF b \in value THEN value \ {b} ELSE value \cup {b})
      /\ UNCHANGED <<reg, shared, calls, got>>
  BY DEF Hardware
<1>2. b \notin Plain(reg)
  BY <1>1, PlainIsQuiet, RegWellFormed DEF DevInv
<1>3. RegTypeOK'
  BY <1>1 DEF DevInv, RegTypeOK
<1>4. CallersHold' /\ OneCall' /\ CallsFit'
  BY <1>1 DEF DevInv, CallersHold, OneCall, CallsFit, InCall
<1>5. ReadStands'
  <2>1. Plain(reg)' = Plain(reg)
    BY <1>1
  <2>2. \A a \in Plain(reg) : a \in value' <=> a \in value
    BY <1>1, <1>2
  <2> QED BY <1>1, <2>1, <2>2 DEF DevInv, ReadStands
<1>6. OneAtATime'
  BY <1>4 DEF TakenOnce, CallersHold, OneAtATime
<1> QED BY <1>1, <1>3, <1>4, <1>5, <1>6 DEF DevInv

\* The steps of take(), steal() and moves of the peripherals.
LEMMA OthersPreservesDev ==
  ASSUME DevInv, TakenOnce', NEW c \in Contexts, Others(c)
  PROVE  DevInv'
<1>1. UNCHANGED <<reg, shared, value, calls, got>> /\ ~InCall(c)
  BY DEF Others, regVars
<1>2. holders \ {c} \subseteq holders'
  BY DEF Others, CallTake, TakeStep, Enter, Check, SetFlag, ReturnSome, ReturnNone, Steal, Give
<1>3. RegTypeOK'
  BY <1>1 DEF DevInv, RegTypeOK
<1>4. CallersHold'
  BY <1>1, <1>2 DEF DevInv, CallersHold, InCall
<1>5. OneCall' /\ CallsFit' /\ ReadStands'
  BY <1>1 DEF DevInv, OneCall, CallsFit, ReadStands
<1>6. OneAtATime'
  BY <1>4 DEF TakenOnce, CallersHold, OneAtATime
<1> QED BY <1>1, <1>3, <1>4, <1>5, <1>6 DEF DevInv

LEMMA StutterPreservesDev ==
  ASSUME DevInv, TakenOnce', UNCHANGED deviceVars
  PROVE  DevInv'
<1>1. UNCHANGED <<reg, shared, value, calls, got, holders>>
  BY DEF deviceVars, regVars, perVars
<1>2. RegTypeOK' /\ CallersHold'
  BY <1>1 DEF DevInv, RegTypeOK, CallersHold, InCall
<1>3. OneCall' /\ CallsFit' /\ ReadStands'
  BY <1>1 DEF DevInv, OneCall, CallsFit, ReadStands
<1>4. OneAtATime'
  BY <1>2 DEF TakenOnce, CallersHold, OneAtATime
<1> QED BY <1>1, <1>2, <1>3, <1>4 DEF DevInv

\* Every method ends in a Set, but for the read of modify.
LEMMA MethodSteps ==
  ASSUME NEW c \in Contexts, MethodStep(c)
  PROVE  ModifyRead(c) \/ (InCall(c) /\ \E bits : Set(c, bits))
  BY DEF MethodStep, Write, WriteWithZero, Reset, ModifyWrite, AtomicStep, SetBits, ClearBits,
         ToggleBits, InCall

LEMMA DevPreserves == DevInv /\ TakenOnce' /\ [DeviceNext]_deviceVars => DevInv'
<1> SUFFICES ASSUME DevInv, TakenOnce', [DeviceNext]_deviceVars
             PROVE  DevInv'
  OBVIOUS
<1>1. ASSUME NEW c \in Contexts, CallOwned(c) \/ CallShared(c) \/ Others(c)
      PROVE  DevInv'
  BY <1>1, CallPreservesDev, OthersPreservesDev
<1>2. ASSUME NEW c \in Contexts, Proceed(c)
      PROVE  DevInv'
  <2>1. MethodStep(c) /\ UNCHANGED holders
    BY <1>2 DEF Proceed, perVars
  <2> QED BY <2>1, MethodSteps, ReadPreservesDev, SetPreservesDev
<1>3. ASSUME NEW b \in Bits, Hardware(b), UNCHANGED perVars
      PROVE  DevInv'
  BY <1>3, HardwarePreservesDev DEF perVars
<1> QED BY <1>1, <1>2, <1>3, StutterPreservesDev DEF DeviceNext

LEMMA DevInitially == DeviceInit => DevInv
<1> SUFFICES ASSUME DeviceInit
             PROVE  DevInv
  OBVIOUS
<1>1. /\ reg \in OwnedRegisters \cup SharedRegisters /\ shared \in BOOLEAN
      /\ value = reg.reset
      /\ calls = [c \in Contexts |-> {}] /\ got = [c \in Contexts |-> {}]
  BY DEF DeviceInit, RegInit
<1>2. RegTypeOK
  BY <1>1, RegistersAssumption DEF RegTypeOK, WellFormed
<1>3. CallersHold /\ OneCall /\ CallsFit /\ ReadStands /\ OneAtATime
  BY <1>1 DEF CallersHold, OneCall, CallsFit, ReadStands, OneAtATime, InCall
<1> QED BY <1>1, <1>2, <1>3 DEF DevInv

\* A step of a device is a step of the singleton or leaves it alone.
LEMMA SingletonSteps == [DeviceNext]_deviceVars => [PerNext]_perVars
  BY DEF DeviceNext, CallOwned, CallShared, Proceed, Others, PerNext, deviceVars

THEOREM DeviceInvariance == DeviceSpec => [](PerInv /\ DevInv)
<1>1. DeviceInit => PerInit
  BY DEF DeviceInit
<1>2. PerInv' => TakenOnce'
  BY DEF PerInv
<1> QED BY <1>1, <1>2, SingletonSteps, PerInvariance, DevInitially, DevPreserves, PTL
        DEF DeviceSpec

\* The variables of the register keep their types.
THEOREM RegTypeCorrect == DeviceSpec => []RegTypeOK
  BY DeviceInvariance, PTL DEF DevInv

\* What the singleton is for: an owned register is used by one context at a time.
THEOREM OwnedOneAtATime == DeviceSpec => []OneAtATime
  BY DeviceInvariance, PTL DEF DevInv

(***************************************************************************)
(* The contract.                                                           *)
(***************************************************************************)

\* RegisterContract looks at registers with the same eyes.
LEMMA SameOperators ==
  /\ \A r, v, x : Contract!Store(r, v, x) = Store(r, v, x)
  /\ \A r : Contract!Flags(r) = Flags(r) /\ Contract!Plain(r) = Plain(r)
  /\ \A r : Contract!WellFormed(r) = WellFormed(r)
  /\ \A r : Contract!Volatile(r) = Volatile(r) /\ Contract!Methods(r) = Methods(r)
<1>1. \A r, f : Contract!FieldMwv(r, f) = FieldMwv(r, f)
  BY DEF Contract!FieldMwv, FieldMwv
<1>2. \A fields : Contract!BitsOf(fields) = BitsOf(fields)
  BY DEF Contract!BitsOf, BitsOf
<1>3. \A r : Contract!Rendered(r) = Rendered(r)
  BY DEF Contract!Rendered, Rendered
<1>4. \A r : Contract!Written(r) = Written(r)
  BY <1>3 DEF Contract!Written, Written
<1>5. Contract!OneKinds = OneKinds /\ Contract!ZeroKinds = ZeroKinds
  BY DEF Contract!OneKinds, OneKinds, Contract!ZeroKinds, ZeroKinds
<1>6. \A r : Contract!Flags(r) = Flags(r) /\ Contract!Plain(r) = Plain(r)
  BY <1>1, <1>2, <1>3, <1>4, <1>5
     DEF Contract!Flags, Flags, Contract!Plain, Plain, Contract!ONE_TO_MODIFY, ONE_TO_MODIFY,
         Contract!ZERO_TO_MODIFY, ZERO_TO_MODIFY
<1>7. \A r, b : Contract!Kind(r, b) = Kind(r, b)
  BY <1>1 DEF Contract!Kind, Kind
<1>8. \A r, v, x : Contract!Store(r, v, x) = Store(r, v, x)
  BY <1>7 DEF Contract!Store, Store, Contract!Becomes, Becomes
<1>9. \A r : Contract!WellFormed(r) = WellFormed(r)
  BY DEF Contract!WellFormed, WellFormed
<1>10. \A r : Contract!Volatile(r) = Volatile(r) /\ Contract!Methods(r) = Methods(r)
  BY <1>2 DEF Contract!Volatile, Volatile, Contract!Methods, Methods
<1> QED BY <1>6, <1>8, <1>9, <1>10

\* The bits of the write proxies that are not plain leave the flags alone.
LEMMA ProxiesAreNeutral ==
  ASSUME WellFormed(reg), NEW proxy, NEW bits,
         proxy = WriteProxy \/ proxy = ModifyProxy(bits)
  PROVE  /\ \A b \in ONE_TO_MODIFY(reg) : b \notin proxy
         /\ \A b \in ZERO_TO_MODIFY(reg) : b \in proxy
  BY BitsApart DEF WriteProxy, ModifyProxy

\* A flag that the closure does not touch keeps its value, and one that it does
\* touch is written as the closure says.
LEMMA FlagsThroughProxy ==
  ASSUME WellFormed(reg), NEW proxy, NEW bits,
         proxy = WriteProxy \/ proxy = ModifyProxy(bits),
         NEW call, call.ones \subseteq call.touch, NEW b \in Flags(reg)
  PROVE  b \in Store(reg, value, Closure(proxy, call)) <=>
           IF b \in call.touch THEN b \in Store(reg, value, call.ones) ELSE b \in value
<1>1. CASE b \in call.touch
  <2>1. b \in Closure(proxy, call) <=> b \in call.ones
    BY <1>1 DEF Closure
  <2> QED BY <1>1, <2>1, StoreLocal
<1>2. CASE b \notin call.touch /\ b \in ONE_TO_MODIFY(reg)
  <2>1. b \notin Closure(proxy, call)
    BY <1>2, ProxiesAreNeutral DEF Closure
  <2> QED BY <1>2, <2>1, StoreOne
<1>3. CASE b \notin call.touch /\ b \in ZERO_TO_MODIFY(reg)
  <2>1. b \in Closure(proxy, call)
    BY <1>3, ProxiesAreNeutral DEF Closure
  <2> QED BY <1>3, <2>1, StoreZero
<1> QED BY <1>1, <1>2, <1>3 DEF Flags

\* What TakeEffect asks of a Set.
SetKeeps(call, bits) ==
  \A b \in Kept \ Contract!Unsaid(call) : b \in Store(reg, value, bits) <=> b \in Contract!Promise(call)

\* A kept bit of an assigned value does not depend on the bits that are not kept.
LEMMA AssignedKept ==
  ASSUME NEW x, NEW b \in Kept
  PROVE  b \in Contract!Store(reg, value \cap Kept, x) <=> b \in Store(reg, value, x)
<1>1. b \in value \cap Kept <=> b \in value
  OBVIOUS
<1> QED BY <1>1, StoreLocal, SameOperators

LEMMA KeptIs ==
  ASSUME NEW b \in Kept
  PROVE  b \in Plain(reg) \/ (b \in Flags(reg) /\ ~shared)
  BY DEF Kept

LEMMA WriteKeeps ==
  ASSUME DevInv, NEW c \in Contexts, NEW call \in calls[c], call.op = "write"
  PROVE  SetKeeps(call, Closure(WriteProxy, call))
<1> SUFFICES ASSUME NEW b \in Kept, b \notin Contract!Unsaid(call)
             PROVE  b \in Store(reg, value, Closure(WriteProxy, call)) <=>
                      b \in Contract!Promise(call)
  BY DEF SetKeeps
<1>1. WellFormed(reg) /\ call.ones \subseteq call.touch
  BY RegWellFormed DEF DevInv, CallsFit
<1>2. b \in Contract!Promise(call) <=>
        IF b \in call.touch THEN b \in Store(reg, value, call.ones) ELSE b \in reg.reset
  BY AssignedKept DEF Contract!Promise
<1>3. CASE b \in Flags(reg)
  <2>1. b \in call.touch
    BY <1>3, SameOperators DEF Contract!Unsaid
  <2> QED BY <1>1, <1>2, <1>3, <2>1, FlagsThroughProxy
<1>4. CASE b \in Plain(reg)
  <2>1. b \notin Flags(reg)
    BY <1>1, <1>4, BitsApart
  <2>2. b \in Closure(WriteProxy, call) <=>
          IF b \in call.touch THEN b \in call.ones ELSE b \in reg.reset
    BY <1>1, <2>1 DEF Closure, WriteProxy, Flags
  <2> QED BY <1>1, <1>2, <1>4, <2>1, <2>2, StorePlain
<1> QED BY <1>3, <1>4, KeptIs

LEMMA ModifyKeeps ==
  ASSUME DevInv, NEW c \in Contexts, NEW call \in calls[c], NEW bits \in got[c]
  PROVE  SetKeeps(call, Closure(ModifyProxy(bits), call))
<1> SUFFICES ASSUME NEW b \in Kept
             PROVE  b \in Store(reg, value, Closure(ModifyProxy(bits), call)) <=>
                      b \in Contract!Promise(call)
  BY DEF SetKeeps
<1>1. WellFormed(reg) /\ call.ones \subseteq call.touch
  BY RegWellFormed DEF DevInv, CallsFit
<1>2. call.op = "modify"
  BY DEF DevInv, ReadStands, OneCall
<1>3. b \in Contract!Promise(call) <=>
        IF b \in call.touch THEN b \in Store(reg, value, call.ones) ELSE b \in value
  BY <1>2, AssignedKept DEF Contract!Promise
<1>4. CASE b \in Flags(reg)
  BY <1>1, <1>3, <1>4, FlagsThroughProxy
<1>5. CASE b \in Plain(reg)
  <2>1. b \notin Flags(reg)
    BY <1>1, <1>5, BitsApart
  <2>2. b \in bits <=> b \in value
    BY <1>5 DEF DevInv, ReadStands
  <2>3. b \in Closure(ModifyProxy(bits), call) <=>
          IF b \in call.touch THEN b \in call.ones ELSE b \in value
    BY <1>1, <2>1, <2>2 DEF Closure, ModifyProxy, Flags
  <2> QED BY <1>1, <1>3, <1>5, <2>3, StorePlain
<1> QED BY <1>4, <1>5, KeptIs

LEMMA RawKeeps ==
  ASSUME DevInv, NEW c \in Contexts, NEW call \in calls[c]
  PROVE  /\ call.op = "write_with_zero" => SetKeeps(call, Closure({}, call))
         /\ call.op = "reset" => SetKeeps(call, reg.reset)
<1>1. Closure({}, call) = call.ones /\ call.ones \subseteq call.touch /\ WellFormed(reg)
  BY RegWellFormed DEF Closure, DevInv, CallsFit
<1>2. ASSUME call.op = "write_with_zero", NEW b \in Kept, b \notin Contract!Unsaid(call)
      PROVE  b \in Store(reg, value, call.ones) <=> b \in Contract!Promise(call)
  <2>1. b \in Contract!Promise(call) <=> b \in call.touch /\ b \in Store(reg, value, call.ones)
    BY <1>2, AssignedKept DEF Contract!Promise
  <2>2. CASE b \in Flags(reg)
    BY <1>2, <2>1, <2>2, SameOperators DEF Contract!Unsaid
  <2>3. CASE b \in Plain(reg)
    BY <1>1, <2>1, <2>3, StorePlain
  <2> QED BY <2>2, <2>3, KeptIs
<1>3. ASSUME call.op = "reset", NEW b \in Kept, b \notin Contract!Unsaid(call)
      PROVE  b \in Store(reg, value, reg.reset) <=> b \in Contract!Promise(call)
  <2>1. b \in Contract!Promise(call) <=> b \in reg.reset
    BY <1>3 DEF Contract!Promise
  <2>2. b \in Plain(reg)
    BY <1>3, SameOperators, KeptIs DEF Contract!Unsaid
  <2> QED BY <1>1, <2>1, <2>2, StorePlain
<1> QED BY <1>1, <1>2, <1>3 DEF SetKeeps

LEMMA AtomicKeeps ==
  ASSUME DevInv, NEW c \in Contexts, NEW call \in calls[c], NEW bits \in Reads(reg, value)
  PROVE  /\ call.op = "set_bits" => SetKeeps(call, bits \cup Closure({}, call))
         /\ call.op = "clear_bits" => SetKeeps(call, bits \cap Closure(Bits, call))
         /\ call.op = "toggle_bits" =>
              LET mask == Closure({}, call)
              IN  SetKeeps(call, (bits \ mask) \cup (mask \ bits))
<1>1. WellFormed(reg) /\ (call.op \in Atomics => shared)
  BY RegWellFormed DEF DevInv, CallsFit
<1>2. Closure({}, call) = call.ones
  BY DEF Closure
<1>3. ASSUME shared, NEW b \in Kept
      PROVE  /\ b \in Plain(reg) /\ b \in Bits
             /\ b \in bits <=> b \in value
             /\ \A x : b \in Store(reg, value, x) <=> b \in x
  BY <1>1, <1>3, KeptIs, PlainKind, ReadsPlain, StorePlain
<1>7. call.op \in Atomics => Contract!Unsaid(call) = {}
  BY DEF Atomics, Contract!Unsaid
<1>4. ASSUME call.op = "set_bits"
      PROVE  SetKeeps(call, bits \cup call.ones)
  BY <1>1, <1>3, <1>4 DEF Atomics, SetKeeps, Contract!Promise
<1>5. ASSUME call.op = "clear_bits"
      PROVE  SetKeeps(call, bits \cap Closure(Bits, call))
  BY <1>1, <1>3, <1>5 DEF Atomics, SetKeeps, Contract!Promise, Closure
<1>6. ASSUME call.op = "toggle_bits"
      PROVE  SetKeeps(call, (bits \ call.ones) \cup (call.ones \ bits))
  BY <1>1, <1>3, <1>6 DEF Atomics, SetKeeps, Contract!Promise
<1> QED BY <1>2, <1>4, <1>5, <1>6

\* A Set that keeps the promise of its call is the step that the contract knows.
LEMMA SetTakesEffect ==
  ASSUME DevInv, NEW c \in Contexts, NEW call \in calls[c], NEW bits, Set(c, bits),
         SetKeeps(call, bits)
  PROVE  Contract!TakeEffect(c)
<1>1. value' = Store(reg, value, bits) /\ UNCHANGED <<reg, shared>>
  BY DEF Set
<1>2. Kept' = Kept
  BY <1>1 DEF Kept
<1> DEFINE any == Store(reg, value, bits) \cap Contract!Unsaid(call) \cap Kept
<1>3. (value \cap Kept)' = ((Contract!Promise(call) \cap Kept) \ Contract!Unsaid(call)) \cup any
  BY <1>1, <1>2 DEF SetKeeps
<1>4. calls' = [calls EXCEPT ![c] = {}]
  BY DEF Set
<1>5. any \in SUBSET (Contract!Unsaid(call) \cap Kept)
  OBVIOUS
<1> QED BY <1>1, <1>2, <1>3, <1>4, <1>5 DEF Contract!TakeEffect

LEMMA MethodsKeepContract ==
  ASSUME DevInv, NEW c \in Contexts, MethodStep(c)
  PROVE  Contract!TakeEffect(c) \/ UNCHANGED Contract!contractVars
<1>1. CASE Write(c)
  BY <1>1, WriteKeeps, SetTakesEffect DEF Write
<1>2. CASE WriteWithZero(c)
  BY <1>2, RawKeeps, SetTakesEffect DEF WriteWithZero
<1>3. CASE Reset(c)
  BY <1>3, RawKeeps, SetTakesEffect DEF Reset
<1>4. CASE ModifyRead(c)
  BY <1>4 DEF ModifyRead, Contract!contractVars, Kept
<1>5. CASE ModifyWrite(c)
  BY <1>5, ModifyKeeps, SetTakesEffect DEF ModifyWrite
<1>6. CASE SetBits(c)
  BY <1>6, AtomicKeeps, SetTakesEffect DEF SetBits
<1>7. CASE ClearBits(c)
  BY <1>7, AtomicKeeps, SetTakesEffect DEF ClearBits
<1>8. CASE ToggleBits(c)
  BY <1>8, AtomicKeeps, SetTakesEffect DEF ToggleBits
<1> QED BY <1>1, <1>2, <1>3, <1>4, <1>5, <1>6, <1>7, <1>8 DEF MethodStep, AtomicStep

LEMMA CallsKeepContract ==
  ASSUME DevInv, DevInv', NEW c \in Contexts, CallOwned(c) \/ CallShared(c)
  PROVE  Contract!Invoke(c)
<1>1. PICK op \in Methods(reg) : Call(c, op)
  BY DEF CallOwned, CallShared
<1>2. PICK touch \in Touches : \E ones \in SUBSET touch :
        calls' = [calls EXCEPT ![c] = {[op |-> op, touch |-> touch, ones |-> ones]}]
  BY <1>1 DEF Call
<1>3. PICK ones \in SUBSET touch :
        calls' = [calls EXCEPT ![c] = {[op |-> op, touch |-> touch, ones |-> ones]}]
  BY <1>2
<1>4. [op |-> op, touch |-> touch, ones |-> ones] \in Contract!CallRecords
  BY TouchesAreBits, SameOperators DEF DevInv, Contract!CallRecords
<1>5. calls[c] = {} /\ UNCHANGED <<reg, shared, value>>
  BY <1>1 DEF Call
<1> QED BY <1>3, <1>4, <1>5 DEF Contract!Invoke, Kept

LEMMA HardwareKeepsContract ==
  ASSUME NEW b \in Bits, Hardware(b)
  PROVE  Contract!HardwareEvent(b) \/ UNCHANGED Contract!contractVars
<1>1. /\ b \in Volatile(reg)
      /\ value' = (IF b \in value THEN value \ {b} ELSE value \cup {b})
      /\ UNCHANGED <<reg, shared, calls>>
  BY DEF Hardware
<1>2. Kept' = Kept
  BY <1>1 DEF Kept
<1>3. CASE b \in Kept
  <2>1. b \in Kept \cap Contract!Volatile(reg)
    BY <1>1, <1>3, SameOperators
  <2>2. (value \cap Kept)' = IF b \in value \cap Kept THEN (value \cap Kept) \ {b}
                             ELSE (value \cap Kept) \cup {b}
    BY <1>1, <1>2, <1>3
  <2> QED BY <1>1, <1>2, <2>1, <2>2 DEF Contract!HardwareEvent
<1>4. CASE b \notin Kept
  <2>1. (value \cap Kept)' = value \cap Kept
    BY <1>1, <1>2, <1>4
  <2> QED BY <1>1, <1>2, <2>1 DEF Contract!contractVars
<1> QED BY <1>3, <1>4

LEMMA ContractInitially == DeviceInit => Contract!ContractInit
<1> SUFFICES ASSUME DeviceInit
             PROVE  Contract!ContractInit
  OBVIOUS
<1>1. RegTypeOK
  BY DevInitially DEF DevInv
<1>2. Contract!WellFormed(reg)
  BY <1>1, RegWellFormed, SameOperators
<1>3. Kept \subseteq Contract!Plain(reg) \cup Contract!Flags(reg)
  BY SameOperators DEF Kept
<1>4. calls = [c \in Contexts |-> {}]
  BY DEF DeviceInit, RegInit
<1> QED BY <1>2, <1>3, <1>4 DEF Contract!ContractInit

LEMMA ContractSteps ==
  DevInv /\ DevInv' /\ [DeviceNext]_deviceVars => [Contract!ContractNext]_Contract!contractVars
<1> SUFFICES ASSUME DevInv, DevInv', [DeviceNext]_deviceVars
             PROVE  Contract!ContractNext \/ UNCHANGED Contract!contractVars
  OBVIOUS
<1>1. ASSUME NEW c \in Contexts, CallOwned(c) \/ CallShared(c)
      PROVE  Contract!ContractNext
  BY <1>1, CallsKeepContract DEF Contract!ContractNext
<1>2. ASSUME NEW c \in Contexts, Proceed(c)
      PROVE  Contract!ContractNext \/ UNCHANGED Contract!contractVars
  BY <1>2, MethodsKeepContract DEF Proceed, Contract!ContractNext
<1>3. ASSUME NEW c \in Contexts, Others(c)
      PROVE  UNCHANGED Contract!contractVars
  BY <1>3 DEF Others, regVars, Contract!contractVars, Kept
<1>4. ASSUME NEW b \in Bits, Hardware(b)
      PROVE  Contract!ContractNext \/ UNCHANGED Contract!contractVars
  BY <1>4, HardwareKeepsContract DEF Contract!ContractNext
<1>5. CASE UNCHANGED deviceVars
  BY <1>5 DEF deviceVars, regVars, Contract!contractVars, Kept
<1> QED BY <1>1, <1>2, <1>3, <1>4, <1>5 DEF DeviceNext

\* The methods of Reg do what their comments promise: a device implements the
\* contract.
THEOREM ContractKept == DeviceSpec => KeepsContract
<1>1. PerInv /\ DevInv => DevInv
  OBVIOUS
<1> QED BY DeviceInvariance, ContractInitially, ContractSteps, PTL
        DEF DeviceSpec, KeepsContract, Contract!ContractSpec
=============================================================================
