---------------------------- MODULE Peripherals ----------------------------
(***************************************************************************)
(* The singleton `Peripherals' that generate/device.rs renders into every  *)
(* device crate: take() hands out all the peripherals once, under a        *)
(* critical section, and steal() hands them out unchecked.                 *)
(*                                                                         *)
(* The critical section comes from the crate critical-section: it is       *)
(* modelled as mutual exclusion of its users, and shuts out nobody else,   *)
(* steal() for one.                                                        *)
(***************************************************************************)
EXTENDS Firmware, Integers

CONSTANT MaxCalls   \* how often each context calls take() or steal()

ASSUME MaxCallsAssumption == MaxCalls \in Nat

VARIABLES
  DEVICE_PERIPHERALS,   \* the static flag
  section,              \* the contexts inside the critical section
  pc,                   \* where each context is in take()
  budget,               \* how many calls each context may still make
  returned,             \* how often take() has returned Some
  stolen,               \* whether steal() was called
  late,                 \* the contexts whose take() started after the peripherals
                        \* had been handed out
  holders               \* the contexts that hold what take() returned

takeVars == <<DEVICE_PERIPHERALS, section, pc, budget, returned, stolen, late>>
perVars  == <<takeVars, holders>>

Inside == {"check", "steal", "some", "none"}
Places == {"idle", "waiting"} \cup Inside

Go(c, from, to) == pc[c] = from /\ pc' = [pc EXCEPT ![c] = to]

SpendCall(c) == budget[c] > 0 /\ budget' = [budget EXCEPT ![c] = @ - 1]

----------------------------------------------------------------------------
(* take *)

CallTake(c) ==
  /\ Go(c, "idle", "waiting")
  /\ SpendCall(c)
  /\ late' = IF stolen \/ returned > 0 THEN late \cup {c} ELSE late \ {c}
  /\ UNCHANGED <<DEVICE_PERIPHERALS, section, returned, stolen, holders>>

\* Mutants of Enter: no critical section; the flag set before it is checked.
EnterAnyway(c) ==
  /\ Go(c, "waiting", "check")
  /\ section' = section \cup {c}
  /\ UNCHANGED <<DEVICE_PERIPHERALS, budget, returned, stolen, late, holders>>

EnterSetting(c) ==
  /\ Go(c, "waiting", "check")
  /\ section = {}
  /\ section' = {c}
  /\ DEVICE_PERIPHERALS' = TRUE
  /\ UNCHANGED <<budget, returned, stolen, late, holders>>

Enter(c) ==
  /\ Go(c, "waiting", "check")
  /\ section = {}
  /\ section' = {c}
  /\ UNCHANGED <<DEVICE_PERIPHERALS, budget, returned, stolen, late, holders>>

\* if unsafe { DEVICE_PERIPHERALS } { return None }
Check(c) ==
  /\ Go(c, "check", IF DEVICE_PERIPHERALS THEN "none" ELSE "steal")
  /\ UNCHANGED <<DEVICE_PERIPHERALS, section, budget, returned, stolen, late, holders>>

\* The call of steal() inside take().
SetFlag(c) ==
  /\ Go(c, "steal", "some")
  /\ DEVICE_PERIPHERALS' = TRUE
  /\ UNCHANGED <<section, budget, returned, stolen, late, holders>>

\* A mutant of Leave: a return that does not leave the critical section.
StayInside(c) == c \in section /\ section' = section

Leave(c) == section' = section \ {c}

ReturnSome(c) ==
  /\ Go(c, "some", "idle")
  /\ Leave(c)
  /\ returned' = returned + 1
  /\ holders' = holders \cup {c}
  /\ UNCHANGED <<DEVICE_PERIPHERALS, budget, stolen, late>>

ReturnNone(c) ==
  /\ Go(c, "none", "idle")
  /\ Leave(c)
  /\ UNCHANGED <<DEVICE_PERIPHERALS, budget, returned, stolen, late, holders>>

----------------------------------------------------------------------------
(* steal, and handing the peripherals on *)

\* A mutant of Steal: the flag stays as it is.
StealQuietly(c) ==
  /\ pc[c] = "idle"
  /\ SpendCall(c)
  /\ stolen' = TRUE
  /\ UNCHANGED <<DEVICE_PERIPHERALS, section, pc, returned, late, holders>>

\* steal() takes no critical section: it may fall between any two steps of take().
Steal(c) ==
  /\ pc[c] = "idle"
  /\ SpendCall(c)
  /\ DEVICE_PERIPHERALS' = TRUE
  /\ stolen' = TRUE
  /\ UNCHANGED <<section, pc, returned, late, holders>>

\* A mutant of Give: the peripherals can be copied.
Copy(c, d) ==
  /\ c \in holders
  /\ holders' = holders \cup {d}
  /\ UNCHANGED takeVars

\* Periph is Send: its holder can move it to another context.
Give(c, d) ==
  /\ c \in holders
  /\ holders' = (holders \ {c}) \cup {d}
  /\ UNCHANGED takeVars

----------------------------------------------------------------------------

PerInit ==
  /\ DEVICE_PERIPHERALS = FALSE
  /\ section = {}
  /\ pc = [c \in Contexts |-> "idle"]
  /\ budget = [c \in Contexts |-> MaxCalls]
  /\ returned = 0
  /\ stolen = FALSE
  /\ late = {}
  /\ holders = {}

\* The steps of a call of take() under way.
TakeStep(c) ==
  \/ Enter(c)
  \/ Check(c)
  \/ SetFlag(c)
  \/ ReturnSome(c)
  \/ ReturnNone(c)

PerNext ==
  \E c \in Contexts :
    \/ CallTake(c)
    \/ TakeStep(c)
    \/ Steal(c)
    \/ \E d \in Contexts : Give(c, d)

\* A context that runs take() goes on, and gets the critical section if it is
\* free: nothing in take() loops or waits for anything else.
PerFairness == \A c \in Contexts : WF_perVars(TakeStep(c))

PerSpec == PerInit /\ [][PerNext]_perVars /\ PerFairness

----------------------------------------------------------------------------
(* Properties *)

PerTypeOK ==
  /\ DEVICE_PERIPHERALS \in BOOLEAN
  /\ section \in {{}} \cup {{c} : c \in Contexts}
  /\ pc \in [Contexts -> Places]
  /\ budget \in [Contexts -> 0..MaxCalls]
  /\ returned \in Nat
  /\ stolen \in BOOLEAN
  /\ late \subseteq Contexts
  /\ holders \subseteq Contexts

\* `Returns all the peripherals *once*': however the calls of all contexts
\* interleave, with steal() in between, at most one take() ever returns Some,
\* and at most one context holds what it returned.
TakenOnce ==
  /\ returned <= 1
  /\ \A c, d \in holders : c = d
  /\ holders # {} => returned = 1

\* A take() that starts when the peripherals are gone, stolen or taken, does not
\* return them again.
NoneWhenLate == \A c \in late : pc[c] \notin {"steal", "some"}

\* take() returns None only if somebody else did get the peripherals: two
\* contexts that race for them cannot both lose.
NoneOnlyIfGone ==
  \A c \in Contexts : pc[c] = "none" => returned > 0 \/ stolen

\* Every call of take() returns.
TakeReturns == \A c \in Contexts : pc[c] = "waiting" ~> pc[c] = "idle"
=============================================================================
