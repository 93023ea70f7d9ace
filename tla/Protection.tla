----------------------------- MODULE Protection -----------------------------
(***************************************************************************)
(* generate/avr.rs: the registers that the settings of an AVR device name  *)
(* as protected, and the one that unlocks them, are looked up in the SVD   *)
(* file and get an implementation of Protected and UnlockRegister.  A path *)
(* of the settings is a pair of a peripheral's and a register's name.      *)
(***************************************************************************)
EXTENDS FeatureGates

VARIABLES unlock,      \* the implementation of UnlockRegister, {} before
          protected    \* the implementations of Protected, in their order

protectionVars == <<unlock, protected>>

\* resolve_register: the peripheral with its name (an array has that of no
\* element) and the register, found in the base of a derived one.
Resolve(path) ==
  {found \in UNION {{i} \X svd[Root(i)].registers : i \in DOMAIN svd} :
     /\ ~svd[found[1]].array /\ svd[found[1]].names = <<path[1]>>
     /\ found[2].name = path[2]}

\* A slip: the address of a derived peripheral's register in its base.
AddressInBase(found) == svd[Root(found[1])].address + found[2].offset

Address(found) == svd[found[1]].address + found[2].offset

\* The type that stands for a register, and the module it is reached through.
SpecPath(found) == [spec |-> <<Root(found[1]), found[2].name>>, module |-> found[1]]

\* Reached by `out', as far as the file says.
UnlockOk(found) == Address(found) < 64

\* Of 8 bits and writable, as far as the register itself says.
ProtectedOk(found) == found[2].size \subseteq {8} /\ "read-only" \notin found[2].access

RenderUnlock(ccp) ==
  /\ unlock = {}
  /\ \E found \in Resolve(ccp.unlock) :
       /\ UnlockOk(found)
       /\ unlock' = {[path |-> SpecPath(found),
                      addr |-> ((svd[found[1]].address + config.shift) % 256) + found[2].offset]}
  /\ UNCHANGED protected

RenderProtected(ccp) ==
  /\ unlock # {} /\ Len(protected) < Len(ccp.protected)
  /\ \E found \in Resolve(ccp.protected[Len(protected) + 1]) :
       /\ ProtectedOk(found)
       /\ protected' = Append(protected, SpecPath(found))
  /\ UNCHANGED unlock

CcpFails(ccp) ==
  \/ unlock = {} /\ \A found \in Resolve(ccp.unlock) : ~UnlockOk(found)
  \/ /\ unlock # {} /\ Len(protected) < Len(ccp.protected)
     /\ \A found \in Resolve(ccp.protected[Len(protected) + 1]) : ~ProtectedOk(found)

CcpDone(ccp) == unlock # {} /\ Len(protected) = Len(ccp.protected)
=============================================================================
