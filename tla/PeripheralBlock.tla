-------------------------- MODULE PeripheralBlock --------------------------
(***************************************************************************)
(* A block from the SVD file to its struct.  What expand() makes of the    *)
(* registers and clusters (BlockItems) is what register_or_cluster_block   *)
(* sorts, merges into regions and emits (RegisterBlock).                   *)
(***************************************************************************)
EXTENDS BlockItems, RegisterBlock

peripheralVars == <<itemVars, vars>>

\* ercs_expanded: the rbfs of the members, by the place of their erc and their
\* place in its expansion.
Expanded ==
  [f \in UNION {{m.erc} \X DOMAIN m.rbfs : m \in members} |->
     (CHOOSE m \in members : m.erc = f[1]).rbfs[f[2]]]

LayOut ==
  /\ rbf' = Expanded
  /\ pending' = DOMAIN Expanded
  /\ place' = [f \in DOMAIN Expanded |-> 0]
  /\ size' \in BlockSizes
  /\ UNCHANGED <<regions, bailed, emitted, last_end, pos, status>>

PeripheralInit ==
  /\ ItemsInit
  /\ rbf = <<>> /\ pending = {} /\ regions = {} /\ bailed = FALSE
  /\ size = {} /\ emitted = {} /\ last_end = 0 /\ pos = 0 /\ place = <<>>
  /\ status = "generating"

PeripheralNext ==
  \/ stage # "done" /\ ItemsNext /\ IF stage' = "done" THEN LayOut ELSE UNCHANGED vars
  \/ stage = "done" /\ BlockNext /\ UNCHANGED itemVars

PeripheralSpec == PeripheralInit /\ [][PeripheralNext]_peripheralVars
=============================================================================
