-------------------------- MODULE MCRegisterBlock --------------------------
(***************************************************************************)
(* Small blocks for RegisterBlock: every pair of ercs out of a wide menu   *)
(* and every triple out of a narrow one.                                   *)
(***************************************************************************)
EXTENDS RegisterBlock, Sequences

Register(offset, bits) ==
  [kind |-> "register", offset |-> offset, bits |-> bits, array |-> FALSE]

RegisterArray(offset, bits, dim, increment, convert) ==
  [kind |-> "register", offset |-> offset, bits |-> bits, array |-> TRUE,
   dim |-> dim, increment |-> increment, convert |-> convert]

\* A cluster of a u32 and, in the second form, a u8 after it: 5 bytes that the
\* compiler rounds up to 8.
Cluster(offset, bits, bytes) ==
  [kind |-> "cluster", offset |-> offset, bits |-> bits, bytes |-> bytes, align |-> 4,
   array |-> FALSE]

\* max_cluster_size pads the struct of an element up to the increment.
ClusterArray(offset, bits, bytes, increment) ==
  [kind |-> "cluster", offset |-> offset, bits |-> bits, align |-> 4,
   bytes |-> IF MaxClusterSize THEN AlignUp(increment, 4) ELSE bytes,
   array |-> TRUE, dim |-> 2, increment |-> increment, convert |-> TRUE]

Wide ==
       {Register(o, b) : o \in {0, 1, 2, 4, 6, 8}, b \in {8, 16, 24, 32}}
  \cup {RegisterArray(o, b, d, i, c) : o \in {0, 4}, b \in {8, 32}, d \in {1, 2, 3},
                                       i \in {1, 4, 8}, c \in BOOLEAN}
  \cup {Cluster(o, 32, 4) : o \in {0, 4, 8}}
  \cup {Cluster(o, 40, 8) : o \in {0, 4, 8}}
  \cup {ClusterArray(o, 40, 8, i) : o \in {0, 8}, i \in {5, 8, 12}}

Narrow ==
       {Register(o, b) : o \in {0, 2, 4, 8}, b \in {8, 32}}
  \cup {RegisterArray(o, 16, 2, i, TRUE) : o \in {0, 2, 4}, i \in {2, 4}}
  \cup {RegisterArray(0, 16, 2, 4, FALSE), Cluster(0, 40, 8), ClusterArray(4, 40, 8, 8)}

Inputs == {ercs \in (Wide \X Wide) \cup (Narrow \X Narrow \X Narrow) :
             \A i \in DOMAIN ercs : Expands(ercs[i])}

MCLayouts == {Expand(ercs) : ercs \in Inputs}

MCNoSize == {{}}
MCBlockSizes == {{}, {8}, {16}}
=============================================================================
