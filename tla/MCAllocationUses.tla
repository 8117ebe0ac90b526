-------------------------- MODULE MCAllocationUses --------------------------
(***************************************************************************)
(* Every graph of three nodes around an allocation: every set of uses      *)
(* (Start does not use itself, IGVN folds such phis) and every choice of   *)
(* the one that comes first, with the other nodes phis, plain nodes or an  *)
(* EncodeP.                                                                *)
(***************************************************************************)
EXTENDS AllocationUses

Kinds == {<<{1}, {}>>, <<{1, 2}, {}>>, <<{1, 2, 3}, {}>>,
          <<{1}, {3}>>, <<{1, 2}, {3}>>, <<{2}, {3}>>}

\* The use f comes first; if it is none, the first use is used twice.
MCUses ==
  {[outs |-> o, later |-> o[Start] \ {f}, phis |-> k[1], encodes |-> k[2],
    loop |-> l] :
     o \in {x \in [Node -> SUBSET Node] : Start \notin x[Start]},
     f \in Node \cup {0}, k \in Kinds, l \in BOOLEAN}
=============================================================================
