--------------------- MODULE MCStackAllocationPipeline ---------------------
(***************************************************************************)
(* Three allocations with up to two references between them, through every *)
(* outcome of scalar replacement, IGVN and a frame that has room for two   *)
(* stack objects but not for three, or for one, depending on what is taken *)
(* already.                                                                *)
(***************************************************************************)
EXTENDS StackAllocationPipeline

CONSTANT WithCopies    \* the method may copy array elements

Small == [kind |-> "Allocate", size |-> 16, length |-> -1, result |-> "cast",
          sr |-> TRUE]
Big   == [Small EXCEPT !.kind = "AllocateArray", !.size = 528, !.length = 64]
Array == [Small EXCEPT !.kind = "AllocateArray", !.size = 24, !.length = 1]
Unsized == [Array EXCEPT !.size = -1, !.length = -1, !.sr = FALSE]
Call  == [Small EXCEPT !.kind = "CallStaticJava", !.size = -1, !.sr = FALSE]

Graph(sh, bs, vs, pts, cps) ==
  [kind   |-> [o \in Obj |-> sh[o].kind],
   esc    |-> [o \in Obj |-> NoEscape],
   sr     |-> [o \in Obj |-> sh[o].sr],
   size   |-> [o \in Obj |-> sh[o].size],
   length |-> [o \in Obj |-> sh[o].length],
   result |-> [o \in Obj |-> sh[o].result],
   exact  |-> [o \in Obj |-> TRUE],
   bases  |-> bs, values |-> vs,
   bot    |-> [f \in Fld |-> FALSE], lbases |-> [f \in Fld |-> 0],
   opaque |-> [f \in Fld |-> FALSE], points |-> [v \in Var |-> pts],
   encoded  |-> [o \in Obj |-> FALSE], overlap |-> [o \in Obj |-> FALSE],
   objArray |-> [o \in Obj |-> sh[o].kind = "AllocateArray"],
   acsrc  |-> [o \in Obj |-> \E p \in cps : p[1] = o],
   acdst  |-> [o \in Obj |-> \E p \in cps : p[2] = o],
   copies |-> cps, locks |-> FALSE]

\* Objects 1 and 3 may refer to object 2, which may refer to either.
References ==
  {Graph(<<x, y, z>>, <<{b}, {2}>>, <<{2}, {v}>>, pts, {}) :
     x \in {Small, Big}, y \in {Small, Array, Call}, z \in {Small, Big},
     b \in {1, 3}, v \in {1, 3}, pts \in {{1}, {1, 3}}}

\* Array 3, expanded first, holds object 2 and is copied into array 1.
Copies ==
  {Graph(<<z, Small, Array>>, <<{3}, {2}>>, <<{2}, {NullObj}>>, {3}, {<<3, 1>>}) :
     z \in {Array, Big, Unsized}}

MCGraphs == IF WithCopies THEN Copies ELSE References

MCWorklist == [i \in 1..N |-> (i % N) + 1]
=============================================================================
