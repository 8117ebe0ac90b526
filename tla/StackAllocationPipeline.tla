----------------------- MODULE StackAllocationPipeline -----------------------
(***************************************************************************)
(* Escape analysis followed by macro expansion in one compilation          *)
(* (Compile::Optimize). The two communicate only through the flags on the  *)
(* Allocate nodes; between them the ideal graph shrinks.                   *)
(***************************************************************************)
EXTENDS StackAllocationAnalysis, MacroExpansion

vars == <<cg, phase, sr, nonEsc, nodeSR, sa, ref, next, alloc_worklist,
          result, placed, idx, fixed_slots, stack_allocated_slots, fail, slot,
          est>>

Init == EAInit /\ MXInit

Next == \/ EANext /\ UNCHANGED mxVars
        \/ MXNext /\ UNCHANGED eaLocal

\* The compiler thread keeps working on the method until it is done with it.
Spec == Init /\ [][Next]_vars /\ WF_vars(Next)

-----------------------------------------------------------------------------
\* Every variable of the compilation has its type.
TypeOK ==
  /\ EATypeOK
  /\ result \in [Obj -> {"none", "cast", "other"}]
  /\ placed \in [Obj -> Places]
  /\ idx \in 0..N
  /\ fixed_slots \in Nat /\ stack_allocated_slots \in Nat
  /\ fail \in BOOLEAN
  /\ slot \in [Obj -> Nat \cup {-1}]
  /\ est \in [1..(N + 1) -> Nat]

\* No heap object of the compiled method can hold a reference to one of its
\* stack objects (escape.hpp: "Heap objects cannot point to stack allocated
\* objects"). Escape analysis trusts that the objects in a chain will all be
\* stack objects or scalars; macro expansion may have to break that trust and
\* must then keep the referenced ones off the stack as well.
NoHeapToStack ==
  \A x, y \in Obj :
    x # y /\ MayHold(x, y) => ~(placed[x] = "heap" /\ placed[y] = "stack")

\* Stack objects do not share frame slots with each other, and all of them lie
\* below the high water mark in slots a register mask can name
\* (next_stack_allocated_object).
SlotsDisjoint ==
  \A o \in Obj : placed[o] = "stack" =>
    /\ slot[o] >= 0 /\ slot[o] + Slots(o) <= fixed_slots
    /\ Representable(fixed_slots)
    /\ \A p \in Obj \ {o} : placed[p] = "stack" =>
         slot[o] + Slots(o) <= slot[p] \/ slot[p] + Slots(p) <= slot[o]

\* If the estimate raises no alarm, every stack allocation is carried out: no
\* object escape analysis put on the stack ends up in the heap because slots
\* ran out half way through the expansion.
EstimateHonoured ==
  phase \in {"expand", "expanded"} /\ ~fail =>
    \A o \in Obj : sa[o] => placed[o] # "heap"

\* Every compilation ends, and if it is not abandoned no allocation is left on
\* the macro list.
AllDecided ==
  <>(\/ phase \in {"retry", "abandoned"}
     \/ phase = "expanded" /\ \A o \in Obj : placed[o] # "macro")

Frame == INSTANCE FramePlacement
           WITH holds <- {p \in Obj \X Obj : MayHold(p[1], p[2])}

\* The compilation implements the abstract placement: decisions are final and
\* no intermediate state lets a heap object hold a stack object.
PlacementSafe == Frame!FPSpec
=============================================================================
