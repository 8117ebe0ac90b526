--------------------------- MODULE MacroExpansion ---------------------------
(***************************************************************************)
(* PhaseMacroExpand (opto/macro.cpp) on the allocations of one method:     *)
(* eliminate_macro_nodes replaces what it can by scalars, the estimate     *)
(* loop of expand_macro_nodes decides whether every stack allocation that  *)
(* other allocations depend on can be honoured, and the last loop turns    *)
(* each remaining Allocate into a stack object or into heap allocation     *)
(* code.                                                                   *)
(*                                                                         *)
(* The macro list holds the allocations in the order of their numbers.     *)
(* Both loops walk it from its end. IGVN, which runs between expansions,   *)
(* may find an allocation unreachable or its result unused.                *)
(***************************************************************************)
EXTENDS CompilationState

CONSTANTS
  CanPopFrame,       \* JvmtiExport::can_pop_frame()
  MaxStackReg,       \* first stack register a RegMask cannot represent
  STACK_REG_BUFFER,
  InitialFixedSlots  \* possible values of fixed_slots() before expansion

ASSUME FrameAssumption ==
  /\ CanPopFrame \in BOOLEAN
  /\ MaxStackReg \in Nat /\ STACK_REG_BUFFER \in Nat
  /\ InitialFixedSlots \subseteq Nat

VARIABLES
  result,       \* result_cast() of each allocation, now
  placed,       \* what became of each allocation
  idx,          \* loop index into the macro list
  fixed_slots,            \* Compile::_fixed_slots
  stack_allocated_slots,  \* Compile::_stack_allocated_slots
  fail,         \* Compile::_fail_stack_allocation_with_references
  slot,         \* first frame slot of a stack allocated object
  est           \* auxiliary, not in the code: stack_allocated_slots after the
                \* estimate of each node, for stating what was set aside for it

mxVars == <<result, placed, idx, fixed_slots, stack_allocated_slots, fail,
            slot, est>>

\* "macro": still on the macro list. "removed": no code allocates it.
Places == {"macro", "scalar", "stack", "heap", "removed"}

MXInit ==
  /\ result = cg.result
  /\ placed = [o \in Obj |-> "macro"]
  /\ idx = N
  /\ fixed_slots \in InitialFixedSlots
  /\ stack_allocated_slots = 0
  /\ fail = FALSE
  /\ slot = [o \in Obj |-> -1]
  /\ est = [i \in 1..(N + 1) |-> 0]

-----------------------------------------------------------------------------
\* IGVN found the node unreachable; expand_macro_nodes drops it.
NodeDies(o) ==
  /\ phase \in {"eliminate", "expand"}
  /\ placed[o] = "macro"
  /\ placed' = [placed EXCEPT ![o] = "removed"]
  /\ UNCHANGED <<cg, phase, flagVars, result, idx, fixed_slots,
                 stack_allocated_slots, fail, slot, est>>

\* IGVN removed the last use of the allocation's CheckCastPP.
ResultDies(o) ==
  /\ phase \in {"eliminate", "expand"}
  /\ placed[o] = "macro" /\ result[o] # "none"
  /\ result' = [result EXCEPT ![o] = "none"]
  /\ UNCHANGED <<cg, phase, flagVars, placed, idx, fixed_slots,
                 stack_allocated_slots, fail, slot, est>>

\* can_eliminate_allocation accepts an ArrayCopy use of an allocation only as
\* its destination: o is copied from, and what it is copied to is still there.
\* (Scalar replacement of the destination takes the source off the ArrayCopy.)
CopiedFrom(o) ==
  /\ result[o] # "none"
  /\ \E d \in Obj \ {o} : /\ <<o, d>> \in cg.copies
                         /\ placed[d] = "macro" /\ result[d] # "none"

\* eliminate_allocate_node succeeds. Whether can_eliminate_allocation and
\* scalar_replacement do is up to the ideal graph, but the first needs a
\* unique CheckCastPP if there is a result at all, and no copy out of it. An
\* unused box needs no unique type, and a boxing call whose result is unused
\* goes the same way (eliminate_boxing_node).
EliminateAllocateNode(o) ==
  /\ phase = "eliminate" /\ placed[o] = "macro"
  /\ \/ /\ IsAllocate(o)
        /\ EliminateAllocations /\ ~CanPopFrame /\ nonEsc[o]
        /\ nodeSR[o] \/ result[o] = "none"
        /\ result[o] # "other" /\ ~CopiedFrom(o)
     \/ ~IsAllocate(o) /\ result[o] = "none"
  /\ placed' = [placed EXCEPT ![o] = "scalar"]
  /\ UNCHANGED <<cg, phase, flagVars, result, idx, fixed_slots,
                 stack_allocated_slots, fail, slot, est>>

\* The elimination loops make no more progress. Boxing calls leave the macro
\* list and stay calls, which return heap objects.
EndEliminate ==
  /\ phase = "eliminate"
  /\ phase' = "estimate"
  /\ placed' = [o \in Obj |-> IF placed[o] = "macro" /\ ~IsAllocate(o)
                              THEN "heap" ELSE placed[o]]
  /\ idx' = N
  /\ UNCHANGED <<cg, flagVars, result, fixed_slots, stack_allocated_slots,
                 fail, slot, est>>

-----------------------------------------------------------------------------
Slots(o) == cg.size[o] \div 4      \* size_of_object >> LogBytesPerInt

Representable(location) == location + STACK_REG_BUFFER < MaxStackReg

CanStackAllocate(o) ==
  result[o] # "none" /\ sa[o] /\ cg.size[o] # -1 /\ DoStackAllocation

\* Faulty variant: a scalar replacement that did not happen is overlooked.
PromiseBrokenLax(o) == sa[o] /\ ~CanStackAllocate(o)

\* The allocation was promised to be a scalar or a stack object, and cannot
\* be: objects it may point to must not go on the stack.
PromiseBroken(o) == (nodeSR[o] /\ ~sa[o]) \/ (sa[o] /\ ~CanStackAllocate(o))

\* estimate_stack_allocation_size on the macro node at idx, if it is there.
Estimate ==
  /\ phase = "estimate" /\ idx >= 1
  /\ IF placed[idx] # "macro" THEN UNCHANGED <<fail, stack_allocated_slots>>
     ELSE /\ fail' = (fail \/ PromiseBroken(idx))
          /\ stack_allocated_slots' =
               IF PromiseBroken(idx) \/ ~sa[idx] THEN stack_allocated_slots
               ELSE stack_allocated_slots + Slots(idx)
  /\ est' = [est EXCEPT ![idx] = stack_allocated_slots']
  /\ idx' = idx - 1
  /\ UNCHANGED <<cg, phase, flagVars, result, placed, fixed_slots, slot>>

\* Faulty variant: the total is not compared with the frame limit.
EndEstimateUnchecked ==
  /\ phase = "estimate" /\ idx = 0
  /\ phase' = "expand" /\ idx' = N
  /\ UNCHANGED <<cg, flagVars, result, placed, fixed_slots, fail,
                 stack_allocated_slots, slot, est>>

\* After the estimate: is there room for all of them?
EndEstimate ==
  /\ phase = "estimate" /\ idx = 0
  /\ phase' = "expand"
  /\ fail' = (fail \/ ~Representable(fixed_slots + stack_allocated_slots))
  /\ idx' = N
  /\ UNCHANGED <<cg, flagVars, result, placed, fixed_slots,
                 stack_allocated_slots, slot, est>>

-----------------------------------------------------------------------------
\* Faulty variant: the failure of others does not matter to o.
RefusesStackAlone(o) ==
  ~CanStackAllocate(o) \/ ~Representable(fixed_slots + Slots(o))

\* stack_allocation(o) returns false before it changes anything.
RefusesStack(o) ==
  \/ ~CanStackAllocate(o)
  \/ fail /\ ref[o]
  \/ ~Representable(fixed_slots + Slots(o))

\* Faulty variant: the mark is not moved.
StackAllocationNoMark ==
  /\ phase = "expand" /\ idx >= 1 /\ placed[idx] = "macro"
  /\ ~RefusesStack(idx)
  /\ placed' = [placed EXCEPT ![idx] = "stack"]
  /\ slot' = [slot EXCEPT ![idx] = fixed_slots]
  /\ idx' = idx - 1
  /\ UNCHANGED <<cg, phase, flagVars, result, stack_allocated_slots, fixed_slots, fail, est>>

\* stack_allocation on the last macro node: its slots are reserved, then its
\* direct barriers are eliminated, which may leave the result without uses
\* (the object is then not created but the slots stay reserved).
StackAllocation ==
  /\ phase = "expand" /\ idx >= 1 /\ placed[idx] = "macro"
  /\ ~RefusesStack(idx)
  /\ fixed_slots' = fixed_slots + Slots(idx)
  /\ \/ /\ placed' = [placed EXCEPT ![idx] = "stack"]
        /\ slot' = [slot EXCEPT ![idx] = fixed_slots]
     \/ /\ placed' = [placed EXCEPT ![idx] = "removed"]
        /\ UNCHANGED slot
  /\ idx' = idx - 1
  /\ UNCHANGED <<cg, phase, flagVars, result, stack_allocated_slots, fail, est>>

\* Faulty variant: an allocation without uses is left on the macro list.
ExpandAllocateUsed ==
  /\ phase = "expand" /\ idx >= 1 /\ placed[idx] = "macro"
  /\ RefusesStack(idx)
  /\ placed' = IF result[idx] = "none" THEN placed
               ELSE [placed EXCEPT ![idx] = "heap"]
  /\ idx' = idx - 1
  /\ UNCHANGED <<cg, phase, flagVars, result, fixed_slots,
                 stack_allocated_slots, fail, slot, est>>

\* expand_allocate(_array): heap allocation code, with the initializing
\* stores only if the result is used.
ExpandAllocate ==
  /\ phase = "expand" /\ idx >= 1 /\ placed[idx] = "macro"
  /\ RefusesStack(idx)
  /\ placed' = [placed EXCEPT ![idx] = IF result[idx] = "none"
                                       THEN "removed" ELSE "heap"]
  /\ idx' = idx - 1
  /\ UNCHANGED <<cg, phase, flagVars, result, fixed_slots,
                 stack_allocated_slots, fail, slot, est>>

\* The node that was at idx has left the list already.
SkipGone ==
  /\ phase = "expand" /\ idx >= 1 /\ placed[idx] # "macro"
  /\ idx' = idx - 1
  /\ UNCHANGED <<cg, phase, flagVars, result, placed, fixed_slots,
                 stack_allocated_slots, fail, slot, est>>

EndExpand ==
  /\ phase = "expand" /\ idx = 0
  /\ phase' = "expanded"
  /\ UNCHANGED <<cg, flagVars, mxVars>>

\* check_node_count: too many nodes, the compilation is abandoned.
OutOfNodes ==
  /\ phase = "expand" /\ idx >= 1
  /\ phase' = "abandoned"
  /\ UNCHANGED <<cg, flagVars, mxVars>>

MXNext ==
  \/ \E o \in Obj : NodeDies(o) \/ ResultDies(o) \/ EliminateAllocateNode(o)
  \/ EndEliminate \/ Estimate \/ EndEstimate
  \/ StackAllocation \/ ExpandAllocate \/ SkipGone \/ EndExpand \/ OutOfNodes
=============================================================================
