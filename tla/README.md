# Stack allocation in C2: models, checks and proofs

The repository holds Microsoft's proposals for OpenJDK. One of them comes with a
program: `stack_allocation/webrev`, a change to HotSpot's C2 compiler and
runtime that puts objects which do not escape from a method in the frame of the
compiled method instead of the heap. This directory holds TLA+ modules of that
program, TLC configurations that check them on small instances, and TLAPS
proofs. Paths below are relative to
`stack_allocation/webrev/src/hotspot/share` unless they start with `src/`.

## 1. Inventory

### How the parts interact

```
 Compile::Optimize                                       one compiler thread
   ConnectionGraph::compute_escape  (opto/escape.cpp)
     1-2  build and complete the connection graph
     3    adjust_scalar_replaceable_state
     4    eligible_for_stack_allocation, verify_stack_allocated_object_chains
     5    optimise the ideal graph
     6    split_unique_types
        |   flags on Allocate nodes: _is_non_escaping, _is_scalar_replaceable,
        |   _is_stack_allocateable, _is_referenced_stack_allocation
        v
   PhaseMacroExpand                 (opto/macro.cpp)
     eliminate_macro_nodes          scalar replacement
     estimate_stack_allocation_size is there room for all of it?
     stack_allocation | expand_allocate
        |   BoxLock-like stack nodes, SafePointScalarObject nodes
        v
   PhaseOutput, debug info, oop maps (opto/output.cpp, code/, compiler/oopMap)
 ------------------------------------------------------------------------
   at run time:  frames walked by the collector   (compiler/oopMap.cpp)
                 deoptimization                   (runtime/deoptimization.cpp)
                 write barriers on stack oops     (gc/shared/c2, gc/g1/c2)
```

The compiler parts run in one thread per compilation and communicate through
flags on nodes; the ideal graph shrinks between them (IGVN), so what one part
promised may no longer be possible, or needed, when the next part acts on it.
The runtime parts run concurrently with compilations and with each other.

### Components

| Component | State | Operations | What makes it correct |
|---|---|---|---|
| Connection graph construction | nodes, edges, uses, escape states | `build_connection_graph`, `complete_connection_graph`, `find_non_escaped_objects`, `add_java_object_edges` | the graph is the closure of the ideal graph's assignments, or it is abandoned without leaving flags |
| Stack allocation analysis | `scalar_replaceable` of JavaObjects, flags of Allocates, `alloc_worklist` | steps 3, 4, 6 of `compute_escape` | chains of stack objects are safe and maximal, marks are exact, the loop ends |
| Searches over uses | worklist, visited set | `allocation_lifetime_overlap`, `oop_may_be_compressed` | they compute reachability and end |
| Graph optimisation by escape analysis | ideal graph, alias classes, Lock nodes and boxes | `split_unique_types`, `LoadNode::Ideal`, `StoreNode::Ideal`, `LockNode::Ideal`, `mark_eliminated_locking_nodes`, `expand_lock_node` | loads keep their values, removed locks leave paths balanced, an inlined lock excludes |
| Macro expansion of allocations | macro list, `_fixed_slots`, `_stack_allocated_slots`, `_fail_stack_allocation_with_references` | `eliminate_macro_nodes`, `estimate_stack_allocation_size`, `stack_allocation`, `expand_allocate` | no heap object can hold a stack object; slots are disjoint; every allocation is decided |
| Scalar replacement, safepoint registration | inputs of safepoints | `scalar_replacement`, `register_stack_allocated_object_with_safepoints` | a failure half way leaves the safepoints as they were; every safepoint at which an object is live describes it |
| Debug information | scope values | `FillLocArray`, `sv_for_node_id`, `process_scalar_object` | each object is described once, references by identity |
| Deoptimization | reallocated objects | `realloc_objects`, `reassign_fields`, `StackValue` lookups | heap copies of stack objects refer to heap copies |
| Oop maps | the frame | `OopMapSet::all_do`, stack oop visitor | fields of stack objects are visited once, stack oops are never treated as heap oops |
| Write barriers | registered barriers; cards, queues, marks | `post_barrier`, `pre_barrier`, `process_write_barriers_on_stack_allocated_objects`, `expand_barriers` | a store that may go to a stack object keeps its check, no card outside the table is dirtied, remembered sets and marking lose nothing |
| Driver and flags | `UseStackAllocationRuntime`, VM flags | `Compile::Optimize`, `CompilerConfig::ergo_initialize` | the runtime flag is set before the first stack object exists |
| C2 nodes, blocks, emission | `InitializeNode`, basic blocks, machine code | `complete_stores`, block layout, `shorten_branches`, `fill_buffer`, `Scheduling`, `BuildOopMaps` | new objects have the bytes the program wrote, the code does what the blocks said, tables name the right offsets, oop maps describe what is used |
| C2 loop optimisations | loop tree | touched in one check | - |
| `java.util.ArrayList`, `java.util.regex.Matcher` | arrays, positions | rewritten so that usual arrays have constant length | as before the change |
| Other proposals | - | documents and a configure script | - |

Hard behaviours: one step of several failing (scalar replacement, frame space)
after others relied on it; state computed by escape analysis and stale at macro
expansion; restarts over cyclic reference chains; limits (bytes, slots,
iterations, nodes); threads walking frames while the first stack allocating
method is installed; marking, refinement, revocation and other threads' traps
beside the compiled code; memory edges rewritten from the state before other
rewrites. `PROJECT.json` lists them as hazards, each at its line.

## 2. Modules

| Module | Models |
|---|---|
| `CompilationState` | the finished connection graph, the graph's `scalar_replaceable` flag and the flags on Allocate nodes |
| `GraphConstruction` | step 1 of `compute_escape`: ideal nodes to connection graph, call arguments; what a method does when it runs |
| `ConnectionGraph` | step 2 of `compute_escape`: `complete_connection_graph` |
| `StackAllocationAnalysis` | steps 3, 4 and 6 of `compute_escape` |
| `AllocationUses` | `allocation_lifetime_overlap` and `oop_may_be_compressed` |
| `MacroExpansion` | `PhaseMacroExpand` on allocations |
| `StackAllocationPipeline` | the two phases composed as in `Compile::Optimize` |
| `FramePlacement` | abstract specification: every allocation is decided once, and never so that a heap object can hold a stack object |
| `MemoryGraph` | the memory part of the ideal graph, what it means, and MergeMem nodes |
| `LoadOptimization` | loads and stores under iterative GVN |
| `UniqueTypes` | the splitting of memory by `split_unique_types` |
| `ScalarValue` | `value_from_mem`, the value of a field at a safepoint |
| `InitializeNode` | captured initializing stores and their completion |
| `LockElimination`, `LockExpansion` | which Lock nodes go, and the code of the ones that stay |
| `SafepointObjects` | debug inputs of safepoints under scalar replacement and stack allocation |
| `DebugInfo` | the objects of a safepoint written to the nmethod and read back |
| `CompiledVFrame`, `Deoptimization` | a frame as the debug information describes it, and its deoptimization |
| `UncommonTrap` | traps of several threads and recompilation |
| `OopMapWalk` | the collector's walk over a frame with stack objects |
| `BarrierElimination`, `G1Barriers` | which barriers lose their check, and G1's barriers as they run |
| `BuildOopMap`, `BlockLayout`, `CodeEmission`, `Scheduling` | the back end after register allocation |
| `MC...` | instances for TLC |
| `..._proofs` | theorems about the module of that name; `StackAllocationAnalysis_proofs` has those of `AllocationUses` too, `WriteBarriers_proofs` those of `BarrierElimination` and `G1Barriers`, `SafepointsAndLocks_proofs` those of `SafepointObjects` and `LockExpansion` |

### `CompilationState`

A connection graph is a record `cg` that no step changes. Objects of
`non_escaped_worklist` are numbered by their position on the macro list; Field
nodes have the set of JavaObjects they belong to (`bases`) and the set they
point to (`values`); LocalVars have the set they point to. `0` stands for
`null_obj`, and in `values` and `points` for any object that is not on
`non_escaped_worklist`: the code treats both alike there (a second target). An
Arraycopy node is present through `acsrc` and `acdst`, and through `copies`, the
pairs of arrays between which a validated copy may move references. `copies` and
`MayHold` do not belong to the compiler: they say what the compiled method may
do, and the safety properties are about that.

### `ConnectionGraph`

The graph is `edges`, `bases` and the two escape states of each node; it starts
as `add_final_edges` leaves it (`Starts`), with the simple edges of the ideal
graph. `worklist` and `in_worklist` are `_worklist` and `_in_worklist`, where an
entry is a node and whether it stands for a base use.

| Action | Code |
|---|---|
| `SpreadEscape`, `EndEscape` | `find_non_escaped_objects`: one node of its worklist; the rest of it and the head of the inner loop |
| `AddEdge` | one entry of the worklist in `add_java_object_edges`; the disjuncts are its cases |
| `NextObject`, `EndPass` | the loop over `java_objects_worklist` |
| `Timeout` | `EscapeAnalysisTimeout` at the places where the time is looked at |
| `FindFieldValues` | `find_field_value` for all fields without edges |
| `InitNulls`, `Finish` | the last loop, with `find_init_values(.., null_obj)` |

Lists whose order comes from how the graph was built are sets. `rank` gives the
order in which they are walked, and with equal ranks any order is possible. What
step 1 hands over is said by `IsStart`; TLC checks it for every starting graph. The
code stops at an object's first field per offset when it looks for initial
nulls; which one that is stays open (`NullFields`). `new_edges` is only read in
the passes.

### `StackAllocationAnalysis`

| Action | Code |
|---|---|
| `AdjustScalarReplaceable`, `EndAdjust` | an iteration of the step 3 loop with `adjust_scalar_replaceable_state` |
| `FindEligible`, `EndEligible` | the first loop of step 4 |
| `VerifySkip`, `VerifyKeep`, `VerifyDemote`, `EndVerify` | `verify_stack_allocated_object_chains`, one object at a time, and the loop around it |
| `SplitOne`, `EndSplit`, `SplitFails` | phase 1 of `split_unique_types` as far as it marks nodes |

`adjust_scalar_replaceable_state` returns at the first use that rules an object
out. Which one comes first depends on how the graph was built, so `Cleared(o)`
is the set of all outcomes. The verification restarts at the front after a
demotion, as the code does with `return true` and the `while` in
`compute_escape`. The worklist may be in any order (`Worklist`).

### `MacroExpansion`

| Action | Code |
|---|---|
| `EliminateAllocateNode`, `EndEliminate` | `eliminate_macro_nodes` (both times it is called) |
| `NodeDies`, `ResultDies` | IGVN between two macro nodes |
| `Estimate`, `EndEstimate` | `estimate_stack_allocation_size` and the check after the loop |
| `StackAllocation`, `ExpandAllocate`, `SkipGone`, `EndExpand` | an iteration of the last loop of `expand_macro_nodes` |
| `OutOfNodes` | `check_node_count` fails |

Whether `can_eliminate_allocation` and `scalar_replacement` succeed depends on
the ideal graph and is a free choice, once the conditions on flags hold and the
object is not the source of an arraycopy that is still there (`CopiedFrom`).
`RegMask::can_represent` is external: a stack register is representable below
`MaxStackReg`. The variable `est` is auxiliary; it records the running estimate
per node for the invariant of the proof.

### `AllocationUses`

An ideal graph `ug` gives the uses of each node. Both searches keep a worklist
and a visited set; the code pops the node pushed last, the model any node.
`later` are the uses at `raw_out(1)` and up, where `allocation_lifetime_overlap`
starts.

### `GraphConstruction`

A method is a sequence of ideal nodes in the order they execute. `Construct`
folds `add_node_to_connection_graph`, `add_final_edges`, `add_call_node` and
`process_call_arguments` over it and hands the result to `ConnectionGraph`. The
same sequence is run (`Runs`): a callee does whatever the bytecode analyzer's
flags allow, other threads change what they can reach at any time, and the
finished graph is compared with every run.

### The ideal graph

`MemoryGraph` gives a graph of memory nodes its meaning (`ValueIn`, `FieldIn`):
the value of a node for a choice of what the parameters are, which way each
region was entered and how often loops went round. A slice below 10 is a general
alias class, slice `10 * a + f` is field `f` of allocation `a`.

| Action | Code |
|---|---|
| `MergeIdeal`, `MergeIdentity` | `MergeMemNode::Ideal`, `Identity` |
| `IdealCommon`, `OptimizeMemoryChain`, `SkipLoop`, `SplitThroughPhi`, `ArraycopyValue`, `SkipStores` | the steps of `LoadNode::Ideal`; each may run whenever its condition holds |
| `LoadIdentity`, `StoreIdeal`, `StoreIdentity` | the same functions of loads and stores |
| `InstanceTypes` | phase 1 of `split_unique_types`, with `split_AddP` |
| `MemNode`, `EndMemNodes` | phase 2: one node of `memnode_worklist`, with `find_inst_mem` and `split_memory_phi` |
| `MergeMem`, `EndMerges` | phase 3: one MergeMem |
| `UpdatePhi`, `EndPhis`, `UpdateMemory` | phase 4, with `move_inst_mem` |
| `ValueFromMem`, `PhiReturns`, `PhiInput`, `PhiTakes`, `PhiComplete` | `value_from_mem` and `value_from_mem_phi`, their recursion as a stack of frames |

`UniqueTypes` works on a copy of the graph that becomes the graph at the end:
nobody reads it in between, and after a failure the compilation starts again
without escape analysis. Its lists are filled in the order of the nodes or the
reverse. `unique_java_object`'s answers are part of the method (`prg.unique`).

`InitializeNode` has one action per store captured (`CaptureStore`), load folded
(`FoldLoad`), and per step of `complete_stores` and `coalesce_subword_stores`.
Memory is bytes; constants are bytes, unknown values are named bytes.

`LockElimination` sets the kind of each Lock and Unlock (`LockIdeal`,
`UnlockIdeal`, `OptimizeIdealGraph`), marks, eliminates and expands them as
`eliminate_macro_nodes` and `expand_macro_nodes` do, and then walks every path of
the method. `LockExpansion` is the expanded code, one action per access to the
mark word, beside bulk rebias and revocation: `markWord` and `prototype` are the
two words in memory, `readMark` what a thread has loaded and not yet used.

### Debug information and deoptimization

`SafepointObjects` follows the inputs of safepoints through `scalar_replacement`
(`ScalarReplacement`, `PopSafepoint`, `AddField`, `NoFieldValue`, `ProcessUsers`)
and `register_stack_allocated_object_with_safepoints` (`StackAllocation`,
`HandleSafepoint`, `WalkOn`). `DebugInfo` records them with `FillLocArray`, writes
and reads the stream. `Deoptimization` is `fetch_unroll_info_helper` step by step
(`ReallocObject`, `ReassignFields`, `RelockObjects`, `CreateVFrameArray`,
`FreeDeferred`, ...), with allocations that fail or move objects and a debugger
that writes locals before. `UncommonTrap` splits `uncommon_trap_inner` where it
reads and writes what other threads see.

### Run time and back end

`OopMapWalk` interleaves `all_do`, one value at a time, with the compiler threads
that set `UseStackAllocationRuntime` and install code: one compiles the method whose
frame is walked (`code`, with stack objects or plain), one another method. What register allocation
and `BuildOopMaps` have left in the frame is its start condition (`IsFrame`), and
what a walk has to update (`Reached`) is the least set of locations that has the
oops of the map and the fields of every stack object one of its words refers to. `BarrierElimination`
takes the barriers of a method from `post_barrier` through the walk of
`process_write_barriers_on_stack_allocated_objects` to `expand_barriers`. What the
analysis guarantees of the method is its start condition (`IsBEStart`), and what a
node may refer to when the code runs (`MayRefer`) is the least solution of how
values flow through Phis, fields and loads. `G1Barriers` runs the generated code on
threads with store buffers beside a refinement thread and a marker that traverses
the objects reachable when marking began (`snap` is auxiliary). `BuildOopMap`, `BlockLayout`, `CodeEmission` and
`Scheduling` have one action per block or phase of the passes they are named
after; `BuildOopMap` then runs the code with a collection at each safepoint. What
register allocation leaves is its start condition (`IsProgram`, `ReachedFromBelow`,
`IsAllocated`): a program comes with `held`, the values each register keeps for
later uses at each place, which the pass does not see and computes for itself by
liveness and reaching definitions.

## 3. Runs

| Run | Shows |
|---|---|
| `analysis` | On connection graphs of three objects (allocations small or too big for the frame, boxing calls, argument escapes), two fields and a variable: the chain verification ends in the largest safe set of stack candidates, `_is_referenced_stack_allocation` is only on candidates that another object points to, and no object listed for `split_unique_types` is ruled out by one adjusted later. On every graph of three nodes both searches over uses compute reachability, in every order. The analysis and the searches end (`AnalysisEnds`). |
| `pipeline` | Analysis and expansion together, with every outcome of scalar replacement and IGVN and a frame in which two objects lie on the stack together but never all three: no heap object can hold a stack object, slots are disjoint and representable, an estimate that raises no alarm is right, the compilation implements `FramePlacement`, and every allocation is decided. |
| `connection_graph` | On starting graphs of two allocations, a call and up to one arraycopy, with seven variables and two fields, and on graphs constructed from methods: the construction ends; unless it is given up, references are closed under assignments, loads, stores, aliased fields and copies, whatever escapes takes along all it leads to, and every field has a value. `EscapeSound`: for the methods, the graph is right about every run. |
| `deoptimization` | A failed scalar replacement leaves the safepoints as they were, objects' fields stay apart, every safepoint refers to a replaced object by its description and describes each stack object that is live; what is read from the nmethod is what was recorded; after a deoptimization the frames hold the values the program had, with heap copies for stack objects, locks, exceptions and deferred locals are in order; traps do not lead to recompilation for ever. In the back end, oop maps describe what is used after a collection, blocks in their new order go where the program went, short branches reach, exception tables name the right offsets, and a scheduled block computes the same. |
| `runtime` | The walk updates every oop of the frame and of its stack objects once, and of a frame without stack objects also when the compilation of another method switches the flag on between any two reads of it; the check is kept where a store may go to a stack object; no remembered set entry or marked object is lost. |
| `ideal_graph` | New objects have the bytes the program wrote; loads, stores and slices are rewritten without changing a value; a field's value for a safepoint is the one in memory; removed locks leave every path balanced; an inlined biased lock admits one thread. |
| `no_eliminate_allocations`, `arraycopy_contents`, `arraycopy_target`, `lifetime_overlap`, `lock_regions`, `copy_destination` (violations) | See 5. |

A run of several components starts in one of them (the variable `part`); the
others then stay as they are.

Bounds. Three objects are enough for a chain of references whose far end is
demoted, which must be undone at its front, for a cycle, and for an object with
two referrers, one of which is demoted; two fields give each of these. The
frame (`MaxStackReg = 18`, buffer 4, 2 or 6 slots taken) has room for two small
objects (4 slots each), or for a small one and an array (6 slots), if 2 slots are
taken, and for one object if 6 are, never for three. So the estimate raises an alarm
in some states and not in others, objects lie on the stack side by side, and some are
placed also when the alarm was raised. The sizes 16, 24 and 528 bytes lie on both sides of the limits 256 bytes
and 64 elements. Three nodes give `AllocationUses` self loops, cycles that avoid
the start node and paths of two steps. The order of the worklist is a rotation
of the macro list, so the two loops do not visit the objects in the same order.
The starting graphs of `connection_graph` vary what the variable `x` merges or
loads, what is stored in the fields `f` and `g` and through which bases, whether
`g` has the same, another or an unknown offset, whether the store to `f` is
captured by the Initialize node, and whether `r` is returned or passed to a call.
The starting graphs are those in which a captured store has a field at its raw
address (`CapturedStoresKnown`) and no field is stored to only by code that
cannot run (`LiveStores`), such as values defined only by each other: no ideal graph
that reaches escape analysis has them, and the code relies on it. These are the
hypotheses of `FieldsAreInitialized` too. Two opposite orders of the lists are tried,
and every order on four graphs. The methods pass objects to callees with every
answer of the bytecode analyzer, store them in each other's and in shared
objects' fields, copy arrays and return. `CG_BUILD_ITER_LIMIT` is 4 instead of 20, so
that some graphs need all passes that are allowed and are given up.

Ideal graphs have up to 33 nodes to begin with: objects that may be the same, two
objects that do not escape, two that do and are created one after the other, regions in a row, a loop in a loop, copies of unknown
length, stacked merges, barriers and calls. `MaxNodes` (40) and a method's `limit`
bound the graph; limits of 31 and 33 make `create_split_phi` fail in the middle of
phases 2 and 3. Initializations are small arrays with every choice of constant,
unknown, zero or no store per element, and instances with accesses of all sizes.
Frames have two stack objects that refer to each other and to heap objects; two
threads are enough for every race on a trap state or a card, three for a bias
that is revoked for a third. Code is emitted with `ShortRange` 8 so that padding
decides which branches are short. The programs of `BuildOopMap` have loops with and
without an exit, one of them with two entries, Phis, copies, derived pointers with bases before and after them,
callee saved registers that are spilled, calls with arguments, and stack objects;
the last register is the frame pointer.

Fairness. Each specification with a liveness property has weak fairness of its whole next-state relation:
a compiler thread that has started a compilation goes on with it. No action is
favoured. The specifications of the other runs have no liveness property and no
fairness; `RecompilationEnds` bounds a counter that a livelock would exceed.
`CHECK_DEADLOCK FALSE` is set because a compilation, a walk and a method end.

## 4. Proofs

| Theorem | States, for every value of the constants |
|---|---|
| `EATypeCorrect` | `EATypeOK` |
| `ChainsAreSafe` | `ChainsSafe` |
| `ReferencedIsExact` | `ReferencedExact` |
| `ChainsAreMaximal` | `ChainsMaximal` |
| `UniqueTypesAreCurrent` | `UniqueTypesCurrent` |
| `TypeCorrect` | `TypeOK` |
| `SlotsAreDisjoint` | `SlotsDisjoint` |
| `EstimateIsHonoured` | `EstimateHonoured` |
| `HeapNeverHoldsStack` | `NoHeapToStack`, under `PromisesVisible` and `NoCopies` |
| `PlacementRefined` | the compilation implements `FramePlacement`, same hypotheses |
| `CompressedIsExact`, `OverlapIsFromLater` | `CompressedExact`, `OverlapFromLater` |
| `CGTypeCorrect` | `CGTypeOK` |
| `EscapeIsFinal` | `EscapeFinal` |
| `PointsToIsClosed` | `PointsToClosed`, under `CopyDestinationsKnown` |
| `FieldsAreInitialized` | `FieldsInitialized`, under `ValuesKnown` |
| `RollbackIsExact` | `RollbackExact` |
| `FieldsAreDisjoint` | `FieldsDisjoint` |
| `ReplacedIsGone` | `ReplacedEverywhere` |
| `StackObjectsAreDescribed` | `StackObjectsDescribed` |
| `LockIsExclusive` | `LockExclusive` |
| `RecompilationsBounded` | `compiles <= RecompilationBound`, if every reason is recorded per bytecode and `PerBytecodeTrapLimit <= PerMethodTrapLimit` |
| `RecompilationStops` | `RecompilationEnds` for every `MaxCompiles` above `RecompilationBound`, under the same hypotheses |
| `UsedValuesAreDescribed` | `UsedValuesDescribed` |
| `FrameIsUpdated` | `FrameUpdated` |
| `ChecksAreKept` | `ChecksKept` |
| `RemSetIsComplete` | `RemSetComplete` |
| `MarkingIsComplete` | `MarkingComplete`, under `[]OwnStores` |

**Analysis.** The invariant is `EAInv`. Its key part is `PassInv`: in the
current pass, every object already visited that is still a candidate has only
acceptable referrers and carries the mark if it has any. A visit looks at flags
of other objects, and a demotion changes such a flag; `PassInv` survives because
the demotion sends the pass back to the front, where nothing has been visited.
At the end of a pass everything has been visited, which is `ChainsSafe`.
Maximality needs only that a demoted object was in no closed set of candidates:
its heap referrer would have to be in the set, hence still a candidate. That
listed objects stay candidates (`UniqueTypesCurrent`) rests on `UnmergedInv`:
merging is symmetric, so an object that survives its own adjustment is merged
with nothing, and no later adjustment can touch it.

**Pipeline.** `PipeInv` adds to these: what is placed where implies which flags
(`PlacedInv`); an allocation for which a promise was broken has raised `fail`
(`PromiseInv`); the slots still to be handed out are covered by the estimate
(`RoomInv`, stated with `est`); and `SlotsDisjoint`. `RoomInv` is what makes
the estimate sound although IGVN removes nodes between estimate and expansion:
removal only lowers the demand. `HeapNeverHoldsStack` has two hypotheses,
stated as named assumptions of the theorem and not of the modules:
`PromisesVisible` (`EliminateAllocations` is on, and the result of an allocation
is unused or a CheckCastPP of exact type, so that `split_unique_types` marks
every scalar replaceable Allocate) and `NoCopies` (no references move by arraycopy). Both are
needed: two of the violation runs drop one each.

**Searches.** `Reached(n, from, follow)` says that `n` is in every set closed
under `follow` that contains `from`. The invariant says the visited nodes are
reached and that their successors are visited or on the worklist; when the
worklist is empty the visited set is itself closed. No induction is needed.

**Connection graph.** `PointsToClosed` speaks of the end of the construction only,
and no action establishes it: it holds because a whole pass went by without a new
edge. `CGInv` therefore says that, as long as the current pass has found nothing,
every object the pass has finished with satisfies the closure conditions
(`VisitInv`), and that of the current object the entries already taken from the
worklist do. A new edge makes that void; the pass after it begins again.
`EscapeFinal` needs the same for `find_non_escaped_objects`, whose worklist holds
the nodes whose state has not reached their successors, and that the null values
added last lead to nothing that escapes less. `PointsToIsClosed` has the hypothesis
`CopyDestinationsKnown`: an object that is the destination of an arraycopy through
a variable that points to it from the start is marked as one. The code does not
ensure it; the run `copy_destination` shows what happens then (see 5).

`FieldsInitialized` is about fields for which no pass finds a value.
`find_field_value` gives such a field the unknown object, and `find_init_values` a
null, but each only under conditions, so that a field might fall between them.
`FieldsInv` says what each has done: after the first, a field without any edge is one
of an allocation (`ReasonsInv`); after the second, a field of an allocation that does
not escape has null, unless its store is captured (`NullsInv`); fields of escaping and
unknown objects have the unknown object (`UnknownInv`); and the graph contains the one
it started from, with no new edge from a field to a variable (`StartInv`). Suppose
fields without a value are left at the end. Then the set of nodes that point to
nothing, with the set of nodes that point to null at most, is a pair
that `NeverSet` describes: every one of them is assigned only from others, and every
store to the fields among them goes to null. The hypothesis `LiveStores` says that
there is no such pair. It is a statement about the starting graph alone. The code's
own assertion (`edge_count() > 0`) would accept a field that points to a variable
without objects; the theorem does not.

**Safepoints.** `SPInv` says where the description of each object lies: an interval
of inputs that starts where it was recorded, with the intervals in order. Appending
an input moves none of them, and what `process_users_of_allocation` puts in place of
a result is outside. While `scalar_replacement` is under way, the safepoints that
are done differ from what they were exactly by what the rollback takes out, so that
undoing them one by one gives the old inputs again.

**Locks.** `BLInv` adds to `LockExclusive` what a loaded mark word means when it is
used: it may be out of date, but the compare and swap then fails, except for the
word of a bias that expired or that nobody holds; epochs only grow, so a word of an
older epoch never equals a current one.

**Traps.** Every recompilation must be paid for. One that is counted is limited by
`PerBytecodeRecompilationCutoff`; one that is not was decided by a thread that found
its reason or the recompiled bit missing (`ThreadInv`), and leaves the trap state of
its site one step higher. Without a lock that alone bounds nothing: a thread writes one
step above what it has read, which may be far below what the state has become
meanwhile. But a thread can read a low state only while the state is low. So every
pair of a thread and a site holds tokens (`Share`), the more the lower the state that
the thread has read or could read now, and the prices are such that one write, even
one that loses other threads' updates, pays for what every other pair may then need
again (`WritePaid`). `Purse` counts the tokens; `BudgetInv` says that
`decompile_count`, the tokens and what is left for the first trap of each reason and
for sites without profile data never exceed the `Stock` at the start and what was
counted. The hypotheses: a reason that is not recorded per bytecode is limited
elsewhere, as the comment in `uncommon_trap_inner` says, and a bytecode reaches its
limit before its method does, as the VM's defaults (4 and 100) have it. The bound is far above the number that is reached: TLC shows 10 compilations
to be out of reach in an instance for which `RecompilationBound` is 165.

**Oop maps, as they are built.** `Inv` compares what the pass computes with `held`.
In the liveness phase (`LiveInv`) a block that is not on the worklist has at its start
what the backward walk from its successors gives; a register that is live where the
walk stands is held there (`WalkKnown`, from how values are held over a node and an
edge). The worklist starts at the blocks that leave the method: as the frame pointer
is used by each of them and set only at the start, it makes a block that is reached
from below change at its first visit, and its predecessors follow. Blocks never
visited form a set that is not left, which has a safepoint by assumption, and so the
pass notices and makes another trip over all blocks. In the flow phase (`FlowInv`)
the flow of a block that is done agrees with `held` at its end on every register that
is held there (`FlowKept`), and so with every successor's start except that a Phi of
the successor is still one of its inputs (`FlowFits`): this is why any predecessor will
do. It also says when a flow belongs to its block: as long as a successor waits for
it, which is what handing it on at the last use must respect. `FlowOverBlock` carries
agreement through a block, and `MapRight` says what `build_oop_map` makes of it: a
held register has the entry for its kind, and an entry names what the register holds.
In the run (`RunInv`) a register that is held has the value of its definition, up to
date. `WalkFrom` and `ReachFrom` are recursive functions; that they satisfy their
equations, and the inductions over positions in a block, are proved with the least
element of a set of positions (`WFMin`).

**Oop maps, as they are walked.** `OWInv` has four parts. The flag is on as long as code with stack
objects may be on the stack (`FlagInv`), so that the walk of such a frame never sees it
change. In the walk of a plain frame it may be switched on between any two values, but
no oop that can be reached from there lies in the frame (`IsFrameOf`), so the test of
`all_do` says the same with the flag on and off (`DuringWalk`). The
map found at an offset is the one recorded, although equal maps share one
(`BuildInv`): offsets of different maps differ, and the remembered last and empty
map are in the image. What has been visited has moved and nothing else has
(`OopsInv`): the fields on the stack of `OopClosureWalker` are distinct and belong
to objects already remembered, so that no location is visited twice; an object
pushes its fields only when it is remembered, and fields of different objects are
disjoint. When both are exhausted the visited locations are closed, hence they are
`Reached`. The table holds exactly the derived pointers whose base may move
(`TableInv`), each pointing to its base meanwhile; no base is itself derived, so the
base is final when the pointer is recomputed. At the end of a walk the words lead
to the same stack objects as before, which makes it a frame again (`FrameInv`) and
lets the proof go on over any number of collections.

**Barriers.** `BEInv` says that every stack object whose walk has ended is
`Covered`: it lies in a set of nodes that Phis, casts, loads and stores do not leave
and on which no barrier is registered. Registered barriers only become fewer after
parsing, so what is covered stays covered by later walks and eliminations. That the
covered nodes include every node that may refer to a stack object is a lemma about
`MayRefer` (`StackStaysIn`): take the stack objects away from the least solution
outside the covered set and what is left is still a solution. For a load this needs
the chain verification (an object that holds a stack object is on the stack or
scalar replaced) and that nobody else refers to a scalar replaced object.

**G1.** For the remembered sets `G1Inv` follows one reference from the store buffer
to memory and its card from clean over dirty and queued to refined; its central part
is that a reference between regions whose store has drained has its card queued, in
the hands of the refinement thread, dirtied by a store still buffered, or its thread
before the fence. For marking `MarkInv` says that a reference of the snapshot is known
to the marker (marked or logged), or still in its field, in an object that the marker
has yet to scan (`SnapInv`); that a thread about to overwrite a field has logged what
the snapshot has there (`PendingInv`); and that what the threads hold, store and read
was reachable from known objects in the snapshot (`HeldInv`, `MemoryInv`). Pre barriers are elided for stores to an object the
thread has just allocated, by the stores of that thread alone. The hypothesis
`OwnStores` says that no other thread stores to such an object before: it could if the
reference had been published by a race. See 5.

The named assumptions on constants (`SizesAssumption`, `FlagsAssumption`,
`GraphsAssumption`, `WorklistAssumption`, `FrameAssumption`, `UsesAssumption`,
`ThreadsAssumption`, `SafepointAssumption`, `ConnectionGraphAssumption`,
`G1Assumption`, `BarrierAssumption`, `OopMapAssumption`, `ProgramsAssumption`, `TrapAssumption`) state types and what the code hands over: that
the worklist lists every object, that at most one use of the phi comes first, that a
starting graph is well formed (`IsStart`), that the chains are verified
(`IsBEStart`), how the heap is laid out in cards and regions (`G1Assumption`), that
an oop map lists each location once and stack objects do not overlap
(`OopMapAssumption`). `ProgramsAssumption` says what matching and register allocation
leave to `BuildOopMaps`: each input is in its register when it is read, "every live
value must have the SAME reaching def" over an edge unless a Phi merges it, Phis come
first in a block, the address of a stack object is recomputed and not copied, outgoing
arguments are dead after their call, a derived value has its base among the pairs of
each safepoint, the frame pointer is used by every way out, and a loop that is never
left has a safepoint. TLC evaluates them in the runs.

Only model-checked:

* Liveness (`AnalysisEnds`, `AllDecided`, `CGTerminates`), which is out of the
  prover's reach.
* `LoadsKeepValues`, `FieldValuesRight`, `LocksBalanced`, `DecodedAsRecorded`,
  `FrameRestored`, `ThreadStateRestored`, `DeoptInfoFreed`, `EscapeSound`: their
  modules (`MemoryGraph`, `LoadOptimization`, `UniqueTypes`, `ScalarValue`,
  `LockElimination`, `DebugInfo`, `CompiledVFrame`, `Deoptimization`,
  `GraphConstruction`) have RECURSIVE operators, which follow the recursion of the
  code or run a method.
* `InitializedAsWritten`, `LayoutKeepsFlow`, `BranchesReach`, `TablesMatch`,
  `ScheduleKeepsMeaning`: they compare the result of a finished pass, computed by folds
  and sorts over code of any length, with the result of running that code. Induction
  over positions is possible, as in `BuildOopMap_proofs`, but the operators of the
  library that these passes are written with have no theorems.

## 5. Where the code and its documentation disagree

* `no_eliminate_allocations`. With `-XX:-EliminateAllocations`
  `split_unique_types` does not run, so no Allocate has `_is_scalar_replaceable`
  and `estimate_stack_allocation_size` sees no broken promise, while the chain
  verification accepted a scalar replaceable referrer by the graph's flag. The
  referrer goes to the heap and may hold a stack object.
* `arraycopy_contents`. The chain verification finds referrers by Field nodes. A
  destination of a validated arraycopy without Field nodes of its own is not
  seen. In the counterexample a stack allocated array holds a stack object, and is
  copied into an array of unknown length, which goes to the heap.
* `arraycopy_target`. The JEP rules out reference arrays with an arraycopy use;
  the check looks at an array's uses, where the Arraycopy node is only for a
  source.
* `lifetime_overlap`. The JEP says all uses of the phi are searched; the search
  starts at `raw_out(1)`.
* `lock_regions`. `mark_eliminated_box` says it marks the locks of the same box
  and object, and with `EliminateNestedLocks` marks those of the same box. Copies
  of a lock that loop peeling made share the box: if the peeled one locks an
  object that does not escape, the loop's lock of a shared object is removed with
  it.
* `copy_destination`. `add_java_object_edges` makes an object the destination of an
  arraycopy when a new edge leads from the copy's destination variable to it. A
  variable that points to the object from the start, such as a Phi of two constant
  arrays, has no new edge (`if (!add_edge(use, jobj)) continue;`), so what is copied into the
  constant arrays stays NoEscape. The comments at `escape.cpp:1330` and `:1714` say
  that the destination object is always given its edges.

Each run uses the unchanged modules; the counterexample is TLC's.

One disagreement has no run. `g1_can_remove_pre_barrier` elides the pre barrier when
"no prior store to the same field has happened since the allocation"
(`g1BarrierSetC2.cpp:83`) and looks at the stores of its own thread. If another
thread got the new object by a racy store, it may have put a reference of the
snapshot in the field, which the elided store overwrites unlogged. The instance
of `runtime` has no such step; the theorem excludes it by `OwnStores`.

## 6. What is left out

Analysis and pipeline:

* The content of the ideal graph in the pipeline: its effects are the free
  choices named above. Allocations cloned by loop optimisations between the two
  phases.
* The composition of `ConnectionGraph` with the analysis: the analysis takes any
  well formed graph. The node limit of escape analysis.
* `GraphConstruction`: thread locals, fields of primitive type, string
  intrinsics, nodes of single collectors; each allocation runs once. A null in a
  captured location is not observed before its initializing store. A validated
  arraycopy that shifts elements between constant indices is not followed, because
  `add_fields_to_worklist` matches offsets (`escape.cpp:1747`): `EscapeSound` does
  not hold for such a method. The instances copy between the same or unknown
  offsets.

Ideal graph:

* Dead code, boxed values, raw accesses of mixed size outside `InitializeNode`,
  `clonebasic`, allocations in loops, retries at parse time; accesses in
  `MemoryGraph` are one unit wide.
* `UniqueTypes`: LoadStores and string intrinsics on a memory chain, barriers of
  one slice, types of dead paths, and the failure when `unique_java_object` has no
  answer.
* `InitializeNode`: objects whose TLAB is zeroed are on the heap. The code skips
  the zeroing under `ZeroTLAB` for stack objects as well (`macro.cpp:1454`,
  `memnode.cpp:4205`); no run is about it.
* `ScalarValue`: loads from the source of an arraycopy are pinned at an uncommon
  trap with the trap's memory; instances trap right after the copy. The inner
  `alloc` of `scan_mem_chain` shadows the searched one; instances only clear the
  searched object. Value Phis that a failed search leaves behind are not removed.
* `LockElimination`: copies of regions. A nested region that is coarsened with a
  cloned one in the same outer lock loses balance in the same way as
  `lock_regions`; the passing instances leave both out. `LockExpansion`: age bits,
  wrap around of epochs; FastLock and the runtime are external.

Debug information, deoptimization, run time:

* LP64 without narrow oop locations. The recorder of debug information,
  `vframeArray`, the interpreter and the compile policy are external. The
  collector in `Deoptimization` matters only for the result register.
* `monitors()` does not redirect an owner that is a location with a stack
  address; instances have heap oops there. Traps in inlined callees.
* G1's refinement and marking, store buffers (TSO) and register allocation are
  external. Scalar replaced objects are not merged, stored or read in the
  barrier instances. In the marking part stack objects hold heap references
  only, and an elided pre barrier is judged by the thread's own stores.

Back end:

* Frequencies are small numbers (`GuardFactor` 8 stands for 9500); connectors are
  abstracted; scheduling before emission swaps two neighbours. The node picked by
  `Scheduling` is any available one except that a branch comes first; register
  pairs' halves and blocks that end in a poll are left out.

The components marked not modelled in `PROJECT.json`: `loopnode.cpp`, touched in
one check; `ArrayList` and `Matcher`, whose change only makes an array length
constant; the other proposals, which are documents.

## 7. Plan

1. Modelled and checked: all the components above; none of the passes the change
   touches in more than a few lines is left.
2. Proved: the analysis, the pipeline, the searches over uses, connection graph
   construction, the inputs of safepoints, the code of locks, the elimination of
   barriers, G1's barriers, the construction of oop maps, the walk over a frame with
   stack objects, and that traps and recompilations end.
3. Proofs that could come next: `BranchesReach` of `CodeEmission`, with the sizes of
   blocks as recursive functions instead of folds.
4. If there is room: the composition of `ConnectionGraph` with the analysis.
