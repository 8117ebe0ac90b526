-------------------- MODULE StackAllocationPipeline_proofs --------------------
(***************************************************************************)
(* Proofs about StackAllocationPipeline for every number of objects, every *)
(* connection graph and every frame size.                                  *)
(*                                                                         *)
(* PipeInv needs no hypothesis. It says what the estimate has established  *)
(* when it raised no alarm: every allocation still on the macro list can   *)
(* keep its promise (PromiseInv), and there is room in the frame for all   *)
(* of those not expanded yet (RoomInv). The safety of references also      *)
(* needs the promises to be visible to macro expansion (ListedInv), which  *)
(* is where the hypotheses PromisesVisible and NoCopies come in: the runs  *)
(* no_eliminate_allocations and arraycopy_contents show both are needed.   *)
(***************************************************************************)
EXTENDS StackAllocationPipeline, StackAllocationAnalysis_proofs,
        SequenceTheorems

\* Every scalar replaceable allocation gets its mark on the Allocate node:
\* split_unique_types runs, and result types are exact.
PromisesVisible ==
  /\ EliminateAllocations
  /\ \A g \in Graphs : \A o \in Obj : g.kind[o] # "CallStaticJava" =>
       g.result[o] = "none" \/ (g.result[o] = "cast" /\ g.exact[o])

\* References reach other objects through Field nodes only.
NoCopies == \A g \in Graphs : g.copies = {}

\* The phases of macro expansion; those in which objects get their place.
MXPhases == {"eliminate", "estimate", "expand", "expanded", "abandoned"}
Placing  == {"expand", "expanded", "abandoned"}

\* What a placement says about the flags. A heap object that was meant for
\* the stack or for scalars has raised the alarm, and then no object that
\* others refer to is on the stack.
PlacedInv ==
  /\ phase \notin MXPhases => \A o \in Obj : placed[o] = "macro"
  /\ phase \notin Placing => \A o \in Obj :
       placed[o] # "stack" /\ (placed[o] = "heap" => ~IsAllocate(o))
  /\ \A o \in Obj : placed[o] = "stack" => sa[o] /\ (fail => ~ref[o])
  /\ \A o \in Obj : placed[o] = "heap" /\ IsAllocate(o) /\ ~fail =>
       ~sa[o] /\ ~nodeSR[o]

\* Without an alarm, the allocations estimated so far can be what they were
\* promised to be; later only their result may die.
PromiseInv ==
  /\ phase = "estimate" => \A i \in (idx + 1)..N :
       placed[i] = "macro" /\ ~fail => ~PromiseBroken(i)
  /\ phase = "expand" => \A i \in Obj :
       placed[i] = "macro" /\ ~fail /\ result[i] # "none" => ~PromiseBroken(i)

\* The estimate of node i is the estimate of the one before it, plus the
\* slots of i if i is still to be put on the stack.
EstimateOK(i) ==
  /\ est[i + 1] <= est[i] /\ est[i] <= stack_allocated_slots
  /\ placed[i] = "macro" /\ sa[i] /\ ~fail => est[i] = est[i + 1] + Slots(i)

\* Without an alarm, what is left of the estimate fits above fixed_slots.
RoomInv ==
  /\ est[N + 1] = 0
  /\ phase \notin {"estimate", "expand", "expanded", "abandoned"} =>
       stack_allocated_slots = 0
  /\ phase = "estimate" =>
       /\ est[idx + 1] = stack_allocated_slots
       /\ \A i \in (idx + 1)..N : EstimateOK(i)
  /\ phase = "expand" =>
       /\ \A i \in Obj : EstimateOK(i)
       /\ ~fail => Representable(fixed_slots
                                 + (stack_allocated_slots - est[idx + 1]))

PipeInv ==
  TypeOK /\ EAInv /\ PlacedInv /\ PromiseInv /\ RoomInv /\ SlotsDisjoint

Listed(o) == \E i \in 1..Len(alloc_worklist) : alloc_worklist[i] = o

\* A flag set in the graph is on the node, or the object still waits for it on
\* alloc_worklist.
ListedInv ==
  /\ cg \in Graphs
  /\ phase = "adjust" => \A i \in 1..(next - 1) :
       sr[Worklist[i]] => cg.esc[Worklist[i]] = NoEscape /\ Listed(Worklist[i])
  /\ phase \in {"eligible", "verify"} => \A o \in Obj :
       sr[o] => cg.esc[o] = NoEscape /\ Listed(o)
  /\ phase = "unique" => \A o \in Obj :
       sr[o] => cg.esc[o] = NoEscape
                /\ (Listed(o) \/ ~IsAllocate(o) \/ nodeSR[o])
  /\ phase \in MXPhases => \A o \in Obj : sr[o] /\ IsAllocate(o) => nodeSR[o]

-----------------------------------------------------------------------------
\* Macro expansion changes neither the graph nor the flags, and stays in its
\* own phases.
LEMMA MXStable ==
  ASSUME MXNext
  PROVE  /\ UNCHANGED <<cg, sr, nonEsc, nodeSR, sa, ref>>
         /\ phase \in {"eliminate", "estimate", "expand"}
         /\ phase' \in MXPhases
         /\ \A o \in Obj : Slots(o)' = Slots(o)
         /\ \A o \in Obj : IsAllocate(o)' = IsAllocate(o)
<1>1. UNCHANGED <<cg, sr, nonEsc, nodeSR, sa, ref>>
  BY DEF MXNext, NodeDies, ResultDies, EliminateAllocateNode, EndEliminate,
     Estimate, EndEstimate, StackAllocation, ExpandAllocate, SkipGone,
     EndExpand, OutOfNodes, flagVars
<1>2. phase \in {"eliminate", "estimate", "expand"} /\ phase' \in MXPhases
  BY DEF MXNext, NodeDies, ResultDies, EliminateAllocateNode, EndEliminate,
     Estimate, EndEstimate, StackAllocation, ExpandAllocate, SkipGone,
     EndExpand, OutOfNodes, MXPhases
<1> QED BY <1>1, <1>2 DEF Slots, IsAllocate

\* Escape analysis ends before macro expansion begins, and does not place.
LEMMA EAStable ==
  ASSUME EANext
  PROVE  /\ cg' = cg
         /\ phase \notin MXPhases /\ phase \in {"adjust", "eligible", "verify", "unique"}
         /\ phase' \in {"adjust", "eligible", "verify", "unique", "retry", "eliminate"}
BY DEF EANext, AdjustScalarReplaceable, EndAdjust, FindEligible, EndEligible,
   VerifySkip, VerifyKeep, VerifyDemote, EndVerify, SplitOne, EndSplit,
   SplitFails, MXPhases

\* EAInv survives macro expansion.
LEMMA EAInvUnderMX ==
  ASSUME EAInv, MXNext, UNCHANGED eaLocal
  PROVE  EAInv'
<1>1. /\ UNCHANGED <<cg, sr, nonEsc, nodeSR, sa, ref, next, alloc_worklist>>
      /\ phase \in {"eliminate", "estimate", "expand"}
      /\ phase' \in MXPhases
  BY MXStable DEF eaLocal
<1>2. /\ Candidates' = Candidates
      /\ StackAllocationEnabled' = StackAllocationEnabled
  BY <1>1 DEF Candidates, IsAllocate, EligibleForStackAllocation,
     AllUsesEligible, FieldUses, StackAllocationEnabled
<1>3. \A o \in Obj : Referrers(o)' = Referrers(o) /\ (IsAllocate(o)' <=> IsAllocate(o))
  BY <1>1 DEF Referrers, PointsTo, IsAllocate
<1>4. \A o \in Obj : \A b \in Referrers(o) : b \in Obj
  BY DEF Referrers
<1>5. EATypeOK'
  BY <1>1 DEF EAInv, EATypeOK, MXPhases, Phases
<1>6. CandidatesInv' /\ MarksInv' /\ EscapeInv' /\ UniqueTypesCurrent'
  <2>1. CandidatesInv' /\ MarksInv' /\ EscapeInv'
    BY <1>1, <1>2, <1>3 DEF EAInv, CandidatesInv, MarksInv, EscapeInv, MXPhases
  <2> QED BY <1>1, <2>1 DEF EAInv, UniqueTypesCurrent
<1>7. PassInv'
  BY <1>1, <1>3, <1>4 DEF EAInv, PassInv, ChainOK, Verified, MXPhases
<1>8. KeptInv'
  <2>1. \A S \in SUBSET Candidates : ClosedChain(S)' <=> ClosedChain(S)
    BY <1>1, <1>3 DEF ClosedChain, Candidates, Referrers
  <2> QED BY <1>1, <1>2, <2>1 DEF EAInv, KeptInv, Verified, MXPhases
<1>9. UnmergedInv'
  <2>1. \A i \in 1..Len(alloc_worklist) : alloc_worklist[i] \in Obj
    BY DEF EAInv, EATypeOK
  <2>2. \A o \in Obj : Unmerged(o)' = Unmerged(o)
    BY <1>1, UnmergedStable
  <2> QED BY <1>1, <2>1, <2>2 DEF EAInv, UnmergedInv
<1> QED BY <1>5, <1>6, <1>7, <1>8, <1>9 DEF EAInv

\* A stack candidate has a known size, hence a number of slots.
LEMMA SlotsOfCandidate ==
  ASSUME cg \in GraphType, NEW o \in Obj, cg.size[o] # -1
  PROVE  Slots(o) \in Nat
<1>1. cg.size[o] \in Nat
  BY GraphTyping
<1> QED BY <1>1 DEF Slots

-----------------------------------------------------------------------------
\* The type invariant is inductive.
LEMMA TypeInductive ==
  ASSUME TypeOK, EAInv, [Next]_vars, EAInv' PROVE TypeOK'
<1> USE SizesAssumption, FrameAssumption DEF TypeOK
<1>0. EATypeOK'
  BY DEF EAInv
<1>1. CASE EANext /\ UNCHANGED mxVars
  BY <1>0, <1>1 DEF mxVars
<1>2. CASE MXNext /\ UNCHANGED eaLocal
  <2>1. ASSUME NEW o \in Obj, NodeDies(o) PROVE TypeOK'
    BY <1>0, <2>1 DEF NodeDies, Places
  <2>2. ASSUME NEW o \in Obj, ResultDies(o) PROVE TypeOK'
    BY <1>0, <2>2 DEF ResultDies
  <2>3. ASSUME NEW o \in Obj, EliminateAllocateNode(o) PROVE TypeOK'
    BY <1>0, <2>3 DEF EliminateAllocateNode, Places
  <2>4. CASE EndEliminate
    <3>1. placed' \in [Obj -> Places]
      BY <2>4 DEF EndEliminate, Places
    <3> QED BY <1>0, <2>4, <3>1 DEF EndEliminate
  <2>5. CASE Estimate
    <3>1. idx \in Obj
      BY <2>5 DEF Estimate, Obj
    <3>2. sa[idx] /\ ~PromiseBroken(idx) => Slots(idx) \in Nat
      BY <3>1, SlotsOfCandidate DEF PromiseBroken, CanStackAllocate, EATypeOK
    <3>6. PromiseBroken(idx) \in BOOLEAN
      BY DEF PromiseBroken
    <3>7. fail' \in BOOLEAN
      BY <2>5, <3>6 DEF Estimate
    <3>3. stack_allocated_slots' \in Nat
      BY <2>5, <3>2, <3>6 DEF Estimate
    <3>4. est' \in [1..(N + 1) -> Nat]
      BY <2>5, <3>3 DEF Estimate
    <3>5. idx' \in 0..N
      BY <2>5 DEF Estimate
    <3> QED BY <1>0, <2>5, <3>3, <3>4, <3>5, <3>7 DEF Estimate
  <2>6. CASE EndEstimate
    <3>1. fail' \in BOOLEAN
      BY <2>6 DEF EndEstimate, Representable
    <3> QED BY <1>0, <2>6, <3>1 DEF EndEstimate
  <2>7. CASE StackAllocation
    <3>1. idx \in Obj
      BY <2>7 DEF StackAllocation, Obj
    <3>2. Slots(idx) \in Nat
      BY <2>7, <3>1, SlotsOfCandidate DEF StackAllocation, RefusesStack,
         CanStackAllocate, EATypeOK
    <3>3. fixed_slots' \in Nat /\ idx' \in 0..N
      BY <2>7, <3>2 DEF StackAllocation
    <3>4. placed' \in [Obj -> Places] /\ slot' \in [Obj -> Nat \cup {-1}]
      BY <2>7 DEF StackAllocation, Places
    <3> QED BY <1>0, <2>7, <3>3, <3>4 DEF StackAllocation
  <2>8. CASE ExpandAllocate
    <3>1. PICK p \in {"removed", "heap"} : placed' = [placed EXCEPT ![idx] = p]
      BY <2>8 DEF ExpandAllocate
    <3>2. placed' \in [Obj -> Places]
      BY <3>1 DEF Places
    <3> QED BY <1>0, <2>8, <3>2 DEF ExpandAllocate
  <2>9. CASE SkipGone
    BY <1>0, <2>9 DEF SkipGone
  <2>10. CASE EndExpand
    BY <1>0, <2>10 DEF EndExpand, mxVars
  <2>11. CASE OutOfNodes
    BY <1>0, <2>11 DEF OutOfNodes, mxVars
  <2> QED
    BY <1>2, <2>1, <2>2, <2>3, <2>4, <2>5, <2>6, <2>7, <2>8, <2>9, <2>10,
       <2>11 DEF MXNext
<1>3. CASE UNCHANGED vars
  BY <1>0, <1>3 DEF vars
<1> QED BY <1>1, <1>2, <1>3 DEF Next

\* What each conjunct needs to know of a step of escape analysis.
LEMMA EAStepPlacement ==
  ASSUME PipeInv, EANext, UNCHANGED mxVars
  PROVE  PlacedInv' /\ PromiseInv' /\ RoomInv' /\ SlotsDisjoint'
<1>1. \A o \in Obj : placed'[o] = "macro"
  BY EAStable DEF PipeInv, PlacedInv, mxVars
<1>2. phase' \notin Placing /\ phase' # "estimate"
  BY EAStable DEF Placing
<1>3. PlacedInv'
  BY <1>1, <1>2 DEF PlacedInv
<1>4. PromiseInv'
  BY <1>2 DEF PromiseInv, Placing
<1>5. RoomInv'
  BY <1>2, EAStable DEF PipeInv, RoomInv, Placing, MXPhases, mxVars
<1>6. SlotsDisjoint'
  BY <1>1 DEF SlotsDisjoint
<1> QED BY <1>3, <1>4, <1>5, <1>6

\* Placements follow the flags: the step that matters is the one that sends an
\* allocation to the heap. Without an alarm it can keep its promise, and there
\* is room for it, so it was promised nothing.
LEMMA PlacedInductive ==
  ASSUME PipeInv, MXNext PROVE PlacedInv'
<1> USE MXStable DEF PipeInv, TypeOK, PlacedInv
<1>0. phase' \in MXPhases
  OBVIOUS
<1>1. ASSUME NEW o \in Obj, NodeDies(o) PROVE PlacedInv'
  BY <1>0, <1>1 DEF NodeDies
<1>2. ASSUME NEW o \in Obj, ResultDies(o) PROVE PlacedInv'
  BY <1>0, <1>2 DEF ResultDies
<1>3. ASSUME NEW o \in Obj, EliminateAllocateNode(o) PROVE PlacedInv'
  BY <1>0, <1>3 DEF EliminateAllocateNode
<1>4. CASE EndEliminate
  <2>1. phase = "eliminate" /\ phase' = "estimate" /\ UNCHANGED fail
    BY <1>4 DEF EndEliminate
  <2>2. \A o \in Obj : placed[o] # "stack" /\ (placed[o] = "heap" => ~IsAllocate(o))
    BY <2>1 DEF Placing
  <2>3. \A o \in Obj : placed'[o] # "stack" /\ (placed'[o] = "heap" => ~IsAllocate(o))
    BY <1>4, <2>2 DEF EndEliminate
  <2> QED BY <1>0, <2>1, <2>3
<1>5. CASE Estimate \/ EndEstimate
  <2>1. phase = "estimate" /\ UNCHANGED placed
    BY <1>5 DEF Estimate, EndEstimate
  <2>2. \A o \in Obj : placed[o] # "stack" /\ (placed[o] = "heap" => ~IsAllocate(o))
    BY <2>1 DEF Placing
  <2> QED BY <1>0, <2>1, <2>2
<1>6. CASE StackAllocation
  <2>1. idx \in Obj
    BY <1>6, SizesAssumption DEF StackAllocation, Obj
  <2>2. sa[idx] /\ (fail => ~ref[idx])
    BY <1>6 DEF StackAllocation, RefusesStack, CanStackAllocate
  <2>3. phase = "expand" /\ phase' = "expand" /\ UNCHANGED fail
    BY <1>6 DEF StackAllocation
  <2>4. placed'[idx] \in {"stack", "removed"}
    BY <1>6, <2>1 DEF StackAllocation
  <2>5. \A o \in Obj \ {idx} : placed'[o] = placed[o]
    BY <1>6 DEF StackAllocation
  <2> QED BY <1>0, <2>1, <2>2, <2>3, <2>4, <2>5 DEF Placing
<1>7. CASE ExpandAllocate
  <2>1. idx \in Obj
    BY <1>7, SizesAssumption DEF ExpandAllocate, Obj
  <2>2. phase = "expand" /\ phase' = "expand" /\ UNCHANGED fail
    BY <1>7 DEF ExpandAllocate
  <2>3. \A o \in Obj \ {idx} : placed'[o] = placed[o]
    BY <1>7 DEF ExpandAllocate
  <2>4. placed'[idx] = IF result[idx] = "none" THEN "removed" ELSE "heap"
    BY <1>7, <2>1 DEF ExpandAllocate
  <2>5. ASSUME result[idx] # "none", ~fail PROVE ~sa[idx] /\ ~nodeSR[idx]
    <3>1. ~PromiseBroken(idx)
      BY <1>7, <2>1, <2>5 DEF ExpandAllocate, PromiseInv
    <3>2. ASSUME sa[idx] PROVE FALSE
      <4>1. CanStackAllocate(idx)
        BY <3>1, <3>2 DEF PromiseBroken
      <4>2. Slots(idx) \in Nat
        BY <2>1, <4>1, SlotsOfCandidate DEF CanStackAllocate, EATypeOK
      <4>3. est[idx] = est[idx + 1] + Slots(idx) /\ est[idx] <= stack_allocated_slots
        BY <1>7, <2>1, <2>5, <3>2 DEF ExpandAllocate, RoomInv, EstimateOK
      <4>4. Representable(fixed_slots + (stack_allocated_slots - est[idx + 1]))
        BY <1>7, <2>5 DEF ExpandAllocate, RoomInv
      <4>5. idx + 1 \in 1..(N + 1) /\ idx \in 1..(N + 1)
        BY <2>1, SizesAssumption DEF Obj
      <4>6. est[idx + 1] \in Nat /\ est[idx] \in Nat
        BY <4>5
      <4>7. Representable(fixed_slots + Slots(idx))
        BY <4>2, <4>3, <4>4, <4>6, FrameAssumption DEF Representable
      <4> QED BY <1>7, <2>5, <4>1, <4>7 DEF ExpandAllocate, RefusesStack
    <3> QED BY <3>1, <3>2 DEF PromiseBroken
  <2> QED BY <1>0, <2>1, <2>2, <2>3, <2>4, <2>5 DEF Placing
<1>8. CASE SkipGone \/ EndExpand \/ OutOfNodes
  <2>1. UNCHANGED <<placed, fail>> /\ phase = "expand" /\ phase' \in Placing
    BY <1>8 DEF SkipGone, EndExpand, OutOfNodes, mxVars, Placing
  <2> QED BY <1>0, <2>1 DEF Placing
<1> QED
  BY <1>1, <1>2, <1>3, <1>4, <1>5, <1>6, <1>7, <1>8 DEF MXNext

\* After the estimate only a result that dies can break a promise.
LEMMA PromiseInductive ==
  ASSUME PipeInv, MXNext PROVE PromiseInv'
<1> USE MXStable, SizesAssumption DEF PipeInv, TypeOK, PromiseInv
<1>0. \A i \in Obj : result'[i] = result[i] => (PromiseBroken(i)' <=> PromiseBroken(i))
  BY DEF PromiseBroken, CanStackAllocate
<1>1. ASSUME NEW o \in Obj, NodeDies(o) PROVE PromiseInv'
  BY <1>0, <1>1 DEF NodeDies
<1>2. ASSUME NEW o \in Obj, ResultDies(o) PROVE PromiseInv'
  <2>1. \A i \in Obj \ {o} : result'[i] = result[i]
    BY <1>2 DEF ResultDies
  <2>2. result'[o] = "none" /\ UNCHANGED <<placed, fail, phase>> /\ phase # "estimate"
    BY <1>2 DEF ResultDies
  <2> QED BY <1>0, <2>1, <2>2
<1>3. CASE EndEliminate
  BY <1>3 DEF EndEliminate
<1>4. CASE Estimate
  <2>1. idx \in Obj
    BY <1>4 DEF Estimate, Obj
  <2>2. UNCHANGED <<placed, result, phase>> /\ phase = "estimate" /\ idx' = idx - 1
    BY <1>4 DEF Estimate
  <2>3. ~fail' => ~fail /\ (placed[idx] = "macro" => ~PromiseBroken(idx))
    BY <1>4 DEF Estimate
  <2>4. ASSUME NEW i \in idx..N, placed[i] = "macro", ~fail'
        PROVE  ~PromiseBroken(i)
    <3>1. CASE i = idx
      BY <3>1, <2>3, <2>4
    <3>2. CASE i # idx
      <4>1. i \in (idx + 1)..N
        BY <3>2, <2>1 DEF Obj
      <4> QED BY <4>1, <2>2, <2>3, <2>4
    <3> QED BY <3>1, <3>2
  <2>5. \A i \in idx..N : i \in Obj
    BY <2>1 DEF Obj
  <2>6. (idx' + 1)..N = idx..N
    BY <2>1, <2>2 DEF Obj
  <2> QED BY <1>0, <2>2, <2>4, <2>5, <2>6
<1>5. CASE EndEstimate
  <2>1. \A i \in Obj : placed[i] = "macro" /\ ~fail => ~PromiseBroken(i)
    BY <1>5 DEF EndEstimate, Obj
  <2>2. phase' = "expand" /\ UNCHANGED <<placed, result>> /\ (~fail' => ~fail)
    BY <1>5 DEF EndEstimate
  <2> QED BY <1>0, <2>1, <2>2
<1>6. CASE StackAllocation
  <2>1. idx \in Obj
    BY <1>6 DEF StackAllocation, Obj
  <2>2. UNCHANGED <<phase, result, fail>> /\ phase = "expand"
    BY <1>6 DEF StackAllocation
  <2>3. \A i \in Obj : placed'[i] = "macro" => placed[i] = "macro"
    BY <1>6 DEF StackAllocation
  <2> QED BY <1>0, <2>2, <2>3
<1>7. CASE ExpandAllocate
  <2>1. idx \in Obj
    BY <1>7 DEF ExpandAllocate, Obj
  <2>2. UNCHANGED <<phase, result, fail>> /\ phase = "expand"
    BY <1>7 DEF ExpandAllocate
  <2>3. \A i \in Obj : placed'[i] = "macro" => placed[i] = "macro"
    BY <1>7 DEF ExpandAllocate
  <2> QED BY <1>0, <2>2, <2>3
<1>8. CASE SkipGone \/ EndExpand \/ OutOfNodes
  <2>1. UNCHANGED <<result, placed, fail>> /\ phase = "expand" /\ phase' # "estimate"
    BY <1>8 DEF SkipGone, EndExpand, OutOfNodes, mxVars
  <2> QED BY <1>0, <2>1
<1>9. ASSUME NEW o \in Obj, EliminateAllocateNode(o) PROVE PromiseInv'
  BY <1>9 DEF EliminateAllocateNode
<1> QED
  BY <1>1, <1>2, <1>3, <1>4, <1>5, <1>6, <1>7, <1>8, <1>9 DEF MXNext

\* The room set aside by the estimate is used up by what it was set aside for.
LEMMA RoomInductive ==
  ASSUME PipeInv, MXNext PROVE RoomInv'
<1> USE MXStable, SizesAssumption, FrameAssumption DEF PipeInv, TypeOK, RoomInv
<1> DEFINE Undisturbed ==
      /\ UNCHANGED <<est, stack_allocated_slots, fail>>
      /\ \A i \in Obj : placed'[i] = "macro" => placed[i] = "macro"
<1>0. ASSUME Undisturbed, NEW i \in Obj, EstimateOK(i) PROVE EstimateOK(i)'
  BY <1>0 DEF EstimateOK
<1>1. ASSUME NEW o \in Obj, NodeDies(o) PROVE RoomInv'
  <2>1. Undisturbed
    BY <1>1 DEF NodeDies
  <2>2. UNCHANGED <<phase, idx, fixed_slots>> /\ phase # "estimate"
    BY <1>1 DEF NodeDies
  <2> QED BY <1>0, <2>1, <2>2 DEF Representable
<1>2. ASSUME NEW o \in Obj, ResultDies(o) PROVE RoomInv'
  <2>1. Undisturbed
    BY <1>2 DEF ResultDies
  <2>2. UNCHANGED <<phase, idx, fixed_slots>> /\ phase # "estimate"
    BY <1>2 DEF ResultDies
  <2> QED BY <1>0, <2>1, <2>2 DEF Representable
<1>3. ASSUME NEW o \in Obj, EliminateAllocateNode(o) PROVE RoomInv'
  BY <1>3 DEF EliminateAllocateNode
<1>4. CASE EndEliminate
  BY <1>4 DEF EndEliminate
<1>5. CASE Estimate
  <2>1. idx \in Obj /\ idx \in 1..N /\ idx \in 1..(N + 1) /\ idx + 1 \in 1..(N + 1)
    BY <1>5 DEF Estimate, Obj
  <2>2. UNCHANGED <<placed, phase>> /\ phase = "estimate" /\ idx' = idx - 1
    BY <1>5 DEF Estimate
  <2>3. est'[idx] = stack_allocated_slots'
    BY <1>5, <2>1 DEF Estimate
  <2>4. \A i \in 1..(N + 1) : i # idx => est'[i] = est[i]
    BY <1>5 DEF Estimate
  <2>5. (placed[idx] = "macro" /\ sa[idx] /\ ~PromiseBroken(idx)) => Slots(idx) \in Nat
    BY <2>1, SlotsOfCandidate DEF PromiseBroken, CanStackAllocate, EATypeOK
  <2>6. /\ stack_allocated_slots' >= stack_allocated_slots
        /\ stack_allocated_slots' \in Nat
        /\ placed[idx] = "macro" /\ sa[idx] /\ ~fail' =>
             stack_allocated_slots' = stack_allocated_slots + Slots(idx)
    <3>1. CASE placed[idx] = "macro" /\ sa[idx] /\ ~PromiseBroken(idx)
      <4>1. stack_allocated_slots' = stack_allocated_slots + Slots(idx)
        BY <1>5, <3>1 DEF Estimate
      <4> QED BY <2>5, <3>1, <4>1
    <3>2. CASE ~(placed[idx] = "macro" /\ sa[idx] /\ ~PromiseBroken(idx))
      <4>1. stack_allocated_slots' = stack_allocated_slots
        BY <1>5, <3>2 DEF Estimate
      <4>2. placed[idx] = "macro" /\ sa[idx] => fail'
        BY <1>5, <3>2 DEF Estimate
      <4> QED BY <4>1, <4>2
    <3> QED BY <3>1, <3>2
  <2>7. ~fail' => ~fail
    BY <1>5 DEF Estimate
  <2>8. est[idx + 1] = stack_allocated_slots
    BY <2>2
  <2>9. ASSUME NEW i \in idx..N PROVE EstimateOK(i)'
    <3>1. CASE i = idx
      <4>1. est'[i + 1] = stack_allocated_slots
        BY <3>1, <2>1, <2>4, <2>8
      <4>2. est'[i] = stack_allocated_slots'
        BY <3>1, <2>3
      <4> QED BY <3>1, <4>1, <4>2, <2>1, <2>2, <2>6 DEF EstimateOK
    <3>2. CASE i # idx
      <4>1. i \in (idx + 1)..N /\ i \in Obj /\ i \in 1..(N + 1) /\ i + 1 \in 1..(N + 1)
        BY <3>2, <2>1 DEF Obj
      <4>2. EstimateOK(i)
        BY <4>1, <2>2
      <4>3. est'[i] = est[i] /\ est'[i + 1] = est[i + 1]
        BY <4>1, <3>2, <2>1, <2>4
      <4>4. est[i] \in Nat
        BY <4>1
      <4> QED BY <4>1, <4>2, <4>3, <4>4, <2>2, <2>6, <2>7 DEF EstimateOK
    <3> QED BY <3>1, <3>2
  <2>10. est'[N + 1] = 0
    BY <2>1, <2>4
  <2>11. idx' + 1 = idx
    BY <2>1, <2>2
  <2> QED BY <2>2, <2>3, <2>9, <2>10, <2>11
<1>6. CASE EndEstimate
  <2>1. /\ phase = "estimate" /\ phase' = "expand" /\ idx = 0 /\ idx' = N
        /\ UNCHANGED <<est, stack_allocated_slots, placed, fixed_slots>>
        /\ ~fail' => ~fail /\ Representable(fixed_slots + stack_allocated_slots)
    BY <1>6 DEF EndEstimate
  <2>2. \A i \in Obj : EstimateOK(i)
    BY <2>1 DEF Obj
  <2>3. \A i \in Obj : EstimateOK(i)'
    BY <2>1, <2>2 DEF EstimateOK
  <2>4. ~fail' => Representable(fixed_slots + (stack_allocated_slots - est[N + 1]))'
    BY <2>1 DEF Representable
  <2> QED BY <2>1, <2>3, <2>4
<1>7. CASE StackAllocation
  <2>1. idx \in Obj /\ idx \in 1..(N + 1) /\ idx + 1 \in 1..(N + 1)
    BY <1>7 DEF StackAllocation, Obj
  <2>2. Undisturbed
    BY <1>7, <2>1 DEF StackAllocation
  <2>3. /\ phase = "expand" /\ phase' = "expand" /\ idx' = idx - 1
        /\ fixed_slots' = fixed_slots + Slots(idx)
        /\ placed[idx] = "macro"
    BY <1>7 DEF StackAllocation
  <2>4. sa[idx] /\ cg.size[idx] # -1
    BY <1>7 DEF StackAllocation, RefusesStack, CanStackAllocate
  <2>5. Slots(idx) \in Nat
    BY <2>1, <2>4, SlotsOfCandidate DEF EATypeOK
  <2>6. ASSUME ~fail
        PROVE  fixed_slots' + (stack_allocated_slots - est[idx])
               = fixed_slots + (stack_allocated_slots - est[idx + 1])
    <3>1. est[idx] = est[idx + 1] + Slots(idx)
      BY <2>1, <2>3, <2>4, <2>6 DEF EstimateOK
    <3>2. est[idx] \in Nat /\ est[idx + 1] \in Nat
      BY <2>1
    <3> QED BY <2>3, <2>5, <3>1, <3>2
  <2>7. idx' + 1 = idx
    BY <2>1, <2>3
  <2>8. ~fail' => Representable(fixed_slots + (stack_allocated_slots - est[idx + 1]))'
    BY <2>2, <2>3, <2>6, <2>7 DEF Representable
  <2> QED BY <1>0, <2>2, <2>3, <2>8
<1>8. CASE ExpandAllocate \/ SkipGone
  <2>1. idx \in Obj /\ idx \in 1..(N + 1) /\ idx + 1 \in 1..(N + 1)
    BY <1>8 DEF ExpandAllocate, SkipGone, Obj
  <2>2. Undisturbed
    BY <1>8, <2>1 DEF ExpandAllocate, SkipGone
  <2>3. /\ phase = "expand" /\ phase' = "expand" /\ idx' = idx - 1
        /\ fixed_slots' = fixed_slots
    BY <1>8 DEF ExpandAllocate, SkipGone
  <2>4. est[idx + 1] <= est[idx] /\ est[idx] \in Nat /\ est[idx + 1] \in Nat
    BY <2>1, <2>3 DEF EstimateOK
  <2>5. idx' + 1 = idx
    BY <2>1, <2>3
  <2>6. ~fail' => Representable(fixed_slots + (stack_allocated_slots - est[idx + 1]))'
    BY <2>2, <2>3, <2>4, <2>5 DEF Representable
  <2> QED BY <1>0, <2>2, <2>3, <2>6
<1>9. CASE EndExpand \/ OutOfNodes
  BY <1>9 DEF EndExpand, OutOfNodes, mxVars
<1> QED
  BY <1>1, <1>2, <1>3, <1>4, <1>5, <1>6, <1>7, <1>8, <1>9 DEF MXNext

\* The high water mark keeps the stack objects apart.
LEMMA SlotsInductive ==
  ASSUME PipeInv, MXNext PROVE SlotsDisjoint'
<1> USE MXStable DEF PipeInv, TypeOK
<1>1. CASE StackAllocation
  <2> USE SizesAssumption, FrameAssumption
  <2>1. idx \in Obj
    BY <1>1 DEF StackAllocation, Obj
  <2>2. cg.size[idx] # -1 /\ Representable(fixed_slots + Slots(idx))
    BY <1>1 DEF StackAllocation, RefusesStack, CanStackAllocate
  <2>3. Slots(idx) \in Nat
    BY <2>1, <2>2, SlotsOfCandidate DEF EATypeOK
  <2>4. \A o \in Obj : placed[o] = "stack" => Slots(o) \in Nat
    <3> SUFFICES ASSUME NEW o \in Obj, placed[o] = "stack"
                 PROVE  Slots(o) \in Nat
      OBVIOUS
    <3>1. cg.size[o] # -1
      BY DEF PlacedInv, EAInv, CandidatesInv, Candidates, EligibleForStackAllocation
    <3> QED BY <3>1, SlotsOfCandidate DEF EATypeOK
  <2>5. fixed_slots' = fixed_slots + Slots(idx) /\ Representable(fixed_slots)'
    BY <1>1, <2>2 DEF StackAllocation, Representable
  <2>6. \A o \in Obj \ {idx} : placed'[o] = placed[o] /\ slot'[o] = slot[o]
    BY <1>1 DEF StackAllocation
  <2>7. placed'[idx] = "stack" => slot'[idx] = fixed_slots
    BY <1>1, <2>1 DEF StackAllocation
  <2>8. \A o \in Obj : placed[o] = "stack" =>
          slot[o] \in Nat /\ slot[o] + Slots(o) <= fixed_slots
    BY DEF SlotsDisjoint
  <2>9. ASSUME NEW o \in Obj, placed'[o] = "stack"
        PROVE  slot'[o] >= 0 /\ slot'[o] + Slots(o) <= fixed_slots'
    BY <2>9, <2>1, <2>3, <2>4, <2>5, <2>6, <2>7, <2>8
  <2>10. ASSUME NEW o \in Obj, placed'[o] = "stack",
                NEW p \in Obj \ {o}, placed'[p] = "stack"
         PROVE  slot'[o] + Slots(o) <= slot'[p] \/ slot'[p] + Slots(p) <= slot'[o]
    <3>1. CASE o = idx
      BY <3>1, <2>6, <2>7, <2>8, <2>10
    <3>2. CASE p = idx
      BY <3>2, <2>6, <2>7, <2>8, <2>10
    <3>3. CASE o # idx /\ p # idx
      BY <3>3, <2>6, <2>10 DEF SlotsDisjoint
    <3> QED BY <3>1, <3>2, <3>3
  <2> QED BY <2>5, <2>9, <2>10 DEF SlotsDisjoint
<1>2. CASE ~StackAllocation
  <2>1. UNCHANGED <<slot, fixed_slots>>
    BY <1>2 DEF MXNext, NodeDies, ResultDies, EliminateAllocateNode, Estimate,
       EndEliminate, EndEstimate, ExpandAllocate, SkipGone, EndExpand,
       OutOfNodes, mxVars
  <2>2. \A o \in Obj : placed'[o] = "stack" => placed[o] = "stack"
    BY <1>2 DEF MXNext, NodeDies, ResultDies, EliminateAllocateNode, Estimate,
       EndEliminate, EndEstimate, ExpandAllocate, SkipGone, EndExpand,
       OutOfNodes, mxVars
  <2> QED BY <2>1, <2>2 DEF SlotsDisjoint, Representable
<1> QED BY <1>1, <1>2

-----------------------------------------------------------------------------
LEMMA PipeInvInit == Init => PipeInv
<1> SUFFICES ASSUME Init PROVE PipeInv
  OBVIOUS
<1>1. EAInv
  BY EAInvInit DEF Init
<1>2. TypeOK
  <2>1. EATypeOK
    BY <1>1 DEF EAInv
  <2>2. result \in [Obj -> {"none", "cast", "other"}]
    BY <2>1, GraphTyping DEF Init, MXInit, EATypeOK
  <2>3. placed \in [Obj -> Places]
    BY DEF Init, MXInit, Places
  <2>4. slot \in [Obj -> Nat \cup {-1}] /\ est \in [1..(N + 1) -> Nat]
    BY DEF Init, MXInit
  <2>5. idx \in 0..N /\ fixed_slots \in Nat
    BY SizesAssumption, FrameAssumption DEF Init, MXInit
  <2>6. stack_allocated_slots \in Nat /\ fail \in BOOLEAN
    BY DEF Init, MXInit
  <2> QED BY <2>1, <2>2, <2>3, <2>4, <2>5, <2>6 DEF TypeOK
<1>3. PlacedInv /\ PromiseInv
  BY DEF Init, EAInit, MXInit, PlacedInv, PromiseInv, MXPhases
<1>4. RoomInv
  BY SizesAssumption DEF Init, EAInit, MXInit, RoomInv
<1>5. SlotsDisjoint
  BY DEF Init, MXInit, SlotsDisjoint
<1> QED BY <1>1, <1>2, <1>3, <1>4, <1>5 DEF PipeInv

LEMMA PipeInvInductive ==
  ASSUME PipeInv, [Next]_vars PROVE PipeInv'
<1>1. CASE EANext /\ UNCHANGED mxVars
  <2>1. EAInv'
    BY <1>1, EAInvInductive DEF PipeInv
  <2> QED BY <1>1, <2>1, TypeInductive, EAStepPlacement DEF PipeInv
<1>2. CASE MXNext /\ UNCHANGED eaLocal
  <2>1. EAInv'
    BY <1>2, EAInvUnderMX DEF PipeInv
  <2>2. TypeOK'
    BY <2>1, TypeInductive DEF PipeInv
  <2> QED
    BY <1>2, <2>1, <2>2, PlacedInductive, PromiseInductive, RoomInductive,
       SlotsInductive DEF PipeInv
<1>3. CASE UNCHANGED vars
  <2>1. UNCHANGED eaVars
    BY <1>3 DEF vars, eaVars
  <2>2. EAInv'
    BY <2>1, EAInvInductive DEF PipeInv
  <2>3. TypeOK'
    BY <2>2, TypeInductive DEF PipeInv
  <2> QED
    BY <1>3, <2>2, <2>3 DEF PipeInv, vars, PlacedInv, PromiseInv, PromiseBroken,
       CanStackAllocate, RoomInv, EstimateOK, SlotsDisjoint, Slots,
       Representable, IsAllocate
<1> QED BY <1>1, <1>2, <1>3 DEF Next

LEMMA PipeInvariant == Spec => []PipeInv
<1>1. Init => PipeInv
  BY PipeInvInit
<1>2. PipeInv /\ [Next]_vars => PipeInv'
  BY PipeInvInductive
<1> QED BY <1>1, <1>2, PTL DEF Spec

\* The scalar replaceable candidates are listed and marked, one by one.
LEMMA ListedInductive ==
  ASSUME PromisesVisible, PipeInv, ListedInv, [Next]_vars PROVE ListedInv'
<1> USE SizesAssumption DEF PipeInv, TypeOK, EATypeOK, ListedInv
<1>1. CASE AdjustScalarReplaceable
  <2>1. PICK w \in Obj : w = Worklist[next]
    BY <1>1, WorklistAssumption DEF AdjustScalarReplaceable
  <2>2. \A o \in Obj : sr'[o] => sr[o]
    BY <1>1 DEF AdjustScalarReplaceable
  <2>3. sr'[w] => cg.esc[w] = NoEscape /\ alloc_worklist' = Append(alloc_worklist, w)
    BY <1>1, <2>1 DEF AdjustScalarReplaceable
  <2>4. alloc_worklist' = alloc_worklist \/ alloc_worklist' = Append(alloc_worklist, w)
    BY <1>1, <2>1 DEF AdjustScalarReplaceable
  <2>5. \A o \in Obj : Listed(o) => Listed(o)'
    <3>1. \A i \in 1..Len(alloc_worklist) :
            i \in 1..Len(alloc_worklist') /\ alloc_worklist'[i] = alloc_worklist[i]
      <4>1. CASE alloc_worklist' = alloc_worklist
        BY <4>1
      <4>2. CASE alloc_worklist' = Append(alloc_worklist, w)
        <5>1. alloc_worklist \in Seq(Obj) /\ w \in Obj
          BY <2>1
        <5> QED BY <4>2, <5>1, AppendProperties
      <4> QED BY <2>4, <4>1, <4>2
    <3> QED BY <3>1 DEF Listed
  <2>6. sr'[w] => Listed(w)'
    <3> SUFFICES ASSUME sr'[w] PROVE Listed(w)'
      OBVIOUS
    <3>1. Len(alloc_worklist') \in 1..Len(alloc_worklist')
          /\ alloc_worklist'[Len(alloc_worklist')] = w
      BY <2>1, <2>3
    <3> QED BY <3>1 DEF Listed
  <2>7. ASSUME NEW i \in 1..next, sr'[Worklist[i]]
        PROVE  cg.esc[Worklist[i]] = NoEscape /\ Listed(Worklist[i])'
    <3>1. Worklist[i] \in Obj
      BY <1>1, WorklistAssumption DEF AdjustScalarReplaceable
    <3>2. CASE Worklist[i] = w
      BY <3>2, <2>3, <2>6, <2>7
    <3>3. CASE Worklist[i] # w
      <4>1. i \in 1..(next - 1)
        BY <2>1, <3>3
      <4> QED BY <3>1, <4>1, <2>2, <2>5, <2>7, <1>1 DEF AdjustScalarReplaceable
    <3> QED BY <3>2, <3>3
  <2>8. next' - 1 = next /\ phase' = "adjust" /\ cg' = cg
    BY <1>1 DEF AdjustScalarReplaceable
  <2> QED BY <2>7, <2>8 DEF MXPhases
<1>2. CASE EndAdjust
  <2>1. ASSUME NEW o \in Obj, sr[o] PROVE cg.esc[o] = NoEscape /\ Listed(o)
    <3>1. PICK i \in 1..N : Worklist[i] = o
      BY PassComplete
    <3>2. i \in 1..(next - 1) /\ phase = "adjust"
      BY <1>2 DEF EndAdjust
    <3> QED BY <2>1, <3>1, <3>2
  <2>2. UNCHANGED <<cg, sr, alloc_worklist>> /\ phase' \in {"eligible", "unique"}
    BY <1>2 DEF EndAdjust
  <2> QED BY <2>1, <2>2 DEF Listed, MXPhases
<1>3. CASE SplitOne
  <2> DEFINE w == alloc_worklist[Len(alloc_worklist)]
  <2>1. Len(alloc_worklist) \in Nat \ {0} /\ w \in Obj
    BY <1>3 DEF SplitOne, SplitUniqueTypes
  <2>2. \A o \in Obj : o # w /\ Listed(o) => Listed(o)'
    <3> SUFFICES ASSUME NEW o \in Obj, o # w, Listed(o) PROVE Listed(o)'
      OBVIOUS
    <3>1. PICK i \in 1..Len(alloc_worklist) : alloc_worklist[i] = o
      BY DEF Listed
    <3>2. i \in 1..(Len(alloc_worklist) - 1)
      BY <3>1, <2>1
    <3>3. alloc_worklist' = SubSeq(alloc_worklist, 1, Len(alloc_worklist) - 1)
      BY <1>3 DEF SplitOne
    <3>4. Len(alloc_worklist') = Len(alloc_worklist) - 1 /\ alloc_worklist'[i] = o
      BY <2>1, <3>1, <3>2, <3>3
    <3> QED BY <3>2, <3>4 DEF Listed
  <2>3. \A o \in Obj : nodeSR[o] => nodeSR'[o]
    BY <1>3, <2>1 DEF SplitOne
  <2>4. sr[w] /\ IsAllocate(w) => nodeSR'[w]
    <3> SUFFICES ASSUME sr[w], IsAllocate(w) PROVE nodeSR'[w]
      OBVIOUS
    <3>1. cg.esc[w] = NoEscape
      BY <1>3, <2>1 DEF SplitOne
    <3>2. cg.result[w] = "none" \/ (cg.result[w] = "cast" /\ cg.exact[w])
      BY <2>1 DEF PromisesVisible, IsAllocate
    <3>3. GetsUniqueType(w)
      BY <3>1, <3>2 DEF GetsUniqueType
    <3> QED BY <1>3, <2>1, <3>3 DEF SplitOne
  <2>5. UNCHANGED <<cg, sr, phase>> /\ phase = "unique"
    BY <1>3 DEF SplitOne
  <2> QED BY <2>2, <2>3, <2>4, <2>5 DEF IsAllocate, MXPhases
<1>4. CASE EndSplit
  <2>1. alloc_worklist = << >>
    BY <1>4 DEF EndSplit, SplitUniqueTypes, PromisesVisible
  <2>2. \A o \in Obj : ~Listed(o)
    BY <2>1 DEF Listed
  <2> QED BY <1>4, <2>2 DEF EndSplit, IsAllocate, MXPhases
<1>5. CASE FindEligible \/ EndEligible \/ VerifySkip \/ VerifyKeep \/ VerifyDemote
  <2>1. UNCHANGED <<cg, sr, alloc_worklist>> /\ phase \in {"eligible", "verify"}
        /\ phase' \in {"eligible", "verify"}
    BY <1>5 DEF FindEligible, EndEligible, VerifySkip, VerifyKeep, VerifyDemote
  <2> QED BY <2>1 DEF Listed, MXPhases
<1>6. CASE EndVerify
  BY <1>6 DEF EndVerify, Listed, MXPhases
<1>7. CASE SplitFails
  BY <1>7 DEF SplitFails, MXPhases
<1>8. CASE MXNext
  BY <1>8, MXStable DEF MXPhases
<1>9. CASE UNCHANGED vars
  BY <1>9 DEF vars, Listed, IsAllocate
<1> QED
  BY <1>1, <1>2, <1>3, <1>4, <1>5, <1>6, <1>7, <1>8, <1>9 DEF Next, EANext

LEMMA ListedInvariant ==
  ASSUME PromisesVisible PROVE Spec => []ListedInv
<1>1. Init => ListedInv
  BY DEF Init, EAInit, ListedInv, MXPhases
<1>2. PipeInv /\ ListedInv /\ [Next]_vars => ListedInv'
  BY ListedInductive
<1> QED BY <1>1, <1>2, PipeInvariant, PTL DEF Spec

\* The argument for the whole pipeline. A heap object x that may hold a stack
\* object y is an allocation on which y's chain relied, so y is marked as
\* referenced and no alarm was raised; but then x was promised to be no heap
\* object and the promise could be kept.
LEMMA SafeWhenVisible ==
  ASSUME PromisesVisible, NoCopies, PipeInv, ListedInv PROVE NoHeapToStack
<1> SUFFICES ASSUME NEW x \in Obj, NEW y \in Obj, x # y, MayHold(x, y),
                    placed[x] = "heap", placed[y] = "stack"
             PROVE  FALSE
  BY DEF NoHeapToStack
<1>1. cg.copies = {}
  BY DEF NoCopies, ListedInv
<1>2. x \in Referrers(y)
  BY <1>1 DEF MayHold, Referrers
<1>3. phase \in Placing
  BY DEF PipeInv, PlacedInv
<1>4. sa[y] /\ (fail => ~ref[y])
  BY DEF PipeInv, PlacedInv
<1>5. IsAllocate(x) /\ (sa[x] \/ sr[x]) /\ ref[y]
  <2>1. ChainsSafe
    BY EAInvImplies DEF PipeInv
  <2> QED BY <1>2, <1>3, <1>4, <2>1 DEF ChainsSafe, Verified, Placing
<1>6. ~sa[x] /\ ~nodeSR[x]
  BY <1>4, <1>5 DEF PipeInv, PlacedInv
<1> QED BY <1>3, <1>5, <1>6 DEF ListedInv, Placing, MXPhases

-----------------------------------------------------------------------------
\* One compilation keeps every variable well typed, from escape analysis to
\* the end of macro expansion.
THEOREM TypeCorrect == Spec => []TypeOK
<1>1. PipeInv => TypeOK
  BY DEF PipeInv
<1> QED BY <1>1, PipeInvariant, PTL

\* For every method and frame: next_stack_allocated_object never hands out a
\* slot twice, nor one that a register mask cannot name.
THEOREM SlotsAreDisjoint == Spec => []SlotsDisjoint
<1>1. PipeInv => SlotsDisjoint
  BY DEF PipeInv
<1> QED BY <1>1, PipeInvariant, PTL

\* For every method and frame: when the estimate of expand_macro_nodes raises
\* no alarm, no stack candidate is expanded on the heap, although allocations
\* and results may die in between.
THEOREM EstimateIsHonoured == Spec => []EstimateHonoured
<1>1. PipeInv => EstimateHonoured
  BY DEF PipeInv, EstimateHonoured, PlacedInv, EAInv, CandidatesInv, Candidates
<1> QED BY <1>1, PipeInvariant, PTL

\* For every method whose promises are visible on the Allocate nodes and whose
\* references move through fields: no heap object can hold a stack object.
THEOREM HeapNeverHoldsStack ==
  ASSUME PromisesVisible, NoCopies PROVE Spec => []NoHeapToStack
<1>1. PipeInv /\ ListedInv => NoHeapToStack
  BY SafeWhenVisible
<1> QED BY <1>1, PipeInvariant, ListedInvariant, PTL

\* Under the same hypotheses the compilation implements FramePlacement: every
\* step decides some undecided allocations safely, or decides nothing.
THEOREM PlacementRefined ==
  ASSUME PromisesVisible, NoCopies PROVE Spec => PlacementSafe
<1>1. Init => Frame!FPInit
  BY DEF Init, MXInit, Frame!FPInit
<1>2. PipeInv /\ PipeInv' /\ NoHeapToStack' /\ [Next]_vars
        => [Frame!Decide]_Frame!fpVars
  <2> SUFFICES ASSUME PipeInv, PipeInv', NoHeapToStack', [Next]_vars
               PROVE  [Frame!Decide]_Frame!fpVars
    OBVIOUS
  <2>1. cg' = cg
    BY EAStable, MXStable DEF Next, vars
  <2>2. \A x, y \in Obj : MayHold(x, y)' <=> MayHold(x, y)
    BY <2>1 DEF MayHold, PointsTo
  <2>3. placed' \in [Obj -> Places]
    BY DEF PipeInv, TypeOK
  <2>4. \A o \in Obj : placed[o] # "macro" => placed'[o] = placed[o]
    <3>1. CASE EANext /\ UNCHANGED mxVars
      BY <3>1 DEF mxVars
    <3>2. CASE MXNext
      BY <3>2 DEF PipeInv, TypeOK, MXNext, NodeDies, ResultDies,
         EliminateAllocateNode, EndEliminate, Estimate, EndEstimate,
         StackAllocation, ExpandAllocate, SkipGone, EndExpand, OutOfNodes, mxVars
    <3>3. CASE UNCHANGED vars
      BY <3>3 DEF vars
    <3> QED BY <3>1, <3>2, <3>3 DEF Next
  <2>5. Frame!FrameSafe'
    BY DEF NoHeapToStack, Frame!FrameSafe
  <2> QED BY <2>2, <2>3, <2>4, <2>5 DEF Frame!Decide
<1> QED
  BY <1>1, <1>2, PipeInvariant, HeapNeverHoldsStack, PTL
     DEF Spec, PlacementSafe, Frame!FPSpec
=============================================================================
