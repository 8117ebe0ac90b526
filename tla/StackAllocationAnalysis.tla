----------------------- MODULE StackAllocationAnalysis -----------------------
(***************************************************************************)
(* Steps 3, 4 and 6 of ConnectionGraph::compute_escape (opto/escape.cpp):  *)
(* with the connection graph finished, decide which non-escaping           *)
(* allocations are scalar replaceable and which may live in the frame of   *)
(* the compiled method, and leave the answer on the Allocate nodes.        *)
(*                                                                         *)
(* The three loops over non_escaped_worklist are one action per object     *)
(* visited; verify_stack_allocated_object_chains restarts from the front   *)
(* after each demotion.                                                    *)
(***************************************************************************)
EXTENDS CompilationState, Sequences

CONSTANT Worklist     \* non_escaped_worklist: the order of visit

ASSUME WorklistAssumption ==
  /\ Worklist \in [1..N -> Obj]
  /\ \A o \in Obj : \E i \in 1..N : Worklist[i] = o

VARIABLES
  next,           \* loop index into non_escaped_worklist
  alloc_worklist  \* scalar replaceable candidates for split_unique_types

eaLocal == <<next, alloc_worklist>>
eaVars  == <<cg, phase, sr, nonEsc, nodeSR, sa, ref, next, alloc_worklist>>

EAInit ==
  /\ cg \in Graphs
  /\ phase = "adjust"
  /\ sr = cg.sr
  /\ nonEsc = [o \in Obj |-> FALSE]
  /\ nodeSR = [o \in Obj |-> FALSE]
  /\ sa     = [o \in Obj |-> FALSE]
  /\ ref    = [o \in Obj |-> FALSE]
  /\ next = 1
  /\ alloc_worklist = << >>

-----------------------------------------------------------------------------
(***************************************************************************)
(* adjust_scalar_replaceable_state(o) stops at the first use of o that     *)
(* rules it out, and which use comes first is an accident of graph         *)
(* construction. Cleared(o) is the set of the possible outcomes, each the  *)
(* set of objects whose flag the call clears.                              *)
(***************************************************************************)

\* Rules 1 and 2: o is stored at an unknown offset, or in a field one of
\* whose several bases is null. The call returns at once.
StoredBlindly(f) ==
  \/ cg.bot[f]
  \/ BaseCount(f) > 1 /\ NullObj \in cg.bases[f]

\* Rule 3: a field or variable that points to o points to other objects too
\* (null is one). They are all marked before the call returns.
Merged(o, targets) == targets # {o}

\* Rules 4 and 5 on o's own fields: the call returns at once.
AccessedBlindly(f) == cg.bot[f] \/ cg.opaque[f]

\* Rule 6: the other bases of o's fields; the loop goes on afterwards.
OtherBases(o, f) == IF BaseCount(f) > 1 THEN cg.bases[f] \ {o} ELSE {}

UseOutcomes(o) ==
  {{o} : f \in {g \in FieldUses(o) : StoredBlindly(g)}}
  \cup {cg.values[f] : f \in {g \in FieldUses(o) :
          ~StoredBlindly(g) /\ Merged(o, cg.values[g])}}
  \cup {cg.points[v] : v \in {w \in LocalUses(o) : Merged(o, cg.points[w])}}

EdgeOutcomes(o) ==
  LET blind  == {f \in FieldEdges(o) : AccessedBlindly(f)}
      others == FieldEdges(o) \ blind
      marked(fs) == LET bs == UNION {OtherBases(o, f) : f \in fs}
                    IN  IF bs = {} THEN {} ELSE bs \cup {o}
  IN  IF blind = {} THEN {marked(others)}
      ELSE {marked(fs) \cup {o} : fs \in SUBSET others}

Cleared(o) == IF UseOutcomes(o) # {} THEN UseOutcomes(o) ELSE EdgeOutcomes(o)

\* Faulty variant: the object is listed before its uses have been looked at.
AdjustListsFirst ==
  /\ phase = "adjust" /\ next <= N
  /\ LET o == Worklist[next] IN
       /\ nonEsc' = [nonEsc EXCEPT ![o] = (cg.esc[o] = NoEscape)]
       /\ IF cg.esc[o] = NoEscape /\ sr[o]
            THEN /\ \E c \in Cleared(o) : sr' = [p \in Obj |-> sr[p] /\ p \notin c]
                 /\ alloc_worklist' = Append(alloc_worklist, o)
            ELSE /\ sr' = [sr EXCEPT ![o] = FALSE]
                 /\ UNCHANGED alloc_worklist
  /\ next' = next + 1
  /\ UNCHANGED <<cg, phase, nodeSR, sa, ref>>

\* One iteration of the step 3 loop.
AdjustScalarReplaceable ==
  /\ phase = "adjust" /\ next <= N
  /\ LET o == Worklist[next] IN
       /\ nonEsc' = [nonEsc EXCEPT ![o] = (cg.esc[o] = NoEscape)]
       /\ IF cg.esc[o] = NoEscape /\ sr[o]
            THEN \E c \in Cleared(o) :
                   /\ sr' = [p \in Obj |-> sr[p] /\ p \notin c]
                   /\ alloc_worklist' = IF o \in c THEN alloc_worklist
                                        ELSE Append(alloc_worklist, o)
            ELSE /\ sr' = [sr EXCEPT ![o] = FALSE]
                 /\ UNCHANGED alloc_worklist
  /\ next' = next + 1
  /\ UNCHANGED <<cg, phase, nodeSR, sa, ref>>

-----------------------------------------------------------------------------
\* all_uses_eligible_for_stack_allocation. An Arraycopy node is among the
\* uses of its source object only.
AllUsesEligible(o) ==
  /\ ~cg.overlap[o]
  /\ FieldUses(o) # {} => ~UseCompressedOops
  /\ ~(/\ cg.acsrc[o] /\ cg.acdst[o]
       /\ cg.kind[o] = "AllocateArray" /\ cg.objArray[o])

EligibleForStackAllocation(o) ==
  /\ cg.result[o] = "cast"
  /\ cg.size[o] # -1 /\ cg.size[o] <= StackAllocSizeLimit
  /\ cg.kind[o] = "AllocateArray" =>
       /\ cg.length[o] >= 0
       /\ cg.length[o] <= EliminateAllocationArraySizeLimit
  /\ ~(UseCompressedOops /\ cg.encoded[o])
  /\ AllUsesEligible(o)

\* The condition of step 4: locks only if they will be eliminated.
StackAllocationEnabled ==
  DoStackAllocation /\ (cg.locks => EliminateLocks /\ EliminateNestedLocks)

EndAdjust ==
  /\ phase = "adjust" /\ next > N
  /\ phase' = IF StackAllocationEnabled THEN "eligible" ELSE "unique"
  /\ next' = 1
  /\ UNCHANGED <<cg, sr, nonEsc, nodeSR, sa, ref, alloc_worklist>>

\* One iteration of the step 4 loop.
FindEligible ==
  /\ phase = "eligible" /\ next <= N
  /\ LET o == Worklist[next] IN
       sa' = IF cg.esc[o] = ArgEscape \/ ~IsAllocate(o) THEN sa
             ELSE [sa EXCEPT ![o] = EligibleForStackAllocation(o)]
  /\ next' = next + 1
  /\ UNCHANGED <<cg, phase, sr, nonEsc, nodeSR, ref, alloc_worklist>>

EndEligible ==
  /\ phase = "eligible" /\ next > N
  /\ phase' = "verify"
  /\ next' = 1
  /\ UNCHANGED <<cg, sr, nonEsc, nodeSR, sa, ref, alloc_worklist>>

-----------------------------------------------------------------------------
\* The other objects that have a field pointing to o; null has no fields.
Referrers(o) == {b \in Obj \ {o} : PointsTo(b, o)}

\* Faulty variant: scalar replaceable referrers are not accepted.
HeapReferrerStrict(b) == ~IsAllocate(b) \/ ~sa[b]

\* A referrer that will not be on the stack or replaced by scalars.
HeapReferrer(b) == ~IsAllocate(b) \/ (~sa[b] /\ ~sr[b])

(***************************************************************************)
(* One object of a pass of verify_stack_allocated_object_chains. The pass  *)
(* skips what is not a stack candidate; a candidate without heap referrers *)
(* is kept and marked if it has referrers at all; a demotion ends the pass *)
(* (return true) and compute_escape starts another.                        *)
(***************************************************************************)
SkippedByVerify(o) == cg.esc[o] # NoEscape \/ ~IsAllocate(o) \/ ~sa[o]
HasHeapReferrer(o) == \E b \in Referrers(o) : HeapReferrer(b)

VerifySkip ==
  /\ phase = "verify" /\ next <= N
  /\ SkippedByVerify(Worklist[next])
  /\ next' = next + 1
  /\ UNCHANGED <<cg, phase, sr, nonEsc, nodeSR, sa, ref, alloc_worklist>>

VerifyKeep ==
  /\ phase = "verify" /\ next <= N
  /\ ~SkippedByVerify(Worklist[next]) /\ ~HasHeapReferrer(Worklist[next])
  /\ ref' = IF Referrers(Worklist[next]) = {} THEN ref
            ELSE [ref EXCEPT ![Worklist[next]] = TRUE]
  /\ next' = next + 1
  /\ UNCHANGED <<cg, phase, sr, nonEsc, nodeSR, sa, alloc_worklist>>

\* Faulty variants: a demotion does not start another pass; the referenced
\* mark of a demoted object survives; the object is not demoted.
VerifyDemoteVariant(sa1, ref1, next1) ==
  /\ phase = "verify" /\ next <= N
  /\ ~SkippedByVerify(Worklist[next]) /\ HasHeapReferrer(Worklist[next])
  /\ sa' = sa1 /\ ref' = ref1 /\ next' = next1
  /\ UNCHANGED <<cg, phase, sr, nonEsc, nodeSR, alloc_worklist>>
Without(flags) == [flags EXCEPT ![Worklist[next]] = FALSE]
VerifyDemoteOnePass   == VerifyDemoteVariant(Without(sa), Without(ref), next + 1)
VerifyDemoteKeepsMark == VerifyDemoteVariant(Without(sa), ref, 1)
VerifyDemoteNot       == VerifyDemoteVariant(sa, Without(ref), 1)

VerifyDemote ==
  /\ phase = "verify" /\ next <= N
  /\ ~SkippedByVerify(Worklist[next]) /\ HasHeapReferrer(Worklist[next])
  /\ sa'  = [sa  EXCEPT ![Worklist[next]] = FALSE]
  /\ ref' = [ref EXCEPT ![Worklist[next]] = FALSE]
  /\ next' = 1
  /\ UNCHANGED <<cg, phase, sr, nonEsc, nodeSR, alloc_worklist>>

EndVerify ==
  /\ phase = "verify" /\ next > N
  /\ phase' = "unique"
  /\ UNCHANGED <<cg, sr, nonEsc, nodeSR, sa, ref, next, alloc_worklist>>

-----------------------------------------------------------------------------
\* split_unique_types runs at all.
SplitUniqueTypes == alloc_worklist # << >> /\ EliminateAllocations

\* The call node popped from alloc_worklist gets _is_scalar_replaceable:
\* still a candidate, and unused or with a result of exact type.
GetsUniqueType(o) ==
  /\ cg.esc[o] = NoEscape /\ sr[o]
  /\ \/ cg.result[o] = "none"
     \/ cg.result[o] = "cast" /\ cg.exact[o]

SplitOne ==
  /\ phase = "unique" /\ SplitUniqueTypes
  /\ LET o == alloc_worklist[Len(alloc_worklist)] IN
       nodeSR' = [nodeSR EXCEPT ![o] = @ \/ GetsUniqueType(o)]
  /\ alloc_worklist' = SubSeq(alloc_worklist, 1, Len(alloc_worklist) - 1)
  /\ UNCHANGED <<cg, phase, sr, nonEsc, sa, ref, next>>

EndSplit ==
  /\ phase = "unique" /\ ~SplitUniqueTypes
  /\ phase' = "eliminate"
  /\ UNCHANGED <<cg, sr, nonEsc, nodeSR, sa, ref, next, alloc_worklist>>

\* An AddP without a unique base: record_failure, and the method is compiled
\* again from scratch without escape analysis.
SplitFails ==
  /\ phase = "unique" /\ SplitUniqueTypes
  /\ phase' = "retry"
  /\ UNCHANGED <<cg, sr, nonEsc, nodeSR, sa, ref, next, alloc_worklist>>

EANext ==
  \/ AdjustScalarReplaceable \/ EndAdjust
  \/ FindEligible            \/ EndEligible
  \/ VerifySkip \/ VerifyKeep \/ VerifyDemote \/ EndVerify
  \/ SplitOne \/ EndSplit    \/ SplitFails

\* A compiler thread runs compute_escape to its end.
EASpec == EAInit /\ [][EANext]_eaVars /\ WF_eaVars(EANext)

-----------------------------------------------------------------------------
\* Every flag and index has its type, and alloc_worklist lists objects.
EATypeOK ==
  /\ cg \in GraphType
  /\ phase \in Phases
  /\ sr \in [Obj -> BOOLEAN]     /\ nonEsc \in [Obj -> BOOLEAN]
  /\ nodeSR \in [Obj -> BOOLEAN] /\ sa \in [Obj -> BOOLEAN]
  /\ ref \in [Obj -> BOOLEAN]
  /\ next \in 1..(N + 1)
  /\ alloc_worklist \in Seq(Obj)

\* Step 4 is over.
Verified == phase \notin {"adjust", "eligible", "verify"}

\* After step 4, every object that may go on the stack is pointed to only by
\* allocations that may go on the stack or may be scalar replaced, and is
\* marked as referenced if there is one (verify_stack_allocated_object_chains:
\* heap objects cannot point to stack allocated objects).
ChainsSafe ==
  Verified => \A o \in Obj : sa[o] =>
    \A b \in Referrers(o) : IsAllocate(b) /\ (sa[b] \/ sr[b]) /\ ref[o]

\* After step 4, the referenced mark is on exactly the stack objects that
\* another object points to: a demoted object loses it although it was set in
\* an earlier pass.
ReferencedExact ==
  Verified => \A o \in Obj : ref[o] => sa[o] /\ Referrers(o) # {}

\* A set of eligible objects that could go on the stack together.
Candidates == {o \in Obj :
  /\ cg.esc[o] = NoEscape /\ IsAllocate(o) /\ EligibleForStackAllocation(o)}
ClosedChain(S) ==
  \A o \in S : \A b \in Referrers(o) : IsAllocate(b) /\ (b \in S \/ sr[b])

\* Restarting after every demotion ends in the largest safe choice: no set of
\* candidates that could have been kept together has lost a member.
ChainsMaximal ==
  Verified /\ StackAllocationEnabled =>
    \A S \in SUBSET Candidates : ClosedChain(S) => \A o \in S : sa[o]

\* Listed and marked objects stay candidates: whoever step 3 put on
\* alloc_worklist is not ruled out by an object it visits later (rules 3 and 6
\* of adjust_scalar_replaceable_state clear the flags of other objects too),
\* and only such objects get _is_scalar_replaceable.
UniqueTypesCurrent ==
  /\ \A i \in 1..Len(alloc_worklist) :
       sr[alloc_worklist[i]] /\ nonEsc[alloc_worklist[i]]
  /\ \A o \in Obj : nodeSR[o] => sr[o] /\ nonEsc[o]

\* An object array that an arraycopy writes to is never a stack candidate: the
\* copy runs a post barrier that does not know stack objects (the comment in
\* all_uses_eligible_for_stack_allocation).
CopyTargetsOffStack ==
  \A o \in Obj : sa[o] /\ cg.kind[o] = "AllocateArray" /\ cg.objArray[o] =>
    ~cg.acdst[o]

\* compute_escape ends: the loop over verify_stack_allocated_object_chains
\* cannot go on for ever.
EATerminates == <>(phase \in {"eliminate", "retry"})
=============================================================================
