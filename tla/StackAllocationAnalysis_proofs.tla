-------------------- MODULE StackAllocationAnalysis_proofs --------------------
(***************************************************************************)
(* Proofs about StackAllocationAnalysis for every number of objects and    *)
(* every connection graph, and about the searches of AllocationUses.       *)
(*                                                                         *)
(* EAInv is the inductive strengthening. What makes the chain verification *)
(* correct is PassInv: in the current pass the objects already visited     *)
(* satisfy the chain condition for the flags as they are now, which holds  *)
(* only because a demotion starts the pass again.                          *)
(***************************************************************************)
EXTENDS StackAllocationAnalysis, AllocationUses, SequenceTheorems, TLAPS

\* The chain condition for one object.
ChainOK(o) ==
  sa[o] => \A b \in Referrers(o) : IsAllocate(b) /\ (sa[b] \/ sr[b]) /\ ref[o]

\* Stack candidates are non-escaping allocations that passed every check, and
\* there are none before step 4.
CandidatesInv ==
  /\ phase = "adjust" => \A o \in Obj : ~sa[o] /\ ~nodeSR[o]
  /\ \A o \in Obj : sa[o] => o \in Candidates /\ StackAllocationEnabled

\* The referenced mark is on stack candidates that are referenced, and is set
\* by the verification only.
MarksInv ==
  /\ \A o \in Obj : ref[o] => sa[o] /\ Referrers(o) # {}
  /\ phase \in {"adjust", "eligible"} => \A o \in Obj : ~ref[o]

\* In a pass, the objects visited so far satisfy the chain condition.
PassInv ==
  /\ phase = "verify" => \A i \in 1..(next - 1) : ChainOK(Worklist[i])
  /\ Verified => \A o \in Obj : ChainOK(o)

\* Nothing that could be kept has been lost.
KeptInv ==
  /\ phase = "eligible" =>
       \A i \in 1..(next - 1) : Worklist[i] \in Candidates => sa[Worklist[i]]
  /\ (phase = "verify" \/ Verified) /\ StackAllocationEnabled =>
       \A S \in SUBSET Candidates : ClosedChain(S) => \A o \in S : sa[o]
  /\ phase \in {"eligible", "verify"} => StackAllocationEnabled

\* _is_non_escaping is the escape state of the objects step 3 has visited.
EscapeInv ==
  /\ phase = "adjust" =>
       \A i \in 1..(next - 1) :
         nonEsc[Worklist[i]] = (cg.esc[Worklist[i]] = NoEscape)
  /\ phase # "adjust" => \A o \in Obj : nonEsc[o] = (cg.esc[o] = NoEscape)

\* Nothing in the graph rules o out, on its own or with another object.
Unmerged(o) ==
  /\ UseOutcomes(o) = {}
  /\ \A f \in FieldEdges(o) : ~AccessedBlindly(f) /\ OtherBases(o, f) = {}

\* Nothing rules out the listed objects.
UnmergedInv ==
  \A i \in 1..Len(alloc_worklist) :
    /\ Unmerged(alloc_worklist[i])
    /\ cg.esc[alloc_worklist[i]] = NoEscape

EAInv ==
  /\ EATypeOK /\ CandidatesInv /\ MarksInv /\ PassInv /\ KeptInv
  /\ EscapeInv /\ UnmergedInv /\ UniqueTypesCurrent

-----------------------------------------------------------------------------
\* The fields of a connection graph the proofs look at are functions on Obj.
LEMMA GraphTyping ==
  ASSUME cg \in GraphType
  PROVE  /\ cg.sr \in [Obj -> BOOLEAN]
         /\ cg.esc \in [Obj -> {NoEscape, ArgEscape}]
         /\ cg.kind \in [Obj -> {"Allocate", "AllocateArray", "CallStaticJava"}]
         /\ cg.result \in [Obj -> {"none", "cast", "other"}]
         /\ cg.size \in [Obj -> Nat \cup {-1}]
BY DEF GraphType

\* Every object is visited by a complete pass over the worklist.
LEMMA PassComplete ==
  ASSUME NEW o \in Obj PROVE \E i \in 1..N : Worklist[i] = o
BY WorklistAssumption

\* The loops visit objects.
LEMMA VisitsObject ==
  ASSUME EATypeOK, next <= N PROVE Worklist[next] \in Obj
<1>1. next \in 1..N
  BY SizesAssumption DEF EATypeOK
<1> QED BY <1>1, WorklistAssumption

\* The type invariant is inductive.
LEMMA EATypeInductive ==
  ASSUME EATypeOK, [EANext]_eaVars PROVE EATypeOK'
<1> USE SizesAssumption DEF EATypeOK
<1>1. CASE AdjustScalarReplaceable
  <2> DEFINE o == Worklist[next]
  <2>1. o \in Obj
    BY <1>1, VisitsObject DEF AdjustScalarReplaceable
  <2>2. sr' \in [Obj -> BOOLEAN]
    BY <1>1, <2>1 DEF AdjustScalarReplaceable
  <2>3. alloc_worklist' \in Seq(Obj)
    <3>1. alloc_worklist' \in {alloc_worklist, Append(alloc_worklist, o)}
      BY <1>1 DEF AdjustScalarReplaceable
    <3> HIDE DEF o
    <3> QED BY <2>1, <3>1
  <2>4. nonEsc' \in [Obj -> BOOLEAN]
    BY <1>1, <2>1 DEF AdjustScalarReplaceable
  <2>5. next' \in 1..(N + 1)
    BY <1>1 DEF AdjustScalarReplaceable
  <2> QED BY <1>1, <2>2, <2>3, <2>4, <2>5 DEF AdjustScalarReplaceable
<1>2. CASE EndAdjust
  BY <1>2 DEF EndAdjust, Phases
<1>3. CASE FindEligible
  <2>1. Worklist[next] \in Obj
    BY <1>3, VisitsObject DEF FindEligible
  <2>2. EligibleForStackAllocation(Worklist[next]) \in BOOLEAN
    BY DEF EligibleForStackAllocation
  <2>3. sa' \in [Obj -> BOOLEAN]
    BY <1>3, <2>1, <2>2 DEF FindEligible
  <2> QED BY <1>3, <2>3 DEF FindEligible
<1>4. CASE EndEligible
  BY <1>4 DEF EndEligible, Phases
<1>5. CASE VerifySkip
  BY <1>5 DEF VerifySkip
<1>11. CASE VerifyKeep
  <2>1. ref' \in [Obj -> BOOLEAN]
    BY <1>11 DEF VerifyKeep
  <2> QED BY <1>11, <2>1 DEF VerifyKeep
<1>12. CASE VerifyDemote
  <2>1. ref' \in [Obj -> BOOLEAN] /\ sa' \in [Obj -> BOOLEAN]
    BY <1>12 DEF VerifyDemote
  <2>2. next' \in 1..(N + 1)
    BY <1>12 DEF VerifyDemote
  <2> QED BY <1>12, <2>1, <2>2 DEF VerifyDemote
<1>6. CASE EndVerify
  BY <1>6 DEF EndVerify, Phases
<1>7. CASE SplitOne
  <2>1. alloc_worklist' \in Seq(Obj)
    BY <1>7 DEF SplitOne, SplitUniqueTypes
  <2>2. nodeSR' \in [Obj -> BOOLEAN]
    BY <1>7 DEF SplitOne, SplitUniqueTypes, GetsUniqueType
  <2> QED BY <1>7, <2>1, <2>2 DEF SplitOne
<1>8. CASE EndSplit
  BY <1>8 DEF EndSplit, Phases
<1>9. CASE SplitFails
  BY <1>9 DEF SplitFails, Phases
<1>10. CASE UNCHANGED eaVars
  BY <1>10 DEF eaVars
<1> QED
  BY <1>1, <1>2, <1>3, <1>4, <1>5, <1>6, <1>7, <1>8, <1>9, <1>10,
     <1>11, <1>12 DEF EANext

-----------------------------------------------------------------------------
\* No step changes the graph, so what is computed from it alone never changes.
LEMMA GraphStable ==
  ASSUME [EANext]_eaVars
  PROVE  /\ cg' = cg
         /\ Candidates' = Candidates
         /\ StackAllocationEnabled' = StackAllocationEnabled
         /\ \A o \in Obj : Referrers(o)' = Referrers(o)
         /\ \A o \in Obj : IsAllocate(o)' = IsAllocate(o)
<1>1. cg' = cg
  BY DEF EANext, eaVars, AdjustScalarReplaceable, EndAdjust, FindEligible,
     EndEligible, VerifySkip, VerifyKeep, VerifyDemote, EndVerify, SplitOne,
     EndSplit, SplitFails
<1>2. Candidates' = Candidates
  BY <1>1 DEF Candidates, IsAllocate, EligibleForStackAllocation,
     AllUsesEligible, FieldUses
<1>3. StackAllocationEnabled' = StackAllocationEnabled
  BY <1>1 DEF StackAllocationEnabled
<1>4. \A o \in Obj : Referrers(o)' = Referrers(o)
  BY <1>1 DEF Referrers, PointsTo
<1>5. \A o \in Obj : IsAllocate(o)' = IsAllocate(o)
  BY <1>1 DEF IsAllocate
<1> QED BY <1>1, <1>2, <1>3, <1>4, <1>5

\* Each remaining conjunct of EAInv is preserved.
LEMMA CandidatesInductive ==
  ASSUME EAInv, [EANext]_eaVars PROVE CandidatesInv'
<1> USE GraphStable DEF EAInv, EATypeOK, CandidatesInv
<1>1. CASE AdjustScalarReplaceable
  BY <1>1 DEF AdjustScalarReplaceable
<1>2. CASE EndAdjust
  BY <1>2 DEF EndAdjust
<1>3. CASE FindEligible
  <2> DEFINE w == Worklist[next]
  <2>1. w \in Obj
    BY <1>3, WorklistAssumption, SizesAssumption DEF FindEligible
  <2>2. StackAllocationEnabled
    BY <1>3 DEF FindEligible, KeptInv
  <2>3. sa'[w] => w \in Candidates
    <3>1. cg.esc[w] \in {NoEscape, ArgEscape}
      BY <2>1, GraphTyping
    <3> QED BY <1>3, <2>1, <3>1 DEF FindEligible, Candidates
  <2>4. \A o \in Obj \ {w} : sa'[o] = sa[o]
    BY <1>3 DEF FindEligible
  <2> QED BY <1>3, <2>1, <2>2, <2>3, <2>4 DEF FindEligible
<1>4. CASE EndEligible
  BY <1>4 DEF EndEligible
<1>5. CASE VerifySkip
  BY <1>5 DEF VerifySkip
<1>6. CASE VerifyKeep
  BY <1>6 DEF VerifyKeep
<1>7. CASE VerifyDemote
  BY <1>7 DEF VerifyDemote
<1>8. CASE EndVerify
  BY <1>8 DEF EndVerify
<1>9. CASE SplitOne
  BY <1>9 DEF SplitOne
<1>10. CASE EndSplit
  BY <1>10 DEF EndSplit
<1>11. CASE SplitFails
  BY <1>11 DEF SplitFails
<1>12. CASE UNCHANGED eaVars
  BY <1>12 DEF eaVars
<1> QED
  BY <1>1, <1>2, <1>3, <1>4, <1>5, <1>6, <1>7, <1>8, <1>9, <1>10, <1>11,
     <1>12 DEF EANext

LEMMA MarksInductive ==
  ASSUME EAInv, [EANext]_eaVars PROVE MarksInv'
<1> USE GraphStable DEF EAInv, EATypeOK, MarksInv
<1>1. CASE AdjustScalarReplaceable
  BY <1>1 DEF AdjustScalarReplaceable
<1>2. CASE EndAdjust
  BY <1>2 DEF EndAdjust
<1>3. CASE FindEligible
  BY <1>3 DEF FindEligible
<1>4. CASE EndEligible
  BY <1>4 DEF EndEligible
<1>5. CASE VerifySkip
  BY <1>5 DEF VerifySkip
<1>6. CASE VerifyKeep
  BY <1>6, WorklistAssumption, SizesAssumption DEF VerifyKeep, SkippedByVerify
<1>7. CASE VerifyDemote
  BY <1>7, WorklistAssumption, SizesAssumption DEF VerifyDemote
<1>8. CASE EndVerify
  BY <1>8 DEF EndVerify
<1>9. CASE SplitOne
  BY <1>9 DEF SplitOne
<1>10. CASE EndSplit
  BY <1>10 DEF EndSplit
<1>11. CASE SplitFails
  BY <1>11 DEF SplitFails
<1>12. CASE UNCHANGED eaVars
  BY <1>12 DEF eaVars
<1> QED
  BY <1>1, <1>2, <1>3, <1>4, <1>5, <1>6, <1>7, <1>8, <1>9, <1>10, <1>11,
     <1>12 DEF EANext

LEMMA PassInductive ==
  ASSUME EAInv, [EANext]_eaVars PROVE PassInv'
<1> USE GraphStable DEF EAInv, EATypeOK, PassInv, ChainOK, Verified
<1>1. CASE AdjustScalarReplaceable
  BY <1>1 DEF AdjustScalarReplaceable
<1>2. CASE EndAdjust
  BY <1>2 DEF EndAdjust, CandidatesInv
<1>3. CASE FindEligible
  BY <1>3 DEF FindEligible
<1>4. CASE EndEligible
  BY <1>4 DEF EndEligible
<1>5. CASE VerifySkip
  <2> DEFINE w == Worklist[next]
  <2>1. w \in Obj
    BY <1>5, WorklistAssumption, SizesAssumption DEF VerifySkip
  <2>2. ~sa[w]
    BY <1>5, <2>1 DEF VerifySkip, SkippedByVerify, CandidatesInv, Candidates
  <2>3. ASSUME NEW i \in 1..next PROVE ChainOK(Worklist[i])
    BY <1>5, <2>2, SizesAssumption DEF VerifySkip
  <2>4. ASSUME NEW i \in 1..next PROVE Worklist[i] \in Obj
    BY <1>5, WorklistAssumption, SizesAssumption DEF VerifySkip
  <2>5. \A o \in Obj : \A b \in Referrers(o) : b \in Obj
    BY DEF Referrers
  <2> QED BY <1>5, <2>3, <2>4, <2>5, SizesAssumption DEF VerifySkip
<1>6. CASE VerifyKeep
  <2> DEFINE w == Worklist[next]
  <2>1. w \in Obj
    BY <1>6, WorklistAssumption, SizesAssumption DEF VerifyKeep
  <2>2. \A b \in Referrers(w) : IsAllocate(b) /\ (sa[b] \/ sr[b])
    BY <1>6 DEF VerifyKeep, HasHeapReferrer, HeapReferrer
  <2>3. \A o \in Obj : ref[o] => ref'[o]
    BY <1>6 DEF VerifyKeep
  <2>4. Referrers(w) # {} => ref'[w]
    BY <1>6, <2>1 DEF VerifyKeep
  <2>5. ASSUME NEW i \in 1..next PROVE Worklist[i] \in Obj
    BY <1>6, WorklistAssumption, SizesAssumption DEF VerifyKeep
  <2>6. ASSUME NEW i \in 1..next
        PROVE  sa[Worklist[i]] => \A b \in Referrers(Worklist[i]) :
                 IsAllocate(b) /\ (sa[b] \/ sr[b]) /\ ref'[Worklist[i]]
    <3>1. CASE i = next
      BY <3>1, <2>2, <2>4
    <3>2. CASE i # next
      BY <3>2, <1>6, <2>3, <2>5, SizesAssumption DEF VerifyKeep
    <3> QED BY <3>1, <3>2
  <2>7. \A o \in Obj : \A b \in Referrers(o) : b \in Obj
    BY DEF Referrers
  <2> QED BY <1>6, <2>5, <2>6, <2>7, SizesAssumption DEF VerifyKeep
<1>7. CASE VerifyDemote
  BY <1>7 DEF VerifyDemote
<1>8. CASE EndVerify
  <2>1. ASSUME NEW o \in Obj PROVE ChainOK(o)
    <3>1. PICK i \in 1..N : Worklist[i] = o
      BY PassComplete
    <3>2. next - 1 = N
      BY <1>8, SizesAssumption DEF EndVerify
    <3>3. ChainOK(Worklist[i])
      BY <1>8, <3>2 DEF EndVerify
    <3> QED BY <3>1, <3>3
  <2>2. \A o \in Obj : \A b \in Referrers(o) : b \in Obj
    BY DEF Referrers
  <2> QED BY <1>8, <2>1, <2>2 DEF EndVerify
<1> DEFINE Later == SplitOne \/ EndSplit \/ SplitFails \/ UNCHANGED eaVars
<1>9. CASE Later
  <2>1. UNCHANGED <<sa, sr, ref, next>>
    BY <1>9 DEF SplitOne, EndSplit, SplitFails, eaVars
  <2>2. phase' = phase \/ (phase = "unique" /\ phase' # "verify")
    BY <1>9 DEF SplitOne, EndSplit, SplitFails, eaVars
  <2>3. \A o \in Obj : \A b \in Referrers(o) : b \in Obj
    BY DEF Referrers
  <2>4. \A i \in 1..(next - 1) : Worklist[i] \in Obj
    BY WorklistAssumption, SizesAssumption
  <2> QED BY <2>1, <2>2, <2>3, <2>4
<1> QED
  BY <1>1, <1>2, <1>3, <1>4, <1>5, <1>6, <1>7, <1>8, <1>9 DEF EANext

LEMMA KeptInductive ==
  ASSUME EAInv, [EANext]_eaVars PROVE KeptInv'
<1> USE GraphStable DEF EAInv, EATypeOK, KeptInv, Verified
<1>0. \A S \in SUBSET Candidates :
        (UNCHANGED sr) => (ClosedChain(S)' <=> ClosedChain(S))
  BY DEF ClosedChain, Candidates, Referrers
<1>1. CASE AdjustScalarReplaceable
  BY <1>1 DEF AdjustScalarReplaceable
<1>2. CASE EndAdjust
  BY <1>2 DEF EndAdjust
<1>3. CASE FindEligible
  <2> DEFINE w == Worklist[next]
  <2>1. w \in Obj
    BY <1>3, WorklistAssumption, SizesAssumption DEF FindEligible
  <2>2. w \in Candidates => sa'[w]
    BY <1>3, <2>1 DEF FindEligible, Candidates, NoEscape, ArgEscape
  <2>3. \A o \in Obj \ {w} : sa'[o] = sa[o]
    BY <1>3 DEF FindEligible
  <2>4. ASSUME NEW i \in 1..next
        PROVE  Worklist[i] \in Candidates => sa'[Worklist[i]]
    <3>1. Worklist[i] \in Obj
      BY <1>3, WorklistAssumption, SizesAssumption DEF FindEligible
    <3>2. CASE Worklist[i] = w
      BY <3>2, <2>2
    <3>3. CASE Worklist[i] # w
      <4>1. i \in 1..(next - 1)
        BY <3>3
      <4> QED BY <3>3, <3>1, <4>1, <2>3, <1>3 DEF FindEligible
    <3> QED BY <3>2, <3>3
  <2>5. phase = "eligible" /\ phase' = "eligible" /\ next' - 1 = next
    BY <1>3 DEF FindEligible
  <2> QED BY <2>4, <2>5
<1>4. CASE EndEligible
  <2>1. ASSUME NEW o \in Candidates PROVE sa[o]
    <3>1. o \in Obj
      BY DEF Candidates
    <3>2. PICK i \in 1..N : Worklist[i] = o
      BY <3>1, PassComplete
    <3>3. next - 1 = N
      BY <1>4, SizesAssumption DEF EndEligible
    <3> QED BY <1>4, <3>2, <3>3 DEF EndEligible
  <2> QED BY <1>4, <2>1 DEF EndEligible
<1>5. CASE VerifySkip \/ VerifyKeep
  <2>1. UNCHANGED <<phase, sa, sr>> /\ phase = "verify"
    BY <1>5 DEF VerifySkip, VerifyKeep
  <2> QED BY <1>0, <2>1
<1>6. CASE VerifyDemote
  <2> DEFINE w == Worklist[next]
  <2>1. w \in Obj
    BY <1>6, WorklistAssumption, SizesAssumption DEF VerifyDemote
  <2>2. PICK b \in Referrers(w) : HeapReferrer(b)
    BY <1>6 DEF VerifyDemote, HasHeapReferrer
  <2>3. ASSUME NEW S \in SUBSET Candidates, ClosedChain(S), w \in S
        PROVE  FALSE
    <3>1. IsAllocate(b) /\ (b \in S \/ sr[b])
      BY <2>2, <2>3 DEF ClosedChain
    <3>2. b \in S
      BY <3>1, <2>2 DEF HeapReferrer
    <3>3. sa[b]
      BY <1>6, <2>3, <3>2 DEF VerifyDemote
    <3> QED BY <3>1, <3>3, <2>2 DEF HeapReferrer
  <2>4. \A o \in Obj \ {w} : sa'[o] = sa[o]
    BY <1>6 DEF VerifyDemote
  <2>5. UNCHANGED <<phase, sr>> /\ phase = "verify"
    BY <1>6 DEF VerifyDemote
  <2>6. ASSUME NEW S \in SUBSET Candidates, ClosedChain(S), NEW o \in S
        PROVE  sa'[o]
    <3>1. o \in Obj /\ o # w
      BY <2>6, <2>3 DEF Candidates
    <3>2. sa[o]
      BY <2>5, <2>6
    <3> QED BY <3>1, <3>2, <2>4
  <2> QED BY <1>0, <2>5, <2>6
<1>7. CASE EndVerify
  <2>1. UNCHANGED <<sa, sr>> /\ phase = "verify" /\ phase' = "unique"
    BY <1>7 DEF EndVerify
  <2> QED BY <1>0, <2>1
<1> DEFINE Later == SplitOne \/ EndSplit \/ SplitFails \/ UNCHANGED eaVars
<1>8. CASE Later
  <2>1. UNCHANGED <<sa, sr, next>>
    BY <1>8 DEF SplitOne, EndSplit, SplitFails, eaVars
  <2>2. \/ phase' = phase
        \/ phase = "unique" /\ phase' \in {"eliminate", "retry"}
    BY <1>8 DEF SplitOne, EndSplit, SplitFails, eaVars
  <2> QED BY <1>0, <2>1, <2>2
<1> QED
  BY <1>1, <1>2, <1>3, <1>4, <1>5, <1>6, <1>7, <1>8 DEF EANext

LEMMA EscapeInductive ==
  ASSUME EAInv, [EANext]_eaVars PROVE EscapeInv'
<1> USE GraphStable DEF EAInv, EATypeOK, EscapeInv
<1>1. CASE AdjustScalarReplaceable
  <2> DEFINE w == Worklist[next]
  <2>1. w \in Obj
    BY <1>1, WorklistAssumption, SizesAssumption DEF AdjustScalarReplaceable
  <2>2. nonEsc'[w] = (cg.esc[w] = NoEscape)
    BY <1>1, <2>1 DEF AdjustScalarReplaceable
  <2>3. \A o \in Obj \ {w} : nonEsc'[o] = nonEsc[o]
    BY <1>1 DEF AdjustScalarReplaceable
  <2>4. ASSUME NEW i \in 1..next
        PROVE  nonEsc'[Worklist[i]] = (cg.esc[Worklist[i]] = NoEscape)
    <3>1. Worklist[i] \in Obj
      BY <1>1, WorklistAssumption, SizesAssumption DEF AdjustScalarReplaceable
    <3>2. CASE Worklist[i] = w
      BY <3>2, <2>2
    <3>3. CASE Worklist[i] # w
      <4>1. i \in 1..(next - 1)
        BY <3>3
      <4> QED BY <3>3, <3>1, <4>1, <2>3, <1>1 DEF AdjustScalarReplaceable
    <3> QED BY <3>2, <3>3
  <2> QED BY <1>1, <2>4, SizesAssumption DEF AdjustScalarReplaceable
<1>2. CASE EndAdjust
  <2>1. ASSUME NEW o \in Obj PROVE nonEsc[o] = (cg.esc[o] = NoEscape)
    <3>1. PICK i \in 1..N : Worklist[i] = o
      BY PassComplete
    <3>2. next - 1 = N
      BY <1>2, SizesAssumption DEF EndAdjust
    <3> QED BY <1>2, <3>1, <3>2 DEF EndAdjust
  <2> QED BY <1>2, <2>1 DEF EndAdjust
<1>3. CASE ~AdjustScalarReplaceable /\ ~EndAdjust
  <2>1. UNCHANGED nonEsc /\ (phase' = phase \/ (phase # "adjust" /\ phase' # "adjust"))
    BY <1>3 DEF EANext, FindEligible, EndEligible, VerifySkip, VerifyKeep,
       VerifyDemote, EndVerify, SplitOne, EndSplit, SplitFails, eaVars
  <2>2. phase = "adjust" => next' = next
    BY <1>3 DEF EANext, FindEligible, EndEligible, VerifySkip, VerifyKeep,
       VerifyDemote, EndVerify, SplitOne, EndSplit, SplitFails, eaVars
  <2> QED BY <2>1, <2>2
<1> QED BY <1>1, <1>2, <1>3

\* An object that survives its own adjustment is merged with nothing.
LEMMA SurvivorUnmerged ==
  ASSUME cg \in GraphType, NEW o \in Obj, NEW c \in Cleared(o), o \notin c
  PROVE  Unmerged(o)
<1>1. UseOutcomes(o) = {}
  <2> SUFFICES ASSUME UseOutcomes(o) # {} PROVE FALSE
    OBVIOUS
  <2>1. c \in UseOutcomes(o)
    BY DEF Cleared
  <2> QED BY <2>1 DEF UseOutcomes, FieldUses, LocalUses
<1>2. c \in EdgeOutcomes(o)
  BY <1>1 DEF Cleared
<1>3. {f \in FieldEdges(o) : AccessedBlindly(f)} = {}
  BY <1>2 DEF EdgeOutcomes
<1>4. UNION {OtherBases(o, f) : f \in FieldEdges(o)} = {}
  BY <1>2, <1>3 DEF EdgeOutcomes
<1> QED BY <1>1, <1>3, <1>4 DEF Unmerged

\* Merging is symmetric: what is merged with nothing is ruled out by nobody.
LEMMA UnmergedSurvives ==
  ASSUME cg \in GraphType, NEW o \in Obj, Unmerged(o),
         NEW p \in Obj, NEW c \in Cleared(p)
  PROVE  o \notin c
<1>1. CASE c \in UseOutcomes(p)
  <2> SUFFICES ASSUME o \in c PROVE FALSE
    OBVIOUS
  <2>1. UseOutcomes(o) # {}
    BY <1>1 DEF UseOutcomes, FieldUses, LocalUses, Merged
  <2> QED BY <2>1 DEF Unmerged
<1>2. CASE c \in EdgeOutcomes(p)
  <2>1. CASE o = p
    BY <1>2, <2>1 DEF EdgeOutcomes, Unmerged
  <2>2. CASE o # p
    <3>1. \A f \in FieldEdges(p) : o \notin OtherBases(p, f)
      BY <2>2 DEF Unmerged, OtherBases, FieldEdges
    <3>2. \A fs \in SUBSET FieldEdges(p) :
            o \notin UNION {OtherBases(p, f) : f \in fs}
      BY <3>1
    <3> QED BY <1>2, <2>2, <3>2 DEF EdgeOutcomes
  <2> QED BY <2>1, <2>2
<1> QED BY <1>1, <1>2 DEF Cleared

\* Merging is a matter of the graph alone.
LEMMA UnmergedStable ==
  ASSUME cg' = cg, NEW o \in Obj PROVE Unmerged(o)' = Unmerged(o)
<1>1. /\ FieldUses(o)' = FieldUses(o) /\ LocalUses(o)' = LocalUses(o)
      /\ FieldEdges(o)' = FieldEdges(o)
  BY DEF FieldUses, LocalUses, FieldEdges
<1>2. \A f \in Fld : /\ StoredBlindly(f)' = StoredBlindly(f)
                     /\ AccessedBlindly(f)' = AccessedBlindly(f)
                     /\ OtherBases(o, f)' = OtherBases(o, f)
  BY DEF StoredBlindly, AccessedBlindly, OtherBases, BaseCount
<1>3. UseOutcomes(o)' = UseOutcomes(o)
  BY <1>1, <1>2 DEF UseOutcomes, FieldUses, LocalUses, Merged, StoredBlindly,
     BaseCount
<1> QED BY <1>1, <1>2, <1>3 DEF Unmerged, FieldEdges

\* Taking the last object off the list leaves the others where they are.
LEMMA PopKeepsOthers ==
  ASSUME EATypeOK, SplitOne
  PROVE  /\ Len(alloc_worklist) \in Nat \ {0}
         /\ Len(alloc_worklist') = Len(alloc_worklist) - 1
         /\ \A i \in 1..Len(alloc_worklist') : alloc_worklist'[i] = alloc_worklist[i]
<1>1. alloc_worklist \in Seq(Obj) /\ alloc_worklist # << >>
  BY DEF EATypeOK, SplitOne, SplitUniqueTypes
<1>2. Len(alloc_worklist) \in Nat \ {0}
  BY <1>1
<1>3. alloc_worklist' = SubSeq(alloc_worklist, 1, Len(alloc_worklist) - 1)
  BY DEF SplitOne
<1>4. \A i \in 1..(Len(alloc_worklist) - 1) : alloc_worklist[i] \in Obj
  BY <1>1, <1>2
<1>5. /\ Len(alloc_worklist') = IF 1 <= Len(alloc_worklist) - 1
                                THEN Len(alloc_worklist) - 1 - 1 + 1 ELSE 0
      /\ \A i \in 1..(Len(alloc_worklist) - 1 - 1 + 1) :
           alloc_worklist'[i] = alloc_worklist[1 + i - 1]
  BY <1>2, <1>3, <1>4, SubSeqProperties
<1>6. PICK k \in Nat \ {0} : k = Len(alloc_worklist)
  BY <1>2
<1>7. Len(alloc_worklist') = k - 1
  BY <1>5, <1>6
<1>8. \A i \in 1..(k - 1) : alloc_worklist'[i] = alloc_worklist[i]
  <2> TAKE i \in 1..(k - 1)
  <2>1. i \in 1..(Len(alloc_worklist) - 1 - 1 + 1) /\ 1 + i - 1 = i
    BY <1>6
  <2> QED BY <1>5, <2>1
<1> QED BY <1>6, <1>7, <1>8

LEMMA UnmergedInductive ==
  ASSUME EAInv, [EANext]_eaVars PROVE UnmergedInv'
<1> USE GraphStable DEF EAInv, EATypeOK, UnmergedInv
<1>0. \A o \in Obj : Unmerged(o)' = Unmerged(o)
  BY UnmergedStable
<1>1. CASE AdjustScalarReplaceable
  <2> DEFINE o == Worklist[next]
  <2>1. o \in Obj
    BY <1>1, VisitsObject DEF AdjustScalarReplaceable
  <2>2. CASE alloc_worklist' = alloc_worklist
    BY <2>2, <1>0
  <2>3. CASE alloc_worklist' # alloc_worklist
    <3>1. PICK c \in Cleared(o) : o \notin c
      BY <1>1, <2>3 DEF AdjustScalarReplaceable
    <3>2. alloc_worklist' = Append(alloc_worklist, o) /\ cg.esc[o] = NoEscape
      BY <1>1, <2>3 DEF AdjustScalarReplaceable
    <3>3. Unmerged(o)
      BY <2>1, <3>1, SurvivorUnmerged
    <3> HIDE DEF o
    <3>4. \A i \in 1..Len(alloc_worklist') :
            \/ i \in 1..Len(alloc_worklist) /\ alloc_worklist'[i] = alloc_worklist[i]
            \/ alloc_worklist'[i] = o
      BY <2>1, <3>2
    <3>5. \A i \in 1..Len(alloc_worklist) : alloc_worklist[i] \in Obj
      OBVIOUS
    <3> QED BY <1>0, <2>1, <3>2, <3>3, <3>4, <3>5
  <2> QED BY <2>2, <2>3
<1>2. CASE SplitOne
  <2>1. \A i \in 1..Len(alloc_worklist) : alloc_worklist[i] \in Obj
    OBVIOUS
  <2> QED BY <1>0, <1>2, <2>1, PopKeepsOthers
<1>3. CASE ~AdjustScalarReplaceable /\ ~SplitOne
  <2>1. alloc_worklist' = alloc_worklist
    BY <1>3 DEF EANext, EndAdjust, FindEligible, EndEligible, VerifySkip,
       VerifyKeep, VerifyDemote, EndVerify, EndSplit, SplitFails, eaVars
  <2> QED BY <1>0, <2>1
<1> QED BY <1>1, <1>2, <1>3

LEMMA UniqueTypesInductive ==
  ASSUME EAInv, [EANext]_eaVars PROVE UniqueTypesCurrent'
<1> USE GraphStable DEF EAInv, EATypeOK, UniqueTypesCurrent
<1>0. \A i \in 1..Len(alloc_worklist) : alloc_worklist[i] \in Obj
  OBVIOUS
<1>1. CASE AdjustScalarReplaceable
  <2> DEFINE w == Worklist[next]
  <2>1. w \in Obj
    BY <1>1, VisitsObject DEF AdjustScalarReplaceable
  <2>2. \A o \in Obj : ~nodeSR'[o]
    <3>1. nodeSR' = nodeSR /\ phase = "adjust"
      BY <1>1 DEF AdjustScalarReplaceable
    <3> QED BY <3>1 DEF CandidatesInv
  <2>3. \A i \in 1..Len(alloc_worklist) :
          sr'[alloc_worklist[i]] /\ nonEsc'[alloc_worklist[i]]
    <3> SUFFICES ASSUME NEW i \in 1..Len(alloc_worklist)
                 PROVE  sr'[alloc_worklist[i]] /\ nonEsc'[alloc_worklist[i]]
      OBVIOUS
    <3> DEFINE o == alloc_worklist[i]
    <3>1. o \in Obj /\ Unmerged(o) /\ cg.esc[o] = NoEscape /\ sr[o] /\ nonEsc[o]
      BY <1>0 DEF UnmergedInv
    <3>2. \A c \in Cleared(w) : o \notin c
      BY <2>1, <3>1, UnmergedSurvives
    <3> HIDE DEF o
    <3>3. sr'[o]
      BY <1>1, <2>1, <3>1, <3>2 DEF AdjustScalarReplaceable
    <3>4. nonEsc'[o]
      BY <1>1, <2>1, <3>1 DEF AdjustScalarReplaceable
    <3> QED BY <3>3, <3>4 DEF o
  <2>4. \A i \in 1..Len(alloc_worklist') :
          sr'[alloc_worklist'[i]] /\ nonEsc'[alloc_worklist'[i]]
    <3>1. CASE alloc_worklist' = alloc_worklist
      BY <2>3, <3>1
    <3>2. CASE alloc_worklist' # alloc_worklist
      <4>1. alloc_worklist' = Append(alloc_worklist, w) /\ sr'[w] /\ nonEsc'[w]
        BY <1>1, <2>1, <3>2 DEF AdjustScalarReplaceable
      <4> HIDE DEF w
      <4>2. \A i \in 1..Len(alloc_worklist') :
              \/ i \in 1..Len(alloc_worklist) /\ alloc_worklist'[i] = alloc_worklist[i]
              \/ alloc_worklist'[i] = w
        BY <2>1, <4>1
      <4> QED BY <2>3, <4>1, <4>2
    <3> QED BY <3>1, <3>2
  <2> QED BY <2>2, <2>4
<1>2. CASE SplitOne
  <2> DEFINE o == alloc_worklist[Len(alloc_worklist)]
  <2>1. o \in Obj
    BY <1>2 DEF SplitOne, SplitUniqueTypes
  <2>2. nodeSR'[o] => nodeSR[o] \/ GetsUniqueType(o)
    BY <1>2, <2>1 DEF SplitOne
  <2>3. nonEsc[o] = (cg.esc[o] = NoEscape)
    BY <1>2, <2>1 DEF SplitOne, EscapeInv
  <2>4. \A p \in Obj : nodeSR'[p] => sr'[p] /\ nonEsc'[p]
    BY <1>2, <2>1, <2>2, <2>3 DEF SplitOne, GetsUniqueType
  <2>5. sr' = sr /\ nonEsc' = nonEsc
    BY <1>2 DEF SplitOne
  <2> QED BY <1>2, <2>4, <2>5, PopKeepsOthers
<1>3. CASE ~AdjustScalarReplaceable /\ ~SplitOne
  BY <1>3 DEF EANext, EndAdjust, FindEligible, EndEligible, VerifySkip,
     VerifyKeep, VerifyDemote, EndVerify, EndSplit, SplitFails, eaVars
<1> QED BY <1>1, <1>2, <1>3

-----------------------------------------------------------------------------
LEMMA EAInvInit == EAInit => EAInv
<1> SUFFICES ASSUME EAInit PROVE EAInv
  OBVIOUS
<1> USE DEF EAInit
<1>1. cg \in GraphType
  BY GraphsAssumption
<1>2. EATypeOK
  BY <1>1, GraphTyping, SizesAssumption DEF EATypeOK, Phases
<1> QED
  BY <1>2 DEF EAInv, CandidatesInv, MarksInv, PassInv, KeptInv, EscapeInv,
     UnmergedInv, UniqueTypesCurrent, Verified

LEMMA EAInvInductive ==
  ASSUME EAInv, [EANext]_eaVars PROVE EAInv'
<1>1. EATypeOK'
  BY EATypeInductive DEF EAInv
<1> QED
  BY <1>1, CandidatesInductive, MarksInductive, PassInductive, KeptInductive,
     EscapeInductive, UnmergedInductive, UniqueTypesInductive DEF EAInv

\* The inductive invariant gives the properties of the model.
LEMMA EAInvImplies ==
  ASSUME EAInv
  PROVE  ChainsSafe /\ ReferencedExact /\ ChainsMaximal
BY DEF EAInv, ChainsSafe, ReferencedExact, ChainsMaximal, PassInv, ChainOK,
   MarksInv, KeptInv

LEMMA EAInvariant == EASpec => []EAInv
<1>1. EAInit => EAInv
  BY EAInvInit
<1>2. EAInv /\ [EANext]_eaVars => EAInv'
  BY EAInvInductive
<1> QED BY <1>1, <1>2, PTL DEF EASpec

\* compute_escape keeps every flag and worklist well typed.
THEOREM EATypeCorrect == EASpec => []EATypeOK
<1>1. EAInv => EATypeOK
  BY DEF EAInv
<1> QED BY <1>1, EAInvariant, PTL

\* For every method: when verify_stack_allocated_object_chains is done, only
\* allocations that are themselves stack candidates or scalar replaceable can
\* point to a stack candidate, and every such stack candidate is marked.
THEOREM ChainsAreSafe == EASpec => []ChainsSafe
<1>1. EAInv => ChainsSafe
  BY EAInvImplies
<1> QED BY <1>1, EAInvariant, PTL

\* For every method: after the chain verification only stack candidates that another
\* object points to carry _is_referenced_stack_allocation, which macro expansion
\* reads when a promise is broken; no demoted object keeps the mark of a former pass.
THEOREM ReferencedIsExact == EASpec => []ReferencedExact
<1>1. EAInv => ReferencedExact
  BY EAInvImplies
<1> QED BY <1>1, EAInvariant, PTL

\* For every method: the set of stack candidates that is left is the largest
\* safe one, in whatever order the objects were visited.
THEOREM ChainsAreMaximal == EASpec => []ChainsMaximal
<1>1. EAInv => ChainsMaximal
  BY EAInvImplies
<1> QED BY <1>1, EAInvariant, PTL

\* For every method: an object the adjustment loop lists for split_unique_types
\* is not ruled out by one it visits later, and only such objects are marked.
THEOREM UniqueTypesAreCurrent == EASpec => []UniqueTypesCurrent
<1>1. EAInv => UniqueTypesCurrent
  BY DEF EAInv
<1> QED BY <1>1, EAInvariant, PTL

-----------------------------------------------------------------------------
(***************************************************************************)
(* The two searches of AllocationUses, which the analysis and the          *)
(* expansion call, compute reachability, for every ideal graph and every   *)
(* order in which nodes are taken off the worklist. Reached is defined by  *)
(* closed sets, so no induction over paths is needed: what has been found  *)
(* is in every closed set, and when nothing is left to visit, what has     *)
(* been found is a closed set itself.                                      *)
(***************************************************************************)
AUTypeOK ==
  /\ ug \in UsesType
  /\ search \in {"overlap", "compressed"}
  /\ worklist \subseteq Node /\ visited \subseteq Node
  /\ answer \in {"none", "yes", "no"}

\* oop_may_be_compressed: everything found is reached, and every node that is
\* done has its phis found and is not used by an EncodeP.
CompressedInv ==
  search = "compressed" =>
    /\ Start \in visited /\ worklist \subseteq visited
    /\ \A n \in visited : Reached(n, {Start}, ug.phis)
    /\ answer # "yes" => \A m \in visited \ worklist :
         ug.outs[m] \cap ug.phis \subseteq visited /\ ug.outs[m] \cap ug.encodes = {}
    /\ answer = "yes" => \E m \in visited : ug.outs[m] \cap ug.encodes # {}
    /\ answer = "no" => worklist = {}

\* allocation_lifetime_overlap: everything found is reached, every node that is
\* done has its uses found, and the phi is not among them.
OverlapInv ==
  search = "overlap" /\ ug.loop =>
    /\ \A n \in visited \cup worklist : Reached(n, ug.later, Node)
    /\ ug.later \subseteq visited \cup worklist
    /\ answer # "yes" =>
         /\ Start \notin visited
         /\ \A m \in visited : ug.outs[m] \subseteq visited \cup worklist
    /\ answer = "yes" => Start \in visited
    /\ answer = "no" => worklist = {}

AUInv == AUTypeOK /\ CompressedInv /\ OverlapInv

-----------------------------------------------------------------------------
\* A use of a reached node that the search follows is reached.
LEMMA ReachedStep ==
  ASSUME ug \in UsesType, NEW n \in Node, NEW from, NEW follow,
         Reached(n, from, follow), NEW m \in ug.outs[n] \cap follow
  PROVE  Reached(m, from, follow)
BY DEF Reached, ClosedUnder, UsesType

\* What the searches start from is reached.
LEMMA ReachedStart ==
  ASSUME NEW from \in SUBSET Node, NEW n \in from, NEW follow
  PROVE  Reached(n, from, follow)
BY DEF Reached

LEMMA AUInvInit == AUInit => AUInv
<1> SUFFICES ASSUME AUInit PROVE AUInv
  OBVIOUS
<1> USE UsesAssumption DEF AUInit
<1>1. ug \in UsesType /\ ug.later \subseteq Node
  BY DEF UsesType
<1>2. CASE OverlapStart
  <2>1. \A n \in ug.later : Reached(n, ug.later, Node)
    BY <1>1, ReachedStart
  <2> QED BY <1>1, <1>2, <2>1
          DEF OverlapStart, AUInv, AUTypeOK, CompressedInv, OverlapInv
<1>3. CASE CompressedStart
  <2>1. Reached(Start, {Start}, ug.phis)
    BY ReachedStart
  <2> QED BY <1>1, <1>3, <2>1
          DEF CompressedStart, AUInv, AUTypeOK, CompressedInv, OverlapInv
<1> QED BY <1>2, <1>3

LEMMA AUInvInductive ==
  ASSUME AUInv, [AUNext]_auVars PROVE AUInv'
<1> USE DEF AUInv, AUTypeOK
<1>1. ASSUME NEW n \in Node, OverlapVisit(n) PROVE AUInv'
  <2>1. ug.outs[n] \subseteq Node
    BY DEF UsesType
  <2>2. UNCHANGED <<ug, search>> /\ search = "overlap" /\ answer = "none"
        /\ n \in worklist /\ visited' = visited \cup {n}
    BY <1>1 DEF OverlapVisit
  <2>3. AUTypeOK'
    BY <1>1, <2>1 DEF OverlapVisit
  <2>4. CompressedInv'
    BY <2>2 DEF CompressedInv
  <2>5. ASSUME ug.loop PROVE OverlapInv'
    <3> USE <2>5 DEF OverlapInv
    <3>1. Reached(n, ug.later, Node)
      BY <2>2
    <3>2. \A m \in ug.outs[n] : Reached(m, ug.later, Node)
      BY <2>1, <3>1, ReachedStep
    <3>3. \A m \in visited' \cup worklist' : Reached(m, ug.later, Node)
      BY <1>1, <2>2, <3>2 DEF OverlapVisit
    <3>4. \A m \in visited' \cup worklist' : Reached(m, ug.later, Node)'
      BY <2>2, <3>3 DEF Reached, ClosedUnder
    <3>5. CASE n \in visited
      BY <1>1, <2>2, <3>4, <3>5 DEF OverlapVisit
    <3>6. CASE n \notin visited /\ n = Start
      BY <1>1, <2>2, <3>4, <3>6 DEF OverlapVisit
    <3>7. CASE n \notin visited /\ n # Start
      BY <1>1, <2>2, <3>4, <3>7 DEF OverlapVisit
    <3> QED BY <3>5, <3>6, <3>7
  <2>6. ASSUME ~ug.loop PROVE OverlapInv'
    <3>1. ~(ug'.loop)
      BY <2>2, <2>6
    <3> QED BY <3>1 DEF OverlapInv
  <2> QED BY <2>3, <2>4, <2>5, <2>6
<1>2. ASSUME NEW n \in Node, CompressedVisit(n) PROVE AUInv'
  <2> DEFINE new == (ug.outs[n] \cap ug.phis) \ visited
  <2>1. ug.outs[n] \subseteq Node
    BY DEF UsesType
  <2>2. UNCHANGED <<ug, search>> /\ search = "compressed" /\ answer = "none"
        /\ n \in worklist
    BY <1>2 DEF CompressedVisit
  <2>3. AUTypeOK'
    BY <1>2, <2>1 DEF CompressedVisit
  <2>4. OverlapInv'
    BY <2>2 DEF OverlapInv
  <2>5. CASE ug.outs[n] \cap ug.encodes # {}
    <3>1. UNCHANGED <<worklist, visited>> /\ answer' = "yes"
      BY <1>2, <2>5 DEF CompressedVisit
    <3>2. \A m \in visited : Reached(m, {Start}, ug.phis)'
      BY <2>2 DEF CompressedInv, Reached, ClosedUnder
    <3>3. CompressedInv'
      BY <2>2, <2>5, <3>1, <3>2 DEF CompressedInv
    <3> QED BY <2>3, <2>4, <3>3
  <2>6. CASE ug.outs[n] \cap ug.encodes = {}
    <3>1. /\ worklist' = new \cup (worklist \ {n}) /\ visited' = visited \cup new
          /\ UNCHANGED answer
      BY <1>2, <2>6 DEF CompressedVisit
    <3>2. \A m \in new : Reached(m, {Start}, ug.phis)
      <4>1. Reached(n, {Start}, ug.phis)
        BY <2>2 DEF CompressedInv
      <4> QED BY <4>1, ReachedStep
    <3>3. \A m \in visited' : Reached(m, {Start}, ug.phis)'
      BY <2>2, <3>1, <3>2 DEF CompressedInv, Reached, ClosedUnder
    <3>4. \A m \in visited' \ worklist' :
            ug.outs[m] \cap ug.phis \subseteq visited'
            /\ ug.outs[m] \cap ug.encodes = {}
      BY <2>2, <2>6, <3>1 DEF CompressedInv
    <3>5. CompressedInv'
      BY <2>2, <3>1, <3>3, <3>4 DEF CompressedInv
    <3> QED BY <2>3, <2>4, <3>5
  <2> QED BY <2>5, <2>6
<1>3. CASE Exhausted
  <2>1. UNCHANGED <<ug, search, worklist, visited>> /\ answer = "none"
        /\ answer' = "no" /\ worklist = {}
    BY <1>3 DEF Exhausted
  <2>3. CompressedInv'
    BY <2>1 DEF CompressedInv, Reached, ClosedUnder
  <2>4. OverlapInv'
    BY <2>1 DEF OverlapInv, Reached, ClosedUnder
  <2> QED BY <2>1, <2>3, <2>4
<1>4. CASE UNCHANGED auVars
  BY <1>4 DEF auVars, CompressedInv, OverlapInv, Reached, ClosedUnder
<1> QED BY <1>1, <1>2, <1>3, <1>4 DEF AUNext

\* When a search is over, what it has found decides the answer.
LEMMA AUInvImplies ==
  ASSUME AUInv PROVE CompressedExact /\ OverlapFromLater
<1> USE DEF AUInv, AUTypeOK
<1>1. ASSUME search = "compressed", answer = "no",
             NEW m \in Node, Reached(m, {Start}, ug.phis)
      PROVE  ug.outs[m] \cap ug.encodes = {}
  <2>1. ClosedUnder(visited, ug.phis) /\ Start \in visited
    BY <1>1 DEF CompressedInv, ClosedUnder
  <2>2. m \in visited
    BY <1>1, <2>1 DEF Reached
  <2> QED BY <1>1, <2>2 DEF CompressedInv
<1>2. CompressedExact
  BY <1>1 DEF CompressedExact, CompressedInv
<1>3. ASSUME search = "overlap", ug.loop, answer = "no",
             Reached(Start, ug.later, Node)
      PROVE  FALSE
  <2>1. ClosedUnder(visited, Node) /\ ug.later \subseteq visited
    BY <1>3 DEF OverlapInv, ClosedUnder
  <2> QED BY <1>3, <2>1 DEF OverlapInv, Reached
<1>4. OverlapFromLater
  BY <1>3 DEF OverlapFromLater, OverlapInv
<1> QED BY <1>2, <1>4

\* The inductive invariant of the searches holds for every ideal graph.
THEOREM AUInvariant == AUSpec => []AUInv
<1>1. AUInit => AUInv
  BY AUInvInit
<1>2. AUInv /\ [AUNext]_auVars => AUInv'
  BY AUInvInductive
<1> QED BY <1>1, <1>2, PTL DEF AUSpec

\* For every ideal graph: oop_may_be_compressed finds an EncodeP exactly if the
\* allocation's result reaches one through phis.
THEOREM CompressedIsExact == AUSpec => []CompressedExact
<1>1. AUInv => CompressedExact
  BY AUInvImplies
<1> QED BY <1>1, AUInvariant, PTL

\* For every ideal graph: allocation_lifetime_overlap finds the phi exactly if a use
\* of it other than the first leads back to it.
THEOREM OverlapIsFromLater == AUSpec => []OverlapFromLater
<1>1. AUInv => OverlapFromLater
  BY AUInvImplies
<1> QED BY <1>1, AUInvariant, PTL
=============================================================================
