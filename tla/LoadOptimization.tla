-------------------------- MODULE LoadOptimization --------------------------
(***************************************************************************)
(* Loads and stores under iterative GVN: a load moves up its memory chain  *)
(* past what cannot write its field, splits through a memory Phi, takes    *)
(* the value of the store or initialization it finds or the source of an   *)
(* arraycopy; redundant stores disappear (memnode.cpp).                    *)
(***************************************************************************)
EXTENDS MemoryGraph

CONSTANTS MaxWalk,     \* the cycle limiter of find_previous_store
          MaxNodes     \* bound on the size of the graph

SliceOfAccess(r) == Slice(r.inst, r.off)
\* external: ArrayCopyNode::modifies
CopyModifies(c, off, must) ==
  /\ off >= c.off
  /\ IF c.ins[2] = AnyOffset THEN ~must ELSE off < c.off + c.ins[2]
\* A call may modify an object of known instance only as the destination of a copy.
MayModify(gr, n, inst) == gr[n].op = "copy" /\ IdealAllocation(gr, gr[n].adr) = inst
\* ClearArrayNode::step_through: past the clearing of another object
ClearStep(gr, n) ==
  LET a == IdealAllocation(gr, gr[n].adr)
  IN IF InitOf(gr, a) # {} THEN gr[CHOOSE i \in InitOf(gr, a) : TRUE].mem ELSE gr[a].mem

\* optimize_simple_memory_chain: for a field of a known instance, the memory above calls,
\* barriers and the other objects' initializations.  A Phi or a store ends it.
RECURSIVE OptimizeChain(_, _, _, _)
OptimizeChain(gr, m, inst, s) ==
  LET r == gr[m]
      next == CASE r.op = "alloc" -> (IF m = inst THEN m ELSE r.mem)
                [] r.op \in {"call", "copy"} -> (IF MayModify(gr, m, inst) THEN m ELSE r.mem)
                [] r.op = "init" -> (IF r.adr = inst THEN m ELSE r.mem)
                [] r.op \in {"acquire", "release"} -> r.mem
                [] r.op = "clear" -> (IF IdealAllocation(gr, r.adr) \in {0, inst} THEN m ELSE ClearStep(gr, m))
                [] r.op = "merge" -> MemoryAt(gr, m, s)
                [] OTHER -> m
  IN IF next = m THEN m ELSE OptimizeChain(gr, next, inst, s)
ChainOf(gr, r, m) == IF r.inst = 0 THEN m ELSE OptimizeChain(gr, m, r.inst, SliceOfAccess(r))

-----------------------------------------------------------------------------
\* mutant: a new object is taken to differ from every pointer that is not an allocation's.
NewObjectIsIndependent(gr, p1, a1, p2, a2) ==
  IF a1 = 0 /\ a2 = 0 THEN p1 # p2 /\ gr[p1].op = "con" /\ gr[p2].op = "con" ELSE a1 # a2
\* Two base pointers are never equal: different allocations or constants, or one a new
\* object and the other a value that was there before it.
DetectPtrIndependence(gr, p1, a1, p2, a2) ==
  CASE a1 = 0 /\ a2 = 0 -> p1 # p2 /\ gr[p1].op = "con" /\ gr[p2].op = "con"
    [] a1 # 0 /\ a2 # 0 -> a1 # a2
    [] a1 # 0 /\ a2 = 0 -> AllControlsDominate(gr, p2, a1)
    [] a1 = 0 /\ a2 # 0 -> AllControlsDominate(gr, p1, a2)

\* A copy whose destination is the load's base and that may (must) set the element
CopySets(gr, r, m, must) == gr[m].op = "copy" /\ gr[m].adr = r.adr /\ CopyModifies(gr[m], r.off, must)

\* One step of find_previous_store for access n at memory m: the memory above, m itself
\* as the answer, or nothing (0).
StoreStep(gr, n, m) ==
  LET r == gr[n]
      st == gr[m]
      alloc == IdealAllocation(gr, r.adr)
      Past(x) == [mem |-> x, stop |-> FALSE]
      Answer(x) == [mem |-> x, stop |-> TRUE]
      passed == IF st.op = "copy" /\ st.adr = r.adr THEN st.mem ELSE m
      up == gr[passed]
      Instance == CASE up.op \in {"call", "copy", "alloc"} /\ ~MayModify(gr, passed, r.inst) -> Past(up.mem)
                    [] up.op \in {"acquire", "release"} -> Past(up.mem)
                    [] up.op = "clear" -> (IF IdealAllocation(gr, up.adr) \in {0, r.inst} THEN Answer(passed)
                                           ELSE Past(ClearStep(gr, passed)))
                    [] up.op = "merge" -> Past(MemoryAt(gr, passed, SliceOfAccess(r)))
                    [] OTHER -> Answer(0)
  IN CASE st.op = "store" ->
            (IF \/ st.off # r.off /\ st.off # AnyOffset
                \/ st.adr # r.adr /\ DetectPtrIndependence(gr, r.adr, alloc, st.adr, IdealAllocation(gr, st.adr))
             THEN Past(st.mem)
             ELSE Answer(IF st.adr = r.adr /\ st.off = r.off THEN m ELSE 0))
       [] st.op = "init" ->
            (IF alloc = st.adr THEN Answer(m)
             ELSE IF alloc # 0 \/ AllControlsDominate(gr, n, st.adr) THEN Past(st.mem) ELSE Answer(0))
       [] CopySets(gr, r, m, FALSE) -> Answer(m)
       [] OTHER -> IF r.inst # 0 THEN Instance ELSE Answer(0)
RECURSIVE WalkStores(_, _, _, _)
WalkStores(gr, n, m, fuel) ==
  LET s == StoreStep(gr, n, m)
  IN IF fuel = 0 THEN 0 ELSE IF s.stop THEN s.mem ELSE WalkStores(gr, n, s.mem, fuel - 1)
FindPreviousStore(gr, n) == IF gr[n].off = AnyOffset THEN 0 ELSE WalkStores(gr, n, gr[n].mem, MaxWalk)

\* can_see_stored_value skips barriers for fields that are not volatile (when boxing is
\* eliminated), acquiring ones only if the field is final, as long as the merge before
\* the barrier has nothing of its own for the slice.
RECURSIVE SkipBars(_, _, _, _)
SkipBars(gr, r, st, cur) ==
  LET bar == gr[cur]
      skips == bar.op = "release" \/ (bar.op = "acquire" /\ prg.final)
      at == MemoryAt(gr, bar.mem, SliceOfAccess(r))
  IN IF ~prg.boxing \/ ~skips THEN st
     ELSE IF gr[bar.mem].op # "merge" THEN st
     ELSE IF at = gr[bar.mem].mem THEN SkipBars(gr, r, st, at) ELSE at

\* The value node that memory st holds for access n, 0 if it cannot tell
CanSeeStoredValue(gr, n, st0) ==
  LET r == gr[n]
      st == SkipBars(gr, r, st0, st0)
      alloc == IdealAllocation(gr, r.adr)
  IN CASE gr[st].op = "store" ->
            (IF r.off # AnyOffset /\ gr[st].off = r.off /\ Uncast(gr, gr[st].adr) = Uncast(gr, r.adr)
             THEN gr[st].val
             ELSE IF gr[st].adr = r.adr /\ gr[st].off = r.off THEN gr[st].val ELSE 0)
       [] gr[st].op = "alloc" -> (IF st = alloc THEN ZeroCon ELSE 0)
       [] gr[st].op = "init" ->
            (IF gr[st].adr # alloc \/ r.off = AnyOffset THEN 0
             ELSE IF r.off \in DOMAIN gr[st].ins THEN gr[st].ins[r.off] ELSE ZeroCon)
       [] OTHER -> 0

-----------------------------------------------------------------------------
IsLoad(n) == g[n].op = "load"
\* Ideal_common: a merge is read at the access's slice.
IdealCommon(n) ==
  /\ g[n].op \in {"load", "store"} /\ g[n].off # AnyOffset
  /\ g[g[n].mem].op = "merge"
  /\ g' = [g EXCEPT ![n].mem = MemoryAt(g, @, SliceOfAccess(g[n]))]
  /\ UNCHANGED prg

Ready(n) == IsLoad(n) /\ g[g[n].mem].op # "merge"
\* LoadNode::Ideal tries the memory chain first,
OptimizeMemoryChain(n) ==
  /\ Ready(n)
  /\ ChainOf(g, g[n], g[n].mem) # g[n].mem
  /\ g' = [g EXCEPT ![n].mem = ChainOf(g, g[n], @)]
  /\ UNCHANGED prg

\* then to split through a memory Phi: past a loop that does not write the field, or into
\* a Phi of loads (an existing one for the same field if there is one).
Stuck(n) == Ready(n) /\ ChainOf(g, g[n], g[n].mem) = g[n].mem
AtPhi(n) == Stuck(n) /\ g[n].inst # 0 /\ g[g[n].mem].op = "phi"
Invariant(n) == {i \in DOMAIN g[g[n].mem].ins : ChainOf(g, g[n], g[g[n].mem].ins[i]) = g[n].mem}
SkipLoop(n) ==
  /\ AtPhi(n) /\ Len(g[g[n].mem].ins) = 2
  /\ Cardinality(Invariant(n)) = 1
  /\ g' = [g EXCEPT ![n].mem = g[@].ins[3 - Min(Invariant(n))]]
  /\ UNCHANGED prg
ExistingPhi(n) ==
  {q \in DOMAIN g : g[q].op = "phi" /\ g[q].ctl = g[g[n].mem].ctl /\ g[q].adr = g[n].mem
                    /\ g[q].inst = g[n].inst /\ g[q].off = g[n].off}
SplitThroughPhi(n) ==
  /\ AtPhi(n) /\ Invariant(n) = {}
  /\ CanSeeStoredValue(g, n, g[n].mem) = 0 /\ ExistingPhi(n) = {}
  /\ LET m == g[n].mem
         region == g[m].ctl
         k == Len(g[m].ins)
         clones == [i \in 1..k |-> [g[n] EXCEPT !.mem = g[m].ins[i], !.ctl = 0]]
         phi == [g[n] EXCEPT !.op = "phi", !.ctl = region, !.mem = 0, !.adr = m, !.val = 0,
                             !.ins = [i \in 1..k |-> Len(g) + i]]
     IN /\ AllControlsDominate(g, g[n].adr, region)
        /\ Len(g) + k + 1 <= MaxNodes
        /\ g' = Subsume(g \o Append(clones, phi), n, Len(g) + k + 1)
  /\ UNCHANGED prg

\* then a load of the source of the copy that set the element,
ArraycopyValue(n) ==
  /\ Stuck(n)
  /\ LET m == FindPreviousStore(g, n)
         c == g[m]
     IN /\ m # 0 /\ CopySets(g, g[n], m, TRUE)
        /\ g' = [g EXCEPT ![n] = [@ EXCEPT !.ctl = c.ctl, !.mem = c.mem, !.adr = c.val, !.inst = 0,
                                           !.off = @ + c.ins[1] - c.off]]
  /\ UNCHANGED prg
\* and the memory past independent stores, if a value can be had there.
SkipStores(n) ==
  /\ Stuck(n)
  /\ LET m == FindPreviousStore(g, n)
     IN /\ m # 0 /\ m # g[n].mem /\ ~CopySets(g, g[n], m, TRUE)
        /\ CanSeeStoredValue(g, n, m) # 0
        /\ g' = [g EXCEPT ![n].mem = m]
  /\ UNCHANGED prg
\* LoadNode::Identity
LoadIdentity(n) ==
  /\ IsLoad(n)
  /\ LET v == CanSeeStoredValue(g, n, g[n].mem)
     IN \/ v # 0 /\ g' = Subsume(g, n, v)
        \/ /\ v = 0 /\ g[g[n].mem].op = "phi" /\ g[n].inst # 0
           /\ \E q \in ExistingPhi(n) : g' = Subsume(g, n, q)
  /\ UNCHANGED prg

-----------------------------------------------------------------------------
Users(m) == {n \in DOMAIN g : g[n].op \notin {"con", "same"} /\
              (m \in {g[n].mem, g[n].adr} \/ (g[n].op # "alloc" /\ g[n].val = m)
               \/ (g[n].op # "copy" /\ \E i \in DOMAIN g[n].ins : g[n].ins[i] = m))}
SingleUse(m) == Cardinality(Users(m)) = 1 /\ m # prg.exit
\* StoreNode::Ideal: a store that this one overwrites goes if nothing else uses it, nor
\* the stores between them.
RECURSIVE Overwritten(_, _)
Overwritten(n, st) ==
  IF ~(g[st].op = "store" /\ SingleUse(st)) THEN 0
  ELSE IF g[st].adr = g[n].adr /\ g[st].off = g[n].off /\ g[n].off # AnyOffset THEN st
  ELSE Overwritten(n, g[st].mem)
StoreIdeal(n) ==
  /\ g[n].op = "store"
  /\ LET st == Overwritten(n, g[n].mem)
     IN st # 0 /\ g' = Subsume(g, st, g[st].mem)
  /\ UNCHANGED prg
\* StoreNode::Identity: the value is there already.
StoreIdentity(n) ==
  /\ g[n].op = "store"
  /\ LET r == g[n]
         v == g[r.val]
         prev == FindPreviousStore(g, n)
     IN \/ v.op = "load" /\ v.adr = r.adr /\ v.off = r.off /\ v.mem = r.mem
        \/ g[r.mem].op = "store" /\ g[r.mem].adr = r.adr /\ g[r.mem].off = r.off /\ g[r.mem].val = r.val
        \/ /\ r.val = ZeroCon
           /\ \/ g[r.mem].op = "alloc"
              \/ prev # 0 /\ CanSeeStoredValue(g, n, prev) = ZeroCon
  /\ g' = Subsume(g, n, g[n].mem)
  /\ UNCHANGED prg

LONext == \E n \in DOMAIN g :
  \/ MergeIdeal(n) \/ MergeIdentity(n)
  \/ IdealCommon(n) \/ OptimizeMemoryChain(n) \/ SkipLoop(n) \/ SplitThroughPhi(n)
  \/ ArraycopyValue(n) \/ SkipStores(n) \/ LoadIdentity(n)
  \/ StoreIdeal(n) \/ StoreIdentity(n)

-----------------------------------------------------------------------------
\* Whatever objects the parameters are, whichever way control goes and however often a
\* loop runs, every load of the program still has the value it had in the graph as it was
\* built, and the memory the method leaves is the same (LoadNode::Ideal and Identity,
\* StoreNode::Ideal and Identity, split_unique_types).
LoadsKeepValues ==
  \A env \in prg.envs, it \in Trips :
    /\ \A n \in prg.loads : ValueIn(g, env, n, it) = ValueIn(prg.nodes, env, n, it)
    /\ \A o \in prg.objs, f \in prg.fields :
         FieldIn(g, env, prg.exit, o, f, it) = FieldIn(prg.nodes, env, prg.exit, o, f, it)
=============================================================================
