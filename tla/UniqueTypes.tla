----------------------------- MODULE UniqueTypes -----------------------------
(***************************************************************************)
(* split_unique_types (escape.cpp): the accesses of each scalar            *)
(* replaceable object get alias classes (slices) of their own, and memory  *)
(* is rewired so that every slice has its own chain of stores and Phis.    *)
(*                                                                         *)
(* A memory Phi's off is its slice, AnyOffset if it is for all memory.     *)
(* Slices below 10 are general, 10 * a + f is field f of allocation a.     *)
(* unique_java_object's answer for the pointer p is prg.unique[p].         *)
(***************************************************************************)
EXTENDS LoadOptimization

\* pc: the phase; work, seen: memnode_worklist, visited; merges: _mergemem_worklist;
\* up: lists are filled in the order the nodes were made, or the other way round;
\* new: the graph with the changes so far, map: _node_map, nodes: ideal_nodes,
\* phis: orig_phis, failing: out of nodes
VARIABLE ut

IsInstance(s) == s > 9
InstanceId(s) == s \div 10
GeneralIndex(s) == s % 10
PhiSlice(gr, p) == gr[p].off
\* An orig_phi or a node set_map is called for is listed once.
AppendIfMissing(seq, x) == IF Contains(seq, x) THEN seq ELSE Append(seq, x)
SetMap(c, n, to) == [c EXCEPT !.map = (n :> to) @@ @, !.nodes = AppendIfMissing(@, n)]
\* set_memory_at: the base memory is not stored.
SetMemoryAt(c, mm, s, m) ==
  [c EXCEPT !.new[mm].ins = (s :> IF m = c.new[mm].mem THEN 0 ELSE m) @@ @]
EmptyAt(c, mm, s) == s \notin DOMAIN c.new[mm].ins \/ c.new[mm].ins[s] = 0
InOrder(S) == SelectSeq([n \in 1..(Max(S \cup {0}) + 1) |-> n - 1], LAMBDA n : n \in S)
With(c, m) == [c |-> c, mem |-> m]

-----------------------------------------------------------------------------
\* create_split_phi: the Phi's version for slice s, if there is one
SplitPhis(c, p, s) ==
  IF PhiSlice(c.new, p) = s THEN {p}
  ELSE IF p \notin DOMAIN c.map THEN {}
  ELSE IF PhiSlice(c.new, c.map[p]) = s THEN {c.map[p]}
  ELSE {q \in DOMAIN c.new : c.new[q].op = "phi" /\ c.new[q].ctl = c.new[p].ctl /\ PhiSlice(c.new, q) = s}
\* unique_input: the only memory a Phi merges, 0 if there are several
UniqueMemory(c, p) ==
  LET from == {c.new[p].ins[i] : i \in DOMAIN c.new[p].ins} \ {p}
  IN IF Cardinality(from) = 1 THEN Min(from) ELSE 0

\* A new Phi for slice s of p's region; p is listed for phase 4.
SplitPhi(c, p, s) ==
  [SetMap(c, p, Len(c.new) + 1) EXCEPT
     !.new = Append(@, [c.new[p] EXCEPT !.off = s, !.ins = [i \in DOMAIN @ |-> 0]]), !.phis = AppendIfMissing(@, p)]

\* find_inst_mem: the memory above m that defines slice s.  Stores to other slices are
\* passed (for a general slice only those of instances), for an instance also what cannot
\* touch the object.  Merges on the way learn the slice, Phis are split for it.
RECURSIVE FindInstMem(_, _, _), SplitMemoryPhi(_, _, _)
FindInstMem(c, m, s) ==
  LET r == c.new[m]
      id == InstanceId(s)
      Up(x) == FindInstMem(c, x, s)
      Stop == IF r.op # "phi" THEN With(c, m)
              ELSE IF ~IsInstance(s) THEN With([c EXCEPT !.phis = AppendIfMissing(@, m)], m)
              ELSE SplitMemoryPhi(c, m, s)
      Below == FindInstMem(c, MemoryAt(c.new, m, GeneralIndex(s)), s)
  IN CASE c.failing \/ r.op = "start" -> With(c, m)
       [] r.op = "store" ->
            (IF SliceOfAccess(r) = s \/ (~IsInstance(s) /\ r.inst = 0) THEN With(c, m) ELSE Up(r.mem))
       [] r.op \notin {"start", "store"} /\ ~IsInstance(s) -> Stop
       [] r.op = "alloc" -> (IF m = id THEN Stop ELSE Up(r.mem))
       [] r.op \in {"call", "copy"} -> (IF MayModify(c.new, m, id) THEN Stop ELSE Up(r.mem))
       [] r.op = "init" -> (IF r.adr = id THEN Stop ELSE Up(r.mem))
       [] r.op \in {"acquire", "release"} -> Up(r.mem)
       [] r.op = "merge" ->
            (IF MemoryAt(c.new, m, s) # r.mem THEN Up(MemoryAt(c.new, m, s))
             ELSE IF Below.c.failing THEN Below
             ELSE With(SetMemoryAt(Below.c, m, s, Below.mem), Below.mem))
       [] r.op = "clear" -> (IF IdealAllocation(c.new, r.adr) \in {0, id} THEN Stop ELSE Up(ClearStep(c.new, m)))
       [] r.op = "phi" ->
            (IF PhiSlice(c.new, m) = s \/ UniqueMemory(c, m) = 0 THEN Stop
             ELSE FindInstMem([c EXCEPT !.phis = AppendIfMissing(@, m)], UniqueMemory(c, m), s))

\* split_memory_phi: each input of the new Phi is the slice's memory on that way.  It is
\* known before its inputs are, so a loop leads back to it.
SplitMemoryPhi(c, p, s) ==
  LET known == SplitPhis(c, p, s)
      phi == Len(c.new) + 1
      Input(d, i) == LET e == FindInstMem(d, c.new[p].ins[i], s) IN [e.c EXCEPT !.new[phi].ins[i] = e.mem]
  IN IF known # {} THEN With(c, CHOOSE q \in known : TRUE)
     ELSE IF phi > prg.limit THEN With([c EXCEPT !.failing = TRUE], p)
     ELSE With(FoldLeft(Input, SplitPhi(c, p, s), [i \in DOMAIN c.new[p].ins |-> i]), phi)

-----------------------------------------------------------------------------
\* Phase 1: instance types for the casts of allocations and everything that is only such
\* an object, accesses of it relative to its cast (split_AddP), copies into it
CastOf(gr, a) == CHOOSE n \in DOMAIN gr : gr[n].op = "cast" /\ gr[n].adr = a
Typed(gr) ==
  LET Obj(p) == IF p \in DOMAIN prg.unique THEN prg.unique[p] ELSE 0
      Retyped(n) == CASE gr[n].op \in {"load", "store"} /\ Obj(gr[n].adr) # 0 ->
                           [gr[n] EXCEPT !.inst = Obj(gr[n].adr), !.adr = CastOf(gr, Obj(gr[n].adr))]
                      [] gr[n].op = "copy" /\ Obj(gr[n].adr) # 0 -> [gr[n] EXCEPT !.adr = CastOf(gr, Obj(gr[n].adr))]
                      [] gr[n].op = "cast" -> [gr[n] EXCEPT !.inst = Obj(n)]
                      [] OTHER -> gr[n]
  IN [n \in DOMAIN gr |-> Retyped(n)]
Listed(S, up) == IF up THEN InOrder(S) ELSE Reverse(InOrder(S))
UTInit(up) ==
  ut = [pc |-> "types", work |-> <<>>, seen |-> {}, up |-> up, merges |-> Listed({n \in DOMAIN g : g[n].op = "merge"}, up),
        c |-> [new |-> g, map |-> <<>>, nodes |-> <<>>, phis |-> <<>>, failing |-> FALSE]]
InstanceTypes ==
  /\ ut.pc = "types"
  /\ LET new == Typed(g)
         work == {n \in DOMAIN new : \/ new[n].op \in {"load", "store"} /\ new[n].inst # 0
                                     \/ new[n].op = "init" /\ new[n].adr \in {prg.unique[p] : p \in DOMAIN prg.unique}}
     IN /\ ut' = [ut EXCEPT !.pc = IF work = {} THEN "done" ELSE "memory", !.work = Listed(work, ut.up), !.c.new = new]
        /\ g' = IF work = {} THEN new ELSE g
  /\ UNCHANGED prg

\* The work stops, and the compilation is retried without escape analysis.
Proceed(c, next) == ut' = IF c.failing THEN [ut EXCEPT !.pc = "failed", !.c = c] ELSE [next EXCEPT !.c = c]

\* Phase 2: the memory a node should have, remembered for phase 4.  The users of stores,
\* barriers, clearings and Phis follow.
MemoryUsers(gr, n) ==
  {u \in DOMAIN gr : \/ gr[u].op \in {"load", "store", "clear", "init", "acquire", "release"} /\ gr[u].mem = n
                     \/ gr[u].op = "phi" /\ \E i \in DOMAIN gr[u].ins : gr[u].ins[i] = n}
MemNode ==
  /\ ut.pc = "memory" /\ ut.work # <<>>
  /\ LET n == Last(ut.work)
         r == ut.c.new[n]
         found == FindInstMem(ut.c, r.mem, SliceOfAccess(r))
         c == IF r.op \notin {"load", "store"} THEN ut.c
              ELSE IF found.mem = r.mem \/ found.c.failing THEN found.c ELSE SetMap(found.c, n, found.mem)
         users == IF r.op = "load" THEN {} ELSE MemoryUsers(ut.c.new, n)
         left == Front(ut.work)
     IN IF n \in ut.seen THEN ut' = [ut EXCEPT !.work = left]
        ELSE Proceed(c, [ut EXCEPT !.work = left \o Listed(users \ ToSet(left), ut.up), !.seen = @ \cup {n}])
  /\ UNCHANGED mgVars
EndMemNodes ==
  /\ ut.pc = "memory" /\ ut.work = <<>>
  /\ ut' = [ut EXCEPT !.pc = "merges"]
  /\ UNCHANGED mgVars

\* Phase 3: the stores on a slice of merge mm move to their own slices, the first of each
\* counts; the slice takes the first of its own, or what is above all stores.
NewSlices(gr) == {SliceOfAccess(gr[n]) : n \in {k \in DOMAIN gr : gr[k].op \in {"load", "store"} /\ gr[k].inst # 0}}
RECURSIVE MoveStores(_, _, _, _, _)
MoveStores(c, mm, s, m, cur) ==
  LET r == c.new[m]
      own == SliceOfAccess(r)
      d == IF own # s /\ EmptyAt(c, mm, own) THEN SetMemoryAt(c, mm, own, m) ELSE c
  IN IF r.op = "store" THEN MoveStores(d, mm, s, r.mem, IF own = s /\ cur = 0 THEN m ELSE cur)
     ELSE With(SetMemoryAt(c, mm, s, IF cur # 0 THEN cur ELSE m), m)
SplitSlice(c, mm, s) ==
  IF EmptyAt(c, mm, s) THEN c
  ELSE LET moved == MoveStores(c, mm, s, c.new[mm].ins[s], 0)
           Missing(d, t) == IF EmptyAt(d, mm, t)
                            THEN LET f == FindInstMem(d, moved.mem, t)
                                 IN IF f.c.failing THEN f.c ELSE SetMemoryAt(f.c, mm, t, f.mem)
                            ELSE d
       IN FoldLeft(Missing, moved.c, InOrder({t \in NewSlices(c.new) : GeneralIndex(t) = s}))
\* What is still missing is found from the general slice.
RestOfSlices(c, mm) ==
  LET Rest(d, t) == LET f == FindInstMem(d, MemoryAt(d.new, mm, GeneralIndex(t)), t)
                    IN IF d.failing \/ MemoryAt(d.new, mm, t) # d.new[mm].mem THEN d
                       ELSE IF f.c.failing THEN f.c ELSE SetMemoryAt(f.c, mm, t, f.mem)
  IN FoldLeft(Rest, c, InOrder(NewSlices(c.new)))
MergeMem ==
  /\ ut.pc = "merges" /\ ut.merges # <<>>
  /\ LET mm == Head(ut.merges)
         old == InOrder({s \in DOMAIN ut.c.new[mm].ins : ~IsInstance(s)})
         split == FoldLeft(LAMBDA d, s : SplitSlice(d, mm, s), ut.c, old)
     IN Proceed(RestOfSlices(split, mm), [ut EXCEPT !.merges = Tail(@)])
  /\ UNCHANGED mgVars
EndMerges ==
  /\ ut.pc = "merges" /\ ut.merges = <<>>
  /\ ut' = [ut EXCEPT !.pc = "phis", !.seen = {}]
  /\ UNCHANGED mgVars

\* Phase 4: the Phis that were split leave instances out, in the order they were listed;
\* seen are the ones that are done.
UpdatePhi ==
  /\ ut.pc = "phis"
  /\ \E j \in DOMAIN ut.c.phis :
       /\ ut.c.phis[j] \notin ut.seen /\ \A k \in 1..(j - 1) : ut.c.phis[k] \in ut.seen
       /\ LET p == ut.c.phis[j]
              Input(c, i) == LET f == FindInstMem(c, c.new[p].ins[i], PhiSlice(c.new, p))
                             IN IF f.c.failing THEN f.c ELSE [f.c EXCEPT !.new[p].ins[i] = f.mem]
          IN Proceed(FoldLeft(Input, ut.c, [i \in DOMAIN ut.c.new[p].ins |-> i]), [ut EXCEPT !.seen = @ \cup {p}])
  /\ UNCHANGED mgVars
EndPhis ==
  /\ ut.pc = "phis" /\ ToSet(ut.c.phis) \subseteq ut.seen
  /\ ut' = [ut EXCEPT !.pc = "inputs"]
  /\ UNCHANGED mgVars
\* move_inst_mem: a merge that has the store on its general slice takes what is above it.
MoveInstMem(c, n) ==
  LET s == SliceOfAccess(c.new[n])
      uses == {u \in DOMAIN c.new : c.new[u].op = "merge" /\ IsInstance(s) /\ MemoryAt(c.new, u, GeneralIndex(s)) = n}
  IN FoldLeft(LAMBDA d, u : SetMemoryAt(d, u, GeneralIndex(s), FindInstMem(d, n, GeneralIndex(s)).mem), c, InOrder(uses))
\* Then the memory inputs found in phase 2 are set.
UpdateMemory ==
  /\ ut.pc = "inputs"
  /\ LET mem == SelectSeq(ut.c.nodes, LAMBDA n : ut.c.new[n].op \in {"load", "store"})
         Update(c, n) == LET d == IF c.new[n].op = "store" THEN MoveInstMem(c, n) ELSE c
                         IN [d EXCEPT !.new[n].mem = c.map[n]]
         c == FoldLeft(Update, ut.c, mem)
     IN /\ ut' = [ut EXCEPT !.pc = "done", !.c = c]
        /\ g' = c.new
  /\ UNCHANGED prg

UTNext ==
  InstanceTypes \/ MemNode \/ EndMemNodes \/ MergeMem \/ EndMerges \/ UpdatePhi \/ EndPhis \/ UpdateMemory
=============================================================================
