---------------------------- MODULE MCIdealGraph ----------------------------
EXTENDS InitializeNode, ScalarValue, UniqueTypes, LockElimination, LockExpansion

\* Each behaviour is one of a component; the others stay as they are.
VARIABLE part

\* Objects: 12 bytes of header, or 16
Instance(h, n) ==
  [header |-> h, minHeader |-> 12, size |-> n, known |-> TRUE, layout |-> n, zeroTLAB |-> FALSE,
   reduce |-> TRUE, bulk |-> TRUE, simple64 |-> "always",
   inputs |-> [x \in {"sum", "self", "far", "deep"} |-> CASE x = "sum" -> {"x", "y"} [] x = "self" -> {"x", "init"}
                                                  [] x = "far" -> {"later"} [] x = "deep" -> {"x", "y", "sum"}]]
Ary(h, n) == [Instance(h, n) EXCEPT !.layout = 0]
Opcode(size) == CASE size = 1 -> "StoreB" [] size = 2 -> "StoreC" [] size = 4 -> "StoreI" [] size = 8 -> "StoreL"
Typ(size) == IF size = 8 THEN "long" ELSE "int"
Access(k, off, size, s) ==
  [kind |-> k, op |-> Opcode(size), off |-> off, size |-> size, slice |-> s, val |-> "con", con |-> "none",
   zero |-> FALSE, bytes |-> [i \in 1..size |-> 0]]
\* n distinguishes the stores.
Var(n, off, size, s) == [Access("store", off, size, s) EXCEPT !.val = "sum", !.bytes = [i \in 1..size |-> 100 * n + i]]
Con(n, off, size, s) ==
  [Access("store", off, size, s) EXCEPT !.con = Typ(size), !.bytes = [i \in 1..size |-> IF i = 1 THEN n ELSE 0]]
Zero(off, size, s) == [Access("store", off, size, s) EXCEPT !.con = Typ(size), !.zero = TRUE]
Load(off, size, s) == Access("load", off, size, s)
OtherLoad(off, size, s) == Access("loadOther", off, size, s)
Store(n, what, off, size, s) ==
  CASE what = "var" -> Var(n, off, size, s) [] what = "con" -> Con(n, off, size, s) [] what = "zero" -> Zero(off, size, s)
Whole(o) == [Access("copy", o.header, 1, "a") EXCEPT !.size = o.size - o.header, !.bytes = [i \in 1..(o.size - o.header) |-> 900 + i]]

\* Elements of an array, each constant, unknown, zero or left out
Elements(offs, size, kinds) ==
  LET picks == [DOMAIN offs -> kinds \cup {"none"}]
      At(f) == [i \in DOMAIN offs |-> IF f[i] = "none" THEN Access("none", offs[i], size, "a") ELSE Store(i, f[i], offs[i], size, "a")]
  IN {SelectSeq(At(f), LAMBDA x : x.kind # "none") : f \in picks}
Kinds == {"var", "con", "zero"}
INInputs ==
  \/ \E p \in Elements(<<12, 13, 15, 16, 19>>, 1, {"var", "con"}), h \in {12} : INInit(Ary(h, 24), p)
  \/ \E p \in Elements(<<24, 20, 16, 12>>, 4, Kinds), w \in {"always", "int", "never"} :
       INInit([Ary(12, 32) EXCEPT !.simple64 = w], p)
  \/ \E p \in Elements(<<20, 28, 36, 40, 52>>, 4, {"var"}), t \in BOOLEAN :
       INInit([Ary(16, 64) EXCEPT !.known = t], p)
  \* Fields of an instance: each its own alias class, loads between, late values
  \/ \E v \in {"sum", "self", "far", "deep"}, ld \in {12, 16}, z \in BOOLEAN, k \in {"var", "con"} :
       INInit([Instance(12, 32) EXCEPT !.zeroTLAB = z],
              <<Store(1, k, 12, 4, "a"), Load(ld, 4, "a"), [Var(2, 12, 4, "a") EXCEPT !.val = v], Load(12, 4, "a"),
                Con(3, 24, 1, "b"), OtherLoad(26, 2, "c"), Var(4, 26, 2, "c"), Var(5, 16, 8, "d"), Zero(16, 8, "d"),
                [Con(6, 28, 4, "e") EXCEPT !.op = "StoreF", !.con = "float"]>>)
  \* Accesses of different sizes to the same bytes of an array
  \/ \E a, b, c \in {"var", "con"}, r \in BOOLEAN :
       INInit([Ary(16, 32) EXCEPT !.reduce = r],
              <<Store(1, a, 20, 4, "a"), Store(2, b, 21, 1, "a"), Load(20, 4, "a"), Store(3, c, 16, 8, "a"),
                Load(20, 4, "a"), Load(24, 1, "a")>>)
  \* A copy over the whole of it, with a store before and a store after
  \/ \E k \in Kinds, b \in BOOLEAN : LET o == [Ary(16, 32) EXCEPT !.bulk = b] IN
       INInit(o, <<Store(1, k, 20, 4, "a"), Whole(o), Var(2, 24, 4, "a"), Load(24, 4, "a"), Load(28, 4, "a")>>)
INIdle == INInit(Instance(16, 16), <<Load(8, 4, "a")>>)

-----------------------------------------------------------------------------
Nd(op) == [op |-> op, ctl |-> 0, mem |-> 0, adr |-> 0, off |-> 0, val |-> 0, ins |-> <<>>, inst |-> 0]
StartN == Nd("start")
ConN(v) == [Nd("con") EXCEPT !.val = v]
Parm == Nd("parm")
AllocN(c, m, esc) == [Nd("alloc") EXCEPT !.ctl = c, !.mem = m, !.val = esc]
InitN(a, m, cap) == [Nd("init") EXCEPT !.ctl = a, !.adr = a, !.mem = m, !.ins = cap]
CastN(c, p) == [Nd("cast") EXCEPT !.ctl = c, !.adr = p]
CfgN(op, c, m) == [Nd(op) EXCEPT !.ctl = c, !.mem = m]
StoreN(c, m, p, f, v) == [Nd("store") EXCEPT !.ctl = c, !.mem = m, !.adr = p, !.off = f, !.val = v]
LoadN(c, m, p, f) == [Nd("load") EXCEPT !.ctl = c, !.mem = m, !.adr = p, !.off = f]
Of(n, a) == [n EXCEPT !.inst = a]
PhiN(r, vs) == [Nd("phi") EXCEPT !.ctl = r, !.ins = vs]
MergeN(m, f) == [Nd("merge") EXCEPT !.mem = m, !.ins = f]
CopyN(c, m, dst, dpos, src, spos, n) ==
  [Nd("copy") EXCEPT !.ctl = c, !.mem = m, !.adr = dst, !.off = dpos, !.val = src, !.ins = <<spos, n>>]
ClearN(m, p) == [Nd("clear") EXCEPT !.mem = m, !.adr = p]
LoopN == Nd("loop")
RegionN == Nd("region")
\* A region is its own control.  The cast of an object that does not escape has an instance type.
Untyped(ns) == [n \in DOMAIN ns |-> IF ns[n].op \in {"loop", "region"} THEN [ns[n] EXCEPT !.ctl = n] ELSE ns[n]]
Graph(ns) == [n \in DOMAIN ns |-> IF ns[n].op = "cast" /\ ns[ns[n].adr].val = 0 THEN Of(ns[n], ns[n].adr) ELSE Untyped(ns)[n]]
Env(parms, ways) == [parm : [parms -> {-1, -2}], off : {1}, len : {0}, way : [ways -> {1, 2}]]
Program(ns, doms, loads, exit, objs, parms, ways) ==
  [nodes |-> Graph(ns), doms |-> doms, loads |-> loads, exit |-> exit, objs |-> objs \cup {-1, -2}, fields |-> 0..2,
   envs |-> Env(parms, ways), boxing |-> FALSE, final |-> FALSE, unique |-> <<>>, limit |-> 0]

\* Objects that may be the same: a new one is stored in a parameter's field and loaded
\* through another parameter; a store through one of them (p), its offset may be unknown (k)
LOAlias(p, k) ==
  Program(<<StartN, ConN(0), ConN(11), ConN(12), Parm, Parm, AllocN(1, 1, 1), InitN(7, 7, 1 :> 3), CastN(8, 7),
            StoreN(8, 8, 5, 0, 9), LoadN(8, 10, 6, 0), StoreN(8, 10, 9, 1, 4), LoadN(8, 12, 11, 1), LoadN(8, 12, 9, 1),
            LoadN(8, 12, 5, 1), StoreN(8, 12, p, k, 2), LoadN(8, 16, 9, 1), LoadN(8, 16, 11, 1), StoreN(8, 16, 9, 2, 2),
            LoadN(8, 19, 6, k)>>,
          [c \in {1, 7, 8} |-> 1..c], {11, 13, 14, 17, 20}, 19, {7}, {5, 6}, {})
\* Two objects that do not escape, a call, barriers and stacked merges
LOInstances ==
  Program(<<StartN, ConN(0), ConN(11), ConN(12), Parm, AllocN(1, 1, 0), InitN(6, 6, 1 :> 3), CastN(7, 6),
            AllocN(7, 7, 0), InitN(9, 9, <<>>), CastN(10, 9), Of(StoreN(10, 10, 8, 1, 4), 6), MergeN(10, 61 :> 12),
            CfgN("call", 10, 13), StoreN(14, 14, 5, 1, 3), MergeN(14, 1 :> 15), CfgN("release", 14, 16),
            Of(LoadN(17, 17, 8, 1), 6), Of(LoadN(17, 17, 11, 1), 9), LoadN(17, 17, 5, 1),
            Of(StoreN(17, 17, 11, 1, 18), 9), MergeN(17, 91 :> 21), MergeN(22, 61 :> 17), CfgN("acquire", 17, 23),
            Of(LoadN(24, 24, 11, 1), 9), LoadN(24, 24, 5, 1)>>,
          [c \in {1, 6, 7, 9, 10, 14, 17, 24} |-> {d \in {1, 6, 7, 9, 10, 14, 17, 24} : d <= c}],
          {18, 19, 20, 25, 26}, 24, {6, 9}, {5}, {})
\* Two regions, with different stores on the ways into them
LODiamonds(f) ==
  Program(<<StartN, ConN(0), ConN(11), ConN(12), Parm, AllocN(1, 1, 0), InitN(6, 6, <<>>), CastN(7, 6),
            CfgN("call", 7, 7), Of(StoreN(7, 7, 8, 1, 3), 6), RegionN, PhiN(11, <<9, 10>>), Of(LoadN(11, 12, 8, 1), 6),
            Of(LoadN(11, 12, 8, 2), 6), Of(StoreN(11, 12, 8, 2, 13), 6), RegionN, PhiN(16, <<15, 12>>),
            Of(LoadN(16, 17, 8, f), 6), LoadN(16, 17, 5, 1)>>,
          [c \in {1, 6, 7, 9, 11, 16} |-> {d \in {1, 6, 7, 11, 16} : d <= c} \cup {c}],
          {13, 14, 18, 19}, 17, {6}, {5}, {11, 16})
\* A loop that writes one field of the object, on every way or on one of them (w)
LOLoop(v, w) ==
  LET last == IF w = 18 THEN <<Of(LoadN(18, 18, 8, 1), 6)>> ELSE <<>> IN
  Program(<<StartN, ConN(0), ConN(11), ConN(12), Parm, AllocN(1, 1, 0), InitN(6, 6, <<>>), CastN(7, 6),
            Of(StoreN(7, 7, 8, 1, 3), 6), MergeN(7, 61 :> 9), LoopN, PhiN(11, <<10, w>>), Of(LoadN(11, 12, 8, 1), 6),
            Of(LoadN(11, 12, 8, 2), 6), CfgN("call", 11, 12), Of(StoreN(15, 15, 8, 2, v), 6), MergeN(15, 62 :> 16),
            CfgN("release", 15, 17), RegionN, PhiN(19, <<18, 15>>)>> \o last,
          [c \in {1, 6, 7, 11, 15, 18, 19} |-> {d \in {1, 6, 7, 11, 15} : d <= c} \cup {c}],
          {13, 14} \cup {20 + i : i \in DOMAIN last}, 12, {6}, {5}, {19})
\* A copy into a new array whose elements are loaded after the source has changed
LOCopy(d, from, n, esc) ==
  LET of == IF esc = 1 THEN 0 ELSE 6 IN
  [Program(<<StartN, ConN(0), ConN(11), ConN(12), Parm, AllocN(1, 1, esc), InitN(6, 6, <<>>), CastN(7, 6),
             StoreN(7, 7, 5, 1, 3), ClearN(9, 8), CopyN(7, 10, 8, d, 5, from, n), StoreN(11, 11, 5, 1, 4), Of(LoadN(11, 12, 8, 0), of),
             Of(LoadN(11, 12, 8, 1), of), Of(LoadN(11, 12, 8, 2), of), LoadN(11, 12, 5, 1)>>,
           [c \in {1, 6, 7, 11} |-> 1..c], 13..16, 12, {6}, {5}, {}) EXCEPT !.envs = {[e EXCEPT !.len = l] : e \in @, l \in {0, 2}}]
\* Barriers before a load of a final field (or of another one)
LOFinal(fin) ==
  [Program(<<StartN, ConN(0), ConN(11), ConN(12), Parm, AllocN(1, 1, 1), InitN(6, 6, 1 :> 3), CastN(7, 6),
             StoreN(7, 7, 8, 1, 4), MergeN(7, 1 :> 9), CfgN("acquire", 7, 10), MergeN(11, <<>>), CfgN("release", 11, 12),
             LoadN(13, 13, 8, 1), MergeN(13, 2 :> 11), CfgN("release", 13, 15), LoadN(16, 16, 8, 1)>>,
           [c \in {1, 6, 7, 11, 13, 16} |-> 1..c], {14, 17}, 16, {6}, {5}, {}) EXCEPT !.boxing = TRUE, !.final = fin]
\* Stores that others overwrite, that store what is there, or zero in a new object
LOStores(k) ==
  Program(<<StartN, ConN(0), ConN(11), ConN(12), Parm, Parm, AllocN(1, 1, 1), InitN(7, 7, <<>>), CastN(8, 7),
            StoreN(8, 8, 5, 1, 3), StoreN(8, 10, k, 2, 4), StoreN(8, 11, 5, 1, 4), StoreN(8, 12, 5, 1, 4), LoadN(8, 13, 6, 1),
            StoreN(8, 13, 6, 1, 14), StoreN(8, 15, 9, 2, 2), LoadN(8, 16, 9, 2), LoadN(8, 16, 5, 1)>>,
          [c \in {1, 7, 8} |-> 1..c], {14, 17, 18}, 16, {7}, {5, 6}, {})
\* Two new objects that others see: loads of the first, the second and a parameter's
\* object past the initialization of the second, whose memory is that before its allocation
LOTwo(p) ==
  Program(<<StartN, ConN(0), ConN(11), ConN(12), Parm, AllocN(1, 1, 1), InitN(6, 6, 1 :> 3), CastN(7, 6),
            StoreN(7, 7, p, 1, 4), AllocN(7, 9, 1), InitN(10, 9, 1 :> 4), CastN(11, 10), LoadN(11, 11, 8, 1),
            LoadN(11, 11, 12, 1), LoadN(11, 11, 5, 1), StoreN(11, 11, 12, 2, 3), LoadN(11, 16, 8, 1), StoreN(11, 16, 5, 0, 12),
            LoadN(11, 18, 5, 0), LoadN(11, 18, 19, 1)>>,
          [c \in {1, 6, 7, 10, 11} |-> {d \in {1, 6, 7, 10, 11} : d <= c}], {13, 14, 15, 17, 19, 20}, 18, {6, 10}, {5}, {})
LOPrograms ==
  {LOAlias(p, k) : p \in {5, 11}, k \in {1, AnyOffset}} \cup {LOInstances, LODiamonds(1), LODiamonds(2)} \cup {LOLoop(v, w) : v \in {4, 13}, w \in {18, 20}}
    \cup {LOCopy(d, f, n, e) : d, f, e \in {0, 1}, n \in {1, 2, AnyOffset}} \cup {LOFinal(TRUE), LOFinal(FALSE)}
    \cup {LOStores(k) : k \in {5, 6, 9}} \cup {LOTwo(p) : p \in {5, 8}}
-----------------------------------------------------------------------------
\* The graphs as they are before split_unique_types, and which pointers are one object only
Splits(p, ns, unique, limit) == [p EXCEPT !.nodes = Untyped(ns), !.unique = unique, !.limit = limit]
SlicePhi(r, vs, s) == [PhiN(r, vs) EXCEPT !.off = s]
WidePhi(r, vs) == SlicePhi(r, vs, AnyOffset)
SplitProgram(ns, ctls, loads, exit, objs, ways, unique, limit) ==
  Splits(Program(ns, [c \in ctls |-> {d \in ctls : d <= c}], loads, exit, objs, {5}, ways), ns, unique, limit)
\* Stores to the object and to others on one general slice, and a Phi of it; the last store is
\* to the object p; another object is read from the Phi or the merge after it (q).
UTExample(p, q) ==
  SplitProgram(<<StartN, ConN(0), ConN(11), ConN(12), Parm, AllocN(1, 1, 0), InitN(6, 6, 1 :> 3), CastN(7, 6),
                 StoreN(7, 7, 5, 1, 3), StoreN(7, 9, 8, 1, 4), StoreN(7, 10, p, 1, 2), LoadN(7, 11, 8, 1), RegionN,
                 SlicePhi(13, <<10, 11>>, 1), LoadN(13, 14, 8, 1), LoadN(13, q, 5, 1), MergeN(7, 1 :> 14), CfgN("call", 13, 17),
                 LoadN(18, 18, 8, 1), LoadN(18, 18, 5, 1)>>,
               {1, 6, 7, 13, 18}, {12, 15, 16, 19, 20}, 18, {6}, {13}, 8 :> 6, 40)
\* Two objects in a loop: merges of several slices, calls, a Phi of one slice, and pointers that
\* are the same object on both ways (25, of 6) or have been loaded from a field (22, of b)
UTLoop(b, limit) ==
  SplitProgram(<<StartN, ConN(0), ConN(11), ConN(12), Parm, AllocN(1, 1, 0), InitN(6, 6, <<>>), CastN(7, 6),
                 AllocN(7, 7, 0), InitN(9, 9, 2 :> 4), CastN(10, 9), StoreN(10, 10, 8, 1, 3), StoreN(10, 12, 11, 1, b),
                 MergeN(10, 1 :> 13), LoopN, WidePhi(15, <<14, 30>>), LoadN(15, 16, 8, 2), StoreN(15, 16, 8, 2, 17),
                 StoreN(15, 18, 5, 2, 3), MergeN(16, 2 :> 19), CfgN("call", 15, 20), LoadN(21, 21, 11, 1), StoreN(21, 21, 22, 2, 4),
                 RegionN, PhiN(24, <<8, 8>>), SlicePhi(24, <<21, 23>>, 2), StoreN(24, 26, 25, 2, 3), LoadN(24, 27, 22, 2),
                 LoadN(24, 27, 5, 2), MergeN(21, 2 :> 27), LoadN(15, 16, 11, 2)>>,
               {1, 6, 7, 9, 10, 15, 21, 24}, {17, 28, 29, 31}, 16, {6, 9}, {24},
               8 :> 6 @@ 11 :> 9 @@ 22 :> (IF b = 8 THEN 6 ELSE 9) @@ 25 :> 6, limit)
\* Copies into the object and into others, clearing, barriers, a Phi that merges one memory and
\* stacked merges
UTCopies(d, s) ==
  SplitProgram(<<StartN, ConN(0), ConN(11), ConN(12), Parm, AllocN(1, 1, 0), InitN(6, 6, <<>>), CastN(7, 6), ClearN(7, 8),
                 AllocN(7, 9, 1), InitN(10, 10, <<>>), CastN(11, 10), ClearN(11, 12), StoreN(11, 31, 8, 1, 3),
                 StoreN(11, 14, s, 1, 4), MergeN(13, 1 :> 15), CopyN(11, 16, d, 0, s, 1, 1), StoreN(17, 17, 8, 0, 4),
                 MergeN(17, 0 :> 18), CfgN("release", 17, 19), RegionN, WidePhi(21, <<20, 20>>), StoreN(21, 22, 5, 0, 3),
                 MergeN(22, 0 :> 23), LoadN(21, 22, 8, 0), MergeN(24, 1 :> 22), CfgN("acquire", 21, 26), LoadN(27, 27, 8, 1),
                 LoadN(27, 27, 12, 0), LoadN(27, 27, 5, 0), StoreN(11, 13, 5, 1, 2), LoadN(17, 16, 12, 1), LoadN(17, 17, 8, 0)>>,
               {1, 6, 7, 10, 11, 17, 20, 21, 27}, {25, 28, 29, 30, 32, 33}, 27, {6, 10}, {21}, 8 :> 6, 40)
UTExamples == {UTExample(p, q) : p \in {5, 8}, q \in {14, 17}}
UTPrograms == UTExamples \cup {UTLoop(8, l) : l \in {31, 33, 40}} \cup {UTLoop(11, 40)}
                \cup {UTCopies(d, s) : d, s \in {8, 12}}
-----------------------------------------------------------------------------
\* Fields of the object 6 at memory m
Query(m, off, trap) == [mem |-> m, alloc |-> 6, off |-> off, trap |-> trap]
Envs(p, lens, offs) == [p EXCEPT !.envs = {[e EXCEPT !.len = l, !.off = o] : e \in @, l \in lens, o \in offs}]
\* Three regions in a row; on the way s a store of x, a call or a copy from the parameter
SVRegions(x, c) ==
  Program(<<StartN, ConN(0), ConN(11), ConN(12), Parm, AllocN(1, 1, 0), InitN(6, 6, c), CastN(7, 6),
            Of(StoreN(7, 7, 8, 1, 3), 6), RegionN, PhiN(10, <<9, 7>>), CfgN("call", 10, 11), Of(StoreN(10, 11, 8, 2, x), 6),
            RegionN, PhiN(14, <<12, 13>>), MergeN(15, 61 :> 11), CopyN(14, 15, 8, 0, 5, 1, 1), RegionN,
            PhiN(18, <<17, 16>>), CfgN("release", 18, 19), Of(StoreN(20, 20, 8, 1, 4), 6)>>,
          <<>>, {}, 20, {6}, {5}, {10, 14, 18})
\* A loop in a loop; the inner one adds a copy of another element and stores on one way
SVLoops(x) ==
  Program(<<StartN, ConN(0), ConN(11), ConN(12), Parm, AllocN(1, 1, 0), InitN(6, 6, 1 :> 3), CastN(7, 6), LoopN,
            PhiN(9, <<7, 17>>), Of(LoadN(9, 10, 8, 1), 6), CopyN(9, 10, 8, 0, 8, x, 1), Of(StoreN(9, 12, 8, 1, 4), 6),
            RegionN, PhiN(14, <<13, 12>>), MergeN(15, <<>>), CopyN(14, 16, 8, 2, 8, 0, 1)>>,
          <<>>, {}, 17, {6}, {5}, {14})
\* A loop that leaves the field alone, with a copy of unknown length or source position before it
SVUnknown(n, from, src) ==
  Envs(Program(<<StartN, ConN(0), ConN(11), ConN(12), Parm, AllocN(1, 1, 0), InitN(6, 6, <<>>), CastN(7, 6), ClearN(7, 8),
                 Of(StoreN(7, 9, 8, 2, 3), 6), CopyN(7, 10, 8, 1, src, from, n), LoopN, PhiN(12, <<11, 14>>), CfgN("call", 12, 13)>>,
               <<>>, {}, 14, {6}, {5}, {}), {1, 2}, {0, 1})
\* A value Phi of the field that igvn built before
SVExisting ==
  Program(<<StartN, ConN(0), ConN(11), ConN(12), Parm, AllocN(1, 1, 0), InitN(6, 6, <<>>), CastN(7, 6),
            Of(StoreN(7, 7, 8, 1, 3), 6), Of(StoreN(7, 7, 8, 2, 3), 6), RegionN, PhiN(11, <<9, 10>>),
            [PhiN(11, <<3, 2>>) EXCEPT !.adr = 12, !.inst = 6, !.off = 1]>>,
          <<>>, {}, 12, {6}, {5}, {11})
SVInputs ==
  \/ \E x \in {3, 4}, c \in {<<>>, 1 :> 4, 2 :> 4}, m \in 11..21, f \in 0..2 :
       m \notin {14, 18} /\ MGInit(SVRegions(x, c)) /\ SVInit(Query(m, f, FALSE))
  \/ \E x \in {0, 1, 2, AnyOffset}, m \in {10, 12, 13, 15, 16, 17}, f \in 0..2 : MGInit(SVLoops(x)) /\ SVInit(Query(m, f, FALSE))
  \/ \E n \in {1, 2, AnyOffset}, from \in {0, AnyOffset}, src \in {5, 8}, f \in 0..2, m \in {11, 14} :
       MGInit(SVUnknown(n, from, src)) /\ SVInit(Query(m, f, m = 11))
  \/ \E f \in 0..2 : MGInit(SVExisting) /\ SVInit(Query(12, f, FALSE))
SVIdle == SVInit(Query(1, 0, FALSE))
-----------------------------------------------------------------------------
CtlN(op, c) == [op |-> op, ctl |-> c, ins |-> <<>>, obj |-> "none", box |-> 0, kind |-> "Regular", mons |-> <<>>]
JoinN(cs) == [CtlN("region", 0) EXCEPT !.ins = cs]
Mon(o, b) == [obj |-> o, box |-> b]
LockN(c, o, b, outer) == [CtlN("lock", c) EXCEPT !.obj = o, !.box = b, !.mons = Append(outer, Mon(o, b))]
UnlockN(c, o, b) == [CtlN("unlock", c) EXCEPT !.obj = o, !.box = b]
CallN(c, mons) == [CtlN("call", c) EXCEPT !.mons = mons]
\* A synchronized block: the nodes from n on, after control c
Block(n, c, o, b, o2, outer) ==
  <<LockN(c, o, b, outer), CtlN("bar", n), CallN(n + 1, Append(outer, Mon(o, b))), CtlN("bar", n + 2), UnlockN(n + 3, o2, b)>>
Box(n) == [slot |-> n, eliminated |-> FALSE]
\* a2 is a cast of a; b is another object or the same one
Method(ns, boxes, noesc, nested, same) ==
  [nodes |-> ns, boxes |-> boxes, uncast |-> [o \in {"a", "a2", "b", "p"} |-> IF o = "a2" THEN "a" ELSE o], late |-> {},
   value |-> [o \in {"a", "a2", "b", "p"} |-> IF o = "b" /\ ~same THEN 2 ELSE 1], noEscape |-> noesc,
   shared |-> (IF "a" \in noesc THEN {} ELSE {1}) \cup (IF "b" \in noesc THEN {} ELSE {2}), nested |-> nested]
Escapes(same) == {{}, {"a", "a2"}} \cup (IF same THEN {} ELSE {{"b"}})
\* Three blocks in a row; without nested lock elimination they have one box.
LKRow(noesc, nested, same) ==
  LET B(i) == IF nested THEN i ELSE 1 IN
  Method(<<CtlN("start", 0)>> \o Block(2, 1, "a", B(1), "a", <<>>) \o Block(7, 6, "a2", B(2), "a", <<>>)
           \o Block(12, 11, "b", B(3), "b", <<>>) \o <<CtlN("return", 16)>>,
         IF nested THEN <<Box(0), Box(0), Box(0)>> ELSE <<Box(0)>>, noesc, nested, same)
\* A block before, in and after an if, on both ways of it or one; the last one of object o
LKIf(noesc, both, o, same) ==
  Method(<<CtlN("start", 0)>> \o Block(2, 1, "a", 1, "a", <<>>) \o <<CtlN("if", 6), CtlN("proj", 7)>> \o Block(9, 8, "a", 2, "a", <<>>)
           \o <<CtlN("proj", 7), JoinN(<<13, IF both THEN 26 ELSE 14>>)>> \o Block(16, 15, o, 4, o, <<>>) \o <<CtlN("return", 20)>>
           \o (IF both THEN Block(22, 14, "a2", 3, "a", <<>>) ELSE <<>>),
         <<Box(0), Box(0), Box(0), Box(0)>>, noesc, TRUE, same)
\* Two blocks in another one
LKNested(noesc, o, same) ==
  LET outer == <<Mon("a", 1)>> IN
  Method(<<CtlN("start", 0), LockN(1, "a", 1, <<>>), CtlN("bar", 2)>> \o Block(4, 3, "a2", 2, "a2", outer) \o Block(9, 8, o, 3, o, outer)
           \o <<CallN(13, outer), CtlN("bar", 14), UnlockN(15, "a", 1), CtlN("return", 16)>>,
         <<Box(0), Box(1), Box(1)>>, noesc, TRUE, same)
\* A loop whose first iteration is peeled: the locks share the box; with a block after it or not
LKLoop(noesc, o, after, same) ==
  Method(<<CtlN("start", 0)>> \o Block(2, 1, "a", 1, "a", <<>>) \o <<JoinN(<<6, 14>>)>> \o Block(8, 7, o, 1, o, <<>>)
           \o <<CtlN("if", 12), CtlN("proj", 13), CtlN("proj", 13)>>
           \o (IF after THEN Block(16, 15, "a", 1, "a", <<>>) \o <<CtlN("return", 20)>> ELSE <<CtlN("return", 15)>>),
         <<Box(0)>>, noesc, TRUE, same)
\* The unlock's object has become a Phi that escape analysis knows nothing of.
LKPhi(noesc, late) ==
  [Method(<<CtlN("start", 0)>> \o Block(2, 1, "a", 1, "p", <<>>) \o Block(7, 6, "a", 2, "a", <<>>) \o <<CtlN("return", 11)>>,
          <<Box(0), Box(0)>>, noesc, TRUE, FALSE) EXCEPT !.late = late]
LKInputs ==
  \E same \in BOOLEAN : \E e \in Escapes(same) :
    \/ \E n \in BOOLEAN : LKInit(LKRow(e, n, same))
    \/ \E both \in BOOLEAN, o \in {"a", "b"} : LKInit(LKIf(e, both, o, same))
    \/ \E o \in {"a", "b"} : LKInit(LKNested(e, o, same))
    \/ \E after \in BOOLEAN : LKInit(LKLoop(e, "a", after, same)) \/ LKInit(LKLoop(e \cap {"none"}, "b", after, same))
    \/ \E late \in SUBSET {2, 7, 11} : LKInit(LKPhi(e, late))
\* The peeled iteration locks an object that does not escape, the loop others that do.
LKPeeled == \E after \in BOOLEAN : LKInit(LKLoop({"a", "a2"}, "b", after, FALSE))
BLIdle == BLInit(FALSE)
LKIdle == LKInit(Method(<<CtlN("start", 0)>>, <<>>, {}, TRUE, TRUE))
UTIdle == ut = [pc |-> "done"]
MGIdle == MGInit(Program(<<StartN>>, <<>>, {}, 1, {}, {}, {}))
MCInit ==
  \/ part = "initialize" /\ INInputs /\ MGIdle /\ SVIdle /\ LKIdle /\ BLIdle /\ UTIdle
  \/ part = "loads" /\ (\E p \in LOPrograms : MGInit(p)) /\ INIdle /\ SVIdle /\ LKIdle /\ BLIdle /\ UTIdle
  \/ part = "split" /\ (\E p \in UTPrograms, up \in BOOLEAN : MGInit(p) /\ UTInit(up)) /\ INIdle /\ SVIdle /\ LKIdle /\ BLIdle
  \/ part = "scalar" /\ SVInputs /\ INIdle /\ LKIdle /\ BLIdle /\ UTIdle
  \/ part = "locks" /\ LKInputs /\ INIdle /\ MGIdle /\ SVIdle /\ BLIdle /\ UTIdle
  \/ part = "bias" /\ (\E i \in BOOLEAN : BLInit(i)) /\ INIdle /\ MGIdle /\ SVIdle /\ LKIdle /\ UTIdle
MCNext ==
  \/ part = "initialize" /\ INNext /\ UNCHANGED <<mgVars, sv, ut, lkVars, blVars, part>>
  \/ part = "loads" /\ LONext /\ UNCHANGED <<inVars, sv, ut, lkVars, blVars, part>>
  \/ part = "split" /\ UTNext /\ UNCHANGED <<inVars, sv, lkVars, blVars, part>>
  \* Some of the split graphs are then optimized as the others are.
  \/ part = "split" /\ ut.pc = "done" /\ prg \in UTExamples /\ LONext /\ UNCHANGED <<inVars, sv, ut, lkVars, blVars, part>>
  \/ part = "scalar" /\ SVNext /\ UNCHANGED <<inVars, ut, lkVars, blVars, part>>
  \/ part = "locks" /\ LKNext /\ UNCHANGED <<inVars, mgVars, sv, ut, blVars, part>>
  \/ part = "bias" /\ BLNext /\ UNCHANGED <<inVars, mgVars, sv, ut, lkVars, part>>
MCPeeled == part = "locks" /\ LKPeeled /\ INIdle /\ MGIdle /\ SVIdle /\ BLIdle /\ UTIdle
PeeledSpec == MCPeeled /\ [][MCNext]_<<inVars, mgVars, sv, ut, lkVars, blVars, part>>
MCSpec == MCInit /\ [][MCNext]_<<inVars, mgVars, sv, ut, lkVars, blVars, part>>
=============================================================================
