------------------------------ MODULE MCBackEnd ------------------------------
(***************************************************************************)
(* Programs, blocks and instructions for the passes of the back end.       *)
(***************************************************************************)
EXTENDS BuildOopMap, BlockLayout, CodeEmission, Scheduling

\* Nodes after register allocation
Def(t, r)      == [op |-> "def", type |-> t, reg |-> r, copy |-> 0, ins |-> <<>>, args |-> {}, pairs |-> <<>>]
DerivedVal(r, b) == [Def("derived", r) EXCEPT !.ins = <<b>>]
CopyOf(t, r, n) == [Def(t, r) EXCEPT !.copy = n, !.ins = <<n>>]
PhiOf(t, r, ins) == [Def(t, r) EXCEPT !.op = "phi", !.ins = ins]
StartProj(r)   == [Def("int", r) EXCEPT !.op = "proj"]
UseOf(ins)     == [Def("none", 0) EXCEPT !.op = "use", !.ins = ins]
Safe(ins, ps)  == [Def("none", 0) EXCEPT !.op = "safe", !.ins = ins, !.pairs = ps]
CallOf(ins, as) == [Def("none", 0) EXCEPT !.op = "call", !.ins = ins, !.args = as]
Leaf(ins)      == [Def("none", 0) EXCEPT !.op = "leaf", !.ins = ins]
Blk(ns, ss)    == [nodes |-> ns, succs |-> ss]

\* What the allocator holds in registers: entries say which node, and which callee saved
\* register, at the start of each block; inside a block the nodes define and move values.
Holds(n, c) == [def |-> n, callee |-> c]
HeldAfter(p, f, n) ==
  LET d == p.nodes[n]
      gone == {r \in Regs : f.defs[r] \in d.args}
              \cup (IF d.copy # 0 /\ f.callees[p.nodes[d.copy].reg] # 0 THEN {p.nodes[d.copy].reg} ELSE {})
      g == Reach(p, f, n)
  IN  [g EXCEPT !.defs = [r \in Regs |-> IF r \in gone THEN 0 ELSE @[r]]]
HeldIn(p, b, entry) ==
  LET ns == p.blocks[b].nodes
      at0 == [defs    |-> [r \in Regs |-> IF r \in DOMAIN entry THEN entry[r].def ELSE 0],
              callees |-> [r \in Regs |-> IF r \in DOMAIN entry THEN entry[r].callee ELSE 0]]
      h[k \in 1..(Len(ns) + 1)] == IF k = 1 THEN at0 ELSE HeldAfter(p, h[k - 1], ns[k - 1])
  IN  h
Allocated(nodes, blocks, entries) ==
  LET p == [nodes |-> nodes, blocks |-> blocks]
  IN  [nodes |-> nodes, blocks |-> blocks, held |-> [b \in DOMAIN blocks |-> HeldIn(p, b, entries[b])]]

\* A loop with a derived value whose base is otherwise dead; a spill; a callee saved
\* register that is moved to a slot; and a stack object. Register 7 is the frame pointer.
BOLoop ==
  LET out == 2 :> Holds(1, 0) @@ 5 :> Holds(10, 3) @@ 6 :> Holds(11, 0) @@ 7 :> Holds(13, 0)
      in  == 1 :> Holds(2, 0) @@ out
  IN  Allocated(
    <<Def("oop", 2), DerivedVal(1, 1), StartProj(3), Safe(<<2, 1>>, <<<<2, 1>>>>), UseOf(<<2>>),
      CopyOf("oop", 4, 1), Def("int", 2), CallOf(<<6>>, {}), UseOf(<<6, 10, 13>>),
      CopyOf("int", 5, 3), Def("boxlock", 6), UseOf(<<11>>), Def("int", 7)>>,
    <<Blk(<<13, 1, 2, 3, 11, 10>>, {2}), Blk(<<4, 5>>, {2, 3}), Blk(<<6, 7, 8, 12, 9>>, {0})>>,
    <<<<>>, in, out>>)
\* Two arms that use register 2 for different things, merged by a Phi in register 1
BODiamond ==
  LET in == 1 :> Holds(1, 0) @@ 7 :> Holds(15, 0) IN
  Allocated(
    <<Def("oop", 1), Def("int", 2), Safe(<<1>>, <<>>), UseOf(<<2>>), Def("oop", 2),
      CallOf(<<1, 10>>, {10}), Def("oop", 1), Safe(<<7, 5>>, <<>>), PhiOf("oop", 1, <<1, 7>>),
      CopyOf("oop", 3, 5), Safe(<<9>>, <<>>), UseOf(<<9, 15>>), UseOf(<<5>>), Leaf(<<1>>), Def("int", 7)>>,
    <<Blk(<<15, 1, 14>>, {2, 3}), Blk(<<2, 3, 4>>, {4}), Blk(<<5, 10, 6, 7, 8, 13>>, {4}),
      Blk(<<9, 11, 12>>, {0})>>,
    <<<<>>, in, in, 1 :> Holds(9, 0) @@ 7 :> Holds(15, 0)>>)
\* A loop with two entries, a copied derived value in it
BOIrreducible ==
  LET in == 1 :> Holds(1, 0) @@ 3 :> Holds(3, 0) @@ 7 :> Holds(9, 0) IN
  Allocated(
    <<Def("oop", 1), DerivedVal(2, 1), CopyOf("derived", 3, 2), Safe(<<3, 1>>, <<<<2, 1>>>>),
      UseOf(<<3>>), Def("int", 2), Safe(<<3, 1>>, <<<<3, 1>>>>), UseOf(<<1, 9>>), Def("int", 7)>>,
    <<Blk(<<9, 1, 2, 3>>, {2, 3}), Blk(<<4, 5>>, {3, 4}), Blk(<<6, 7>>, {2}), Blk(<<8>>, {0})>>,
    <<<<>>, in, in, in>>)
\* A loop that is never left
BOInfinite ==
  LET in == 1 :> Holds(1, 0) @@ 2 :> Holds(2, 0) @@ 7 :> Holds(8, 0) IN
  Allocated(
    <<Def("oop", 1), Def("oop", 2), Safe(<<1>>, <<>>), UseOf(<<1>>), UseOf(<<2, 8>>), Def("int", 1),
      Safe(<<2, 6>>, <<>>), Def("int", 7)>>,
    <<Blk(<<8, 1, 2>>, {2, 4}), Blk(<<3, 4>>, {3}), Blk(<<>>, {2}), Blk(<<6, 7, 5>>, {0})>>,
    <<<<>>, in, in, in>>)
BOPrograms == {BOLoop, BODiamond, BOIrreducible, BOInfinite}
BOIdle == BOInit(BOInfinite)

-----------------------------------------------------------------------------
B(c, end, succs, t, edge, unc) ==
  [code |-> c, end |-> end, succs |-> succs, t |-> t, neg |-> FALSE, edge |-> edge,
   uncommon |-> unc, connector |-> FALSE]
Goto(c, to, f) == B(c, "goto", <<to>>, 1, <<f>>, FALSE)
Ret(unc) == B("code", "ret", <<>>, 1, <<>>, unc)
\* A loop with two exits; critical edges are split by empty blocks.
BLLoops ==
  {<<Goto("code", 2, 9), B("code", "if", <<3, 7>>, t1, <<f1, 1>>, FALSE),
     B("code", "if", <<4, 6>>, t2, <<f2, 2>>, FALSE), Goto(c4, 2, f2), Ret(FALSE),
     Goto("none", 5, 2), Goto("none", 5, 1)>> :
     t1, t2 \in {1, 2}, f1 \in {1, 9}, f2 \in {2, 9}, c4 \in {"code", "none", "box"}}
\* Branches that cannot be flipped, an uncommon one with the block it falls into
BLChecks ==
  {<<B("code", k, <<2, 3>>, t, <<f, 3>>, FALSE), B("code", "noflip", <<4, 5>>, 2, <<8, 1>>, FALSE),
     B("code", k, <<5, 6>>, t2, <<1, 1>>, u), Goto("code", 7, 5), Goto("box", 7, 2), Ret(u), Ret(FALSE)>> :
     k \in {"noflip", "trap", "if"}, t, t2 \in {1, 2}, f \in {1, 8}, u \in BOOLEAN}
\* A loop that is never left, inside which there is a choice
BLNever ==
  {<<Goto("code", 2, 9), B("code", "if", <<3, 4>>, t, <<3, 5>>, FALSE), Goto(c, 5, 3), Goto("code", 5, 5),
     B("none", "never", <<2, 6>>, n, <<8, 1>>, FALSE), Ret(FALSE)>> :
     t \in {1, 2}, n \in {2}, c \in {"none", "code"}}
BLInputs == \E g \in BLLoops \cup BLChecks \cup BLNever, freq \in BOOLEAN :
  BLInit(g, [i \in DOMAIN g |-> i], freq)
BLIdle == BLInit(<<Ret(FALSE)>>, <<1>>, FALSE)

-----------------------------------------------------------------------------
EB(insts, succs, align) == [insts |-> insts, succs |-> succs, align |-> align]
Op(n) == Inst("op", n)
Jump  == Inst("jump", LongSize)
Call(a) == [Inst("call", 3) EXCEPT !.align = a]
Poll  == Inst("poll", 2)
\* Loops with forward and backward branches at the edge of the short range, some of
\* them next to each other, and a loop head that starts with a branch
EMLoops ==
  {<<EB(<<>>, <<>>, 1), EB(<<Op(a), Jump>>, <<6>>, 1), EB(<<Op(b), Op(1), Jump>>, <<3>>, al), EB(<<Jump>>, <<2>>, 1),
     EB(<<Op(c), Jump>>, <<3>>, 1), EB(<<Inst("ret", 1)>>, <<>>, al)>> :
     a, b \in 1..4, c \in 1..6, al \in {1, 4}}
\* Calls, polls and implicit checks, with padding
EMChecks ==
  {<<EB(<<>>, <<>>, 1), EB(<<Op(a), Call(al), Poll, Inst("mem", 2), Inst("null", 0)>>, <<6>>, 1),
     EB(<<Poll, Op(b), [Inst(k, 3) EXCEPT !.align = al], Inst("catch", 0)>>, <<5, 6>>, 4),
     EB(<<Op(1), Inst("trap", 2)>>, <<6>>, 1), EB(<<Poll, [Op(2) EXCEPT !.abb = TRUE], [Op(1) EXCEPT !.abb = TRUE], Jump>>, <<3>>, 1),
     EB(<<Op(1), Inst("ret", 1)>>, <<>>, 2)>> : a, b \in 1..3, al \in {1, 4}, k \in {"call", "leaf"}}
EMInputs == \E p \in EMLoops \cup EMChecks, abb \in BOOLEAN : EMInit(p, abb)
EMIdle == EMInit(<<>>, FALSE)

-----------------------------------------------------------------------------
N(op, ins, use, defs, out) ==
  [op |-> op, base |-> 0, ins |-> ins, use |-> use, defs |-> defs, out |-> out, derived |-> FALSE]
Kills(n, regs) == [N("proj", {n}, {}, regs, FALSE) EXCEPT !.base = n]
HeadNode == N("head", {}, {}, {}, TRUE)
\* Two calls that kill registers, with uses before, between and after
SCCalls ==
  <<HeadNode, N("op", {}, {}, {1}, TRUE), N("op", {2}, {1}, {2}, TRUE), N("op", {2}, {1}, {3}, TRUE),
    N("call", {3}, {2}, {}, TRUE), Kills(5, {1, 2, 4}), N("op", {4}, {3}, {1}, TRUE),
    N("op", {4}, {3}, {5}, TRUE), N("call", {5, 7}, {1}, {}, TRUE), Kills(9, {1, 2, 4}), N("op", {9, 8}, {5}, {2}, TRUE)>>
\* Flags (register 5), which most instructions kill: a conditional move, a compare
SCFlags ==
  <<HeadNode, N("op", {}, {1}, {5}, TRUE), N("op", {2}, {5, 1}, {2}, TRUE), N("op", {}, {1}, {3}, TRUE), Kills(4, {5}),
    N("op", {3}, {2}, {4}, TRUE), Kills(6, {5}), N("op", {6}, {4, 3}, {5}, TRUE), N("branch", {8}, {5}, {4}, FALSE)>>
\* Derived pointers between two safepoints
SCDerived ==
  <<HeadNode, N("addp", {}, {3}, {1}, TRUE), [N("op", {2}, {1}, {}, TRUE) EXCEPT !.derived = TRUE],
    N("safe", {}, {3}, {}, TRUE), N("addp", {}, {3}, {2}, TRUE), [N("op", {5}, {2}, {4}, TRUE) EXCEPT !.derived = TRUE],
    N("safe", {4}, {3}, {}, TRUE), N("addp", {}, {3}, {1}, TRUE), N("branch", {}, {4}, {}, FALSE)>>
\* An instruction that uses the register it kills, between two kills, and one more use
SCUseKill ==
  <<HeadNode, N("op", {}, {}, {1}, TRUE), N("op", {2}, {1}, {2}, TRUE), N("op", {2}, {1}, {3}, TRUE), Kills(4, {1}),
    N("op", {}, {}, {4}, TRUE), Kills(6, {1}), N("op", {3}, {2}, {5}, TRUE), Kills(8, {1}),
    N("op", {6}, {4}, {}, FALSE), N("null", {10}, {}, {}, FALSE)>>
SCInputs == \E ns \in {SCCalls, SCFlags, SCDerived, SCUseKill} : SCInit(ns)
SCIdle == SCInit(<<HeadNode, N("branch", {}, {}, {}, FALSE)>>)

BackEndIdle == BOIdle /\ BLIdle /\ EMIdle /\ SCIdle
backEndVars == <<boVars, blVars, emVars, scVars>>
=============================================================================
