------------------------- MODULE BuildOopMap_proofs -------------------------
(***************************************************************************)
(* The oop maps of every method describe what is used after a collection.  *)
(* Liveness and reaching definitions are compared with p.held, what the    *)
(* register allocator keeps in the registers: a register that is live is   *)
(* held (WalkKnown), and the flow of a block agrees with what is held      *)
(* (ReachFits), whichever predecessor it came from.                        *)
(***************************************************************************)
EXTENDS BuildOopMap, WellFoundedInduction, TLAPS

\* Induction on the natural numbers, as a statement about a set
LEMMA NatSet ==
  ASSUME NEW S, 0 \in S, \A n \in Nat : n \in S => n + 1 \in S
  PROVE  Nat \subseteq S
<1> DEFINE T == Nat \ S
           R == {ss \in Nat \X Nat : ss[1] < ss[2]}
<1> SUFFICES ASSUME T # {} PROVE FALSE OBVIOUS
<1>1. R = OpToRel(<, Nat) BY Zenon DEF OpToRel
<1>2. \A x, y \in Nat : x < y => <<x, y>> \in R OBVIOUS
<1> HIDE DEF R
<1>3. IsWellFoundedOn(R, Nat) BY <1>1, NatLessThanWellFounded, Zenon
<1>4. PICK x \in T : \A y \in T : ~ (<<y, x>> \in R) BY <1>3, WFMin
<1>5. x # 0 /\ x - 1 \in Nat /\ x - 1 < x OBVIOUS
<1>6. <<x - 1, x>> \in R BY <1>2, <1>5
<1>7. x - 1 \in S BY <1>4, <1>5, <1>6
<1> QED BY <1>5, <1>7

-----------------------------------------------------------------------------
Ns(p, b)  == p.blocks[b].nodes
End(p, b) == Len(Ns(p, b)) + 1
FlowType(p) == [defs : [Regs -> DOMAIN p.nodes \cup {0}], callees : [Regs -> Regs \cup {0}]]
\* The registers that hold a value before position k of block b
Known(p, b, k) == {r \in Regs : p.held[b][k].defs[r] # 0}

LEMMA BlockFacts ==
  ASSUME NEW p \in Programs, NEW b \in DOMAIN p.blocks
  PROVE  /\ Ns(p, b) \in Seq(DOMAIN p.nodes) /\ Len(Ns(p, b)) \in Nat
         /\ DOMAIN Ns(p, b) = 1..Len(Ns(p, b))
         /\ p.blocks[b].succs \subseteq DOMAIN p.blocks \cup {0}
         /\ p.blocks[b].succs # {} /\ 1 \notin p.blocks[b].succs
         /\ p.held[b] \in [1..End(p, b) -> FlowType(p)]
<1>1. IsProgram(p) /\ IsAllocated(p) BY ProgramsAssumption
<1> DEFINE Block == [nodes : Seq(DOMAIN p.nodes), succs : SUBSET (DOMAIN p.blocks \cup {0})]
<1>2. p.blocks \in Seq(Block) BY <1>1 DEF IsProgram
<1>3. p.blocks[b] \in Block
  <2> HIDE DEF Block
  <2> QED BY <1>2
<1>4. Ns(p, b) \in Seq(DOMAIN p.nodes) BY <1>3 DEF Ns
<1>5. p.blocks[b].succs # {} /\ 1 \notin p.blocks[b].succs BY <1>1 DEF IsProgram
<1>6. p.held[b] \in [1..End(p, b) -> FlowType(p)] BY <1>1 DEF IsAllocated, End, Ns, FlowType
<1> QED BY <1>3, <1>4, <1>5, <1>6

LEMMA NodeFacts ==
  ASSUME NEW p \in Programs, NEW n \in DOMAIN p.nodes
  PROVE  /\ p.nodes[n] \in NodeType(DOMAIN p.nodes) /\ NodeOK(p, n)
         /\ n # 0 /\ n \in Nat
<1>1. p.nodes \in Seq(NodeType(DOMAIN p.nodes)) /\ NodeOK(p, n) BY ProgramsAssumption DEF IsProgram
<1> HIDE DEF NodeType
<1>2. p.nodes[n] \in NodeType(DOMAIN p.nodes) BY <1>1
<1>3. DOMAIN p.nodes = 1..Len(p.nodes) BY <1>1
<1> QED BY <1>1, <1>2, <1>3

LEMMA AcrossIn ==
  ASSUME NEW p \in Programs, NEW n \in DOMAIN p.nodes, NEW l \in SUBSET Regs
  PROVE  Across(p, n, l) \in SUBSET Regs
<1>1. p.nodes[n].ins \in Seq(DOMAIN p.nodes) BY NodeFacts DEF NodeType
<1>2. \A i \in ToSet(p.nodes[n].ins) : i \in DOMAIN p.nodes BY <1>1 DEF ToSet
<1>3. \A i \in DOMAIN p.nodes : p.nodes[i].reg \in Regs \cup {0} BY NodeFacts DEF NodeType
<1> QED BY <1>2, <1>3 DEF Across

-----------------------------------------------------------------------------
\* The backward walk over a block satisfies its recursive definition.
LEMMA WalkDef ==
  ASSUME NEW p \in Programs, NEW b \in DOMAIN p.blocks, NEW out \in SUBSET Regs
  PROVE  LET w == WalkFrom(p, b, out) IN
         /\ w \in [1..End(p, b) -> SUBSET Regs]
         /\ w[End(p, b)] = out
         /\ \A k \in 1..Len(Ns(p, b)) : w[k] = Across(p, Ns(p, b)[k], w[k + 1])
<1> DEFINE ns == Ns(p, b)
           L == Len(ns)
           IsWalk(w) == w = [k \in 1..(L + 1) |-> IF k > L THEN out ELSE Across(p, ns[k], w[k + 1])]
           Part(m, w) == /\ w \in [(L + 1 - m)..(L + 1) -> SUBSET Regs]
                         /\ w[L + 1] = out
                         /\ \A k \in (L + 1 - m)..L : w[k] = Across(p, ns[k], w[k + 1])
           S == {m \in Nat : m <= L => \E w : Part(m, w)}
<1>1. L \in Nat /\ ns \in Seq(DOMAIN p.nodes) /\ DOMAIN ns = 1..L BY BlockFacts
<1>2. \A k \in 1..L : ns[k] \in DOMAIN p.nodes BY <1>1
<1> HIDE DEF ns, L
<1>3. 0 \in S
  <2> DEFINE w == [k \in (L + 1)..(L + 1) |-> out]
  <2>1. Part(0, w) BY <1>1
  <2> QED BY <2>1
<1>4. \A m \in Nat : m \in S => m + 1 \in S
  <2> SUFFICES ASSUME NEW m \in Nat, m \in S, m + 1 <= L PROVE \E w : Part(m + 1, w)
    <3> HIDE DEF Part
    <3> QED OBVIOUS
  <2>1. PICK w : Part(m, w) BY <1>1
  <2> DEFINE j == L - m
             v == [k \in j..(L + 1) |-> IF k = j THEN Across(p, ns[j], w[j + 1]) ELSE w[k]]
  <2>2. j \in 1..L /\ L + 1 - m = j + 1 /\ L + 1 - (m + 1) = j BY <1>1
  <2>3. w[j + 1] \in SUBSET Regs BY <2>1, <2>2, <1>1
  <2>4. Across(p, ns[j], w[j + 1]) \in SUBSET Regs BY <2>2, <2>3, <1>2, AcrossIn
  <2> HIDE DEF j
  <2>5. v \in [j..(L + 1) -> SUBSET Regs]
    <3> SUFFICES ASSUME NEW k \in j..(L + 1), k # j PROVE w[k] \in SUBSET Regs BY <2>4
    <3>1. k \in (j + 1)..(L + 1) BY <1>1, <2>2
    <3> QED BY <3>1, <2>1, <2>2
  <2>6. v[L + 1] = out BY <2>1, <2>2, <1>1
  <2>7. \A k \in j..L : v[k] = Across(p, ns[k], v[k + 1])
    <3> SUFFICES ASSUME NEW k \in j..L PROVE v[k] = Across(p, ns[k], v[k + 1]) OBVIOUS
    <3>1. k + 1 # j /\ k + 1 \in j..(L + 1) BY <1>1, <2>2
    <3>2. v[k + 1] = w[k + 1] BY <3>1
    <3>3. CASE k = j BY <3>2, <3>3, <2>2, <1>1
    <3>4. CASE k # j
      <4>1. k \in (L + 1 - m)..L BY <3>4, <2>2, <1>1
      <4>2. w[k] = Across(p, ns[k], w[k + 1]) BY <4>1, <2>1
      <4>3. v[k] = w[k] BY <3>4, <1>1, <2>2
      <4> QED BY <4>2, <4>3, <3>2
    <3> QED BY <3>3, <3>4
  <2> HIDE DEF v
  <2>8. Part(m + 1, v) BY <2>2, <2>5, <2>6, <2>7
  <2> QED BY <2>8
<1>5. L \in S
  <2> HIDE DEF S
  <2> QED BY <1>1, <1>3, <1>4, NatSet
<1>6. PICK w : Part(L, w) BY <1>1, <1>5
<1>7. L + 1 - L = 1 BY <1>1
<1>8. w \in [1..(L + 1) -> SUBSET Regs] /\ w[L + 1] = out
      /\ \A k \in 1..L : w[k] = Across(p, ns[k], w[k + 1]) BY <1>6, <1>7
<1>9. IsWalk(w)
  <2> DEFINE v == [k \in 1..(L + 1) |-> IF k > L THEN out ELSE Across(p, ns[k], w[k + 1])]
  <2>1. \A k \in 1..(L + 1) : v[k] = w[k]
    <3> SUFFICES ASSUME NEW k \in 1..(L + 1) PROVE v[k] = w[k] OBVIOUS
    <3>1. CASE k > L
      <4>1. k = L + 1 BY <3>1, <1>1
      <4> QED BY <4>1, <3>1, <1>8, <1>1
    <3>2. CASE ~(k > L)
      <4>1. k \in 1..L BY <3>2, <1>1
      <4> QED BY <4>1, <3>2, <1>8
    <3> QED BY <3>1, <3>2
  <2> QED BY <2>1, <1>8
<1> DEFINE W == WalkFrom(p, b, out)
<1>10. W = CHOOSE u : IsWalk(u) BY DEF WalkFrom, ns, L, Ns
<1> HIDE DEF IsWalk, W
<1>11. IsWalk(W) BY <1>9, <1>10
<1>12. W = [k \in 1..(L + 1) |-> IF k > L THEN out ELSE Across(p, ns[k], W[k + 1])] BY <1>11 DEF IsWalk
<1>13. W[L + 1] = out BY <1>12, <1>1
<1>14. \A k \in 1..L : W[k] = Across(p, ns[k], W[k + 1]) BY <1>12, <1>1
<1>15. \A k \in 1..(L + 1) : W[k] = w[k]
  <2> DEFINE Q == {m \in Nat : m <= L => W[L + 1 - m] = w[L + 1 - m]}
  <2>1. 0 \in Q BY <1>1, <1>13, <1>8
  <2>2. \A m \in Nat : m \in Q => m + 1 \in Q
    <3> SUFFICES ASSUME NEW m \in Nat, m \in Q, m + 1 <= L
                 PROVE  W[L + 1 - (m + 1)] = w[L + 1 - (m + 1)] OBVIOUS
    <3> DEFINE j == L - m
    <3>1. j \in 1..L /\ L + 1 - m = j + 1 /\ L + 1 - (m + 1) = j BY <1>1
    <3>2. W[j + 1] = w[j + 1] BY <3>1, <1>1
    <3>3. W[j] = Across(p, ns[j], W[j + 1]) /\ w[j] = Across(p, ns[j], w[j + 1]) BY <3>1, <1>14, <1>8
    <3> QED BY <3>1, <3>2, <3>3
  <2> HIDE DEF Q
  <2>3. Nat \subseteq Q BY <2>1, <2>2, NatSet
  <2> SUFFICES ASSUME NEW k \in 1..(L + 1) PROVE W[k] = w[k] OBVIOUS
  <2>4. L + 1 - k \in Q /\ L + 1 - k <= L /\ L + 1 - (L + 1 - k) = k BY <1>1, <2>3
  <2> QED BY <2>4 DEF Q
<1>16. W \in [1..(L + 1) -> SUBSET Regs] BY <1>12, <1>15, <1>8
<1> QED BY <1>13, <1>14, <1>16 DEF W, L, ns, End

-----------------------------------------------------------------------------
\* What is held at a position, and what its node does with it
LEMMA HeldFacts ==
  ASSUME NEW p \in Programs, NEW b \in DOMAIN p.blocks, NEW k \in 1..End(p, b)
  PROVE  /\ p.held[b][k] \in FlowType(p)
         /\ \A r \in Known(p, b, k) : /\ r \in Regs /\ p.held[b][k].defs[r] \in DOMAIN p.nodes
                                      /\ p.nodes[p.held[b][k].defs[r]].reg = r
<1>1. p.held[b][k] \in FlowType(p) BY BlockFacts
<1>2. IsAllocated(p) BY ProgramsAssumption
<1>3. k \in 1..(Len(p.blocks[b].nodes) + 1) BY DEF End, Ns
<1>4. \A r \in Regs : p.held[b][k].defs[r] # 0 => p.nodes[p.held[b][k].defs[r]].reg = r
  BY <1>2, <1>3 DEF IsAllocated
<1> QED BY <1>1, <1>4 DEF Known, FlowType

LEMMA HeldStep ==
  ASSUME NEW p \in Programs, NEW b \in DOMAIN p.blocks, NEW k \in 1..Len(Ns(p, b))
  PROVE  /\ HeldOverNode(p, Ns(p, b)[k], p.held[b][k], p.held[b][k + 1])
         /\ Ns(p, b)[k] \in DOMAIN p.nodes
         /\ k \in 1..End(p, b) /\ k + 1 \in 1..End(p, b)
<1>1. k \in DOMAIN p.blocks[b].nodes /\ Len(Ns(p, b)) \in Nat /\ Ns(p, b) \in Seq(DOMAIN p.nodes)
  BY BlockFacts DEF Ns
<1>2. HeldOverNode(p, Ns(p, b)[k], p.held[b][k], p.held[b][k + 1])
  BY <1>1, ProgramsAssumption DEF IsAllocated, Ns
<1> QED BY <1>1, <1>2 DEF End

LEMMA InputReg ==
  ASSUME NEW p \in Programs, NEW b \in DOMAIN p.blocks, NEW k \in 1..Len(Ns(p, b)),
         NEW i \in ToSet(p.nodes[Ns(p, b)[k]].ins)
  PROVE  /\ i \in DOMAIN p.nodes /\ p.nodes[i].reg \in Regs
         /\ p.nodes[i].reg \in Known(p, b, k)
         /\ p.nodes[Ns(p, b)[k]].op # "phi" => p.held[b][k].defs[p.nodes[i].reg] = i
<1> DEFINE n == Ns(p, b)[k]
           d == p.nodes[n]
<1>1. n \in DOMAIN p.nodes /\ HeldOverNode(p, n, p.held[b][k], p.held[b][k + 1]) BY HeldStep
<1>2. d \in NodeType(DOMAIN p.nodes) /\ NodeOK(p, n) BY <1>1, NodeFacts
<1>3. d.ins \in Seq(DOMAIN p.nodes) BY <1>2 DEF NodeType
<1>4. i \in DOMAIN p.nodes BY <1>3 DEF ToSet
<1>5. p.nodes[i].reg \in Regs \cup {0} /\ i # 0 /\ n # 0 BY <1>1, <1>4, NodeFacts DEF NodeType
<1>6. CASE d.op = "phi"
  <2>1. p.nodes[i].reg = d.reg /\ d.reg # 0 BY <1>2, <1>6 DEF NodeOK
  <2>2. p.held[b][k].defs[d.reg] = n BY <1>1, <1>6 DEF HeldOverNode
  <2> QED BY <1>4, <1>5, <1>6, <2>1, <2>2 DEF Known
<1>7. CASE d.op # "phi"
  <2>1. p.nodes[i].reg # 0 /\ p.held[b][k].defs[p.nodes[i].reg] = i BY <1>1, <1>7 DEF HeldOverNode
  <2> QED BY <1>4, <1>5, <2>1 DEF Known
<1> QED BY <1>6, <1>7

\* A register other than a node's own holds before the node what it holds after it.
LEMMA HeldBefore ==
  ASSUME NEW p \in Programs, NEW b \in DOMAIN p.blocks, NEW k \in 1..Len(Ns(p, b)),
         NEW r \in Known(p, b, k + 1), r # p.nodes[Ns(p, b)[k]].reg
  PROVE  /\ r \in Known(p, b, k)
         /\ p.held[b][k + 1].defs[r] = p.held[b][k].defs[r]
         /\ p.held[b][k + 1].callees[r] = p.held[b][k].callees[r]
<1> DEFINE n == Ns(p, b)[k]
           d == p.nodes[n]
           f == p.held[b][k]
           g == p.held[b][k + 1]
<1>1. n \in DOMAIN p.nodes /\ HeldOverNode(p, n, f, g) /\ k \in 1..End(p, b) BY HeldStep
<1>2. d \in NodeType(DOMAIN p.nodes) BY <1>1, NodeFacts
<1>3. f \in FlowType(p) BY <1>1, HeldFacts
<1>4. r \in Regs /\ g.defs[r] # 0 BY DEF Known
<1>5. g.defs[r] = Reach(p, f, n).defs[r] /\ g.callees[r] = Reach(p, f, n).callees[r]
  BY <1>1, <1>4 DEF HeldOverNode, Below
<1>6. Reach(p, f, n).defs[r] = f.defs[r]
  BY <1>3, <1>4 DEF Reach, FlowType
<1>7. r \in Known(p, b, k) /\ f.defs[r] # 0 BY <1>4, <1>5, <1>6 DEF Known
<1>8. Reach(p, f, n).callees[r] = f.callees[r]
  <2>1. CASE d.reg = 0 BY <2>1 DEF Reach
  <2>2. CASE d.reg # 0 /\ (d.copy = 0 \/ p.nodes[d.copy].reg # r)
    <3>1. r # 0 BY <1>4, ProgramsAssumption
    <3> QED BY <2>2, <1>4, <3>1 DEF Reach
  <2>3. CASE d.reg # 0 /\ d.copy # 0 /\ p.nodes[d.copy].reg = r
    <3>1. f.callees[r] = 0 BY <1>1, <1>4, <1>7, <2>3 DEF HeldOverNode
    <3>2. Reach(p, f, n).callees[r] = 0 BY <2>3, <1>4 DEF Reach
    <3> QED BY <3>1, <3>2
  <2> QED BY <2>1, <2>2, <2>3
<1> QED BY <1>5, <1>6, <1>7, <1>8

\* A register that is live holds a value.
LEMMA WalkKnown ==
  ASSUME NEW p \in Programs, NEW b \in DOMAIN p.blocks, NEW out \in SUBSET Known(p, b, End(p, b))
  PROVE  \A k \in 1..End(p, b) : WalkFrom(p, b, out)[k] \subseteq Known(p, b, k)
<1> DEFINE w == WalkFrom(p, b, out)
           L == Len(Ns(p, b))
           S == {m \in Nat : m <= L => w[L + 1 - m] \subseteq Known(p, b, L + 1 - m)}
<1>1. L \in Nat /\ End(p, b) = L + 1 BY BlockFacts DEF End
<1>2. out \in SUBSET Regs BY DEF Known
<1>3. w[L + 1] = out /\ \A k \in 1..L : w[k] = Across(p, Ns(p, b)[k], w[k + 1]) BY <1>1, <1>2, WalkDef
<1> HIDE DEF w, L
<1>4. 0 \in S BY <1>1, <1>3
<1>5. \A m \in Nat : m \in S => m + 1 \in S
  <2> SUFFICES ASSUME NEW m \in Nat, m \in S, m + 1 <= L
               PROVE  w[L + 1 - (m + 1)] \subseteq Known(p, b, L + 1 - (m + 1)) OBVIOUS
  <2> DEFINE j == L - m
  <2>1. j \in 1..L /\ L + 1 - m = j + 1 /\ L + 1 - (m + 1) = j BY <1>1
  <2> HIDE DEF j
  <2>2. w[j + 1] \subseteq Known(p, b, j + 1) BY <2>1, <1>1
  <2>3. w[j] = Across(p, Ns(p, b)[j], w[j + 1]) BY <2>1, <1>3
  <2> SUFFICES ASSUME NEW r \in w[j] PROVE r \in Known(p, b, j) BY <2>1
  <2>4. CASE r \in w[j + 1] /\ r # p.nodes[Ns(p, b)[j]].reg
    BY <2>4, <2>2, <2>1, HeldBefore DEF L
  <2>5. CASE \E i \in ToSet(p.nodes[Ns(p, b)[j]].ins) : r = p.nodes[i].reg
    BY <2>5, <2>1, InputReg DEF L
  <2> QED BY <2>3, <2>4, <2>5 DEF Across
<1> HIDE DEF S
<1>6. Nat \subseteq S BY <1>4, <1>5, NatSet
<1> SUFFICES ASSUME NEW k \in 1..(L + 1) PROVE w[k] \subseteq Known(p, b, k) BY <1>1 DEF w
<1>7. L + 1 - k \in S /\ L + 1 - k <= L /\ L + 1 - (L + 1 - k) = k BY <1>1, <1>6
<1> QED BY <1>7 DEF S

\* The registers of a node's inputs are live before it.
LEMMA WalkInputs ==
  ASSUME NEW p \in Programs, NEW b \in DOMAIN p.blocks, NEW out \in SUBSET Regs,
         NEW k \in 1..Len(Ns(p, b)), NEW i \in ToSet(p.nodes[Ns(p, b)[k]].ins)
  PROVE  p.nodes[i].reg \in WalkFrom(p, b, out)[k]
<1>1. p.nodes[i].reg \in Regs BY InputReg
<1>2. p.nodes[i].reg # 0 BY <1>1, ProgramsAssumption
<1>3. WalkFrom(p, b, out)[k] = Across(p, Ns(p, b)[k], WalkFrom(p, b, out)[k + 1]) BY WalkDef
<1> QED BY <1>2, <1>3 DEF Across

\* A register that no node of a block defines is live at its start if it is live at its
\* end or used in it.
LEMMA WalkUp ==
  ASSUME NEW p \in Programs, NEW b \in DOMAIN p.blocks, NEW out \in SUBSET Regs, NEW fp \in Regs,
         \A k \in 1..Len(Ns(p, b)) : p.nodes[Ns(p, b)[k]].reg # fp,
         fp \in out \/ \E k \in 1..Len(Ns(p, b)) : \E i \in ToSet(p.nodes[Ns(p, b)[k]].ins) : p.nodes[i].reg = fp
  PROVE  fp \in WalkFrom(p, b, out)[1]
<1> DEFINE w == WalkFrom(p, b, out)
           L == Len(Ns(p, b))
<1>1. L \in Nat /\ End(p, b) = L + 1 BY BlockFacts DEF End
<1>2. w[L + 1] = out /\ \A k \in 1..L : w[k] = Across(p, Ns(p, b)[k], w[k + 1]) BY <1>1, WalkDef
<1>3. PICK j \in 1..(L + 1) : fp \in w[j]
  <2>1. CASE fp \in out BY <2>1, <1>1, <1>2
  <2>2. CASE \E k \in 1..L : \E i \in ToSet(p.nodes[Ns(p, b)[k]].ins) : p.nodes[i].reg = fp
    <3>1. PICK k \in 1..L : \E i \in ToSet(p.nodes[Ns(p, b)[k]].ins) : p.nodes[i].reg = fp BY <2>2
    <3>2. fp \in w[k] BY <3>1, WalkInputs
    <3> QED BY <3>2, <1>1
  <2> QED BY <2>1, <2>2
<1>4. \A k \in 1..L : p.nodes[Ns(p, b)[k]].reg # fp OBVIOUS
<1> HIDE DEF w, L
<1> DEFINE S == {m \in Nat : m < j => fp \in w[j - m]}
<1>5. 0 \in S BY <1>1, <1>3
<1>6. \A m \in Nat : m \in S => m + 1 \in S
  <2> SUFFICES ASSUME NEW m \in Nat, m \in S, m + 1 < j PROVE fp \in w[j - (m + 1)] OBVIOUS
  <2> DEFINE k == j - (m + 1)
  <2>1. k \in 1..L /\ k + 1 = j - m /\ m < j BY <1>1
  <2>2. fp \in w[k + 1] BY <2>1
  <2> QED BY <2>1, <2>2, <1>2, <1>4 DEF Across
<1> HIDE DEF S
<1>7. Nat \subseteq S BY <1>5, <1>6, NatSet
<1>8. j - 1 \in S /\ j - 1 < j /\ j - (j - 1) = 1 BY <1>1, <1>7
<1> QED BY <1>8 DEF S, w

-----------------------------------------------------------------------------
LEMMA ReachIn ==
  ASSUME NEW p \in Programs, NEW n \in DOMAIN p.nodes, NEW f \in FlowType(p)
  PROVE  Reach(p, f, n) \in FlowType(p)
<1> DEFINE d == p.nodes[n]
           from == IF d.copy = 0 THEN 0 ELSE p.nodes[d.copy].reg
           saved == CASE from # 0 -> f.callees[from]
                      [] from = 0 /\ d.op = "phi"  -> f.callees[d.reg]
                      [] from = 0 /\ d.op = "proj" -> d.reg
                      [] OTHER -> 0
<1>1. d.reg \in Regs \cup {0} /\ d.copy \in DOMAIN p.nodes \cup {0} BY NodeFacts DEF NodeType
<1>2. from \in Regs \cup {0} BY <1>1, NodeFacts DEF NodeType
<1> HIDE DEF from
<1>3. CASE d.reg = 0 BY <1>3 DEF Reach
<1>4. CASE d.reg # 0
  <2>1. saved \in Regs \cup {0} BY <1>1, <1>2, <1>4 DEF FlowType
  <2> HIDE DEF saved
  <2>2. [f.defs EXCEPT ![d.reg] = n] \in [Regs -> DOMAIN p.nodes \cup {0}] BY DEF FlowType
  <2>3. [r \in Regs |-> IF r = d.reg THEN saved ELSE IF r = from THEN 0 ELSE f.callees[r]] \in [Regs -> Regs \cup {0}]
    BY <2>1 DEF FlowType
  <2>4. Reach(p, f, n) = [defs |-> [f.defs EXCEPT ![d.reg] = n],
         callees |-> [r \in Regs |-> IF r = d.reg THEN saved ELSE IF r = from THEN 0 ELSE f.callees[r]]]
    BY <1>4 DEF Reach, saved, from
  <2> QED BY <2>2, <2>3, <2>4 DEF FlowType
<1> QED BY <1>3, <1>4

\* The forward pass over a block satisfies its recursive definition.
LEMMA ReachDef ==
  ASSUME NEW p \in Programs, NEW b \in DOMAIN p.blocks, NEW start \in FlowType(p)
  PROVE  LET flow == ReachFrom(p, b, start) IN
         /\ flow[1] = start
         /\ \A k \in 1..End(p, b) : flow[k] \in FlowType(p)
         /\ \A k \in 1..Len(Ns(p, b)) : flow[k + 1] = Reach(p, flow[k], Ns(p, b)[k])
<1> DEFINE ns == Ns(p, b)
           L == Len(ns)
           IsFlow(f) == f = [k \in 1..(L + 1) |-> IF k = 1 THEN start ELSE Reach(p, f[k - 1], ns[k - 1])]
           Part(m, f) == /\ f \in [1..(m + 1) -> FlowType(p)]
                         /\ f[1] = start
                         /\ \A k \in 1..m : f[k + 1] = Reach(p, f[k], ns[k])
           S == {m \in Nat : m <= L => \E f : Part(m, f)}
<1>1. L \in Nat /\ ns \in Seq(DOMAIN p.nodes) /\ DOMAIN ns = 1..L BY BlockFacts
<1>2. \A k \in 1..L : ns[k] \in DOMAIN p.nodes BY <1>1
<1> HIDE DEF ns, L, FlowType
<1>3. 0 \in S
  <2> DEFINE f == [k \in 1..1 |-> start]
  <2>1. Part(0, f) OBVIOUS
  <2> HIDE DEF f, Part
  <2> QED BY <2>1
<1>4. \A m \in Nat : m \in S => m + 1 \in S
  <2> SUFFICES ASSUME NEW m \in Nat, m \in S, m + 1 <= L PROVE \E f : Part(m + 1, f)
    <3> HIDE DEF Part
    <3> QED OBVIOUS
  <2>1. PICK f : Part(m, f) BY <1>1
  <2> DEFINE v == [k \in 1..(m + 2) |-> IF k = m + 2 THEN Reach(p, f[m + 1], ns[m + 1]) ELSE f[k]]
  <2>2. f[m + 1] \in FlowType(p) /\ ns[m + 1] \in DOMAIN p.nodes BY <2>1, <1>1, <1>2
  <2>3. Reach(p, f[m + 1], ns[m + 1]) \in FlowType(p) BY <2>2, ReachIn
  <2>4. \A k \in 1..(m + 2) : k # m + 2 => k \in 1..(m + 1) OBVIOUS
  <2>5. v \in [1..(m + 2) -> FlowType(p)] BY <2>1, <2>3, <2>4
  <2>6. v[1] = start BY <2>1
  <2>7. \A k \in 1..(m + 1) : v[k + 1] = Reach(p, v[k], ns[k])
    <3> SUFFICES ASSUME NEW k \in 1..(m + 1) PROVE v[k + 1] = Reach(p, v[k], ns[k]) OBVIOUS
    <3>1. v[k] = f[k] BY <2>4
    <3>2. CASE k = m + 1 BY <3>1, <3>2
    <3>3. CASE k # m + 1
      <4>1. k \in 1..m /\ k + 1 \in 1..(m + 1) BY <3>3
      <4>2. v[k + 1] = f[k + 1] BY <4>1, <2>4
      <4> QED BY <4>1, <4>2, <3>1, <2>1
    <3> QED BY <3>2, <3>3
  <2> HIDE DEF v
  <2>8. (m + 1) + 1 = m + 2 OBVIOUS
  <2>9. Part(m + 1, v) BY <2>5, <2>6, <2>7, <2>8
  <2> QED BY <2>9
<1>5. L \in S
  <2> HIDE DEF S
  <2> QED BY <1>1, <1>3, <1>4, NatSet
<1>6. PICK f : Part(L, f) BY <1>1, <1>5
<1>7. IsFlow(f)
  <2> DEFINE v == [k \in 1..(L + 1) |-> IF k = 1 THEN start ELSE Reach(p, f[k - 1], ns[k - 1])]
  <2>1. \A k \in 1..(L + 1) : v[k] = f[k]
    <3> SUFFICES ASSUME NEW k \in 1..(L + 1) PROVE v[k] = f[k] OBVIOUS
    <3>1. CASE k = 1 BY <3>1, <1>6
    <3>2. CASE k # 1
      <4>1. k - 1 \in 1..L /\ (k - 1) + 1 = k BY <3>2, <1>1
      <4> QED BY <4>1, <3>2, <1>6
    <3> QED BY <3>1, <3>2
  <2> QED BY <2>1, <1>6
<1> DEFINE F == ReachFrom(p, b, start)
<1>8. F = CHOOSE u : IsFlow(u) BY DEF ReachFrom, ns, L, Ns
<1> HIDE DEF IsFlow, F
<1>9. IsFlow(F) BY <1>7, <1>8
<1>10. F = [k \in 1..(L + 1) |-> IF k = 1 THEN start ELSE Reach(p, F[k - 1], ns[k - 1])] BY <1>9 DEF IsFlow
<1>11. F[1] = start BY <1>10, <1>1
<1>12. \A k \in 1..L : F[k + 1] = Reach(p, F[k], ns[k])
  <2> SUFFICES ASSUME NEW k \in 1..L PROVE F[k + 1] = Reach(p, F[k], ns[k]) OBVIOUS
  <2>1. k + 1 \in 1..(L + 1) /\ k + 1 # 1 /\ (k + 1) - 1 = k BY <1>1
  <2> QED BY <2>1, <1>10
<1>13. \A k \in 1..(L + 1) : F[k] \in FlowType(p)
  <2> DEFINE Q == {m \in Nat : m <= L => F[m + 1] \in FlowType(p)}
  <2>1. 0 \in Q BY <1>11
  <2>2. \A m \in Nat : m \in Q => m + 1 \in Q
    <3> SUFFICES ASSUME NEW m \in Nat, m \in Q, m + 1 <= L PROVE F[(m + 1) + 1] \in FlowType(p) OBVIOUS
    <3>1. m + 1 \in 1..L /\ F[m + 1] \in FlowType(p) BY <1>1
    <3>2. F[(m + 1) + 1] = Reach(p, F[m + 1], ns[m + 1]) BY <3>1, <1>12
    <3> QED BY <3>1, <3>2, <1>2, ReachIn
  <2> HIDE DEF Q
  <2>3. Nat \subseteq Q BY <2>1, <2>2, NatSet
  <2> SUFFICES ASSUME NEW k \in 1..(L + 1) PROVE F[k] \in FlowType(p) OBVIOUS
  <2>4. k - 1 \in Q /\ k - 1 <= L /\ (k - 1) + 1 = k BY <1>1, <2>3
  <2> QED BY <2>4 DEF Q
<1> QED BY <1>11, <1>12, <1>13 DEF F, L, ns, End

-----------------------------------------------------------------------------
\* A flow agrees with what is held before position k, except where that is a Phi of the
\* block that is still to come.
FlowFits(p, b, k, f) ==
  /\ f \in FlowType(p)
  /\ \A r \in Known(p, b, k) :
       /\ f.callees[r] = p.held[b][k].callees[r]
       /\ \/ f.defs[r] = p.held[b][k].defs[r]
          \/ \E j \in k..Len(Ns(p, b)) : /\ Ns(p, b)[j] = p.held[b][k].defs[r]
                                         /\ p.nodes[Ns(p, b)[j]].op = "phi"
Succ(p, b) == p.blocks[b].succs \ {0}

\* A flow that agrees with what is held before a node agrees with it afterwards.
LEMMA ReachFits ==
  ASSUME NEW p \in Programs, NEW b \in DOMAIN p.blocks, NEW k \in 1..Len(Ns(p, b)),
         NEW f, FlowFits(p, b, k, f)
  PROVE  FlowFits(p, b, k + 1, Reach(p, f, Ns(p, b)[k]))
<1> DEFINE n == Ns(p, b)[k]
           d == p.nodes[n]
           h == p.held[b][k]
           g == p.held[b][k + 1]
           e == Reach(p, f, n)
<1>1. n \in DOMAIN p.nodes /\ HeldOverNode(p, n, h, g) /\ k \in 1..End(p, b) /\ k + 1 \in 1..End(p, b) BY HeldStep
<1>2. d \in NodeType(DOMAIN p.nodes) /\ NodeOK(p, n) /\ n # 0 BY <1>1, NodeFacts
<1>3. h \in FlowType(p) /\ g \in FlowType(p) /\ f \in FlowType(p) BY <1>1, HeldFacts DEF FlowFits
<1>4. e \in FlowType(p) BY <1>1, <1>3, ReachIn
<1>5. Len(Ns(p, b)) \in Nat BY BlockFacts
<1> SUFFICES ASSUME NEW r \in Known(p, b, k + 1)
             PROVE  /\ e.callees[r] = g.callees[r]
                    /\ \/ e.defs[r] = g.defs[r]
                       \/ \E j \in (k + 1)..Len(Ns(p, b)) : Ns(p, b)[j] = g.defs[r] /\ p.nodes[Ns(p, b)[j]].op = "phi"
  BY <1>4 DEF FlowFits
<1>6. r \in Regs /\ g.defs[r] # 0 /\ r # 0 BY ProgramsAssumption DEF Known
<1>7. g.defs[r] = Reach(p, h, n).defs[r] /\ g.callees[r] = Reach(p, h, n).callees[r]
  BY <1>1, <1>6 DEF HeldOverNode, Below
<1>8. CASE r = d.reg
  <2>1. e.defs[r] = n /\ Reach(p, h, n).defs[r] = n BY <1>8, <1>6, <1>3 DEF Reach, FlowType
  <2>2. e.callees[r] = Reach(p, h, n).callees[r]
    <3>1. CASE d.copy # 0
      <4>1. d.copy \in ToSet(d.ins) BY <3>1, <1>2 DEF NodeOK
      <4>2. p.nodes[d.copy].reg \in Known(p, b, k) BY <4>1, InputReg
      <4>3. f.callees[p.nodes[d.copy].reg] = h.callees[p.nodes[d.copy].reg] BY <4>2 DEF FlowFits
      <4>4. p.nodes[d.copy].reg # 0 BY <4>2, ProgramsAssumption DEF Known
      <4> QED BY <3>1, <4>3, <4>4, <1>6, <1>8 DEF Reach
    <3>2. CASE d.copy = 0 /\ d.op = "phi"
      <4>1. h.defs[r] = n BY <1>1, <1>8, <3>2 DEF HeldOverNode
      <4>2. r \in Known(p, b, k) BY <4>1, <1>2, <1>6 DEF Known
      <4>3. f.callees[r] = h.callees[r] BY <4>2 DEF FlowFits
      <4> QED BY <3>2, <4>3, <1>6, <1>8 DEF Reach
    <3>3. CASE d.copy = 0 /\ d.op # "phi" BY <3>3, <1>6, <1>8 DEF Reach
    <3> QED BY <3>1, <3>2, <3>3
  <2> QED BY <2>1, <2>2, <1>7
<1>9. CASE r # d.reg
  <2>1. r \in Known(p, b, k) /\ g.defs[r] = h.defs[r] /\ g.callees[r] = h.callees[r] BY <1>9, HeldBefore
  <2>2. e.defs[r] = f.defs[r] BY <1>9, <1>3, <1>6 DEF Reach, FlowType
  <2>3. f.callees[r] = h.callees[r] BY <2>1 DEF FlowFits
  <2>4. e.callees[r] = g.callees[r]
    <3>1. CASE d.reg = 0 BY <3>1, <2>1, <2>3 DEF Reach
    <3>2. CASE d.reg # 0 /\ (d.copy = 0 \/ p.nodes[d.copy].reg # r) BY <3>2, <1>6, <1>9, <2>1, <2>3 DEF Reach
    <3>3. CASE d.reg # 0 /\ d.copy # 0 /\ p.nodes[d.copy].reg = r
      <4>1. e.callees[r] = 0 BY <3>3, <1>6, <1>9 DEF Reach
      <4>2. Reach(p, h, n).callees[r] = 0 BY <3>3, <1>6, <1>9 DEF Reach
      <4> QED BY <4>1, <4>2, <1>7
    <3> QED BY <3>1, <3>2, <3>3
  <2>5. CASE f.defs[r] = h.defs[r] BY <2>5, <2>1, <2>2, <2>4
  <2>6. CASE f.defs[r] # h.defs[r]
    <3>1. PICK j \in k..Len(Ns(p, b)) : Ns(p, b)[j] = h.defs[r] /\ p.nodes[Ns(p, b)[j]].op = "phi"
      BY <2>1, <2>6 DEF FlowFits
    <3>2. p.nodes[h.defs[r]].reg = r BY <1>1, <2>1, HeldFacts
    <3>3. j # k BY <3>1, <3>2, <1>9
    <3>4. j \in (k + 1)..Len(Ns(p, b)) BY <3>3, <1>5
    <3> QED BY <3>1, <3>4, <2>1, <2>4
  <2> QED BY <2>5, <2>6
<1> QED BY <1>8, <1>9

\* From the start of a block to all of it
LEMMA FlowOverBlock ==
  ASSUME NEW p \in Programs, NEW b \in DOMAIN p.blocks, NEW start, FlowFits(p, b, 1, start)
  PROVE  \A k \in 1..End(p, b) : FlowFits(p, b, k, ReachFrom(p, b, start)[k])
<1> DEFINE F == ReachFrom(p, b, start)
           L == Len(Ns(p, b))
           S == {m \in Nat : m <= L => FlowFits(p, b, m + 1, F[m + 1])}
<1>1. L \in Nat /\ End(p, b) = L + 1 BY BlockFacts DEF End
<1>2. start \in FlowType(p) BY DEF FlowFits
<1>3. F[1] = start /\ \A k \in 1..L : F[k + 1] = Reach(p, F[k], Ns(p, b)[k]) BY <1>2, ReachDef
<1> HIDE DEF F, FlowFits
<1>4. 0 \in S BY <1>3
<1>5. \A m \in Nat : m \in S => m + 1 \in S
  <2> SUFFICES ASSUME NEW m \in Nat, m \in S, m + 1 <= L PROVE m + 1 \in S
    <3> HIDE DEF F
    <3>1. \A m \in Nat : ~ (m + 1 <= L) => m + 1 \in S OBVIOUS
    <3> HIDE DEF S
    <3> QED BY <3>1
  <2>1. m + 1 \in 1..L /\ FlowFits(p, b, m + 1, F[m + 1]) BY <1>1
  <2>2. FlowFits(p, b, (m + 1) + 1, Reach(p, F[m + 1], Ns(p, b)[m + 1])) BY <2>1, ReachFits
  <2>3. FlowFits(p, b, (m + 1) + 1, F[(m + 1) + 1]) BY <2>1, <2>2, <1>3
  <2> QED BY <2>3
<1> HIDE DEF S
<1>6. Nat \subseteq S BY <1>4, <1>5, NatSet
<1> SUFFICES ASSUME NEW k \in 1..(L + 1) PROVE FlowFits(p, b, k, F[k]) BY <1>1 DEF F
<1>7. k - 1 \in S /\ k - 1 <= L /\ (k - 1) + 1 = k BY <1>1, <1>6
<1> QED BY <1>7 DEF S

\* What holds on an edge: a register that is held after it is held before it.
LEMMA EdgeFacts ==
  ASSUME NEW p \in Programs, NEW b \in DOMAIN p.blocks, NEW s \in Succ(p, b), NEW r \in Known(p, s, 1)
  PROVE  LET h == p.held[b][End(p, b)]
             g == p.held[s][1]
         IN  /\ s \in DOMAIN p.blocks /\ s # 1 /\ r \in Regs /\ r \in Known(p, b, End(p, b))
             /\ g.callees[r] = h.callees[r]
             /\ p.nodes[g.defs[r]].type = p.nodes[h.defs[r]].type
             /\ \/ g.defs[r] = h.defs[r]
                \/ \E j \in 1..Len(Ns(p, s)) : Ns(p, s)[j] = g.defs[r] /\ p.nodes[Ns(p, s)[j]].op = "phi"
<1> DEFINE h == p.held[b][End(p, b)]
           g == p.held[s][1]
<1>1. s \in p.blocks[b].succs \ {0} /\ s \in DOMAIN p.blocks /\ s # 1 BY BlockFacts DEF Succ
<1>2. HeldOverEdge(p, s, h, g) BY <1>1, ProgramsAssumption DEF IsAllocated, End, Ns
<1>3. r \in Regs /\ g.defs[r] # 0 BY DEF Known
<1>4. Len(Ns(p, s)) \in Nat /\ Ns(p, s) \in Seq(DOMAIN p.nodes) /\ DOMAIN Ns(p, s) = 1..Len(Ns(p, s))
  BY <1>1, BlockFacts
<1>5. 1 \in 1..End(p, s) BY <1>4 DEF End
<1>6. g.defs[r] \in DOMAIN p.nodes BY <1>1, <1>5, HeldFacts
<1>7. g.callees[r] = h.callees[r] BY <1>2, <1>3 DEF HeldOverEdge
<1>8. CASE g.defs[r] = h.defs[r] BY <1>1, <1>3, <1>7, <1>8 DEF Known
<1>9. CASE g.defs[r] # h.defs[r]
  <2>1. /\ g.defs[r] \in ToSet(p.blocks[s].nodes) /\ p.nodes[g.defs[r]].op = "phi"
        /\ h.defs[r] \in ToSet(p.nodes[g.defs[r]].ins) BY <1>2, <1>3, <1>9 DEF HeldOverEdge
  <2>2. p.nodes[g.defs[r]] \in NodeType(DOMAIN p.nodes) /\ NodeOK(p, g.defs[r]) BY <1>6, NodeFacts
  <2>3. p.nodes[g.defs[r]].ins \in Seq(DOMAIN p.nodes) BY <2>2 DEF NodeType
  <2> DEFINE ins == p.nodes[g.defs[r]].ins
             e == h.defs[r]
  <2>4. e \in DOMAIN p.nodes
    <3>1. ins \in Seq(DOMAIN p.nodes) /\ e \in ToSet(ins) BY <2>1, <2>3
    <3> HIDE DEF ins, e
    <3> QED BY <3>1 DEF ToSet
  <2>5. h.defs[r] # 0 BY <2>4, NodeFacts
  <2>6. p.nodes[h.defs[r]].type = p.nodes[g.defs[r]].type BY <2>1, <2>2 DEF NodeOK
  <2>7. \E j \in 1..Len(Ns(p, s)) : Ns(p, s)[j] = g.defs[r] BY <2>1, <1>4 DEF ToSet, Ns
  <2> QED BY <1>1, <1>3, <1>7, <2>1, <2>5, <2>6, <2>7 DEF Known
<1> QED BY <1>8, <1>9

\* The flow at the end of a block is right for the start of each successor.
LEMMA FlowOverEdge ==
  ASSUME NEW p \in Programs, NEW b \in DOMAIN p.blocks, NEW s \in Succ(p, b),
         NEW f, FlowFits(p, b, End(p, b), f)
  PROVE  FlowFits(p, s, 1, f)
<1> DEFINE h == p.held[b][End(p, b)]
           g == p.held[s][1]
<1>1. f \in FlowType(p) BY DEF FlowFits
<1> SUFFICES ASSUME NEW r \in Known(p, s, 1)
             PROVE  /\ f.callees[r] = g.callees[r]
                    /\ \/ f.defs[r] = g.defs[r]
                       \/ \E j \in 1..Len(Ns(p, s)) : Ns(p, s)[j] = g.defs[r] /\ p.nodes[Ns(p, s)[j]].op = "phi"
  BY <1>1 DEF FlowFits
<1>2. r \in Known(p, b, End(p, b)) /\ g.callees[r] = h.callees[r] BY EdgeFacts
<1>3. g.defs[r] = h.defs[r] \/ \E j \in 1..Len(Ns(p, s)) : Ns(p, s)[j] = g.defs[r] /\ p.nodes[Ns(p, s)[j]].op = "phi"
  BY EdgeFacts
<1>4. Len(Ns(p, b)) \in Nat /\ ~ \E j \in End(p, b)..Len(Ns(p, b)) : TRUE BY BlockFacts DEF End
<1>5. f.callees[r] = h.callees[r] /\ f.defs[r] = h.defs[r] BY <1>2, <1>4 DEF FlowFits
<1> QED BY <1>2, <1>3, <1>5

-----------------------------------------------------------------------------
\* At a safepoint nothing is pending any more.
LEMMA FlowAtPoll ==
  ASSUME NEW p \in Programs, NEW b \in DOMAIN p.blocks, NEW k \in 1..Len(Ns(p, b)),
         p.nodes[Ns(p, b)[k]].op # "phi", NEW f, FlowFits(p, b, k, f), NEW r \in Known(p, b, k)
  PROVE  f.defs[r] = p.held[b][k].defs[r] /\ f.callees[r] = p.held[b][k].callees[r]
<1>1. Len(Ns(p, b)) \in Nat /\ DOMAIN p.blocks[b].nodes = 1..Len(Ns(p, b)) BY BlockFacts DEF Ns
<1>2. \A j \in k..Len(Ns(p, b)) : p.nodes[Ns(p, b)[j]].op # "phi"
  <2> SUFFICES ASSUME NEW j \in k..Len(Ns(p, b)), p.nodes[Ns(p, b)[j]].op = "phi" PROVE FALSE OBVIOUS
  <2>1. j \in DOMAIN p.blocks[b].nodes /\ k \in DOMAIN p.blocks[b].nodes /\ k <= j BY <1>1
  <2>2. IsProgram(p) BY ProgramsAssumption
  <2>3. p.nodes[Ns(p, b)[k]].op = "phi" BY <2>1, <2>2 DEF IsProgram, Ns
  <2> QED BY <2>3
<1> QED BY <1>2 DEF FlowFits

\* The base of a derived value is an input of the safepoint, and no argument.
LEMMA BaseFacts ==
  ASSUME NEW p \in Programs, NEW n \in DOMAIN p.nodes, NEW def, PairsOf(p, n, def) # {}
  PROVE  LET base == BaseOf(p, n, def) IN
         base \in ToSet(p.nodes[n].ins) /\ base \notin p.nodes[n].args /\ p.nodes[base].type \in Oops
<1> DEFINE ps == p.nodes[n].pairs
           found == PairsOf(p, n, def)
           i == CHOOSE x \in found : \A y \in found : x <= y
<1>1. ps \in Seq((DOMAIN p.nodes) \X (DOMAIN p.nodes)) /\ NodeOK(p, n) BY NodeFacts DEF NodeType
<1>2. DOMAIN ps = 1..Len(ps) /\ Len(ps) \in Nat BY <1>1
<1>3. found \subseteq DOMAIN ps BY DEF PairsOf
<1>4. \E x \in found : \A y \in found : x <= y
  <2> DEFINE R == {ss \in Nat \X Nat : ss[1] < ss[2]}
  <2>1. R = OpToRel(<, Nat) BY Zenon DEF OpToRel
  <2>2. \A x, y \in Nat : x < y => <<x, y>> \in R OBVIOUS
  <2> HIDE DEF R
  <2>3. IsWellFoundedOn(R, Nat) BY <2>1, NatLessThanWellFounded, Zenon
  <2>4. found \subseteq Nat /\ found # {} BY <1>2, <1>3
  <2> HIDE DEF found
  <2>5. PICK x \in found : \A y \in found : ~ (<<y, x>> \in R) BY <2>3, <2>4, WFMin
  <2>6. ASSUME NEW y \in found PROVE x <= y
    <3>1. x \in Nat /\ y \in Nat /\ ~ (y < x) BY <2>2, <2>4, <2>5
    <3> QED BY <3>1
  <2> QED BY <2>6, Zenon
<1>5. i \in found BY <1>4
<1>6. i \in DOMAIN ps BY <1>3, <1>5
<1> DEFINE base == ps[i][2]
<1>7. base \in ToSet(p.nodes[n].ins) \ p.nodes[n].args /\ p.nodes[base].type \in Oops
  <2> HIDE DEF i
  <2> QED BY <1>1, <1>6 DEF NodeOK
<1>8. BaseOf(p, n, def) = base BY DEF BaseOf
<1> HIDE DEF base
<1> QED BY <1>7, <1>8

\* Each entry of m describes its location, which is in l, and each location of l that
\* needs an entry has it, before position k of block b.
MapOK(p, b, k, l, m) ==
  LET h == p.held[b][k]
      T(r) == p.nodes[h.defs[r]].type
  IN  /\ \A e \in m :
           /\ e.loc \in l /\ e.type \in {"oop", "derived", "callee"}
           /\ e.type = "oop" => T(e.loc) \in Oops
           /\ e.type = "derived" => T(e.loc) = "derived" /\ Entry(e.content, "oop", 0) \in m
           /\ e.type = "callee" => /\ T(e.loc) \notin Oops \cup {"derived"}
                                   /\ e.content = h.callees[e.loc] /\ h.callees[e.loc] # 0
      /\ \A r \in l :
           /\ T(r) \in Oops /\ h.defs[r] \notin p.nodes[Ns(p, b)[k]].args => Entry(r, "oop", 0) \in m
           /\ T(r) = "derived" => \E e \in m : e.loc = r /\ e.type = "derived"
           /\ T(r) \notin Oops \cup {"derived"} /\ h.callees[r] # 0 => Entry(r, "callee", h.callees[r]) \in m

\* The map of a safepoint whose flow agrees with what is held is right.
LEMMA MapRight ==
  ASSUME NEW p \in Programs, NEW b \in DOMAIN p.blocks, NEW k \in 1..Len(Ns(p, b)),
         p.nodes[Ns(p, b)[k]].op \in {"safe", "call"}, NEW f, FlowFits(p, b, k, f),
         NEW out \in SUBSET Known(p, b, End(p, b))
  PROVE  MapOK(p, b, k, WalkFrom(p, b, out)[k], BuildOopMapAt(p, Ns(p, b)[k], WalkFrom(p, b, out)[k], f))
<1> DEFINE n == Ns(p, b)[k]
           l == WalkFrom(p, b, out)[k]
           h == p.held[b][k]
           m == BuildOopMapAt(p, n, l, f)
           T(r) == p.nodes[h.defs[r]].type
<1>1. n \in DOMAIN p.nodes /\ HeldOverNode(p, n, h, p.held[b][k + 1]) /\ k \in 1..End(p, b) BY HeldStep
<1>2. l \subseteq Known(p, b, k) BY <1>1, WalkKnown
<1>3. out \in SUBSET Regs BY DEF Known
<1>4. \A i \in ToSet(p.nodes[n].ins) : p.nodes[i].reg \in l /\ h.defs[p.nodes[i].reg] = i
  BY <1>3, WalkInputs, InputReg
<1>5. \A r \in l : f.defs[r] = h.defs[r] /\ f.callees[r] = h.callees[r] BY <1>2, FlowAtPoll
<1>6. \A r \in l : r \in Regs /\ r # 0 /\ h.defs[r] # 0 /\ h.defs[r] \in DOMAIN p.nodes
  BY <1>1, <1>2, HeldFacts, ProgramsAssumption DEF Known
<1> DEFINE Type(r)  == IF f.defs[r] = 0 THEN "none" ELSE p.nodes[f.defs[r]].type
           breg(r)  == p.nodes[BaseOf(p, n, f.defs[r])].reg
           bases    == {r \in l : Type(r) = "derived"}
           late     == {breg(r) : r \in {q \in bases : breg(q) > q}}
           early    == {breg(r) : r \in {q \in bases : breg(q) < q /\ breg(q) \notin l}}
           oops     == {q \in l \cup late : Type(q) \in Oops /\ f.defs[q] \notin p.nodes[n].args}
           saved    == {q \in l : Type(q) \notin Oops \cup {"derived"} /\ f.callees[q] # 0}
<1>7. m = {Entry(r, "oop", 0) : r \in oops} \cup {Entry(r, "oop", 0) : r \in early}
          \cup {Entry(r, "derived", breg(r)) : r \in bases} \cup {Entry(r, "callee", f.callees[r]) : r \in saved}
  BY DEF BuildOopMapAt
<1> HIDE DEF l, h, m, n
<1>8. \A r \in l : Type(r) = T(r) BY <1>5, <1>6
<1>9. \A r \in bases : breg(r) \in l /\ T(breg(r)) \in Oops /\ h.defs[breg(r)] \notin p.nodes[n].args
  <2> SUFFICES ASSUME NEW r \in bases
               PROVE  breg(r) \in l /\ T(breg(r)) \in Oops /\ h.defs[breg(r)] \notin p.nodes[n].args OBVIOUS
  <2>1. r \in l /\ p.nodes[h.defs[r]].type = "derived" /\ f.defs[r] = h.defs[r] BY <1>5, <1>8
  <2>2. PairsOf(p, n, h.defs[r]) # {} BY <2>1, <1>1, <1>6 DEF HeldOverNode, n
  <2> DEFINE base == BaseOf(p, n, h.defs[r])
  <2>3. base \in ToSet(p.nodes[n].ins) /\ base \notin p.nodes[n].args /\ p.nodes[base].type \in Oops
    BY <2>2, <1>1, BaseFacts
  <2>4. breg(r) = p.nodes[base].reg BY <2>1
  <2> HIDE DEF base
  <2>5. p.nodes[base].reg \in l /\ h.defs[p.nodes[base].reg] = base BY <2>3, <1>4
  <2> QED BY <2>3, <2>4, <2>5
<1> HIDE DEF Type, T
<1>10. late \subseteq l BY <1>9
<1>11. early = {} BY <1>9
<1>12. \A r \in oops : r \in l /\ T(r) \in Oops BY <1>8, <1>10
<1>13. \A r \in bases : r \in l /\ T(r) = "derived" BY <1>8
<1>14. \A r \in saved : r \in l /\ T(r) \notin Oops \cup {"derived"} /\ h.callees[r] # 0 /\ f.callees[r] = h.callees[r]
  BY <1>5, <1>8
<1>15. \A r \in bases : breg(r) \in oops BY <1>5, <1>8, <1>9
<1>16. \A r \in l : T(r) \in Oops /\ h.defs[r] \notin p.nodes[n].args => r \in oops BY <1>5, <1>8
<1>17. \A r \in l : T(r) = "derived" => r \in bases BY <1>8
<1>18. \A r \in l : T(r) \notin Oops \cup {"derived"} /\ h.callees[r] # 0 => r \in saved BY <1>5, <1>8
<1> HIDE DEF oops, bases, saved, early, breg
<1>19. \A r \in oops : Entry(r, "oop", 0) \in m BY <1>7
<1>20. \A r \in bases : Entry(r, "derived", breg(r)) \in m BY <1>7
<1>21. \A r \in saved : Entry(r, "callee", h.callees[r]) \in m BY <1>7, <1>14
<1>22. \A e \in m :
         /\ e.loc \in l /\ e.type \in {"oop", "derived", "callee"}
         /\ e.type = "oop" => T(e.loc) \in Oops
         /\ e.type = "derived" => T(e.loc) = "derived" /\ Entry(e.content, "oop", 0) \in m
         /\ e.type = "callee" => /\ T(e.loc) \notin Oops \cup {"derived"}
                                 /\ e.content = h.callees[e.loc] /\ h.callees[e.loc] # 0
  <2> SUFFICES ASSUME NEW e \in m
               PROVE  /\ e.loc \in l /\ e.type \in {"oop", "derived", "callee"}
                      /\ e.type = "oop" => T(e.loc) \in Oops
                      /\ e.type = "derived" => T(e.loc) = "derived" /\ Entry(e.content, "oop", 0) \in m
                      /\ e.type = "callee" => /\ T(e.loc) \notin Oops \cup {"derived"}
                                              /\ e.content = h.callees[e.loc] /\ h.callees[e.loc] # 0
    OBVIOUS
  <2>1. CASE \E r \in oops : e = Entry(r, "oop", 0)
    <3>1. PICK r \in oops : e = Entry(r, "oop", 0) BY <2>1
    <3>2. e.loc = r /\ e.type = "oop" BY <3>1 DEF Entry
    <3> QED BY <3>2, <1>12
  <2>2. CASE \E r \in bases : e = Entry(r, "derived", breg(r))
    <3>1. PICK r \in bases : e = Entry(r, "derived", breg(r)) BY <2>2
    <3>2. e.loc = r /\ e.type = "derived" /\ e.content = breg(r) BY <3>1 DEF Entry
    <3>3. Entry(breg(r), "oop", 0) \in m BY <1>15, <1>19
    <3> QED BY <3>2, <3>3, <1>13
  <2>3. CASE \E r \in saved : e = Entry(r, "callee", f.callees[r])
    <3>1. PICK r \in saved : e = Entry(r, "callee", f.callees[r]) BY <2>3
    <3>2. e.loc = r /\ e.type = "callee" /\ e.content = f.callees[r] BY <3>1 DEF Entry
    <3> QED BY <3>2, <1>14
  <2> QED BY <1>7, <1>11, <2>1, <2>2, <2>3
<1>23. \A r \in l : T(r) = "derived" => \E e \in m : e.loc = r /\ e.type = "derived"
  <2> SUFFICES ASSUME NEW r \in l, T(r) = "derived" PROVE \E e \in m : e.loc = r /\ e.type = "derived" OBVIOUS
  <2>1. Entry(r, "derived", breg(r)) \in m BY <1>17, <1>20
  <2>2. Entry(r, "derived", breg(r)).loc = r /\ Entry(r, "derived", breg(r)).type = "derived" BY DEF Entry
  <2> QED BY <2>1, <2>2
<1> QED BY <1>16, <1>18, <1>19, <1>21, <1>22, <1>23 DEF n, l, h, m, T, MapOK

-----------------------------------------------------------------------------
\* v is an up to date value of the class that register r has in the flow h.
Fits(p, h, r, v) ==
  LET t == p.nodes[h.defs[r]].type IN
  /\ v.ok
  /\ t \in Oops => v.type = "oop"
  /\ t = "derived" => v.type = "derived"
  /\ t \notin Oops \cup {"derived"} =>
       IF h.callees[r] # 0 THEN v.type = "callee" /\ v.of = h.callees[r] ELSE v.type \in {"int", "none"}

-----------------------------------------------------------------------------
\* The inductive invariant, for the program p
IsFP(p, fp) ==
  \A b \in DOMAIN p.blocks :
    /\ b # 1 => \A k \in DOMAIN p.blocks[b].nodes : p.nodes[p.blocks[b].nodes[k]].reg # fp
    /\ 0 \in p.blocks[b].succs =>
         \E k \in DOMAIN p.blocks[b].nodes : \E i \in ToSet(p.nodes[p.blocks[b].nodes[k]].ins) : p.nodes[i].reg = fp
FP(p) == CHOOSE fp \in Regs : IsFP(p, fp)

Out(p, b)  == UNION {live[s] : s \in Succ(p, b)}
W(p, b)    == WalkFrom(p, b, Out(p, b))
Polls(p, b) == {k \in 1..Len(Ns(p, b)) : p.nodes[Ns(p, b)[k]].op \in JVMSOps}

\* The liveness of a block is what its successors make of it.
LiveEq(p, b) ==
  /\ live[b] = W(p, b)[1]
  /\ \A k \in Polls(p, b) : Ns(p, b)[k] \in DOMAIN safehash /\ safehash[Ns(p, b)[k]] = W(p, b)[k]

\* Before the second trip a block that is not on the worklist is right, or liveness has
\* not come near it.
Far(p, b) ==
  /\ 0 \notin p.blocks[b].succs /\ \A s \in Succ(p, b) : FP(p) \notin live[s]
  /\ \A k \in Polls(p, b) : Ns(p, b)[k] \notin DOMAIN safehash
FirstTrip(p) == \A b \in DOMAIN p.blocks :
  IF b \in bo_work THEN 0 \in p.blocks[b].succs \/ \E s \in Succ(p, b) : FP(p) \in live[s]
  ELSE (LiveEq(p, b) /\ (b = 1 \/ FP(p) \in live[b])) \/ Far(p, b)
Settled(p) == \A b \in DOMAIN p.blocks : b \in bo_work \/ LiveEq(p, b)

\* A flow that a successor still waits for is that of the end of its block.
Waits(p, b) == flows[b] # 0 /\ \E s \in Succ(p, b) : flows[s] = 0
FlowKept(p, b) ==
  /\ flows[b] \in 1..Len(oopflow) /\ oopflow[flows[b]].b = b
  /\ FlowFits(p, b, End(p, b), oopflow[flows[b]].flow)
MapsMade(p, b) == \A k \in Polls(p, b) : LET n == Ns(p, b)[k] IN
  p.nodes[n].op \in {"safe", "call"} =>
    /\ n \in DOMAIN oop_map
    /\ \E f : FlowFits(p, b, k, f) /\ oop_map[n] = BuildOopMapAt(p, n, W(p, b)[k], f)

ValueType == [type : {"oop", "derived", "callee", "int", "none"}, of : Regs \cup {0}, ok : BOOLEAN]
TypeInv(p) ==
  /\ bo_prog = p /\ bo_pc \in {"liveness", "flow", "run", "done"}
  /\ bo_work \subseteq DOMAIN p.blocks
  /\ live \in [DOMAIN p.blocks -> SUBSET Regs]
  /\ flows \in [DOMAIN p.blocks -> Nat]
  /\ oopflow \in Seq([b : DOMAIN p.blocks, flow : FlowType(p)])
  /\ at \in [b : DOMAIN p.blocks, i : Nat]
  /\ file \in [Regs -> ValueType]
LiveInv(p) ==
  /\ \A b \in DOMAIN p.blocks : live[b] \subseteq Known(p, b, 1)
  /\ bo_pc = "liveness" => FirstTrip(p) \/ Settled(p)
  /\ bo_pc # "liveness" => \A b \in DOMAIN p.blocks : LiveEq(p, b)
FlowInv(p) ==
  /\ bo_pc = "liveness" => flows = [b \in DOMAIN p.blocks |-> 0]
  /\ bo_pc # "liveness" => flows[1] # 0
  /\ \A b \in DOMAIN p.blocks :
       /\ flows[b] # 0 => MapsMade(p, b)
       /\ bo_pc = "flow" /\ flows[b] # 0 => \A s \in Succ(p, b) : flows[s] # 0 \/ s \in bo_work
       /\ bo_pc \in {"run", "done"} /\ flows[b] # 0 => \A s \in Succ(p, b) : flows[s] # 0
       /\ bo_pc = "flow" /\ Waits(p, b) => FlowKept(p, b)
RunInv(p) ==
  /\ bo_pc \in {"liveness", "flow"} => at = [b |-> 1, i |-> 1]
  /\ bo_pc = "run" => /\ flows[at.b] # 0 /\ at.i \in 1..End(p, at.b)
                      /\ \A r \in W(p, at.b)[at.i] : Fits(p, p.held[at.b][at.i], r, file[r])
Inv(p) == TypeInv(p) /\ LiveInv(p) /\ FlowInv(p) /\ RunInv(p)
-----------------------------------------------------------------------------
LEMMA Placed ==
  ASSUME NEW p \in Programs, NEW b \in DOMAIN p.blocks, NEW c \in DOMAIN p.blocks,
         NEW j \in 1..Len(Ns(p, b)), NEW k \in 1..Len(Ns(p, c)), Ns(p, b)[j] = Ns(p, c)[k]
  PROVE  b = c /\ j = k
<1>1. j \in DOMAIN p.blocks[b].nodes /\ k \in DOMAIN p.blocks[c].nodes BY BlockFacts DEF Ns
<1>2. IsProgram(p) BY ProgramsAssumption
<1> QED BY <1>1, <1>2 DEF IsProgram, Ns

LEMMA FPFacts ==
  ASSUME NEW p \in Programs
  PROVE  FP(p) \in Regs /\ IsFP(p, FP(p))
<1>1. \E fp \in Regs : IsFP(p, fp) BY ProgramsAssumption DEF ReachedFromBelow, IsFP
<1> HIDE DEF IsFP
<1> QED BY <1>1 DEF FP

\* What is live at the end of a block is held there.
LEMMA OutKnown ==
  ASSUME NEW p \in Programs, TypeInv(p), LiveInv(p), NEW b \in DOMAIN p.blocks
  PROVE  /\ Out(p, b) \in SUBSET Known(p, b, End(p, b)) /\ Out(p, b) \in SUBSET Regs
         /\ LiveOut(b) = Out(p, b)
         /\ W(p, b) \in [1..End(p, b) -> SUBSET Regs] /\ W(p, b)[End(p, b)] = Out(p, b)
         /\ \A k \in 1..End(p, b) : W(p, b)[k] \subseteq Known(p, b, k)
         /\ \A k \in 1..Len(Ns(p, b)) : W(p, b)[k] = Across(p, Ns(p, b)[k], W(p, b)[k + 1])
<1>1. \A s \in Succ(p, b) : s \in DOMAIN p.blocks /\ live[s] \subseteq Known(p, s, 1)
  BY BlockFacts DEF Succ, LiveInv
<1>2. \A s \in Succ(p, b) : live[s] \subseteq Known(p, b, End(p, b)) BY <1>1, EdgeFacts
<1>3. Out(p, b) \in SUBSET Known(p, b, End(p, b)) BY <1>2 DEF Out
<1>4. Out(p, b) \in SUBSET Regs BY <1>3 DEF Known
<1>5. LiveOut(b) = Out(p, b) BY DEF TypeInv, LiveOut, Out, Succ, Succs
<1> HIDE DEF Out
<1> QED BY <1>3, <1>4, <1>5, WalkDef, WalkKnown DEF W

\* While liveness does not change, what it means does not change.
LEMMA SameLive ==
  ASSUME NEW p, UNCHANGED <<live, safehash>>
  PROVE  \A b : Out(p, b)' = Out(p, b) /\ W(p, b)' = W(p, b) /\ (LiveEq(p, b)' <=> LiveEq(p, b))
BY DEF Out, W, LiveEq

-----------------------------------------------------------------------------
\* A block of do_liveness: its own safepoints get what is live, the others keep it.
LEMMA SafehashStep ==
  ASSUME NEW p \in Programs, TypeInv(p), LiveInv(p), NEW b \in DOMAIN p.blocks, LivenessOf(b)
  PROVE  /\ live' = [live EXCEPT ![b] = W(p, b)[1]]
         /\ bo_work' = (bo_work \ {b}) \cup (IF W(p, b)[1] # live[b] THEN Preds(b) ELSE {})
         /\ \A k \in Polls(p, b) : Ns(p, b)[k] \in DOMAIN safehash' /\ safehash'[Ns(p, b)[k]] = W(p, b)[k]
         /\ \A c \in DOMAIN p.blocks : c # b => \A k \in Polls(p, c) :
              /\ Ns(p, c)[k] \in DOMAIN safehash' <=> Ns(p, c)[k] \in DOMAIN safehash
              /\ Ns(p, c)[k] \in DOMAIN safehash => safehash'[Ns(p, c)[k]] = safehash[Ns(p, c)[k]]
<1> DEFINE ns == Ns(p, b)
           w  == W(p, b)
           here == Polls(p, b)
<1>1. bo_prog = p BY DEF TypeInv
<1>2. DOMAIN ns = 1..Len(ns) BY BlockFacts
<1>3. {k \in DOMAIN NodesOf(b) : HasJVMS(NodesOf(b)[k])} = here
  BY <1>1, <1>2 DEF NodesOf, HasJVMS, Node, Polls, Ns
<1>4. WalkFrom(bo_prog, b, LiveOut(b)) = w BY <1>1, OutKnown DEF W
<1>5. NodesOf(b) = ns BY <1>1 DEF NodesOf, Ns
<1> DEFINE pos(n) == CHOOSE k \in here : ns[k] = n
           all == DOMAIN safehash \cup {ns[k] : k \in here}
<1>6. safehash' = [n \in all |-> IF \E k \in here : ns[k] = n THEN w[pos(n)] ELSE safehash[n]]
  BY <1>3, <1>4, <1>5 DEF LivenessOf
<1>7. live' = [live EXCEPT ![b] = w[1]] BY <1>4 DEF LivenessOf
<1>8. bo_work' = (bo_work \ {b}) \cup (IF w[1] # live[b] THEN Preds(b) ELSE {}) BY <1>4 DEF LivenessOf
<1>9. \A k \in here : ns[k] \in all /\ (\E j \in here : ns[j] = ns[k]) /\ pos(ns[k]) = k
  <2> SUFFICES ASSUME NEW k \in here PROVE ns[k] \in all /\ (\E j \in here : ns[j] = ns[k]) /\ pos(ns[k]) = k OBVIOUS
  <2>1. \A j \in here : ns[j] = ns[k] => j = k BY Placed DEF Polls
  <2> HIDE DEF here
  <2>2. pos(ns[k]) = k BY <2>1
  <2> QED BY <2>2
<1>10. \A c \in DOMAIN p.blocks : c # b => \A k \in Polls(p, c) : ~ \E j \in here : ns[j] = Ns(p, c)[k]
  BY Placed DEF Polls
<1> HIDE DEF here, ns, w, pos
<1>11. \A k \in here : ns[k] \in DOMAIN safehash' /\ safehash'[ns[k]] = w[k] BY <1>6, <1>9
<1>12. \A n : (~ \E j \in here : ns[j] = n) =>
          /\ n \in DOMAIN safehash' <=> n \in DOMAIN safehash
          /\ n \in DOMAIN safehash => safehash'[n] = safehash[n] BY <1>6
<1> QED BY <1>7, <1>8, <1>10, <1>11, <1>12 DEF here, ns, w

\* A block whose successors' liveness stays is not affected.
LEMMA StaysLive ==
  ASSUME NEW p \in Programs, TypeInv(p), LiveInv(p), NEW b \in DOMAIN p.blocks, LivenessOf(b),
         NEW c \in DOMAIN p.blocks, b \notin Succ(p, c) \/ W(p, b)[1] = live[b]
  PROVE  /\ Out(p, c)' = Out(p, c) /\ W(p, c)' = W(p, c)
         /\ c = b \/ LiveEq(p, c) => LiveEq(p, c)'
<1>1. live' = [live EXCEPT ![b] = W(p, b)[1]] BY SafehashStep
<1>2. live \in [DOMAIN p.blocks -> SUBSET Regs] BY DEF TypeInv
<1>3. \A s \in Succ(p, c) : s \in DOMAIN p.blocks BY BlockFacts DEF Succ
<1>4. \A s \in Succ(p, c) : live'[s] = live[s] BY <1>1, <1>2, <1>3
<1>5. Out(p, c)' = Out(p, c) BY <1>4 DEF Out
<1>6. W(p, c)' = W(p, c) BY <1>5 DEF W
<1>7. CASE c = b
  <2>1. live'[b] = W(p, b)[1] BY <1>1, <1>2
  <2>2. \A k \in Polls(p, b) : Ns(p, b)[k] \in DOMAIN safehash' /\ safehash'[Ns(p, b)[k]] = W(p, b)[k] BY SafehashStep
  <2> QED BY <1>5, <1>6, <1>7, <2>1, <2>2 DEF LiveEq
<1>8. CASE c # b
  <2>1. live'[c] = live[c] BY <1>1, <1>2, <1>8
  <2>2. \A k \in Polls(p, c) :
              /\ Ns(p, c)[k] \in DOMAIN safehash' <=> Ns(p, c)[k] \in DOMAIN safehash
              /\ Ns(p, c)[k] \in DOMAIN safehash => safehash'[Ns(p, c)[k]] = safehash[Ns(p, c)[k]]
    BY <1>8, SafehashStep
  <2> QED BY <1>5, <1>6, <1>8, <2>1, <2>2 DEF LiveEq
<1> QED BY <1>7, <1>8

LEMMA LivenessKeepsSettled ==
  ASSUME NEW p \in Programs, TypeInv(p), LiveInv(p), NEW b \in DOMAIN p.blocks, LivenessOf(b), Settled(p)
  PROVE  Settled(p)'
<1> SUFFICES ASSUME NEW c \in DOMAIN p.blocks, c \notin bo_work' PROVE LiveEq(p, c)' BY DEF Settled
<1>1. bo_work' = (bo_work \ {b}) \cup (IF W(p, b)[1] # live[b] THEN Preds(b) ELSE {}) BY SafehashStep
<1>2. bo_prog = p BY DEF TypeInv
<1>3. b \notin Succ(p, c) \/ W(p, b)[1] = live[b] BY <1>1, <1>2 DEF Preds, Blocks, Succs, Succ
<1>4. c = b \/ LiveEq(p, c) BY <1>1 DEF Settled
<1> QED BY <1>3, <1>4, StaysLive

LEMMA LivenessKeepsFirst ==
  ASSUME NEW p \in Programs, TypeInv(p), LiveInv(p), NEW b \in DOMAIN p.blocks, LivenessOf(b), FirstTrip(p)
  PROVE  FirstTrip(p)'
<1> DEFINE fp == FP(p)
           Reached(c) == 0 \in p.blocks[c].succs \/ \E s \in Succ(p, c) : fp \in live[s]
<1>1. bo_work' = (bo_work \ {b}) \cup (IF W(p, b)[1] # live[b] THEN Preds(b) ELSE {})
      /\ live' = [live EXCEPT ![b] = W(p, b)[1]] BY SafehashStep
<1>2. bo_prog = p /\ live \in [DOMAIN p.blocks -> SUBSET Regs] BY DEF TypeInv
<1>3. fp \in Regs /\ IsFP(p, fp) BY FPFacts
<1> HIDE DEF fp
<1>4. b \in bo_work BY DEF LivenessOf
<1>5. Reached(b) BY <1>4 DEF FirstTrip, fp
<1>6. b # 1 => fp \in W(p, b)[1]
  <2> SUFFICES ASSUME b # 1 PROVE fp \in W(p, b)[1] OBVIOUS
  <2>1. DOMAIN p.blocks[b].nodes = 1..Len(Ns(p, b)) BY BlockFacts DEF Ns
  <2>2. \A k \in 1..Len(Ns(p, b)) : p.nodes[Ns(p, b)[k]].reg # fp BY <1>3, <2>1 DEF IsFP, Ns
  <2>3. 0 \in p.blocks[b].succs =>
          \E k \in 1..Len(Ns(p, b)) : \E i \in ToSet(p.nodes[Ns(p, b)[k]].ins) : p.nodes[i].reg = fp
    BY <1>3, <2>1 DEF IsFP, Ns
  <2>4. (\E s \in Succ(p, b) : fp \in live[s]) => fp \in Out(p, b) BY DEF Out
  <2>5. Out(p, b) \in SUBSET Regs BY OutKnown
  <2> HIDE DEF Out
  <2> QED BY <1>3, <1>5, <2>2, <2>3, <2>4, <2>5, WalkUp DEF W
<1> SUFFICES ASSUME NEW c \in DOMAIN p.blocks
             PROVE  IF c \in bo_work' THEN 0 \in p.blocks[c].succs \/ \E s \in Succ(p, c) : fp \in live'[s]
                    ELSE (LiveEq(p, c)' /\ (c = 1 \/ fp \in live'[c])) \/ Far(p, c)'
  BY DEF FirstTrip, fp
<1>7. \A s \in Succ(p, c) : s \in DOMAIN p.blocks /\ s # 1 BY BlockFacts DEF Succ
<1>8. \A s \in Succ(p, c) : fp \in live[s] => fp \in live'[s] BY <1>1, <1>2, <1>6, <1>7
<1>9. b \in Succ(p, c) => fp \in live'[b] BY <1>1, <1>2, <1>6, <1>7
<1>10. CASE c \in bo_work'
  <2>1. CASE c \in bo_work
    <3>1. Reached(c) BY <2>1 DEF FirstTrip, fp
    <3> QED BY <1>10, <3>1, <1>8
  <2>2. CASE c \notin bo_work
    <3>1. c \in Preds(b) BY <1>1, <1>10, <2>2
    <3>2. b # 0 BY ProgramsAssumption DEF IsProgram
    <3>3. b \in Succ(p, c) BY <3>1, <3>2, <1>2 DEF Preds, Succs, Succ
    <3> QED BY <3>3, <1>9, <1>10
  <2> QED BY <2>1, <2>2
<1>11. CASE c \notin bo_work'
  <2>1. b \notin Succ(p, c) \/ W(p, b)[1] = live[b] BY <1>1, <1>2, <1>11 DEF Preds, Blocks, Succs, Succ
  <2>2. CASE c = b
    <3>1. LiveEq(p, c)' BY <2>1, <2>2, StaysLive
    <3>2. c = 1 \/ fp \in live'[c] BY <2>2, <1>1, <1>2, <1>6
    <3> QED BY <1>11, <3>1, <3>2
  <2>3. CASE c # b /\ LiveEq(p, c) /\ (c = 1 \/ fp \in live[c])
    <3>1. LiveEq(p, c)' BY <2>1, <2>3, StaysLive
    <3>2. live'[c] = live[c] BY <2>3, <1>1, <1>2
    <3> QED BY <1>11, <2>3, <3>1, <3>2
  <2>4. CASE c # b /\ Far(p, c)
    <3>1. 0 \notin p.blocks[c].succs /\ \A s \in Succ(p, c) : fp \notin live[s] BY <2>4 DEF Far, fp
    <3>2. b \notin Succ(p, c)
      <4> SUFFICES ASSUME b \in Succ(p, c) PROVE FALSE OBVIOUS
      <4>1. W(p, b)[1] = live[b] /\ b # 1 BY <2>1, <1>7
      <4> QED BY <4>1, <1>6, <3>1
    <3>3. \A s \in Succ(p, c) : live'[s] = live[s] BY <1>1, <1>2, <1>7, <3>2
    <3>4. \A k \in Polls(p, c) : Ns(p, c)[k] \in DOMAIN safehash' <=> Ns(p, c)[k] \in DOMAIN safehash
      BY <2>4, SafehashStep
    <3>5. \A k \in Polls(p, c) : Ns(p, c)[k] \notin DOMAIN safehash BY <2>4 DEF Far
    <3>6. Far(p, c)' BY <3>1, <3>3, <3>4, <3>5 DEF Far, fp
    <3> QED BY <3>6, <1>11
  <2>5. c = b \/ (LiveEq(p, c) /\ (c = 1 \/ fp \in live[c])) \/ Far(p, c)
    <3>1. c = b \/ c \notin bo_work BY <1>1, <1>11
    <3> QED BY <3>1 DEF FirstTrip, fp
  <2> QED BY <2>2, <2>3, <2>4, <2>5
<1> QED BY <1>10, <1>11

LEMMA LivenessKeepsInv ==
  ASSUME NEW p \in Programs, Inv(p), NEW b \in bo_work, LivenessOf(b)
  PROVE  Inv(p)'
<1>1. TypeInv(p) /\ LiveInv(p) /\ FlowInv(p) /\ RunInv(p) /\ b \in DOMAIN p.blocks BY DEF Inv, TypeInv
<1>2. bo_pc = "liveness" /\ UNCHANGED <<bo_prog, bo_pc, flows, oopflow, oop_map, at, file>> BY DEF LivenessOf
<1>3. live' = [live EXCEPT ![b] = W(p, b)[1]]
      /\ bo_work' = (bo_work \ {b}) \cup (IF W(p, b)[1] # live[b] THEN Preds(b) ELSE {}) BY <1>1, SafehashStep
<1>4. 1 \in 1..End(p, b) BY <1>1, BlockFacts DEF End
<1>5. W(p, b)[1] \in SUBSET Regs /\ W(p, b)[1] \subseteq Known(p, b, 1)
  <2>1. W(p, b)[1] \subseteq Known(p, b, 1) BY <1>1, <1>4, OutKnown
  <2> QED BY <2>1 DEF Known
<1>6. TypeInv(p)'
  <2>1. bo_work' \subseteq DOMAIN p.blocks BY <1>1, <1>3 DEF Preds, Blocks, TypeInv
  <2>2. live' \in [DOMAIN p.blocks -> SUBSET Regs] BY <1>1, <1>3, <1>5 DEF TypeInv
  <2> QED BY <1>1, <1>2, <2>1, <2>2 DEF TypeInv
<1>7. LiveInv(p)'
  <2>1. \A c \in DOMAIN p.blocks : live'[c] \subseteq Known(p, c, 1) BY <1>1, <1>3, <1>5 DEF LiveInv, TypeInv
  <2>2. FirstTrip(p)' \/ Settled(p)'
    BY <1>1, <1>2, LivenessKeepsFirst, LivenessKeepsSettled DEF LiveInv
  <2> QED BY <1>2, <2>1, <2>2 DEF LiveInv
<1>8. FlowInv(p)' BY <1>1, <1>2 DEF FlowInv, Waits
<1>9. RunInv(p)' BY <1>1, <1>2 DEF RunInv
<1> QED BY <1>6, <1>7, <1>8, <1>9 DEF Inv

LEMMA RetripKeepsInv ==
  ASSUME NEW p \in Programs, Inv(p), Retrip
  PROVE  Inv(p)'
<1>1. TypeInv(p) /\ LiveInv(p) /\ FlowInv(p) /\ RunInv(p) BY DEF Inv
<1>2. bo_pc = "liveness" /\ bo_work' = DOMAIN p.blocks
      /\ UNCHANGED <<bo_prog, bo_pc, live, safehash, flows, oopflow, oop_map, at, file>>
  BY <1>1 DEF Retrip, Blocks, TypeInv
<1>3. TypeInv(p)' BY <1>1, <1>2 DEF TypeInv
<1>4. Settled(p)' BY <1>2 DEF Settled
<1>5. LiveInv(p)' BY <1>1, <1>2, <1>4 DEF LiveInv
<1>6. FlowInv(p)' BY <1>1, <1>2 DEF FlowInv, Waits
<1>7. RunInv(p)' BY <1>1, <1>2 DEF RunInv
<1> QED BY <1>3, <1>5, <1>6, <1>7 DEF Inv

\* When the worklist is empty and no safepoint was missed, liveness is right everywhere:
\* the blocks it never came near would be a loop without a safepoint.
LEMMA NothingMissed ==
  ASSUME NEW p \in Programs, TypeInv(p), FirstTrip(p), bo_work = {}, DOMAIN safehash = SafeNodes
  PROVE  \A b \in DOMAIN p.blocks : LiveEq(p, b)
<1> DEFINE Good(b) == LiveEq(p, b) /\ (b = 1 \/ FP(p) \in live[b])
           U == {b \in DOMAIN p.blocks : ~ Good(b)}
<1>1. \A b \in U : Far(p, b) BY DEF FirstTrip
<1>2. \A b \in U : p.blocks[b].succs \subseteq U
  <2> SUFFICES ASSUME NEW b \in U, NEW s \in p.blocks[b].succs PROVE s \in U OBVIOUS
  <2>1. 0 \notin p.blocks[b].succs /\ \A t \in Succ(p, b) : FP(p) \notin live[t] BY <1>1 DEF Far
  <2>2. s \in DOMAIN p.blocks /\ s # 1 /\ s \in Succ(p, b) BY <2>1, BlockFacts DEF Succ
  <2> QED BY <2>1, <2>2
<1>3. \A b \in U : \A k \in DOMAIN p.blocks[b].nodes : p.nodes[p.blocks[b].nodes[k]].op \notin JVMSOps
  <2> SUFFICES ASSUME NEW b \in U, NEW k \in DOMAIN p.blocks[b].nodes,
                      p.nodes[p.blocks[b].nodes[k]].op \in JVMSOps PROVE FALSE OBVIOUS
  <2>1. Ns(p, b) \in Seq(DOMAIN p.nodes) /\ DOMAIN Ns(p, b) = 1..Len(Ns(p, b)) BY BlockFacts
  <2>2. k \in DOMAIN Ns(p, b) /\ p.nodes[Ns(p, b)[k]].op \in JVMSOps BY DEF Ns
  <2>3. Ns(p, b)[k] \in DOMAIN p.nodes BY <2>1, <2>2
  <2>4. k \in Polls(p, b) BY <2>1, <2>2 DEF Polls
  <2>5. Ns(p, b)[k] \in SafeNodes BY <2>2, <2>3 DEF SafeNodes, HasJVMS, Node, TypeInv
  <2>6. Ns(p, b)[k] \notin DOMAIN safehash BY <1>1, <2>4 DEF Far
  <2> QED BY <2>5, <2>6
<1> HIDE DEF Good
<1>4. U \in SUBSET DOMAIN p.blocks OBVIOUS
<1> HIDE DEF U
<1>5. U = {} BY <1>2, <1>3, <1>4, ProgramsAssumption DEF ReachedFromBelow
<1> QED BY <1>5 DEF U, Good

\* compute_reach from a flow that is right at the start of a block whose liveness is right
LEMMA ReachMaps ==
  ASSUME NEW p \in Programs, bo_prog = p, NEW b \in DOMAIN p.blocks, LiveEq(p, b),
         NEW start, FlowFits(p, b, 1, start)
  PROVE  LET c == ComputeReach(b, start)
             calls == {k \in Polls(p, b) : p.nodes[Ns(p, b)[k]].op \in {"safe", "call"}}
         IN  /\ FlowFits(p, b, End(p, b), c.end)
             /\ DOMAIN c.maps = {Ns(p, b)[k] : k \in calls}
             /\ \A k \in calls : \E f : /\ FlowFits(p, b, k, f)
                                        /\ c.maps[Ns(p, b)[k]] = BuildOopMapAt(p, Ns(p, b)[k], W(p, b)[k], f)
<1> DEFINE c == ComputeReach(b, start)
           ns == Ns(p, b)
           calls == {k \in Polls(p, b) : p.nodes[ns[k]].op \in {"safe", "call"}}
           F == ReachFrom(p, b, start)
           pos(n) == CHOOSE k \in calls : ns[k] = n
           names == {ns[k] : k \in calls}
<1>1. DOMAIN ns = 1..Len(ns) /\ Len(ns) \in Nat BY BlockFacts
<1>2. \A k \in 1..End(p, b) : FlowFits(p, b, k, F[k]) BY FlowOverBlock
<1>3. {k \in DOMAIN NodesOf(b) : Node(NodesOf(b)[k]).op \in {"safe", "call"}} = calls
  BY <1>1 DEF NodesOf, Node, Polls, Ns, JVMSOps
<1>4. NodesOf(b) = ns BY DEF NodesOf, Ns
<1>5. c = [end |-> F[Len(ns) + 1], maps |-> [n \in names |-> BuildOopMapAt(p, n, safehash[n], F[pos(n)])]]
  <2> DEFINE G(q, nn, ms) == [end |-> ReachFrom(q, b, start)[Len(nn) + 1],
                maps |-> [n \in {nn[k] : k \in ms} |-> BuildOopMapAt(q, n, safehash[n],
                            ReachFrom(q, b, start)[CHOOSE k \in ms : nn[k] = n])]]
             here == {k \in DOMAIN NodesOf(b) : Node(NodesOf(b)[k]).op \in {"safe", "call"}}
  <2>1. c = G(bo_prog, NodesOf(b), here) BY DEF ComputeReach
  <2>2. bo_prog = p /\ NodesOf(b) = ns /\ here = calls BY <1>3, <1>4
  <2> HIDE DEF c, here, calls, ns
  <2>3. c = G(p, ns, calls) BY <2>1, <2>2
  <2> QED BY <2>3, Zenon DEF G
<1>6. \A k \in calls : pos(ns[k]) = k
  <2> SUFFICES ASSUME NEW k \in calls PROVE pos(ns[k]) = k OBVIOUS
  <2>1. \A i \in calls : ns[i] = ns[k] => i = k BY Placed DEF Polls
  <2> HIDE DEF calls
  <2> QED BY <2>1
<1>7. \A k \in calls : k \in 1..End(p, b) /\ safehash[ns[k]] = W(p, b)[k]
  BY <1>1 DEF LiveEq, Polls, End
<1>8. End(p, b) \in 1..End(p, b) /\ End(p, b) = Len(ns) + 1 BY <1>1 DEF End
<1> HIDE DEF c, calls, ns, F, pos
<1>9. c.end = F[End(p, b)] BY <1>5, <1>8
<1>10. DOMAIN c.maps = names /\ \A n \in names : c.maps[n] = BuildOopMapAt(p, n, safehash[n], F[pos(n)]) BY <1>5
<1>11. \A k \in calls : c.maps[ns[k]] = BuildOopMapAt(p, ns[k], W(p, b)[k], F[k]) BY <1>6, <1>7, <1>10
<1>12. \A k \in calls : FlowFits(p, b, k, F[k]) BY <1>2, <1>7
<1>13. FlowFits(p, b, End(p, b), c.end) BY <1>2, <1>8, <1>9
<1>14. \A k \in calls : \E f : FlowFits(p, b, k, f) /\ c.maps[ns[k]] = BuildOopMapAt(p, ns[k], W(p, b)[k], f)
  BY <1>11, <1>12
<1> QED BY <1>10, <1>13, <1>14 DEF c, calls, ns

LEMMA EntryFits ==
  ASSUME NEW p \in Programs
  PROVE  1 \in DOMAIN p.blocks /\ Known(p, 1, 1) = {} /\ FlowFits(p, 1, 1, EmptyFlow)
<1>1. IsProgram(p) /\ p.held[1][1] = EmptyFlow BY ProgramsAssumption DEF IsAllocated
<1>2. 1 \in DOMAIN p.blocks
  <2> DEFINE Block == [nodes : Seq(DOMAIN p.nodes), succs : SUBSET (DOMAIN p.blocks \cup {0})]
  <2>1. p.blocks \in Seq(Block) /\ p.blocks # <<>> BY <1>1 DEF IsProgram
  <2> HIDE DEF Block
  <2> QED BY <2>1
<1>3. Known(p, 1, 1) = {} BY <1>1 DEF Known, EmptyFlow
<1>4. EmptyFlow \in FlowType(p) BY DEF EmptyFlow, FlowType
<1> QED BY <1>2, <1>3, <1>4 DEF FlowFits

LEMMA FlowEntryKeepsInv ==
  ASSUME NEW p \in Programs, Inv(p), FlowEntry
  PROVE  Inv(p)'
<1> DEFINE c == ComputeReach(1, EmptyFlow)
           new == [b |-> 1, flow |-> c.end]
<1>1. TypeInv(p) /\ LiveInv(p) /\ FlowInv(p) /\ RunInv(p) /\ bo_prog = p BY DEF Inv, TypeInv
<1>2. /\ bo_pc = "liveness" /\ bo_work = {} /\ DOMAIN safehash = SafeNodes /\ bo_pc' = "flow"
      /\ oopflow' = <<new>> /\ flows' = [flows EXCEPT ![1] = 1] /\ oop_map' = c.maps
      /\ bo_work' = Succ(p, 1)
      /\ UNCHANGED <<bo_prog, live, safehash, at, file>>
  BY <1>1 DEF FlowEntry, Succ, Succs
<1>3. \A b \in DOMAIN p.blocks : LiveEq(p, b) BY <1>1, <1>2, NothingMissed DEF LiveInv, Settled
<1>4. 1 \in DOMAIN p.blocks /\ FlowFits(p, 1, 1, EmptyFlow) BY EntryFits
<1> DEFINE calls == {k \in Polls(p, 1) : p.nodes[Ns(p, 1)[k]].op \in {"safe", "call"}}
<1>5. /\ FlowFits(p, 1, End(p, 1), c.end)
      /\ DOMAIN c.maps = {Ns(p, 1)[k] : k \in calls}
      /\ \A k \in calls : \E f : /\ FlowFits(p, 1, k, f)
                                 /\ c.maps[Ns(p, 1)[k]] = BuildOopMapAt(p, Ns(p, 1)[k], W(p, 1)[k], f)
  BY <1>1, <1>3, <1>4, ReachMaps
<1> HIDE DEF c
<1>6. \A b : Out(p, b)' = Out(p, b) /\ W(p, b)' = W(p, b) /\ (LiveEq(p, b)' <=> LiveEq(p, b)) BY <1>2, SameLive
<1>7. flows = [b \in DOMAIN p.blocks |-> 0] BY <1>1, <1>2 DEF FlowInv
<1>8. flows' \in [DOMAIN p.blocks -> Nat] /\ flows'[1] = 1 /\ \A b \in DOMAIN p.blocks : b # 1 => flows'[b] = 0
  BY <1>2, <1>4, <1>7
<1>9. c.end \in FlowType(p) BY <1>5 DEF FlowFits
<1>10. oopflow' \in Seq([b : DOMAIN p.blocks, flow : FlowType(p)]) /\ Len(oopflow') = 1 /\ oopflow'[1] = new
  <2>1. new \in [b : DOMAIN p.blocks, flow : FlowType(p)] BY <1>4, <1>9
  <2> HIDE DEF new
  <2> QED BY <1>2, <2>1
<1>11. TypeInv(p)'
  <2>1. Succ(p, 1) \subseteq DOMAIN p.blocks BY <1>4, BlockFacts DEF Succ
  <2> QED BY <1>1, <1>2, <1>8, <1>10, <2>1 DEF TypeInv
<1>12. LiveInv(p)' BY <1>1, <1>2, <1>3, <1>6 DEF LiveInv
<1>13. MapsMade(p, 1)'
  <2> SUFFICES ASSUME NEW k \in calls
               PROVE  /\ Ns(p, 1)[k] \in DOMAIN oop_map'
                      /\ \E f : FlowFits(p, 1, k, f) /\ oop_map'[Ns(p, 1)[k]] = BuildOopMapAt(p, Ns(p, 1)[k], W(p, 1)'[k], f)
    BY DEF MapsMade
  <2>1. W(p, 1)' = W(p, 1) BY <1>6
  <2>2. Ns(p, 1)[k] \in DOMAIN c.maps BY <1>5
  <2>3. \E f : FlowFits(p, 1, k, f) /\ c.maps[Ns(p, 1)[k]] = BuildOopMapAt(p, Ns(p, 1)[k], W(p, 1)[k], f) BY <1>5
  <2> QED BY <1>2, <2>1, <2>2, <2>3
<1>14. FlowKept(p, 1)' BY <1>5, <1>8, <1>10 DEF FlowKept
<1>15. FlowInv(p)' BY <1>2, <1>8, <1>13, <1>14 DEF FlowInv, Waits
<1>16. RunInv(p)' BY <1>1, <1>2 DEF RunInv
<1> QED BY <1>11, <1>12, <1>15, <1>16 DEF Inv

LEMMA EndFlowKeepsInv ==
  ASSUME NEW p \in Programs, Inv(p), EndFlow
  PROVE  Inv(p)'
<1>1. TypeInv(p) /\ LiveInv(p) /\ FlowInv(p) /\ RunInv(p) BY DEF Inv
<1>2. bo_pc = "flow" /\ bo_work = {} /\ bo_pc' = "run"
      /\ UNCHANGED <<bo_prog, bo_work, live, safehash, flows, oopflow, oop_map, at, file>> BY DEF EndFlow
<1>3. \A b : Out(p, b)' = Out(p, b) /\ W(p, b)' = W(p, b) /\ (LiveEq(p, b)' <=> LiveEq(p, b)) BY <1>2, SameLive
<1>4. TypeInv(p)' BY <1>1, <1>2 DEF TypeInv
<1>5. LiveInv(p)' BY <1>1, <1>2, <1>3 DEF LiveInv
<1>6. \A b : MapsMade(p, b)' <=> MapsMade(p, b) BY <1>2, <1>3 DEF MapsMade
<1>7. FlowInv(p)' BY <1>1, <1>2, <1>6 DEF FlowInv, Waits
<1>8. RunInv(p)'
  <2>1. at' = [b |-> 1, i |-> 1] BY <1>1, <1>2 DEF RunInv
  <2>2. 1 \in DOMAIN p.blocks /\ Known(p, 1, 1) = {} BY EntryFits
  <2>3. 1 \in 1..End(p, 1) BY <2>2, BlockFacts DEF End
  <2>4. W(p, 1)[1] = {} BY <1>1, <2>2, <2>3, OutKnown
  <2>5. flows'[1] # 0 BY <1>1, <1>2 DEF FlowInv
  <2> QED BY <1>2, <1>3, <2>1, <2>3, <2>4, <2>5 DEF RunInv
<1> QED BY <1>4, <1>5, <1>7, <1>8 DEF Inv

\* A block gets its flow from a predecessor whose flow is still its own.
LEMMA FlowBlockKeepsInv ==
  ASSUME NEW p \in Programs, Inv(p), NEW b \in bo_work, FlowBlock(b)
  PROVE  Inv(p)'
<1>1. TypeInv(p) /\ LiveInv(p) /\ FlowInv(p) /\ RunInv(p) /\ bo_prog = p /\ b \in DOMAIN p.blocks BY DEF Inv, TypeInv
<1>2. bo_pc = "flow" /\ UNCHANGED <<bo_prog, bo_pc, live, safehash, at, file>> BY DEF FlowBlock
<1>3. \A c : Out(p, c)' = Out(p, c) /\ W(p, c)' = W(p, c) /\ (LiveEq(p, c)' <=> LiveEq(p, c)) BY <1>2, SameLive
<1>4. LiveInv(p)' BY <1>1, <1>2, <1>3 DEF LiveInv
<1>5. RunInv(p)' BY <1>1, <1>2 DEF RunInv
<1>6. CASE flows[b] # 0
  <2>1. bo_work' = bo_work \ {b} /\ UNCHANGED <<flows, oopflow, oop_map>> BY <1>6 DEF FlowBlock
  <2>2. TypeInv(p)' BY <1>1, <1>2, <2>1 DEF TypeInv
  <2>3. \A c : MapsMade(p, c)' <=> MapsMade(p, c) BY <1>3, <2>1 DEF MapsMade
  <2>4. \A c : FlowKept(p, c)' <=> FlowKept(p, c) BY <2>1 DEF FlowKept
  <2>5. \A c : Waits(p, c)' <=> Waits(p, c) BY <2>1 DEF Waits
  <2>6. FlowInv(p)' BY <1>1, <1>2, <1>6, <2>1, <2>3, <2>4, <2>5 DEF FlowInv
  <2> QED BY <1>4, <1>5, <2>2, <2>6 DEF Inv
<1>7. CASE flows[b] = 0
  <2> DEFINE done == {q \in Preds(b) : flows[q] # 0}
             last == {q \in done : LastUse(q, b)}
             carried == last # {}
  <2>1. PICK q \in IF carried THEN last ELSE done :
          LET to == IF carried THEN flows[q] ELSE Len(oopflow) + 1
              c  == ComputeReach(b, oopflow[flows[q]].flow)
              of == [b |-> b, flow |-> c.end]
          IN  /\ flows' = [flows EXCEPT ![b] = to]
              /\ oopflow' = IF carried THEN [oopflow EXCEPT ![to] = of] ELSE Append(oopflow, of)
              /\ oop_map' = [n \in DOMAIN oop_map \cup DOMAIN c.maps |->
                               IF n \in DOMAIN c.maps THEN c.maps[n] ELSE oop_map[n]]
              /\ bo_work' = (bo_work \ {b}) \cup (Succs(b) \ {0})
    BY <1>7 DEF FlowBlock
  <2>2. q \in done /\ (carried => LastUse(q, b)) OBVIOUS
  <2>3. b # 0 BY <1>1, ProgramsAssumption DEF IsProgram
  <2>4. q \in DOMAIN p.blocks /\ b \in Succ(p, q) /\ flows[q] # 0
    BY <1>1, <2>2, <2>3 DEF Preds, Blocks, Succs, Succ
  <2>5. Waits(p, q) BY <1>7, <2>4 DEF Waits
  <2>6. FlowKept(p, q) BY <1>1, <1>2, <2>4, <2>5 DEF FlowInv
  <2>7. carried => \A s \in Succ(p, q) : s # b => flows[s] # 0 BY <1>1, <2>2 DEF LastUse, Succs, Succ
  <2> DEFINE start == oopflow[flows[q]].flow
             c == ComputeReach(b, start)
             of == [b |-> b, flow |-> c.end]
             to == IF carried THEN flows[q] ELSE Len(oopflow) + 1
             calls == {k \in Polls(p, b) : p.nodes[Ns(p, b)[k]].op \in {"safe", "call"}}
  <2>8. FlowFits(p, b, 1, start) BY <2>4, <2>6, FlowOverEdge DEF FlowKept
  <2>9. LiveEq(p, b) BY <1>1, <1>2 DEF LiveInv
  <2>10. /\ FlowFits(p, b, End(p, b), c.end)
         /\ DOMAIN c.maps = {Ns(p, b)[k] : k \in calls}
         /\ \A k \in calls : \E f : /\ FlowFits(p, b, k, f)
                                    /\ c.maps[Ns(p, b)[k]] = BuildOopMapAt(p, Ns(p, b)[k], W(p, b)[k], f)
    BY <1>1, <2>8, <2>9, ReachMaps
  <2>11. /\ flows' = [flows EXCEPT ![b] = to]
         /\ oopflow' = IF carried THEN [oopflow EXCEPT ![to] = of] ELSE Append(oopflow, of)
         /\ oop_map' = [n \in DOMAIN oop_map \cup DOMAIN c.maps |-> IF n \in DOMAIN c.maps THEN c.maps[n] ELSE oop_map[n]]
         /\ bo_work' = (bo_work \ {b}) \cup Succ(p, b)
    BY <1>1, <2>1 DEF Succ, Succs
  <2> DEFINE OF == [b : DOMAIN p.blocks, flow : FlowType(p)]
  <2>12. of \in OF /\ of.b = b /\ of.flow = c.end BY <1>1, <2>10 DEF FlowFits
  <2>13. oopflow \in Seq(OF) /\ flows \in [DOMAIN p.blocks -> Nat] BY <1>1 DEF TypeInv
  <2>14. flows[q] \in 1..Len(oopflow) /\ oopflow[flows[q]].b = q BY <2>6 DEF FlowKept
  <2> HIDE DEF carried, c, of, OF, calls
  <2>15. oopflow' \in Seq(OF) /\ to \in 1..Len(oopflow') /\ oopflow'[to] = of /\ to # 0
    <3>1. CASE carried BY <3>1, <2>11, <2>12, <2>13, <2>14
    <3>2. CASE ~ carried BY <3>2, <2>11, <2>12, <2>13
    <3> QED BY <3>1, <3>2
  <2>16. \A i \in 1..Len(oopflow) : i # to => i \in 1..Len(oopflow') /\ oopflow'[i] = oopflow[i]
    <3>1. CASE carried BY <3>1, <2>11, <2>12, <2>13, <2>14
    <3>2. CASE ~ carried BY <3>2, <2>11, <2>12, <2>13
    <3> QED BY <3>1, <3>2
  <2>17. ~ carried => to = Len(oopflow) + 1 OBVIOUS
  <2>18. carried => to = flows[q] OBVIOUS
  <2>19. Len(oopflow) \in Nat BY <2>13
  <2> HIDE DEF to
  <2>20. flows' \in [DOMAIN p.blocks -> Nat] /\ flows'[b] = to
         /\ \A d \in DOMAIN p.blocks : d # b => flows'[d] = flows[d] BY <1>1, <2>11, <2>13, <2>15
  <2>21. TypeInv(p)'
    <3>1. Succ(p, b) \subseteq DOMAIN p.blocks BY <1>1, BlockFacts DEF Succ
    <3>2. bo_work' \subseteq DOMAIN p.blocks BY <1>1, <2>11, <3>1 DEF TypeInv
    <3> QED BY <1>1, <1>2, <2>15, <2>20, <3>2 DEF TypeInv, OF
  <2>22. \A d \in DOMAIN p.blocks : flows'[d] # 0 => MapsMade(p, d)'
    <3> SUFFICES ASSUME NEW d \in DOMAIN p.blocks, flows'[d] # 0, NEW k \in Polls(p, d),
                        p.nodes[Ns(p, d)[k]].op \in {"safe", "call"}
                 PROVE  /\ Ns(p, d)[k] \in DOMAIN oop_map'
                        /\ \E f : FlowFits(p, d, k, f) /\ oop_map'[Ns(p, d)[k]] = BuildOopMapAt(p, Ns(p, d)[k], W(p, d)'[k], f)
      BY DEF MapsMade
    <3> DEFINE n == Ns(p, d)[k]
    <3>1. W(p, d)' = W(p, d) BY <1>3
    <3>2. CASE d = b
      <4>1. k \in calls BY <3>2 DEF calls
      <4>2. n \in DOMAIN c.maps BY <2>10, <3>2, <4>1
      <4>3. \E f : FlowFits(p, d, k, f) /\ c.maps[n] = BuildOopMapAt(p, n, W(p, d)[k], f) BY <2>10, <3>2, <4>1
      <4>4. n \in DOMAIN oop_map' /\ oop_map'[n] = c.maps[n] BY <2>11, <4>2
      <4> QED BY <3>1, <4>3, <4>4
    <3>3. CASE d # b
      <4>1. MapsMade(p, d) BY <1>1, <2>20, <3>3 DEF FlowInv
      <4>2. n \in DOMAIN oop_map /\ \E f : FlowFits(p, d, k, f) /\ oop_map[n] = BuildOopMapAt(p, n, W(p, d)[k], f)
        BY <4>1 DEF MapsMade
      <4>3. n \notin DOMAIN c.maps
        <5>1. k \in 1..Len(Ns(p, d)) /\ \A i \in calls : i \in 1..Len(Ns(p, b)) BY DEF Polls, calls
        <5> QED BY <1>1, <2>10, <3>3, <5>1, Placed
      <4>4. n \in DOMAIN oop_map' /\ oop_map'[n] = oop_map[n] BY <2>11, <4>2, <4>3
      <4> QED BY <3>1, <4>2, <4>4
    <3> QED BY <3>2, <3>3
  <2>23. \A d \in DOMAIN p.blocks : flows'[d] # 0 => \A s \in Succ(p, d) : flows'[s] # 0 \/ s \in bo_work'
    <3> SUFFICES ASSUME NEW d \in DOMAIN p.blocks, flows'[d] # 0, NEW s \in Succ(p, d)
                 PROVE  flows'[s] # 0 \/ s \in bo_work' OBVIOUS
    <3>1. s \in DOMAIN p.blocks BY BlockFacts DEF Succ
    <3>2. CASE d = b BY <3>2, <2>11
    <3>3. CASE d # b
      <4>1. flows[s] # 0 \/ s \in bo_work BY <1>1, <1>2, <2>20, <3>3 DEF FlowInv
      <4> QED BY <4>1, <3>1, <2>11, <2>15, <2>20
    <3> QED BY <3>2, <3>3
  <2>24. \A d \in DOMAIN p.blocks : Waits(p, d)' => FlowKept(p, d)'
    <3> SUFFICES ASSUME NEW d \in DOMAIN p.blocks, Waits(p, d)' PROVE FlowKept(p, d)' OBVIOUS
    <3>1. PICK s \in Succ(p, d) : flows'[s] = 0 BY DEF Waits
    <3>2. s \in DOMAIN p.blocks BY BlockFacts DEF Succ
    <3>3. s # b /\ flows[s] = 0 /\ flows'[d] # 0 BY <3>1, <3>2, <2>15, <2>20 DEF Waits
    <3>4. CASE d = b BY <3>4, <2>10, <2>12, <2>15, <2>20 DEF FlowKept
    <3>5. CASE d # b
      <4>1. flows'[d] = flows[d] /\ Waits(p, d) BY <3>1, <3>3, <3>5, <2>20 DEF Waits
      <4>2. FlowKept(p, d) BY <1>1, <1>2, <4>1 DEF FlowInv
      <4>3. flows[d] \in 1..Len(oopflow) /\ oopflow[flows[d]].b = d BY <4>2 DEF FlowKept
      <4>4. flows[d] # to
        <5>1. CASE carried BY <5>1, <4>3, <2>7, <2>14, <2>18, <3>1, <3>3
        <5>2. CASE ~ carried BY <5>2, <4>3, <2>17, <2>19
        <5> QED BY <5>1, <5>2
      <4>5. flows[d] \in 1..Len(oopflow') /\ oopflow'[flows[d]] = oopflow[flows[d]] BY <4>3, <4>4, <2>16
      <4> QED BY <4>1, <4>2, <4>5 DEF FlowKept
    <3> QED BY <3>4, <3>5
  <2>25. flows'[1] # 0 BY <1>1, <1>2, <2>15, <2>20, EntryFits DEF FlowInv
  <2>26. FlowInv(p)' BY <1>2, <2>22, <2>23, <2>24, <2>25 DEF FlowInv
  <2> QED BY <1>4, <1>5, <2>21, <2>26 DEF Inv
<1> QED BY <1>6, <1>7

LEMMA BranchKeepsInv ==
  ASSUME NEW p \in Programs, Inv(p), NEW s, RunBranch(s)
  PROVE  Inv(p)'
<1>1. TypeInv(p) /\ LiveInv(p) /\ FlowInv(p) /\ RunInv(p) /\ bo_prog = p BY DEF Inv, TypeInv
<1>2. bo_pc = "run" /\ at.i > Len(Ns(p, at.b)) /\ s \in p.blocks[at.b].succs
      /\ UNCHANGED <<bo_prog, bo_work, live, safehash, flows, oopflow, oop_map, file>>
  BY <1>1 DEF RunBranch, NodesOf, Ns, Succs
<1>3. \A b : Out(p, b)' = Out(p, b) /\ W(p, b)' = W(p, b) /\ (LiveEq(p, b)' <=> LiveEq(p, b)) BY <1>2, SameLive
<1>4. \A b : MapsMade(p, b)' <=> MapsMade(p, b) BY <1>2, <1>3 DEF MapsMade
<1>5. at.b \in DOMAIN p.blocks /\ flows[at.b] # 0 /\ at.i \in 1..End(p, at.b) BY <1>1, <1>2 DEF RunInv, TypeInv
<1>6. at.i = End(p, at.b) BY <1>2, <1>5, BlockFacts DEF End
<1>7. CASE s = 0
  <2>1. bo_pc' = "done" /\ at' = at BY <1>7 DEF RunBranch
  <2>2. TypeInv(p)' BY <1>1, <1>2, <2>1 DEF TypeInv
  <2>3. LiveInv(p)' BY <1>1, <1>2, <1>3, <2>1 DEF LiveInv
  <2>4. FlowInv(p)' BY <1>1, <1>2, <1>4, <2>1 DEF FlowInv
  <2>5. RunInv(p)' BY <2>1 DEF RunInv
  <2> QED BY <2>2, <2>3, <2>4, <2>5 DEF Inv
<1>8. CASE s # 0
  <2>1. bo_pc' = bo_pc /\ at' = [b |-> s, i |-> 1] BY <1>8 DEF RunBranch
  <2>2. s \in Succ(p, at.b) /\ s \in DOMAIN p.blocks BY <1>2, <1>5, <1>8, BlockFacts DEF Succ
  <2>3. TypeInv(p)' BY <1>1, <1>2, <2>1, <2>2 DEF TypeInv
  <2>4. LiveInv(p)' BY <1>1, <1>2, <1>3, <2>1 DEF LiveInv
  <2>5. FlowInv(p)' BY <1>1, <1>2, <1>4, <2>1 DEF FlowInv
  <2>6. flows[s] # 0 BY <1>1, <1>2, <1>5, <2>2 DEF FlowInv
  <2>7. 1 \in 1..End(p, s) BY <2>2, BlockFacts DEF End
  <2>8. ASSUME NEW r \in W(p, s)[1] PROVE Fits(p, p.held[s][1], r, file[r])
    <3>1. live[s] = W(p, s)[1] BY <1>1, <1>2, <2>2 DEF LiveInv, LiveEq
    <3>2. r \in Known(p, s, 1) BY <1>1, <2>2, <2>7, OutKnown
    <3>3. r \in Out(p, at.b) BY <2>2, <3>1 DEF Out
    <3>4. r \in W(p, at.b)[at.i] BY <1>1, <1>5, <1>6, <3>3, OutKnown
    <3>5. Fits(p, p.held[at.b][at.i], r, file[r]) BY <1>1, <1>2, <3>4 DEF RunInv
    <3> DEFINE h == p.held[at.b][End(p, at.b)]
               g == p.held[s][1]
    <3>6. g.callees[r] = h.callees[r] /\ p.nodes[g.defs[r]].type = p.nodes[h.defs[r]].type
      BY <1>5, <2>2, <3>2, EdgeFacts
    <3> QED BY <1>6, <3>5, <3>6 DEF Fits
  <2>9. RunInv(p)' BY <1>2, <1>3, <2>1, <2>6, <2>7, <2>8 DEF RunInv
  <2> QED BY <2>3, <2>4, <2>5, <2>9 DEF Inv
<1> QED BY <1>7, <1>8

-----------------------------------------------------------------------------
\* What a collection does to a register
LEMMA CollectedFacts ==
  ASSUME NEW m, NEW r \in Regs, file[r] \in ValueType
  PROVE  /\ Collected(m, r) \in ValueType
         /\ Collected(m, r).type = file[r].type /\ Collected(m, r).of = file[r].of
         /\ (/\ file[r].ok
             /\ file[r].type = "oop" => Entry(r, "oop", 0) \in m
             /\ file[r].type = "derived" => \E e \in m : e.loc = r /\ e.type = "derived"
             /\ file[r].type = "callee" => Entry(r, "callee", file[r].of) \in m)
            => Collected(m, r).ok
<1> DEFINE v == file[r]
           there == CASE v.type = "oop"     -> Entry(r, "oop", 0) \in m
                      [] v.type = "derived" -> \E e \in m : e.loc = r /\ e.type = "derived"
                      [] v.type = "callee"  -> Entry(r, "callee", v.of) \in m
                      [] OTHER -> TRUE
<1>1. Collected(m, r) = [v EXCEPT !.ok = v.ok /\ there] BY DEF Collected
<1>2. (/\ v.type = "oop" => Entry(r, "oop", 0) \in m
       /\ v.type = "derived" => \E e \in m : e.loc = r /\ e.type = "derived"
       /\ v.type = "callee" => Entry(r, "callee", v.of) \in m) => there
  OBVIOUS
<1> HIDE DEF there, v
<1>3. v \in ValueType BY DEF v
<1>4. (v.ok /\ there) \in BOOLEAN OBVIOUS
<1>5. \A x \in BOOLEAN : /\ [v EXCEPT !.ok = x] \in ValueType /\ [v EXCEPT !.ok = x].ok = x
                         /\ [v EXCEPT !.ok = x].type = v.type /\ [v EXCEPT !.ok = x].of = v.of
  BY <1>3 DEF ValueType
<1> DEFINE y == v.ok /\ there
<1> HIDE DEF y
<1>6. y \in BOOLEAN BY DEF y
<1>7. Collected(m, r) = [v EXCEPT !.ok = y] BY <1>1 DEF y
<1>8. Collected(m, r) \in ValueType /\ Collected(m, r).ok = y
      /\ Collected(m, r).type = v.type /\ Collected(m, r).of = v.of BY <1>5, <1>6, <1>7
<1> QED BY <1>2, <1>8 DEF y, v

\* What holds at the position the run has reached
LEMMA RunFacts ==
  ASSUME NEW p \in Programs, Inv(p), bo_pc = "run", at.i <= Len(Ns(p, at.b))
  PROVE  /\ at.b \in DOMAIN p.blocks /\ at.i \in 1..Len(Ns(p, at.b))
         /\ W(p, at.b)[at.i] \subseteq Known(p, at.b, at.i)
         /\ W(p, at.b)[at.i + 1] \subseteq Known(p, at.b, at.i + 1)
         /\ \A r \in W(p, at.b)[at.i] : Fits(p, p.held[at.b][at.i], r, file[r])
         /\ \A i \in ToSet(p.nodes[Ns(p, at.b)[at.i]].ins) : p.nodes[i].reg \in W(p, at.b)[at.i]
         /\ \A r \in W(p, at.b)[at.i + 1] :
              r # p.nodes[Ns(p, at.b)[at.i]].reg => r \in W(p, at.b)[at.i]
<1>1. TypeInv(p) /\ LiveInv(p) /\ FlowInv(p) /\ RunInv(p) BY DEF Inv
<1>2. at.b \in DOMAIN p.blocks /\ at.i \in 1..End(p, at.b) BY <1>1 DEF RunInv, TypeInv
<1>3. Len(Ns(p, at.b)) \in Nat /\ End(p, at.b) = Len(Ns(p, at.b)) + 1 BY <1>2, BlockFacts DEF End
<1>4. at.i \in 1..Len(Ns(p, at.b)) /\ at.i + 1 \in 1..End(p, at.b) BY <1>2, <1>3
<1>5. Out(p, at.b) \in SUBSET Regs BY <1>1, <1>2, OutKnown
<1>6. \A i \in ToSet(p.nodes[Ns(p, at.b)[at.i]].ins) : p.nodes[i].reg \in W(p, at.b)[at.i]
  <2> HIDE DEF Out
  <2> QED BY <1>2, <1>4, <1>5, WalkInputs DEF W
<1>7. W(p, at.b)[at.i] = Across(p, Ns(p, at.b)[at.i], W(p, at.b)[at.i + 1]) BY <1>1, <1>2, <1>4, OutKnown
<1>8. \A r \in W(p, at.b)[at.i + 1] : r # p.nodes[Ns(p, at.b)[at.i]].reg => r \in W(p, at.b)[at.i]
  BY <1>7 DEF Across
<1>9. W(p, at.b)[at.i] \subseteq Known(p, at.b, at.i) /\ W(p, at.b)[at.i + 1] \subseteq Known(p, at.b, at.i + 1)
  BY <1>1, <1>2, <1>4, OutKnown
<1> QED BY <1>1, <1>2, <1>4, <1>6, <1>8, <1>9 DEF RunInv

\* The value that a node leaves in its register is one of the class that is held there.
LEMMA ValueFits ==
  ASSUME NEW p \in Programs, Inv(p), bo_pc = "run", at.i <= Len(Ns(p, at.b)),
         p.nodes[Ns(p, at.b)[at.i]].op \notin {"safe", "call", "phi"}, p.nodes[Ns(p, at.b)[at.i]].reg # 0
  PROVE  LET n == Ns(p, at.b)[at.i]
             r == p.nodes[n].reg
         IN  /\ Value(n) \in ValueType
             /\ r \in Known(p, at.b, at.i + 1) => Fits(p, p.held[at.b][at.i + 1], r, Value(n))
<1> DEFINE b == at.b
           k == at.i
           n == Ns(p, b)[k]
           d == p.nodes[n]
           r == d.reg
           h == p.held[b][k]
           g == p.held[b][k + 1]
<1>1. b \in DOMAIN p.blocks /\ k \in 1..Len(Ns(p, b)) BY RunFacts
<1>2. bo_prog = p /\ file \in [Regs -> ValueType] BY DEF Inv, TypeInv
<1>3. n \in DOMAIN p.nodes /\ HeldOverNode(p, n, h, g) /\ k \in 1..End(p, b) BY <1>1, HeldStep
<1>4. d \in NodeType(DOMAIN p.nodes) /\ NodeOK(p, n) BY <1>3, NodeFacts
<1>5. r \in Regs /\ r # 0 /\ d.op \notin {"safe", "call", "phi"} BY <1>4 DEF NodeType
<1>6. h \in FlowType(p) BY <1>1, <1>3, HeldFacts
<1>7. Value(n) = IF d.copy # 0 THEN file[p.nodes[d.copy].reg]
                 ELSE IF d.op = "proj" THEN [type |-> "callee", of |-> d.reg, ok |-> TRUE]
                 ELSE [type |-> IF d.type = "boxlock" THEN "oop" ELSE d.type, of |-> 0, ok |-> TRUE]
  BY <1>2 DEF Value, Node
<1>8. r \in Known(p, b, k + 1) => g.defs[r] = n /\ g.callees[r] = Reach(p, h, n).callees[r]
  <2> SUFFICES ASSUME r \in Known(p, b, k + 1) PROVE g.defs[r] = n /\ g.callees[r] = Reach(p, h, n).callees[r] OBVIOUS
  <2>1. g.defs[r] = Reach(p, h, n).defs[r] /\ g.callees[r] = Reach(p, h, n).callees[r]
    BY <1>3, <1>5 DEF HeldOverNode, Below, Known
  <2>2. Reach(p, h, n).defs[r] = n BY <1>5, <1>6 DEF Reach, FlowType
  <2> QED BY <2>1, <2>2
<1>9. CASE d.copy # 0
  <2> DEFINE c == d.copy
             from == p.nodes[c].reg
  <2>1. c \in ToSet(d.ins) /\ d.type = p.nodes[c].type BY <1>4, <1>9 DEF NodeOK
  <2>2. from \in Regs /\ h.defs[from] = c BY <1>1, <1>5, <2>1, InputReg
  <2>3. from \in W(p, b)[k] BY <2>1, RunFacts
  <2>4. Fits(p, h, from, file[from]) BY <2>3, RunFacts
  <2>5. from # 0 BY <2>2, ProgramsAssumption
  <2>6. Reach(p, h, n).callees[r] = h.callees[from] BY <1>5, <1>9, <2>5 DEF Reach
  <2>7. Value(n) = file[from] BY <1>7, <1>9
  <2>8. Value(n) \in ValueType BY <1>2, <2>2, <2>7
  <2> HIDE DEF from, c
  <2>9. r \in Known(p, b, k + 1) => Fits(p, g, r, Value(n))
    BY <1>8, <2>1, <2>2, <2>4, <2>6, <2>7 DEF Fits
  <2> QED BY <2>8, <2>9
<1>10. CASE d.copy = 0 /\ d.op = "proj"
  <2>1. Reach(p, h, n).callees[r] = r BY <1>5, <1>10 DEF Reach
  <2>2. d.type \notin Oops \cup {"derived"} BY <1>4, <1>10 DEF NodeOK
  <2>3. Value(n) = [type |-> "callee", of |-> r, ok |-> TRUE] BY <1>7, <1>10
  <2>4. Value(n) \in ValueType BY <1>5, <2>3 DEF ValueType
  <2>5. Value(n).ok /\ Value(n).type = "callee" /\ Value(n).of = r BY <2>3
  <2>6. r \in Known(p, b, k + 1) => Fits(p, g, r, Value(n)) BY <1>5, <1>8, <2>1, <2>2, <2>5 DEF Fits, Oops
  <2> QED BY <2>4, <2>6
<1>11. CASE d.copy = 0 /\ d.op # "proj"
  <2>1. Reach(p, h, n).callees[r] = 0 BY <1>5, <1>11 DEF Reach
  <2>2. d.type \in {"oop", "boxlock", "derived", "int", "none"} BY <1>4 DEF NodeType
  <2>3. Value(n) = [type |-> IF d.type = "boxlock" THEN "oop" ELSE d.type, of |-> 0, ok |-> TRUE] BY <1>7, <1>11
  <2>4. Value(n) \in ValueType BY <2>2, <2>3 DEF ValueType
  <2>5. Value(n).ok /\ Value(n).type = (IF d.type = "boxlock" THEN "oop" ELSE d.type) BY <2>3
  <2>6. r \in Known(p, b, k + 1) => Fits(p, g, r, Value(n)) BY <1>8, <2>1, <2>2, <2>5 DEF Fits, Oops
  <2> QED BY <2>4, <2>6
<1> QED BY <1>9, <1>10, <1>11

\* The map of the safepoint the run has reached is one that compute_reach made.
LEMMA MapAtRun ==
  ASSUME NEW p \in Programs, Inv(p), bo_pc = "run", at.i <= Len(Ns(p, at.b)),
         p.nodes[Ns(p, at.b)[at.i]].op \in {"safe", "call"}
  PROVE  MapOK(p, at.b, at.i, W(p, at.b)[at.i], oop_map[Ns(p, at.b)[at.i]])
<1>1. TypeInv(p) /\ LiveInv(p) /\ FlowInv(p) /\ RunInv(p) BY DEF Inv
<1>2. at.b \in DOMAIN p.blocks /\ at.i \in 1..Len(Ns(p, at.b)) BY RunFacts
<1>3. at.i \in Polls(p, at.b) BY <1>2 DEF Polls, JVMSOps
<1>4. MapsMade(p, at.b) BY <1>1, <1>2 DEF FlowInv, RunInv
<1>5. PICK f : /\ FlowFits(p, at.b, at.i, f)
               /\ oop_map[Ns(p, at.b)[at.i]] = BuildOopMapAt(p, Ns(p, at.b)[at.i], W(p, at.b)[at.i], f)
  BY <1>3, <1>4 DEF MapsMade
<1>6. Out(p, at.b) \in SUBSET Known(p, at.b, End(p, at.b)) BY <1>1, <1>2, OutKnown
<1> DEFINE out == Out(p, at.b)
<1>7. W(p, at.b) = WalkFrom(p, at.b, out) BY DEF W
<1> HIDE DEF out, MapOK
<1>8. out \in SUBSET Known(p, at.b, End(p, at.b)) BY <1>6 DEF out
<1> QED BY <1>2, <1>5, <1>7, <1>8, MapRight

LEMMA RunNodeKeepsInv ==
  ASSUME NEW p \in Programs, Inv(p), RunNode
  PROVE  Inv(p)'
<1> DEFINE b == at.b
           k == at.i
           n == Ns(p, b)[k]
           d == p.nodes[n]
           h == p.held[b][k]
           g == p.held[b][k + 1]
<1>1. TypeInv(p) /\ LiveInv(p) /\ FlowInv(p) /\ RunInv(p) /\ bo_prog = p BY DEF Inv, TypeInv
<1>2. /\ bo_pc = "run" /\ k <= Len(Ns(p, b))
      /\ file' = IF d.op \in {"safe", "call"} THEN [r \in Regs |-> Collected(oop_map[n], r)]
                 ELSE IF d.reg = 0 \/ d.op = "phi" THEN file
                 ELSE [file EXCEPT ![d.reg] = Value(n)]
      /\ at' = [at EXCEPT !.i = @ + 1]
      /\ UNCHANGED <<bo_prog, bo_pc, bo_work, live, safehash, flows, oopflow, oop_map>>
  BY <1>1 DEF RunNode, NodesOf, Ns, Node
<1>3. b \in DOMAIN p.blocks /\ k \in 1..Len(Ns(p, b)) BY <1>2, RunFacts
<1>4. at' = [b |-> b, i |-> k + 1] BY <1>1, <1>2 DEF TypeInv
<1>5. n \in DOMAIN p.nodes /\ HeldOverNode(p, n, h, g) /\ k + 1 \in 1..End(p, b) /\ k \in 1..End(p, b)
  BY <1>3, HeldStep
<1>6. d \in NodeType(DOMAIN p.nodes) /\ NodeOK(p, n) BY <1>5, NodeFacts
<1>7. file \in [Regs -> ValueType] BY <1>1 DEF TypeInv
<1>8. \A c : Out(p, c)' = Out(p, c) /\ W(p, c)' = W(p, c) /\ (LiveEq(p, c)' <=> LiveEq(p, c)) BY <1>2, SameLive
<1>9. \A c : MapsMade(p, c)' <=> MapsMade(p, c) BY <1>2, <1>8 DEF MapsMade
<1>10. file' \in [Regs -> ValueType]
  <2>1. CASE d.op \in {"safe", "call"} BY <1>2, <1>7, <2>1, CollectedFacts
  <2>2. CASE d.op \notin {"safe", "call"} /\ (d.reg = 0 \/ d.op = "phi") BY <1>2, <1>7, <2>2
  <2>3. CASE d.op \notin {"safe", "call", "phi"} /\ d.reg # 0
    <3>1. Value(n) \in ValueType BY <1>2, <2>3, ValueFits
    <3>2. file' = [file EXCEPT ![d.reg] = Value(n)] BY <1>2, <2>3
    <3> QED BY <1>7, <3>1, <3>2
  <2> QED BY <2>1, <2>2, <2>3
<1>11. ASSUME NEW r \in W(p, b)[k + 1] PROVE Fits(p, g, r, file'[r])
  <2>1. r \in Known(p, b, k + 1) /\ r \in Regs /\ r # 0 BY <1>2, RunFacts, ProgramsAssumption DEF Known
  <2>2. CASE r # d.reg
    <3>1. g.defs[r] = h.defs[r] /\ g.callees[r] = h.callees[r] /\ g.defs[r] # 0 BY <1>3, <2>1, <2>2, HeldBefore DEF Known
    <3>2. r \in W(p, b)[k] BY <1>2, <2>2, RunFacts
    <3>3. Fits(p, h, r, file[r]) BY <1>2, <3>2, RunFacts
    <3>4. CASE d.op \notin {"safe", "call"}
      <4>1. file'[r] = file[r] BY <1>2, <1>7, <2>1, <2>2, <3>4
      <4>2. Fits(p, g, r, file[r])
        <5> HIDE DEF g, h
        <5> QED BY <3>1, <3>3 DEF Fits
      <4> QED BY <4>1, <4>2
    <3>5. CASE d.op \in {"safe", "call"}
      <4> DEFINE m == oop_map[n]
                 T == p.nodes[h.defs[r]].type
                 v == file[r]
      <4>1. /\ T \in Oops /\ h.defs[r] \notin d.args => Entry(r, "oop", 0) \in m
            /\ T = "derived" => \E e \in m : e.loc = r /\ e.type = "derived"
            /\ T \notin Oops \cup {"derived"} /\ h.callees[r] # 0 => Entry(r, "callee", h.callees[r]) \in m
        BY <1>2, <3>2, <3>5, MapAtRun DEF MapOK
      <4>2. ~ (h.defs[r] \in d.args /\ T \in Oops) BY <1>5, <2>1, <3>1 DEF HeldOverNode
      <4>3. file'[r] = Collected(m, r) BY <1>2, <2>1, <3>5
      <4>4. v \in ValueType BY <1>7, <2>1
      <4>5. /\ v.ok
            /\ T \in Oops => v.type = "oop"
            /\ T = "derived" => v.type = "derived"
            /\ T \notin Oops \cup {"derived"} =>
                 IF h.callees[r] # 0 THEN v.type = "callee" /\ v.of = h.callees[r] ELSE v.type \in {"int", "none"}
        BY <3>3 DEF Fits
      <4>6. T = p.nodes[g.defs[r]].type BY <3>1
      <4> HIDE DEF m, T
      <4>7. /\ v.type = "oop" => T \in Oops /\ Entry(r, "oop", 0) \in m
            /\ v.type = "derived" => \E e \in m : e.loc = r /\ e.type = "derived"
            /\ v.type = "callee" => Entry(r, "callee", v.of) \in m
        BY <4>1, <4>2, <4>5 DEF Oops
      <4>8. /\ Collected(m, r).type = v.type /\ Collected(m, r).of = v.of
            /\ Collected(m, r).ok
        BY <2>1, <4>4, <4>5, <4>7, CollectedFacts
      <4> QED BY <3>1, <4>3, <4>5, <4>6, <4>8 DEF Fits
    <3> QED BY <3>4, <3>5
  <2>3. CASE r = d.reg /\ d.op = "phi"
    <3>1. d.ins # <<>> /\ d.copy = 0 /\ \A i \in ToSet(d.ins) : p.nodes[i].reg = d.reg
      BY <1>6, <2>3 DEF NodeOK
    <3>2. \E i \in ToSet(d.ins) : TRUE
      <4>1. d.ins \in Seq(DOMAIN p.nodes) BY <1>6 DEF NodeType
      <4> DEFINE ins == d.ins
      <4>2. ins \in Seq(DOMAIN p.nodes) /\ ins # <<>> BY <3>1, <4>1
      <4> HIDE DEF ins
      <4>3. 1 \in DOMAIN ins BY <4>2
      <4>4. ins[1] \in ToSet(ins) BY <4>3 DEF ToSet
      <4> QED BY <4>4 DEF ins
    <3>3. r \in W(p, b)[k] BY <1>2, <2>3, <3>1, <3>2, RunFacts
    <3>4. Fits(p, h, r, file[r]) BY <1>2, <3>3, RunFacts
    <3>5. h.defs[r] = n BY <1>5, <2>3 DEF HeldOverNode
    <3>6. g.defs[r] = Reach(p, h, n).defs[r] /\ g.callees[r] = Reach(p, h, n).callees[r]
      BY <1>5, <2>1 DEF HeldOverNode, Below, Known
    <3>7. h \in FlowType(p) BY <1>3, <1>5, HeldFacts
    <3>8. Reach(p, h, n).defs[r] = n BY <2>1, <2>3, <3>7 DEF Reach, FlowType
    <3>9. Reach(p, h, n).callees[r] = h.callees[r] BY <2>1, <2>3, <3>1 DEF Reach
    <3>10. file' = file BY <1>2, <2>3
    <3> QED BY <3>4, <3>5, <3>6, <3>8, <3>9, <3>10 DEF Fits
  <2>4. CASE r = d.reg /\ d.op # "phi"
    <3>1. d.op \notin {"safe", "call", "phi"} /\ d.reg # 0 BY <1>6, <2>1, <2>4 DEF NodeOK, JVMSOps
    <3>2. file'[r] = Value(n) BY <1>2, <1>7, <2>1, <2>4, <3>1
    <3> QED BY <1>2, <2>1, <2>4, <3>1, <3>2, ValueFits
  <2> QED BY <2>2, <2>3, <2>4
<1>12. TypeInv(p)'
  <2>1. at' \in [b : DOMAIN p.blocks, i : Nat] BY <1>3, <1>4
  <2> QED BY <1>1, <1>2, <1>10, <2>1 DEF TypeInv
<1>13. LiveInv(p)' BY <1>1, <1>2, <1>8 DEF LiveInv
<1>14. FlowInv(p)' BY <1>1, <1>2, <1>9 DEF FlowInv
<1>15. RunInv(p)'
  <2>1. flows[b] # 0 BY <1>1, <1>2 DEF RunInv
  <2>2. at'.b = b /\ at'.i = k + 1 BY <1>4
  <2>3. W(p, at.b)' = W(p, b) BY <1>2, <2>2 DEF W, Out
  <2> QED BY <1>2, <1>5, <1>11, <2>1, <2>2, <2>3 DEF RunInv
<1> QED BY <1>12, <1>13, <1>14, <1>15 DEF Inv

-----------------------------------------------------------------------------
LEMMA InitInv ==
  ASSUME NEW p \in Programs, BOInit(p)
  PROVE  Inv(p)
<1>1. 1 \in DOMAIN p.blocks BY EntryFits
<1>2. TypeInv(p) BY <1>1 DEF BOInit, TypeInv, ValueType
<1>3. \A b \in DOMAIN p.blocks : live[b] = {} BY DEF BOInit
<1>4. DOMAIN safehash = {} BY DEF BOInit
<1>5. FirstTrip(p)
  <2> SUFFICES ASSUME NEW b \in DOMAIN p.blocks
               PROVE  IF b \in bo_work THEN 0 \in p.blocks[b].succs \/ \E s \in Succ(p, b) : FP(p) \in live[s]
                      ELSE (LiveEq(p, b) /\ (b = 1 \/ FP(p) \in live[b])) \/ Far(p, b)
    BY DEF FirstTrip
  <2>1. b \in bo_work <=> 0 \in p.blocks[b].succs BY DEF BOInit
  <2>2. \A s \in Succ(p, b) : s \in DOMAIN p.blocks BY BlockFacts DEF Succ
  <2>3. b \notin bo_work => Far(p, b) BY <1>3, <1>4, <2>1, <2>2 DEF Far
  <2> QED BY <2>1, <2>3
<1>6. LiveInv(p) BY <1>3, <1>5 DEF LiveInv, BOInit
<1>7. FlowInv(p) BY DEF FlowInv, BOInit
<1>8. RunInv(p) BY DEF RunInv, BOInit
<1> QED BY <1>2, <1>6, <1>7, <1>8 DEF Inv

LEMMA StutterInv ==
  ASSUME NEW p \in Programs, Inv(p), UNCHANGED boVars
  PROVE  Inv(p)'
<1>1. TypeInv(p) /\ LiveInv(p) /\ FlowInv(p) /\ RunInv(p) BY DEF Inv
<1>2. UNCHANGED <<bo_prog, bo_pc, bo_work, live, safehash, flows, oopflow, oop_map, at, file>> BY DEF boVars
<1>3. \A b : Out(p, b)' = Out(p, b) /\ W(p, b)' = W(p, b) /\ (LiveEq(p, b)' <=> LiveEq(p, b)) BY <1>2, SameLive
<1>4. TypeInv(p)' BY <1>1, <1>2 DEF TypeInv
<1>5. LiveInv(p)' BY <1>1, <1>2, <1>3 DEF LiveInv, FirstTrip, Settled, Far
<1>6. \A b : MapsMade(p, b)' <=> MapsMade(p, b) BY <1>2, <1>3 DEF MapsMade
<1>7. FlowInv(p)' BY <1>1, <1>2, <1>6 DEF FlowInv, Waits, FlowKept
<1>8. W(p, at.b)' = W(p, at.b) BY <1>2 DEF W, Out
<1>9. RunInv(p)' BY <1>1, <1>2, <1>8 DEF RunInv
<1> QED BY <1>4, <1>5, <1>7, <1>9 DEF Inv

LEMMA StepInv ==
  ASSUME NEW p \in Programs, Inv(p), [BONext]_boVars
  PROVE  Inv(p)'
<1>1. ASSUME NEW b \in bo_work, LivenessOf(b) PROVE Inv(p)' BY <1>1, LivenessKeepsInv
<1>2. ASSUME NEW b \in bo_work, FlowBlock(b) PROVE Inv(p)' BY <1>2, FlowBlockKeepsInv
<1>3. CASE Retrip BY <1>3, RetripKeepsInv
<1>4. CASE FlowEntry BY <1>4, FlowEntryKeepsInv
<1>5. CASE EndFlow BY <1>5, EndFlowKeepsInv
<1>6. CASE RunNode BY <1>6, RunNodeKeepsInv
<1>7. ASSUME NEW s \in Succs(at.b), RunBranch(s) PROVE Inv(p)' BY <1>7, BranchKeepsInv
<1>8. CASE UNCHANGED boVars BY <1>8, StutterInv
<1> QED BY <1>1, <1>2, <1>3, <1>4, <1>5, <1>6, <1>7, <1>8 DEF BONext

LEMMA InvDescribes ==
  ASSUME NEW p \in Programs, Inv(p)
  PROVE  UsedValuesDescribed
<1>1. bo_prog = p BY DEF Inv, TypeInv
<1>2. NodesOf(at.b) = Ns(p, at.b) BY <1>1 DEF NodesOf, Ns
<1> SUFFICES ASSUME bo_pc = "run", at.i <= Len(Ns(p, at.b))
             PROVE  LET n == Ns(p, at.b)[at.i] IN
                    /\ \A i \in ToSet(p.nodes[n].ins) : file[p.nodes[i].reg].ok
                    /\ p.nodes[n].op \in {"safe", "call"} => \A e \in oop_map[n] :
                         /\ e.type = file[e.loc].type
                         /\ e.type = "derived" => Entry(e.content, "oop", 0) \in oop_map[n]
                         /\ e.type = "callee" => file[e.loc].of = e.content
  BY <1>1, <1>2 DEF UsedValuesDescribed, Node
<1> DEFINE n == Ns(p, at.b)[at.i]
           h == p.held[at.b][at.i]
<1>3. \A i \in ToSet(p.nodes[n].ins) : p.nodes[i].reg \in W(p, at.b)[at.i] BY RunFacts
<1>4. \A r \in W(p, at.b)[at.i] : Fits(p, h, r, file[r]) BY RunFacts
<1>5. \A i \in ToSet(p.nodes[n].ins) : file[p.nodes[i].reg].ok BY <1>3, <1>4 DEF Fits
<1>6. ASSUME p.nodes[n].op \in {"safe", "call"}, NEW e \in oop_map[n]
      PROVE  /\ e.type = file[e.loc].type
             /\ e.type = "derived" => Entry(e.content, "oop", 0) \in oop_map[n]
             /\ e.type = "callee" => file[e.loc].of = e.content
  <2> DEFINE T == p.nodes[h.defs[e.loc]].type
             v == file[e.loc]
  <2>1. /\ e.loc \in W(p, at.b)[at.i] /\ e.type \in {"oop", "derived", "callee"}
        /\ e.type = "oop" => T \in Oops
        /\ e.type = "derived" => T = "derived" /\ Entry(e.content, "oop", 0) \in oop_map[n]
        /\ e.type = "callee" => T \notin Oops \cup {"derived"} /\ e.content = h.callees[e.loc] /\ h.callees[e.loc] # 0
    <3> DEFINE m == oop_map[n]
               l == W(p, at.b)[at.i]
    <3>1. MapOK(p, at.b, at.i, l, m) BY <1>6, MapAtRun
    <3>2. e \in m OBVIOUS
    <3> HIDE DEF m, l
    <3>3. /\ e.loc \in l /\ e.type \in {"oop", "derived", "callee"}
          /\ e.type = "oop" => T \in Oops
          /\ e.type = "derived" => T = "derived" /\ Entry(e.content, "oop", 0) \in m
          /\ e.type = "callee" => T \notin Oops \cup {"derived"} /\ e.content = h.callees[e.loc] /\ h.callees[e.loc] # 0
      BY <3>1, <3>2 DEF MapOK
    <3> QED BY <3>3 DEF m, l
  <2>2. Fits(p, h, e.loc, v) BY <1>4, <2>1
  <2>3. /\ T \in Oops => v.type = "oop"
        /\ T = "derived" => v.type = "derived"
        /\ T \notin Oops \cup {"derived"} /\ h.callees[e.loc] # 0 => v.type = "callee" /\ v.of = h.callees[e.loc]
    BY <2>2 DEF Fits
  <2> HIDE DEF T, v
  <2> QED BY <2>1, <2>3 DEF v
<1> QED BY <1>5, <1>6

\* Inv(p) is inductive: for the program that is compiled, liveness is what the successors
\* make of it, the flows agree with what the allocator holds, and so does the run.
THEOREM OopMapInvariant == BOSpec => [](\E p \in Programs : Inv(p))
<1> DEFINE I == \E p \in Programs : Inv(p)
<1>1. (\E p \in Programs : BOInit(p)) => I BY InitInv
<1>2. I /\ [BONext]_boVars => I'
  <2> SUFFICES ASSUME I, [BONext]_boVars PROVE I' OBVIOUS
  <2>1. PICK p \in Programs : Inv(p) OBVIOUS
  <2>2. Inv(p)' BY <2>1, StepInv
  <2> QED BY <2>2
<1> HIDE DEF I
<1>3. BOSpec => []I BY <1>1, <1>2, PTL DEF BOSpec
<1> QED BY <1>3 DEF I

\* In every method and on every way through it, each value an instruction reads was in
\* the map of each collection since it was computed, and the maps describe nothing as
\* an oop, a derived pointer or a caller's register that is not one
\* (do_liveness, compute_reach and build_oop_map of buildOopMap.cpp).
THEOREM UsedValuesAreDescribed == BOSpec => []UsedValuesDescribed
<1>1. (\E p \in Programs : Inv(p)) => UsedValuesDescribed BY InvDescribes
<1> QED BY <1>1, OopMapInvariant, PTL
=============================================================================
