----------------------------- MODULE BuildOopMap -----------------------------
(***************************************************************************)
(* The oop maps of a compiled method (opto/buildOopMap.cpp): do_liveness   *)
(* computes backwards which registers are live at each safepoint,          *)
(* BuildOopMaps flows reaching definitions and callee saved registers      *)
(* forwards with one OopFlow per block, handed on to the last successor,   *)
(* and build_oop_map classifies each live register. After that the code    *)
(* runs: a collection at a safepoint moves every object and updates only   *)
(* what the map describes.                                                 *)
(*                                                                         *)
(* A program is [blocks, nodes, held]. A block is [nodes, succs], block 1  *)
(* is the entry and 0 the root, which leaves the method. A node is [op,    *)
(* type, reg, copy, ins, args, pairs]: op is def, phi, proj (of Start),    *)
(* safe, call, leaf or use, type is that of its value, copy its input if   *)
(* it is a copy; register 0 is OptoReg::Bad and stack slots are registers  *)
(* too. held says which values the register allocator keeps in registers   *)
(* at each place; the pass does not know it.                               *)
(***************************************************************************)
EXTENDS Integers, Sequences, SequencesExt, FiniteSets

CONSTANTS
  Regs,        \* registers and stack slots with a number
  Programs     \* methods after register allocation

Oops == {"oop", "boxlock"}   \* what a collection updates: oops and stack objects
JVMSOps == {"safe", "call", "leaf"}

\* One node of compute_reach: the new reaching definition; a copy takes callee saved
\* information along, a Phi leaves it, and a projection of Start begins it.
Reach(p, f, n) ==
  LET d == p.nodes[n]
      from == IF d.copy = 0 THEN 0 ELSE p.nodes[d.copy].reg
      saved == CASE from # 0 -> f.callees[from]
                 [] from = 0 /\ d.op = "phi"  -> f.callees[d.reg]
                 [] from = 0 /\ d.op = "proj" -> d.reg
                 [] OTHER -> 0
  IN  IF d.reg = 0 THEN f
      ELSE [defs    |-> [f.defs EXCEPT ![d.reg] = n],
            callees |-> [r \in Regs |-> IF r = d.reg THEN saved ELSE IF r = from THEN 0 ELSE f.callees[r]]]

\* The flow before each position of a block
ReachFrom(p, b, start) ==
  LET ns == p.blocks[b].nodes
      flow[k \in 1..(Len(ns) + 1)] == IF k = 1 THEN start ELSE Reach(p, flow[k - 1], ns[k - 1])
  IN  flow

EmptyFlow == [defs |-> [r \in Regs |-> 0], callees |-> [r \in Regs |-> 0]]

\* One node of the backward walk of do_liveness: kill its register, make its inputs live.
Across(p, n, l) ==
  (l \ {p.nodes[n].reg}) \cup ({p.nodes[i].reg : i \in ToSet(p.nodes[n].ins)} \ {0})
\* The registers live before each position of a block, if out are live at its end
WalkFrom(p, b, out) ==
  LET ns == p.blocks[b].nodes
      before[k \in 1..(Len(ns) + 1)] == IF k > Len(ns) THEN out ELSE Across(p, ns[k], before[k + 1])
  IN  before

CopiesOf(p, n) ==
  LET chain[k \in 0..Cardinality(DOMAIN p.nodes)] ==
        IF k = 0 THEN {n} ELSE chain[k - 1] \cup ({p.nodes[m].copy : m \in chain[k - 1]} \ {0})
  IN  chain[Cardinality(DOMAIN p.nodes)]

\* The pairs in which a derived value is found: exactly, or through copies of either
PairsOf(p, n, def) ==
  LET ps == p.nodes[n].pairs
      exact == {i \in DOMAIN ps : ps[i][1] = def}
      near  == {i \in DOMAIN ps : CopiesOf(p, ps[i][1]) \cap CopiesOf(p, def) # {}}
  IN  IF exact # {} THEN exact ELSE near
BaseOf(p, n, def) ==
  LET found == PairsOf(p, n, def)
  IN  p.nodes[n].pairs[CHOOSE i \in found : \A k \in found : i <= k][2]

Entry(l, t, c) == [loc |-> l, type |-> t, content |-> c]

\* build_oop_map: oops and stack objects that are not arguments, derived values
\* with their base, and callee saved registers. A base that is not live and was
\* passed already is added; one that comes later is taken as live.
BuildOopMapAt(p, n, l0, f) ==
  LET Type(r)  == IF f.defs[r] = 0 THEN "none" ELSE p.nodes[f.defs[r]].type
      breg(r)  == p.nodes[BaseOf(p, n, f.defs[r])].reg
      bases    == {r \in l0 : Type(r) = "derived"}
      late     == {breg(r) : r \in {q \in bases : breg(q) > q}}
      early    == {breg(r) : r \in {q \in bases : breg(q) < q /\ breg(q) \notin l0}}
  IN  {Entry(r, "oop", 0) : r \in {q \in l0 \cup late : Type(q) \in Oops /\ f.defs[q] \notin p.nodes[n].args}}
        \cup {Entry(r, "oop", 0) : r \in early}
        \cup {Entry(r, "derived", breg(r)) : r \in bases}
        \cup {Entry(r, "callee", f.callees[r]) :
                r \in {q \in l0 : Type(q) \notin Oops \cup {"derived"} /\ f.callees[q] # 0}}

-----------------------------------------------------------------------------
\* What the pass relies on. A program is well formed: Phis come first in a block, calls
\* and safepoints have no result of their own, a copy or a Phi has the type of its
\* inputs, and the address of a stack object is computed anew instead of being copied.
NodeOK(p, n) ==
  LET d == p.nodes[n] IN
  /\ d.op \in JVMSOps => d.reg = 0
  /\ d.op = "proj" => d.copy = 0 /\ d.type \notin Oops \cup {"derived"}
  /\ d.copy # 0 => d.op = "def" /\ d.copy \in ToSet(d.ins) /\ d.type = p.nodes[d.copy].type /\ d.type # "boxlock"
  /\ d.op = "phi" => /\ d.reg # 0 /\ d.ins # <<>> /\ d.type # "boxlock"
                     /\ \A i \in ToSet(d.ins) : p.nodes[i].reg = d.reg /\ p.nodes[i].type = d.type
  /\ \A i \in DOMAIN d.pairs : LET base == d.pairs[i][2] IN
       base \in ToSet(d.ins) \ d.args /\ p.nodes[base].type \in Oops

NodeType(N) ==
  [op : JVMSOps \cup {"def", "phi", "proj", "use"}, type : {"oop", "boxlock", "derived", "int", "none"},
   reg : Regs \cup {0}, copy : N \cup {0}, ins : Seq(N), args : SUBSET N, pairs : Seq(N \X N)]

IsProgram(p) ==
  LET N == DOMAIN p.nodes
      B == DOMAIN p.blocks
  IN  /\ p.nodes \in Seq(NodeType(N)) /\ \A n \in N : NodeOK(p, n)
      /\ p.blocks \in Seq([nodes : Seq(N), succs : SUBSET (B \cup {0})]) /\ p.blocks # <<>>
      /\ \A b \in B : 1 \notin p.blocks[b].succs /\ p.blocks[b].succs # {}
      /\ \A b, c \in B : \A j \in DOMAIN p.blocks[b].nodes, k \in DOMAIN p.blocks[c].nodes :
           p.blocks[b].nodes[j] = p.blocks[c].nodes[k] => b = c /\ j = k
      /\ \A b \in B : \A j, k \in DOMAIN p.blocks[b].nodes :
           j <= k /\ p.nodes[p.blocks[b].nodes[k]].op = "phi" => p.nodes[p.blocks[b].nodes[j]].op = "phi"

\* The frame pointer is set at the start and used by all ways out, and a loop that is
\* never left has a safepoint: do_liveness looks for blocks it missed by these.
ReachedFromBelow(p) ==
  /\ \E fp \in Regs : \A b \in DOMAIN p.blocks :
       /\ b # 1 => \A k \in DOMAIN p.blocks[b].nodes : p.nodes[p.blocks[b].nodes[k]].reg # fp
       /\ 0 \in p.blocks[b].succs =>
            \E k \in DOMAIN p.blocks[b].nodes : \E i \in ToSet(p.nodes[p.blocks[b].nodes[k]].ins) : p.nodes[i].reg = fp
  /\ \A U \in SUBSET DOMAIN p.blocks :
       U # {} /\ (\A b \in U : p.blocks[b].succs \subseteq U)
         => \E b \in U : \E k \in DOMAIN p.blocks[b].nodes : p.nodes[p.blocks[b].nodes[k]].op \in JVMSOps

\* g knows no more than f does.
Below(g, f) == \A r \in Regs : g.defs[r] # 0 => g.defs[r] = f.defs[r] /\ g.callees[r] = f.callees[r]

\* A node reads from each register the value that is its input, at a derived value's
\* safepoint there is a pair for it, and afterwards the arguments of a call and a callee
\* saved value that moved are no longer where they were.
HeldOverNode(p, n, f, g) ==
  LET d == p.nodes[n] IN
  /\ Below(g, Reach(p, f, n))
  /\ IF d.op = "phi" THEN f.defs[d.reg] = n
     ELSE \A i \in ToSet(d.ins) : p.nodes[i].reg # 0 /\ f.defs[p.nodes[i].reg] = i
  /\ \A r \in Regs : f.defs[r] # 0 =>
       /\ p.nodes[f.defs[r]].type = "derived" /\ d.op \in {"safe", "call"} => PairsOf(p, n, f.defs[r]) # {}
       /\ f.defs[r] \in d.args /\ p.nodes[f.defs[r]].type \in Oops => g.defs[r] = 0
       /\ d.copy # 0 /\ d.reg \notin {0, r} /\ p.nodes[d.copy].reg = r /\ f.callees[r] # 0 => g.defs[r] = 0

\* "every live value must have the SAME reaching def for the block", or a Phi
HeldOverEdge(p, s, f, g) ==
  \A r \in Regs : g.defs[r] # 0 =>
    /\ g.callees[r] = f.callees[r]
    /\ \/ g.defs[r] = f.defs[r]
       \/ /\ g.defs[r] \in ToSet(p.blocks[s].nodes) /\ p.nodes[g.defs[r]].op = "phi"
          /\ f.defs[r] \in ToSet(p.nodes[g.defs[r]].ins)

IsAllocated(p) ==
  LET B == DOMAIN p.blocks
      N == DOMAIN p.nodes
      last(b) == Len(p.blocks[b].nodes) + 1
  IN  /\ DOMAIN p.held = B /\ p.held[1][1] = EmptyFlow
      /\ \A b \in B : p.held[b] \in [1..last(b) -> [defs : [Regs -> N \cup {0}], callees : [Regs -> Regs \cup {0}]]]
      /\ \A b \in B : \A k \in 1..last(b) : \A r \in Regs :
           p.held[b][k].defs[r] # 0 => p.nodes[p.held[b][k].defs[r]].reg = r
      /\ \A b \in B : \A k \in DOMAIN p.blocks[b].nodes :
           HeldOverNode(p, p.blocks[b].nodes[k], p.held[b][k], p.held[b][k + 1])
      /\ \A b \in B : \A s \in p.blocks[b].succs \ {0} :
           HeldOverEdge(p, s, p.held[b][last(b)], p.held[s][1])

ASSUME ProgramsAssumption ==
  /\ Regs \subseteq Nat \ {0}
  /\ \A p \in Programs : IsProgram(p) /\ ReachedFromBelow(p) /\ IsAllocated(p)

-----------------------------------------------------------------------------
VARIABLES
  bo_prog,
  bo_pc,       \* liveness, flow, run or done
  bo_work,     \* the worklist; its order does not matter
  live,        \* block -> registers live at its start
  safehash,    \* safepoint -> live registers
  flows,       \* block -> its OopFlow, 0 if there is none yet
  oopflow,     \* the OopFlows: <<[b, flow]>>
  oop_map,     \* safepoint -> [loc, type, content] entries
  at,          \* the run: block and position in it
  file         \* register -> [type, of, ok]: what it holds, and whether it is up to date

boVars == <<bo_prog, bo_pc, bo_work, live, safehash, flows, oopflow, oop_map, at, file>>

Blocks   == DOMAIN bo_prog.blocks
Node(n)  == bo_prog.nodes[n]
NodesOf(b) == bo_prog.blocks[b].nodes
Succs(b) == bo_prog.blocks[b].succs
Preds(b) == {p \in Blocks : b \in Succs(p)}
HasJVMS(n) == Node(n).op \in JVMSOps
SafeNodes == {n \in DOMAIN bo_prog.nodes : HasJVMS(n)}

BOInit(p) ==
  /\ bo_prog = p /\ bo_pc = "liveness"
  /\ bo_work = {b \in DOMAIN p.blocks : 0 \in p.blocks[b].succs}
  /\ live = [b \in DOMAIN p.blocks |-> {}]
  /\ safehash = <<>> /\ flows = [b \in DOMAIN p.blocks |-> 0] /\ oopflow = <<>>
  /\ oop_map = <<>> /\ at = [b |-> 1, i |-> 1]
  /\ file = [r \in Regs |-> [type |-> "none", of |-> 0, ok |-> TRUE]]

-----------------------------------------------------------------------------
LiveOut(b) == UNION {live[s] : s \in Succs(b) \ {0}}

\* do_liveness on a block: liveness at its safepoints, and at its start; if that
\* has changed its predecessors are done again.
LivenessOf(b) ==
  LET ns == NodesOf(b)
      w  == WalkFrom(bo_prog, b, LiveOut(b))
      here == {k \in DOMAIN ns : HasJVMS(ns[k])}
  IN  /\ bo_pc = "liveness" /\ b \in bo_work
      /\ safehash' = [n \in DOMAIN safehash \cup {ns[k] : k \in here} |->
           IF \E k \in here : ns[k] = n THEN w[CHOOSE k \in here : ns[k] = n] ELSE safehash[n]]
      /\ live' = [live EXCEPT ![b] = w[1]]
      /\ bo_work' = (bo_work \ {b}) \cup (IF w[1] # live[b] THEN Preds(b) ELSE {})
      /\ UNCHANGED <<bo_prog, bo_pc, flows, oopflow, oop_map, at, file>>

\* Safepoints that were missed, in loops that never leave: everything again.
Retrip ==
  /\ bo_pc = "liveness" /\ bo_work = {} /\ DOMAIN safehash # SafeNodes
  /\ bo_work' = Blocks
  /\ UNCHANGED <<bo_prog, bo_pc, live, safehash, flows, oopflow, oop_map, at, file>>

-----------------------------------------------------------------------------
\* compute_reach over a block, with the maps of its safepoints
ComputeReach(b, start) ==
  LET ns == NodesOf(b)
      flow == ReachFrom(bo_prog, b, start)
      maps == {k \in DOMAIN ns : Node(ns[k]).op \in {"safe", "call"}}
  IN  [end |-> flow[Len(ns) + 1],
       maps |-> [n \in {ns[k] : k \in maps} |->
                   BuildOopMapAt(bo_prog, n, safehash[n], flow[CHOOSE k \in maps : ns[k] = n])]]

\* The entry block is done by hand.
FlowEntry ==
  LET c == ComputeReach(1, EmptyFlow) IN
  /\ bo_pc = "liveness" /\ bo_work = {} /\ DOMAIN safehash = SafeNodes /\ bo_pc' = "flow"
  /\ oopflow' = <<[b |-> 1, flow |-> c.end]>> /\ flows' = [flows EXCEPT ![1] = 1] /\ oop_map' = c.maps
  /\ bo_work' = Succs(1) \ {0}
  /\ UNCHANGED <<bo_prog, live, safehash, at, file>>

\* Faulty variant: a flow is handed on although another successor still needs it.
LastUseAny(p, b) == b \in Succs(p)
\* All successors of p are done except b; the root never is.
LastUse(p, b) == \A s \in Succs(p) \ {b} : s # 0 /\ flows[s] # 0

\* A block with a predecessor that is done: its flow is carried forward if this is
\* the last use of it, and copied to a new one otherwise.
FlowBlock(b) ==
  LET done == {p \in Preds(b) : flows[p] # 0}
      last == {p \in done : LastUse(p, b)}
  IN  /\ bo_pc = "flow" /\ b \in bo_work
      /\ IF flows[b] # 0 THEN bo_work' = bo_work \ {b} /\ UNCHANGED <<flows, oopflow, oop_map>>
         ELSE \E p \in IF last # {} THEN last ELSE done :
                LET to == IF last # {} THEN flows[p] ELSE Len(oopflow) + 1
                    c  == ComputeReach(b, oopflow[flows[p]].flow)
                    of == [b |-> b, flow |-> c.end]
                IN  /\ flows' = [flows EXCEPT ![b] = to]
                    /\ oopflow' = IF last # {} THEN [oopflow EXCEPT ![to] = of] ELSE Append(oopflow, of)
                    /\ oop_map' = [n \in DOMAIN oop_map \cup DOMAIN c.maps |->
                                     IF n \in DOMAIN c.maps THEN c.maps[n] ELSE oop_map[n]]
                    /\ bo_work' = (bo_work \ {b}) \cup (Succs(b) \ {0})
      /\ UNCHANGED <<bo_prog, bo_pc, live, safehash, at, file>>

EndFlow ==
  /\ bo_pc = "flow" /\ bo_work = {} /\ bo_pc' = "run"
  /\ UNCHANGED <<bo_prog, bo_work, live, safehash, flows, oopflow, oop_map, at, file>>

-----------------------------------------------------------------------------
\* The code runs. What a register holds after a collection that knows the map m
Collected(m, r) ==
  LET v == file[r] IN
  [v EXCEPT !.ok = @ /\ CASE v.type = "oop"     -> Entry(r, "oop", 0) \in m
                          [] v.type = "derived" -> \E e \in m : e.loc = r /\ e.type = "derived"
                          [] v.type = "callee"  -> Entry(r, "callee", v.of) \in m
                          [] OTHER -> TRUE]
Value(n) ==
  LET d == Node(n) IN
  IF d.copy # 0 THEN file[Node(d.copy).reg]
  ELSE IF d.op = "proj" THEN [type |-> "callee", of |-> d.reg, ok |-> TRUE]
  ELSE [type |-> IF d.type = "boxlock" THEN "oop" ELSE d.type, of |-> 0, ok |-> TRUE]

RunNode ==
  LET ns == NodesOf(at.b)
      n  == ns[at.i]
  IN  /\ bo_pc = "run" /\ at.i <= Len(ns)
      /\ file' = IF Node(n).op \in {"safe", "call"} THEN [r \in Regs |-> Collected(oop_map[n], r)]
                 ELSE IF Node(n).reg = 0 \/ Node(n).op = "phi" THEN file
                 ELSE [file EXCEPT ![Node(n).reg] = Value(n)]
      /\ at' = [at EXCEPT !.i = @ + 1]
      /\ UNCHANGED <<bo_prog, bo_pc, bo_work, live, safehash, flows, oopflow, oop_map>>

RunBranch(s) ==
  /\ bo_pc = "run" /\ at.i > Len(NodesOf(at.b)) /\ s \in Succs(at.b)
  /\ IF s = 0 THEN bo_pc' = "done" /\ UNCHANGED at
     ELSE at' = [b |-> s, i |-> 1] /\ UNCHANGED bo_pc
  /\ UNCHANGED <<bo_prog, bo_work, live, safehash, flows, oopflow, oop_map, file>>

BONext ==
  \/ \E b \in bo_work : LivenessOf(b) \/ FlowBlock(b)
  \/ Retrip \/ FlowEntry \/ EndFlow \/ RunNode
  \/ \E s \in Succs(at.b) : RunBranch(s)

BOSpec == (\E p \in Programs : BOInit(p)) /\ [][BONext]_boVars

-----------------------------------------------------------------------------
\* Whatever way the code takes, the value an instruction reads is up to date: every
\* collection since it was computed had its register in the map, as what it is. And
\* the collector never takes for an oop, or for a caller's register, what is not one,
\* nor a derived pointer whose base it does not update.
UsedValuesDescribed ==
  (bo_pc = "run" /\ at.i <= Len(NodesOf(at.b))) =>
    LET n == NodesOf(at.b)[at.i] IN
    /\ \A i \in ToSet(Node(n).ins) : file[Node(i).reg].ok
    /\ Node(n).op \in {"safe", "call"} => \A e \in oop_map[n] :
         /\ e.type = file[e.loc].type
         /\ e.type = "derived" => Entry(e.content, "oop", 0) \in oop_map[n]
         /\ e.type = "callee" => file[e.loc].of = e.content
=============================================================================
