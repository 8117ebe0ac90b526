----------------------------- MODULE Scheduling -----------------------------
(***************************************************************************)
(* Scheduling of one block after register allocation (opto/output.cpp,     *)
(* class Scheduling): anti-dependences between the uses of a register and  *)
(* what overwrites it later are added bottom up, with pinch points where   *)
(* several uses meet several kills, derived pointers are kept on their     *)
(* side of safepoints, and the instructions are listed backwards.          *)
(*                                                                         *)
(* Which of the available instructions comes next depends on latencies and *)
(* the processor's resources: any may, except that a branch comes first    *)
(* because it is first in the list and the bundle was cleared.             *)
(*                                                                         *)
(* A node is [op, base, ins, use, defs, out, derived]. op is head, op,     *)
(* addp, safe, call, proj (of base), branch, null or catch; ins are its    *)
(* inputs in the block, memory and control too; use and defs registers;    *)
(* out says that its value has uses, otherwise it only kills; derived that *)
(* it uses a derived pointer. Nodes are numbered in the original order,    *)
(* pinch points follow.                                                    *)
(***************************************************************************)
EXTENDS Integers, Sequences, SequencesExt, FiniteSetsExt

CONSTANTS
  SchedRegs,   \* register numbers
  MaxPinch     \* node_regs_max_index leaves room for so many pinch points

VARIABLES
  sc_nodes,
  sc_pc,       \* anti, list, done or failed
  sc_i,        \* position of the node whose dependences are next, counted back
  sc_st,       \* [list, reg_node, prec, later, failed] (see SCInit)
  sc_safe,     \* last_safept_node
  scheduled,   \* backwards
  delay_slot   \* _unconditional_delay_slot, or 0

scVars == <<sc_nodes, sc_pc, sc_i, sc_st, sc_safe, scheduled, delay_slot>>

IsPinch(n) == n > Len(sc_nodes)
OpOf(n)    == IF IsPinch(n) THEN "pinch" ELSE sc_nodes[n].op
BaseNode(n) == IF OpOf(n) = "proj" THEN sc_nodes[n].base ELSE n
Where(list, n) == CHOOSE i \in DOMAIN list : list[i] = n

\* The schedulable range: after the head, the Phis and a CreateEx; the call of a
\* catch and the memory operation of a null check are outside.
BBStart(ns) == CHOOSE i \in DOMAIN ns : ns[i].op # "head" /\ \A k \in 1..(i - 1) : ns[k].op = "head"
BBEnd(ns) ==
  LET last == Len(ns)
      before == {i \in DOMAIN ns : i < last /\ ns[i].op # "proj"}
  IN  IF ns[last].op \in {"catch", "null"} THEN CHOOSE i \in before : \A k \in before : k <= i ELSE last + 1
Region(list) == {list[k] : k \in BBStart(sc_nodes)..(BBEnd(sc_nodes) - 1 + Len(list) - Len(sc_nodes))}

SCInit(ns) ==
  /\ sc_nodes = ns /\ sc_pc = "anti" /\ sc_i = BBEnd(ns) - 1
  /\ sc_st = [list |-> [i \in DOMAIN ns |-> i],         \* the block
              reg_node |-> [r \in SchedRegs |-> 0],     \* pinch point or def or kill of a register
              prec  |-> {},                             \* <<n, m>>: n after m
              later |-> <<>>,                           \* in(0) of each pinch point
              failed |-> FALSE]
  /\ sc_safe = sc_i /\ scheduled = <<>> /\ delay_slot = 0

-----------------------------------------------------------------------------
EdgeFromTo(st, n, m) == <<n, m>> \in st.prec \/ (~IsPinch(n) /\ m \in sc_nodes[n].ins)
AddPrec(st, from, to) ==
  LET f == BaseNode(from) IN
  IF f = to \/ EdgeFromTo(st, f, to) THEN st ELSE [st EXCEPT !.prec = @ \cup {<<f, to>>}]
OutCnt(st, n) == sc_nodes[n].out \/ \E e \in st.prec : e[2] = n
UsesReg(n, r) == r \in sc_nodes[BaseNode(n)].use

\* replace_by: what came after the pinch point comes after the kill.
ReplacedBy(st, p, kill) ==
  [st EXCEPT !.prec = {IF e[2] = p THEN <<e[1], kill>> ELSE e : e \in @} \ {<<kill, kill>>}]

\* anti_do_def: a def, or the first kill, is remembered. A kill before a later def or
\* kill needs a pinch point, which all uses found further up precede.
AntiDef(st, n, r, isdef) ==
  LET p == st.reg_node[r]
      q == IF IsPinch(p) THEN p ELSE Len(sc_nodes) + Len(st.later) + 1
      fat == OpOf(p) = "proj" /\ Cardinality(sc_nodes[p].defs) > 1
      kills == ~IsPinch(p) /\ (fat \/ ~OutCnt(st, p))       \* the later one is a kill
      st1 == IF IsPinch(p) THEN st
             ELSE [st EXCEPT !.later = Append(@, IF kills THEN 0 ELSE p), !.reg_node[r] = q]
      st2 == IF kills THEN AddPrec(st1, p, q) ELSE st1
      late == st1.later[q - Len(sc_nodes)]
      st3 == IF late # 0 THEN AddPrec(st2, late, n) ELSE st2
  IN  IF p = 0 \/ isdef THEN [st EXCEPT !.reg_node[r] = n]
      ELSE IF q > Len(sc_nodes) + MaxPinch THEN [st EXCEPT !.failed = TRUE]
      ELSE IF UsesReg(n, r) THEN [ReplacedBy(st3, q, n) EXCEPT !.reg_node[r] = n]
      ELSE AddPrec(st3, n, q)

\* Faulty variant: a use has no edge from what overwrites its register.
AntiUseFree(st, n, r) == st
\* anti_do_use: the later def, kill or pinch point comes after this use; a pinch
\* point enters the block after its last use.
AntiUse(st, n, r) ==
  LET p == st.reg_node[r]
      enters == IsPinch(p) /\ p \notin ToSet(st.list)
      st1 == IF enters THEN [st EXCEPT !.list = InsertAt(@, Where(@, n) + 1, p),
                                       !.later[p - Len(sc_nodes)] = 0] ELSE st
  IN  IF p = 0 THEN st ELSE AddPrec(st1, p, n)

\* Faulty variant: derived pointers may move across safepoints.
DerivedEdgesNone(st, n, i) == st
\* Derived pointers: a use before a safepoint stays there, and an address computed
\* after one, up to the next, is not computed before it.
DerivedEdges(st, n, i) ==
  LET end == BBEnd(sc_nodes) - 1
      st1 == IF sc_safe # end /\ n # sc_safe /\ sc_nodes[n].derived
               THEN [st EXCEPT !.prec = @ \cup {<<sc_safe, n>>}] ELSE st
      after == {m \in {st.list[k] : k \in (i + 1)..Where(st.list, sc_safe)} : OpOf(m) = "addp"}
  IN  IF OpOf(n) \notin {"safe", "call"} THEN st1
      ELSE [st1 EXCEPT !.prec = @ \cup {<<m, n>> : m \in after}]

\* ComputeRegisterAntidependencies on one node, from the last one
AntiDependences ==
  LET n   == sc_st.list[sc_i]
      def == FoldSet(LAMBDA r, st : AntiDef(st, n, r, sc_nodes[n].out), sc_st, sc_nodes[n].defs)
      use == FoldSet(LAMBDA r, st : AntiUse(st, n, r), def, sc_nodes[n].use)
  IN  /\ sc_pc = "anti" /\ sc_i >= BBStart(sc_nodes) /\ sc_i' = sc_i - 1
      /\ sc_st' = DerivedEdges(use, n, sc_i)
      /\ sc_safe' = IF OpOf(n) \in {"safe", "call"} THEN n ELSE sc_safe
      /\ UNCHANGED <<sc_nodes, sc_pc, scheduled, delay_slot>>

\* Pinch points without a use are collected; too many give the method up.
CollectPinches ==
  /\ sc_pc = "anti" /\ sc_i < BBStart(sc_nodes)
  /\ sc_pc' = IF sc_st.failed THEN "failed" ELSE "list"
  /\ sc_st' = [sc_st EXCEPT !.prec = {e \in @ : ~IsPinch(e[2]) \/ e[2] \in ToSet(sc_st.list)}]
  /\ UNCHANGED <<sc_nodes, sc_i, sc_safe, scheduled, delay_slot>>

-----------------------------------------------------------------------------
Inputs(n) == {BaseNode(m) : m \in {e[2] : e \in {x \in sc_st.prec : x[1] = n}}
                                   \cup (IF IsPinch(n) THEN {} ELSE sc_nodes[n].ins)}
\* ComputeUseCount and DecrementUseCounts: no user in the range is left.
Available ==
  LET todo == {n \in Region(sc_st.list) : OpOf(n) # "proj"} \ ToSet(scheduled)
  IN  {n \in todo : \A m \in todo \ {n} : n \notin Inputs(m)}
ProjsOf(n) == SelectSeq(sc_st.list, LAMBDA m : OpOf(m) = "proj" /\ sc_nodes[m].base = n)

\* Faulty variant: a branch has no priority.
ChooseNodeAny == Available
\* ChooseNodeToBundle
ChooseNode ==
  LET first == {n \in Available : OpOf(n) = "branch"} IN IF first # {} THEN first ELSE Available

\* AddNodeToBundle: the projections go with the node. The delay slot of a branch may
\* take another available instruction that is no safepoint, which stays in the list.
AddNode(n, d) ==
  /\ sc_pc = "list" /\ n \in ChooseNode
  /\ d \in {0} \cup (IF OpOf(n) = "branch" THEN {m \in Available \ {n} : OpOf(m) \in {"op", "addp"}} ELSE {})
  /\ scheduled' = scheduled \o Reverse(ProjsOf(n)) \o <<n>>
  /\ delay_slot' = IF d # 0 THEN d ELSE delay_slot
  /\ UNCHANGED <<sc_nodes, sc_pc, sc_i, sc_st, sc_safe>>

\* The instructions are copied back to the block.
CopyBack ==
  LET list == sc_st.list
      s    == BBStart(sc_nodes)
  IN  /\ sc_pc = "list" /\ Available = {} /\ sc_pc' = "done"
      /\ sc_st' = [sc_st EXCEPT !.list = SubSeq(list, 1, s - 1) \o Reverse(scheduled)
                                         \o SubSeq(list, s + Cardinality(Region(list)), Len(list))]
      /\ UNCHANGED <<sc_nodes, sc_i, sc_safe, scheduled, delay_slot>>

SCNext ==
  \/ AntiDependences \/ CollectPinches \/ CopyBack
  \/ \E n \in Available, d \in {0} \cup Available : AddNode(n, d)

-----------------------------------------------------------------------------
\* The order in which the code executes: the delay slot after the branch
Executed ==
  LET l == SelectSeq(sc_st.list, LAMBDA n : ~IsPinch(n)) IN
  IF delay_slot = 0 THEN l ELSE Append(SelectSeq(l, LAMBDA n : n # delay_slot), delay_slot)
Original == [i \in DOMAIN sc_nodes |-> i]
\* The instruction whose value, or rubbish, is in register r at a position
Writer(seq, pos, r) ==
  LET w == {k \in 1..(pos - 1) : r \in sc_nodes[seq[k]].defs}
  IN  IF w = {} THEN 0 ELSE seq[CHOOSE k \in w : \A q \in w : q <= k]
\* Derived pointers that are live across instruction s
LiveAcross(seq, s) ==
  {n \in DOMAIN sc_nodes : OpOf(n) = "addp" /\ Where(seq, n) < Where(seq, s)
      /\ \E m \in DOMAIN sc_nodes : n \in sc_nodes[m].ins /\ Where(seq, s) < Where(seq, m)}

\* A scheduled block computes what the block did: the same instructions, the branch
\* at its end, every one reading from its registers what it read before, and the
\* same values left in registers; and no derived pointer becomes live across a
\* safepoint that does not describe it.
ScheduleKeepsMeaning ==
  sc_pc = "done" =>
    LET e == Executed
        n == Len(sc_nodes)
    IN  /\ ToSet(e) = ToSet(Original) /\ Len(e) = n
        /\ \A b \in DOMAIN sc_nodes : OpOf(b) = "branch" => Where(e, b) = IF delay_slot = 0 THEN n ELSE n - 1
        /\ \A m \in DOMAIN sc_nodes : \A r \in sc_nodes[m].use :
             Writer(e, Where(e, m), r) = Writer(Original, m, r)
        /\ \A r \in SchedRegs : LET w == Writer(Original, n + 1, r) IN
             (w # 0 /\ sc_nodes[w].out) => Writer(e, n + 1, r) = w
        /\ \A s \in DOMAIN sc_nodes : OpOf(s) \in {"safe", "call"} => LiveAcross(e, s) \subseteq LiveAcross(Original, s)
=============================================================================
