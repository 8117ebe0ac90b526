----------------------------- MODULE MemoryGraph -----------------------------
(***************************************************************************)
(* The memory part of C2's ideal graph and what it means.  A node is a     *)
(* record; the fields its operation does not have are 0 or empty.  ctl,    *)
(* mem, adr and val are inputs.  off is the offset of an access, AnyOffset *)
(* if it is not constant; inst the allocation an access is known to be of  *)
(* (its instance id), 0 if none.  Node 1 is Start, node 2 the zero.        *)
(*                                                                         *)
(* Projections are folded into the nodes they are of.                      *)
(***************************************************************************)
EXTENDS Integers, Sequences, FiniteSets, SequencesExt, FiniteSetsExt

VARIABLES g,        \* the nodes
          prg       \* the graph before any optimization: nodes, dominators, loads, exit

StartNode == 1
ZeroCon == 2
AnyOffset == -1
Cfg == {"start", "alloc", "init", "call", "acquire", "release", "copy", "region", "loop"}

\* Every CFG node's dominators, itself among them
Dominators(c) == prg.doms[c]
\* The allocation a pointer is the result of
RECURSIVE Uncast(_, _)
Uncast(gr, p) == IF gr[p].op = "cast" THEN Uncast(gr, gr[p].adr) ELSE p
IdealAllocation(gr, p) == IF gr[Uncast(gr, p)].op = "alloc" THEN Uncast(gr, p) ELSE 0
InitOf(gr, a) == {n \in DOMAIN gr : gr[n].op = "init" /\ gr[n].adr = a}
\* The alias class of a field: an object of known instance has its own.
Slice(inst, off) == IF inst # 0 THEN 10 * inst + off ELSE off
\* memory_at: an empty slice is the base memory.
MemoryAt(gr, mm, s) == IF s \in DOMAIN gr[mm].ins /\ gr[mm].ins[s] # 0 THEN gr[mm].ins[s] ELSE gr[mm].mem

\* Inputs all_controls_dominate follows: only the control of a pinned node
InputsOfNode(gr, n) ==
  LET r == gr[n] IN
  CASE r.op = "parm" -> {StartNode}
    [] r.op = "phi" -> {r.ctl}
    [] r.op \in Cfg \cup {"con"} -> {}
    [] OTHER -> ({r.ctl, r.mem, r.adr, r.val} \cup (IF r.op = "merge" THEN {r.ins[s] : s \in DOMAIN r.ins} ELSE {})) \ {0}
RECURSIVE Closure(_, _)
Closure(gr, S) == LET T == S \cup UNION {InputsOfNode(gr, n) : n \in S} IN IF T = S THEN S ELSE Closure(gr, T)
\* Every control that dom needs dominates the control of sub.
AllControlsDominate(gr, dom, sub) ==
  LET exact == IF gr[dom].op = "parm" THEN StartNode ELSE dom
      needs == Closure(gr, {exact})
      ctl == gr[sub].ctl
      controls == {n \in needs : gr[n].op \in Cfg}
  IN /\ exact # sub
     /\ \/ gr[exact].op \in {"con", "start"}
        \/ ctl = exact
        \/ /\ gr[ctl].op # "start"
           /\ sub \notin needs
           /\ controls \subseteq Dominators(ctl)
           /\ \E n \in needs : gr[n].op \in Cfg \cup {"con"}

-----------------------------------------------------------------------------
\* What a run of the program finds.  env gives the objects the parameters are (negative
\* numbers), the value of unknown offsets and lengths and the way taken into each region; a
\* loop is in its it-th iteration.  Lookup[<<n, o, f, it>>] is what field f of object o
\* is in memory n, and the value of n if o is 0.  An object whose cast has an instance type
\* has slices of its own.
Escaped(o) == o < 0 \/ (o > 0 /\ prg.nodes[o].val = 1)
\* An unknown offset; a load may be a constant away from it.
OffsetIn(r, env) ==
  IF r.off # AnyOffset THEN r.off ELSE env.off + (IF r.op = "load" /\ r.ins # <<>> THEN r.ins[1] ELSE 0)
Lookup(gr, env) ==
  LET own == {gr[n].inst : n \in {m \in DOMAIN gr : gr[m].op = "cast"}}
      look[q \in Int \X Int \X Int \X Int] ==
        LET n == q[1] o == q[2] f == q[3] it == q[4]
            r == gr[n]
            Value(m) == look[<<m, 0, 0, it>>]
            In(m) == look[<<m, o, f, it>>]
            len == IF r.op # "copy" THEN 0 ELSE IF r.ins[2] = AnyOffset THEN env.len ELSE r.ins[2]
            from == IF r.ins[1] = AnyOffset THEN env.off ELSE r.ins[1]
        IN CASE r.op = "start" -> (IF o >= 0 THEN -99 ELSE IF f = 0 THEN -1 ELSE 200 - 10 * o + f)
             [] r.op = "con" -> r.val
             [] r.op = "parm" -> env.parm[n]
             [] r.op = "cast" -> (IF gr[r.adr].op = "alloc" THEN r.adr ELSE Value(r.adr))
             [] r.op = "same" -> In(r.val)
             [] r.op = "top" -> -77
             [] r.op = "load" -> look[<<r.mem, Value(r.adr), OffsetIn(r, env), it>>]
             [] r.op = "store" -> (IF f = OffsetIn(r, env) /\ o = Value(r.adr) THEN Value(r.val) ELSE In(r.mem))
             [] r.op = "init" -> (IF o # r.adr THEN In(r.mem) ELSE IF f \in DOMAIN r.ins THEN Value(r.ins[f]) ELSE 0)
             [] r.op \in {"alloc", "release"} -> In(r.mem)
             [] r.op \in {"call", "acquire"} -> (IF Escaped(o) /\ ~(prg.final /\ r.op = "acquire") THEN 1000 * n + 100 * it + f ELSE In(r.mem))
             [] r.op = "copy" -> (IF o = Value(r.adr) /\ f >= r.off /\ f < r.off + len
                                  THEN look[<<r.mem, Value(r.val), f - r.off + from, it>>] ELSE In(r.mem))
             [] r.op = "clear" -> (IF o = Value(r.adr) THEN 0 ELSE In(r.mem))
             [] r.op = "merge" -> In(MemoryAt(gr, n, Slice(IF o > 0 /\ o \in own THEN o ELSE 0, f)))
             [] r.op = "phi" /\ gr[r.ctl].op = "region" -> In(r.ins[env.way[r.ctl]])
             [] r.op = "phi" /\ gr[r.ctl].op = "loop" ->
                  (IF it = 0 THEN In(r.ins[1]) ELSE look[<<r.ins[2], o, f, it - 1>>])
  IN look
MaxTrips == 2
Trips == IF \E n \in DOMAIN prg.nodes : prg.nodes[n].op = "loop" THEN 0..MaxTrips ELSE {0}
ValueIn(gr, env, n, it) == Lookup(gr, env)[<<n, 0, 0, it>>]
FieldIn(gr, env, m, o, f, it) == Lookup(gr, env)[<<m, o, f, it>>]

\* The users of n take v instead; n itself stays for what the program meant by it.
Subsume(gr, n, v) ==
  LET To(x) == IF x = n THEN v ELSE x
      Rewired(r) == IF r.op = "con" THEN r
                    ELSE [r EXCEPT !.mem = To(@), !.adr = To(@), !.val = IF r.op = "alloc" THEN @ ELSE To(@),
                                   !.ins = IF r.op = "copy" THEN @ ELSE [i \in DOMAIN @ |-> To(@[i])]]
  IN [m \in DOMAIN gr |-> IF m = n THEN [gr[m] EXCEPT !.op = "same", !.val = v, !.mem = 0, !.adr = 0, !.ins = <<>>]
                          ELSE Rewired(gr[m])]

MGInit(p) == g = p.nodes /\ prg = p
mgVars == <<g, prg>>

-----------------------------------------------------------------------------
\* MergeMemNode::Ideal: merges below this one are folded in, every slice read relative
\* to the old base and written relative to the new one.
SlicesIn(gr, n) == DOMAIN gr[n].ins
NewBase(gr, n) == IF gr[gr[n].mem].op = "merge" THEN gr[gr[n].mem].mem ELSE gr[n].mem
SamePhi(gr, a, b) ==
  a # b /\ gr[a].op = "phi" /\ gr[b].op = "phi" /\ gr[a].ctl = gr[b].ctl /\ gr[a].ins = gr[b].ins
Resliced(gr, n, s) ==
  LET old == MemoryAt(gr, n, s)
      new == IF gr[old].op = "merge" THEN MemoryAt(gr, old, s) ELSE old
  IN IF new = NewBase(gr, n) \/ SamePhi(gr, new, NewBase(gr, n)) THEN 0 ELSE new
MergeIdeal(n) ==
  /\ g[n].op = "merge"
  /\ LET below == IF g[g[n].mem].op = "merge" THEN SlicesIn(g, g[n].mem) ELSE {}
         slices == SlicesIn(g, n) \cup below
     IN g' = [g EXCEPT ![n].ins = [s \in slices |-> Resliced(g, n, s)], ![n].mem = NewBase(g, n)]
  /\ g' # g
  /\ UNCHANGED prg
\* MergeMemNode::Identity: no slice differs from the base.
MergeIdentity(n) ==
  /\ g[n].op = "merge"
  /\ \A s \in SlicesIn(g, n) : g[n].ins[s] \in {0, g[n].mem}
  /\ g' = Subsume(g, n, g[n].mem)
  /\ UNCHANGED prg
=============================================================================
