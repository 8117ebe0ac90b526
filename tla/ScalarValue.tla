----------------------------- MODULE ScalarValue -----------------------------
(***************************************************************************)
(* The value of a field of an object that is being replaced by scalars:    *)
(* PhaseMacroExpand::value_from_mem walks up the memory of a safepoint to  *)
(* the store, initialization or arraycopy that set it, and builds a value  *)
(* Phi for every memory Phi on the way (macro.cpp).  The calls of          *)
(* value_from_mem and value_from_mem_phi are frames on a stack.            *)
(***************************************************************************)
EXTENDS LoadOptimization

CONSTANT ValueSearchLimit     \* how deep value Phis may nest

\* query: the field (alloc, off) asked for at the memory mem of a safepoint, trap if that is
\* an uncommon trap; stack: the calls; ret: what the last call returned
VARIABLE sv

NoResult == -1
Fail == 0
Top == sv.stack[Len(sv.stack)]
ScanFrame(m, off, trap) ==
  [kind |-> "scan", at |-> m, off |-> off, seen |-> {}, sfpt |-> m, trap |-> trap, phis |-> {}]
SVInit(q) == sv = [query |-> q, ret |-> NoResult, stack |-> <<ScanFrame(q.mem, q.off, q.trap)>>]

\* scan_mem_chain: the node that sets the field, or a Phi, or a sentinel: the memory
\* before the allocation or at the start of the method.  A clearing ends it at the
\* initialization of the object that is cleared.
Sentinels(alloc) == {g[alloc].mem, StartNode}
RECURSIVE ScanMemChain(_, _, _)
ScanMemChain(m, alloc, off) ==
  LET r == g[m]
      cleared == IdealAllocation(g, r.adr)
      ends == \/ m \in Sentinels(alloc)
              \/ r.op = "init" /\ r.adr = alloc
              \/ r.op = "copy" /\ MayModify(g, m, alloc) /\ CopyModifies(r, off, FALSE)
              \/ r.op = "store" /\ r.off = off /\ r.inst = alloc
              \/ r.op \in {"phi", "top"}
  IN IF ends THEN m
     ELSE CASE r.op = "merge" -> ScanMemChain(MemoryAt(g, m, Slice(alloc, off)), alloc, off)
            [] r.op = "clear" -> (IF cleared = 0 THEN StartNode
                                  ELSE IF InitOf(g, cleared) # {} THEN CHOOSE i \in InitOf(g, cleared) : TRUE
                                  ELSE g[cleared].mem)
            [] OTHER -> ScanMemChain(r.mem, alloc, off)
Scan(m, off) == ScanMemChain(m, sv.query.alloc, off)
AtSentinel(m) == m \in Sentinels(sv.query.alloc)

-----------------------------------------------------------------------------
\* A call returns v to the one below it.
Return(v) == sv' = [sv EXCEPT !.ret = v, !.stack = Front(@)]
\* The frame goes on with the memory above.
Continue(m) == sv' = [sv EXCEPT !.stack[Len(sv.stack)] = [Top EXCEPT !.seen = @ \cup {Top.at}, !.at = m]]
\* The next input of the value Phi is v.
Take(v) == sv' = [sv EXCEPT !.stack[Len(sv.stack)].vals = Append(@, v)]

\* make_arraycopy_load: a load of the element the copy read ("load"); from an array copied
\* within itself, a search of its own at the element's old position ("search")
Shifted(c, off) == off - c.off + c.ins[1]
CopyGives(c, off) ==
  CASE ~CopyModifies(c, off, TRUE) \/ (c.val = c.adr /\ c.ins[1] = AnyOffset) -> "nothing"
    [] CopyModifies(c, off, TRUE) /\ c.val # c.adr -> "load"
    [] OTHER -> "search"
MakeArraycopyLoad(c, off, ctl, m) ==
  LET constant == c.ins[1] # AnyOffset
  IN [c EXCEPT !.op = "load", !.ctl = ctl, !.mem = m, !.adr = c.val, !.val = 0,
               !.off = IF constant THEN Shifted(c, off) ELSE AnyOffset,
               !.ins = IF constant THEN <<>> ELSE <<off - c.off>>]

\* mutant: the Phi of another field of the object
ValuePhisOfObject(m, off) ==
  {q \in DOMAIN g : g[q].op = "phi" /\ g[q].ctl = g[m].ctl /\ g[q].adr = m /\ g[q].inst = sv.query.alloc}
\* value_from_mem_phi is called for memory Phi m: an existing value Phi of the field is
\* taken, also one that is still being built.
ValuePhis(m, off) ==
  {q \in DOMAIN g : g[q].op = "phi" /\ g[q].ctl = g[m].ctl /\ g[q].adr = m /\ g[q].inst = sv.query.alloc /\ g[q].off = off}
Owner(stack) == Max({i \in DOMAIN stack : stack[i].kind = "scan"})
\* A new one is built, unless the Phis are too deep.
PhiKnown(m, off, level) == ValuePhis(m, off) # {} \/ level <= 0
KnownPhi(m, off) == IF ValuePhis(m, off) = {} THEN Fail ELSE CHOOSE q \in ValuePhis(m, off) : TRUE
NewValuePhi(m, off, level) ==
  LET phi == [g[m] EXCEPT !.adr = m, !.inst = sv.query.alloc, !.off = off, !.ins = <<>>]
      new == Len(g) + 1
      frame == [kind |-> "phi", of |-> m, off |-> off, phi |-> new, level |-> level, vals |-> <<>>]
  IN /\ g' = Append(g, phi)
     /\ sv' = [sv EXCEPT !.stack = Append([@ EXCEPT ![Owner(@)].phis = @ \cup {new}], frame)]

-----------------------------------------------------------------------------
Running(kind) == sv.stack # <<>> /\ Top.kind = kind /\ sv.ret = NoResult /\ UNCHANGED prg
\* The only node the ways into a Phi come from
UniqueInput(m, off) ==
  LET from == {Scan(g[m].ins[i], off) : i \in DOMAIN g[m].ins} \ {m}
  IN IF Cardinality(from) = 1 THEN Min(from) ELSE 0
\* One round of the loop of value_from_mem
ValueFromMem ==
  /\ Running("scan")
  /\ LET m == Scan(Top.at, Top.off)
         r == g[m]
     IN IF Top.at \in Top.seen THEN Return(Fail) /\ UNCHANGED g
        ELSE IF AtSentinel(m) THEN Return(ZeroCon) /\ UNCHANGED g
        ELSE CASE r.op = "init" ->
                    (IF Top.off \in DOMAIN r.ins THEN Return(r.ins[Top.off]) ELSE Continue(r.mem)) /\ UNCHANGED g
               [] r.op = "store" -> Return(r.val) /\ UNCHANGED g
               [] r.op = "phi" ->
                    (IF UniqueInput(m, Top.off) # 0 THEN Continue(UniqueInput(m, Top.off)) /\ UNCHANGED g
                     ELSE IF PhiKnown(m, Top.off, ValueSearchLimit) THEN Return(KnownPhi(m, Top.off)) /\ UNCHANGED g
                     ELSE NewValuePhi(m, Top.off, ValueSearchLimit))
               [] r.op = "copy" ->
                    CASE CopyGives(r, Top.off) = "nothing" -> Return(Fail) /\ UNCHANGED g
                      [] CopyGives(r, Top.off) = "load" ->
                           /\ g' = Append(g, IF Top.trap THEN MakeArraycopyLoad(r, Top.off, Top.sfpt, Top.sfpt)
                                             ELSE MakeArraycopyLoad(r, Top.off, r.ctl, r.mem))
                           /\ Return(Len(g) + 1)
                      [] CopyGives(r, Top.off) = "search" ->
                           /\ sv' = [sv EXCEPT !.stack = Append(Front(@), ScanFrame(r.mem, Shifted(r, Top.off), Top.trap))]
                           /\ UNCHANGED g
\* The value Phi it asked for is there, or the ones built so far are killed.
PhiReturns ==
  /\ sv.stack # <<>> /\ Top.kind = "scan" /\ sv.ret # NoResult
  /\ sv' = [sv EXCEPT !.stack = Front(@)]
  /\ g' = IF sv.ret = Fail THEN [n \in DOMAIN g |-> IF n \in Top.phis THEN [g[n] EXCEPT !.op = "top"] ELSE g[n]] ELSE g
  /\ UNCHANGED prg

\* The next way into the memory Phi
PhiInput ==
  /\ Running("phi")
  /\ LET ins == g[Top.of].ins
         m == Scan(ins[Len(Top.vals) + 1], Top.off)
         r == g[m]
         Value(v) == IF v = Fail THEN Return(Fail) ELSE Take(v)
     IN /\ Len(Top.vals) < Len(ins)
        /\ IF AtSentinel(m) THEN Take(ZeroCon) /\ UNCHANGED g
           ELSE CASE r.op = "init" ->
                  (IF Top.off \in DOMAIN r.ins THEN Take(r.ins[Top.off])
                   ELSE Value(IF r.mem = sv.query.alloc THEN ZeroCon ELSE Fail)) /\ UNCHANGED g
             [] m = Top.of -> Take(Top.phi) /\ UNCHANGED g
             [] r.op = "store" -> Take(r.val) /\ UNCHANGED g
             [] r.op = "phi" /\ m # Top.of ->
                  (IF PhiKnown(m, Top.off, Top.level - 1) THEN Value(KnownPhi(m, Top.off)) /\ UNCHANGED g
                   ELSE NewValuePhi(m, Top.off, Top.level - 1))
             [] r.op = "copy" ->
                  CASE CopyGives(r, Top.off) = "nothing" -> Return(Fail) /\ UNCHANGED g
                    [] CopyGives(r, Top.off) = "load" ->
                         g' = Append(g, MakeArraycopyLoad(r, Top.off, r.ctl, r.mem)) /\ Take(Len(g) + 1)
                    [] CopyGives(r, Top.off) = "search" ->
                         /\ sv' = [sv EXCEPT !.stack = Append(@, ScanFrame(r.mem, Shifted(r, Top.off), FALSE))]
                         /\ UNCHANGED g
\* The call made for an input has returned.
PhiTakes ==
  /\ sv.stack # <<>> /\ Top.kind = "phi" /\ sv.ret # NoResult
  /\ IF sv.ret = Fail THEN Return(Fail)
     ELSE sv' = [sv EXCEPT !.ret = NoResult, !.stack[Len(sv.stack)].vals = Append(@, sv.ret)]
  /\ UNCHANGED mgVars
PhiComplete ==
  /\ Running("phi")
  /\ Len(Top.vals) = Len(g[Top.of].ins)
  /\ g' = [g EXCEPT ![Top.phi].ins = Top.vals]
  /\ Return(Top.phi)

SVNext == ValueFromMem \/ PhiReturns \/ PhiInput \/ PhiTakes \/ PhiComplete

-----------------------------------------------------------------------------
\* A value that value_from_mem returns is what the field holds in the safepoint's memory,
\* whichever way control came there and however often the loops ran, so that deoptimization
\* rebuilds the object as the program left it.
FieldValuesRight ==
  sv.stack = <<>> /\ sv.ret # Fail =>
    \A env \in prg.envs, it \in Trips :
      ValueIn(g, env, sv.ret, it) = FieldIn(prg.nodes, env, sv.query.mem, sv.query.alloc, sv.query.off, it)
=============================================================================
