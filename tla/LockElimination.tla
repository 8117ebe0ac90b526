--------------------------- MODULE LockElimination ---------------------------
(***************************************************************************)
(* C2 takes Lock and Unlock nodes out of a method: pairs that release and  *)
(* at once reacquire (coarsening, LockNode::Ideal), locks of an object     *)
(* that does not escape, locks inside another lock of the same object      *)
(* (nested).  Ideal and escape analysis set a node's kind, macro expansion *)
(* marks what belongs together, eliminates those nodes and expands the     *)
(* others.  The method is then run.                                        *)
(*                                                                         *)
(* A node's ctl is its control input, a region's are ins.  Projections are *)
(* folded into their nodes.                                                *)
(***************************************************************************)
EXTENDS Integers, Sequences, FiniteSets, SequencesExt, FiniteSetsExt

VARIABLES lk,     \* nodes and boxes, the phase, the walk through the method
          lp      \* the method: its nodes, boxes and objects, the flags

Alocks == {n \in DOMAIN lp.nodes : lp.nodes[n].op \in {"lock", "unlock"}}
IsLock(n) == lp.nodes[n].op = "lock"
EqvUncast(a, b) == lp.uncast[a] = lp.uncast[b]
NotGlobalEscape(o) == o \in lp.noEscape
\* The boxes of two locks are in one slot of the frame.
SameSlot(a, b) == lk.boxes[lk.nodes[a].box].slot = lk.boxes[lk.nodes[b].box].slot
IsEliminated(n) == lk.nodes[n].kind # "Regular"
\* mutant: any object in the same slot
MatchesSlot(a, lock) == SameSlot(a, lock) /\ ~IsEliminated(a)
\* The same object in the same slot, and not eliminated yet
Matches(a, lock) ==
  EqvUncast(lk.nodes[lock].obj, lk.nodes[a].obj) /\ SameSlot(a, lock) /\ ~IsEliminated(a)

LKInit(p) ==
  /\ lp = p
  /\ lk = [phase |-> "igvn", ea |-> FALSE, nodes |-> p.nodes, boxes |-> p.boxes, todo |-> {}, at |-> 1, held |-> {},
           want |-> {}, corrupt |-> FALSE]
lkVars == <<lk, lp>>

\* next_control: eliminated locking nodes are skipped.
RECURSIVE NextControl(_)
NextControl(c) == IF c \in Alocks /\ IsEliminated(c) THEN NextControl(lk.nodes[c].ctl) ELSE c
\* The locking nodes found, none if the search fails
FindMatchingUnlock(c, lock) == IF c \in Alocks /\ ~IsLock(c) /\ Matches(c, lock) THEN {c} ELSE {}
CtlUsers(c) == {n \in DOMAIN lp.nodes : lp.nodes[n].ctl = c \/ c \in Range(lp.nodes[n].ins)}
OtherProj(c) == {q \in CtlUsers(lp.nodes[c].ctl) : q # c}
\* An unlock before an If, with a lock on its other side
FindLockAndUnlockThroughIf(c, lock) ==
  IF lp.nodes[c].op # "proj" THEN {}
  ELSE LET unlock == FindMatchingUnlock(NextControl(lp.nodes[lp.nodes[c].ctl].ctl), lock)
           lock1 == {l \in UNION {CtlUsers(q) : q \in OtherProj(c)} : l \in Alocks /\ IsLock(l) /\ Matches(l, lock)}
       IN IF unlock = {} \/ lock1 = {} THEN {} ELSE unlock \cup lock1
\* Unlocks on every way into a region
FindUnlocksForRegion(r, lock) ==
  LET Ops(i) == LET c == NextControl(lp.nodes[r].ins[i])
                    unlock == FindMatchingUnlock(c, lock)
                IN IF unlock # {} THEN unlock ELSE FindLockAndUnlockThroughIf(c, lock)
      ways == DOMAIN lp.nodes[r].ins
  IN IF \A i \in ways : Ops(i) # {} THEN UNION {Ops(i) : i \in ways} ELSE {}
LockOps(n) ==
  LET c == NextControl(lk.nodes[n].ctl)
      direct == FindMatchingUnlock(c, n)
  IN CASE direct # {} -> direct
       [] direct = {} /\ lp.nodes[c].op = "region" -> FindUnlocksForRegion(c, n)
       [] OTHER -> FindLockAndUnlockThroughIf(c, n)
WithKind(nodes, S, kind) == [n \in DOMAIN nodes |-> IF n \in S THEN [nodes[n] EXCEPT !.kind = kind] ELSE nodes[n]]

-----------------------------------------------------------------------------
\* LockNode::Ideal
LockIdeal(n) ==
  /\ lk.phase = "igvn" /\ n \in Alocks /\ IsLock(n) /\ lk.nodes[n].kind # "NonEscObj"
  /\ \/ lk.ea /\ NotGlobalEscape(lk.nodes[n].obj) /\ lk' = [lk EXCEPT !.nodes[n].kind = "NonEscObj"]
     \/ /\ ~(lk.ea /\ NotGlobalEscape(lk.nodes[n].obj)) /\ ~IsEliminated(n) /\ LockOps(n) # {}
        /\ lk' = [lk EXCEPT !.nodes = WithKind(@, LockOps(n) \cup {n}, "Coarsened")]
  /\ UNCHANGED lp
\* UnlockNode::Ideal
UnlockIdeal(n) ==
  /\ lk.phase = "igvn" /\ n \in Alocks /\ ~IsLock(n) /\ lk.nodes[n].kind # "NonEscObj"
  /\ lk.ea /\ NotGlobalEscape(lk.nodes[n].obj)
  /\ lk' = [lk EXCEPT !.nodes[n].kind = "NonEscObj"]
  /\ UNCHANGED lp
\* Escape analysis marks the locks it knows of (late ones come of later graph changes).
OptimizeIdealGraph ==
  /\ lk.phase = "igvn" /\ ~lk.ea
  /\ LET known == {n \in Alocks \ lp.late : NotGlobalEscape(lk.nodes[n].obj)}
     IN lk' = [lk EXCEPT !.ea = TRUE, !.nodes = WithKind(@, known, "NonEscObj")]
  /\ UNCHANGED lp

-----------------------------------------------------------------------------
\* external: BoxLockNode::is_simple_lock_region
WithBox(st, b) == {n \in Alocks : st.nodes[n].box = b}
IsSimpleLockRegion(st, b, obj) == \A n \in WithBox(st, b) : EqvUncast(st.nodes[n].obj, obj)
UniqueLock(st, b) == LET locks == {n \in WithBox(st, b) : IsLock(n)} IN IF Cardinality(locks) = 1 THEN locks ELSE {}

\* is_nested_lock_region: the only lock of its region, with an outer monitor of the object
IsNestedLockRegion(n) ==
  LET r == lk.nodes[n] IN
  /\ lk.boxes[r.box].slot > 0
  /\ IsSimpleLockRegion(lk, r.box, r.obj) /\ UniqueLock(lk, r.box) = {n}
  /\ \E m \in Range(r.mons) : lk.boxes[m.box].slot < lk.boxes[r.box].slot /\ EqvUncast(m.obj, r.obj)

\* mark_eliminated_box
MarkEliminatedBox(st, b, obj) ==
  LET new == Len(st.boxes) + 1
      eliminated == [st EXCEPT !.boxes[b].eliminated = TRUE, !.nodes = WithKind(@, WithBox(st, b), "NonEscObj")]
      Moved(n) == IF n \in WithBox(st, b) /\ EqvUncast(st.nodes[n].obj, obj)
                  THEN [st.nodes[n] EXCEPT !.box = new, !.kind = "NonEscObj"] ELSE st.nodes[n]
      Renamed(r) == [r EXCEPT !.mons = [i \in DOMAIN @ |-> IF @[i].box = b /\ EqvUncast(@[i].obj, obj)
                                                          THEN [@[i] EXCEPT !.box = new] ELSE @[i]]]
  IN IF st.boxes[b].eliminated THEN st
     ELSE IF lp.nested \/ IsSimpleLockRegion(st, b, obj) THEN eliminated
     ELSE [st EXCEPT !.boxes = Append(@, [st.boxes[b] EXCEPT !.eliminated = TRUE]),
                     !.nodes = [n \in DOMAIN @ |-> Renamed(Moved(n))]]
\* The locking nodes that use the object, each with its box
UsersOf(obj) ==
  {n \in Alocks : EqvUncast(lk.nodes[n].obj, obj) /\
                  (lk.nodes[n].obj = obj \/ \E m \in Range(lk.nodes[n].mons) : m.obj = obj)}
\* mark_eliminated_locking_nodes, for every locking node
MarkEliminatedLockingNodes(n) ==
  /\ lk.phase = "mark" /\ n \in lk.todo
  /\ LET r == lk.nodes[n]
         boxes == SetToSeq({lk.nodes[u].box : u \in UsersOf(r.obj)})
         Mark(b, st) == MarkEliminatedBox(st, b, r.obj)
         marked == CASE r.kind = "NonEscObj" -> FoldRight(Mark, boxes, lk)
                     [] lp.nested /\ r.kind \in {"Regular", "Coarsened"} /\ IsLock(n) /\ IsNestedLockRegion(n) ->
                          [lk EXCEPT !.boxes[r.box].eliminated = TRUE, !.nodes = WithKind(@, WithBox(lk, r.box), "Nested")]
                     [] OTHER -> lk
     IN lk' = [marked EXCEPT !.todo = @ \ {n}]
  /\ UNCHANGED lp
EliminateMacroNodes ==
  /\ lk.phase = "igvn"
  /\ lk' = [lk EXCEPT !.phase = "mark", !.todo = Alocks]
  /\ UNCHANGED lp
EndMark ==
  /\ lk.phase = "mark" /\ lk.todo = {}
  /\ lk' = [lk EXCEPT !.phase = "expand", !.todo = Alocks]
  /\ UNCHANGED lp

\* eliminate_locking_node: the node goes, and the barrier that belongs to it.
EliminateLockingNode(n) ==
  /\ lk.phase = "expand" /\ n \in lk.todo /\ n = Max(lk.todo)
  /\ IsEliminated(n)
  /\ LET bar == IF IsLock(n) THEN CtlUsers(n) ELSE {b \in {lk.nodes[n].ctl} : lk.nodes[b].op = "bar"}
     IN lk' = [lk EXCEPT !.todo = @ \ {n},
                         !.nodes = [m \in DOMAIN @ |-> IF m \in bar \cup {n} THEN [@[m] EXCEPT !.op = "gone"] ELSE @[m]]]
  /\ UNCHANGED lp
\* expand_lock_node, expand_unlock_node
ExpandLockingNode(n) ==
  /\ lk.phase = "expand" /\ n \in lk.todo /\ n = Max(lk.todo)
  /\ ~IsEliminated(n)
  /\ lk' = [lk EXCEPT !.todo = @ \ {n}, !.nodes[n].op = IF IsLock(n) THEN "fastlock" ELSE "fastunlock"]
  /\ UNCHANGED lp
StartRun ==
  /\ lk.phase = "expand" /\ lk.todo = {}
  /\ lk' = [lk EXCEPT !.phase = "run"]
  /\ UNCHANGED lp

-----------------------------------------------------------------------------
\* One run of the method.  held is what is locked, want what the program says is: pairs of
\* object and slot.
Monitor(o, b) == <<lp.value[o], lk.boxes[b].slot>>
RunStep(next) ==
  /\ lk.phase = "run" /\ next \in CtlUsers(lk.at)
  /\ LET r == lk.nodes[lk.at]
         m == IF lk.at \in Alocks THEN Monitor(r.obj, r.box) ELSE <<0, 0>>
         slotTaken == \E h \in lk.held : h[2] = m[2]
     IN lk' = [lk EXCEPT !.at = next,
                         !.want = CASE lk.at \notin Alocks -> @ [] IsLock(lk.at) -> @ \cup {m} [] OTHER -> @ \ {m},
                         !.held = CASE r.op = "fastlock" -> @ \cup {m} [] r.op = "fastunlock" -> @ \ {m} [] OTHER -> @,
                         !.corrupt = @ \/ (r.op = "fastlock" /\ slotTaken) \/ (r.op = "fastunlock" /\ m \notin lk.held)]
  /\ UNCHANGED lp

LKNext ==
  \/ \E n \in Alocks : LockIdeal(n) \/ UnlockIdeal(n) \/ MarkEliminatedLockingNodes(n) \/ EliminateLockingNode(n) \/ ExpandLockingNode(n)
  \/ OptimizeIdealGraph \/ EliminateMacroNodes \/ EndMark \/ StartRun
  \/ \E next \in DOMAIN lp.nodes : RunStep(next)

-----------------------------------------------------------------------------
\* What is left of the locking does its work on every path: no slot is locked twice and no
\* object unlocked that is not locked; an object another thread can see is locked wherever
\* the program says so; nothing is locked at the end; and at a safepoint the boxes marked
\* eliminated are exactly the monitors deoptimization has to lock again (LockNode::Ideal,
\* mark_eliminated_locking_nodes, eliminate_locking_node).
LocksBalanced ==
  /\ ~lk.corrupt
  /\ lk.phase = "run" =>
       /\ \A w \in lk.want : w[1] \in lp.shared => \E h \in lk.held : h[1] = w[1]
       /\ lp.nodes[lk.at].op = "return" => lk.held = {}
       /\ lp.nodes[lk.at].op = "call" =>
            \A m \in Range(lk.nodes[lk.at].mons) : lk.boxes[m.box].eliminated <=> Monitor(m.obj, m.box) \notin lk.held
=============================================================================
