--------------------------- MODULE CompiledVFrame ---------------------------
(***************************************************************************)
(* The virtual frames of a compiled frame (runtime/vframe_hp.cpp): their   *)
(* locals, expressions and monitors as the debug information describes     *)
(* them, with oops into the frame itself replaced by the stack object they *)
(* refer to, and the values that a debugger has written to a frame that is *)
(* going to be deoptimized.                                                *)
(***************************************************************************)
EXTENDS DebugInfo, FiniteSets

CONSTANT MaxLocals, MaxStack   \* of every method: slots of deferred values

Null     == [a |-> "null"]
Num(n)   == [a |-> "num", n |-> n]
Heap(h)  == [a |-> "heap", h |-> h]
Stack(s) == [a |-> "stack", s |-> s]   \* the address of a slot of the frame
New(id)  == [a |-> "new", id |-> id]   \* the object reallocated for id

VARIABLES
  value,      \* ObjectValue::value(), by id: absent until it is reallocated
  deferred    \* thread()->deferred_locals()

cvVars == <<value, deferred>>

CVInit == value = <<>> /\ deferred = <<>>

-----------------------------------------------------------------------------
ValueOf(id) == IF id \in DOMAIN value THEN value[id] ELSE Null

\* StackValue::create_stack_value
CreateStackValue(sv) ==
  CASE sv.k = "loc"    -> sfn.contents[sv.l]
    [] sv.k = "object" -> ValueOf(sv.id)
    [] sv.k \in {"int", "long"} -> Num(sv.v)
    [] sv.k = "oop"    -> sv.v
    [] sv.k = "illegal" -> Null

\* match_object_to_stack_oop: the stack object at an address of the frame
MatchObjectToStackOop(s, pool) ==
  {i \in DOMAIN pool : pool[i].stack /\ pool[i].slot = s}

\* Faulty variant: the address is taken as it is.
GetScopeValueRaw(sv, pool) == sv

\* get_scope_value: an oop that points into the frame stands for a stack object.
GetScopeValue(sv, pool) ==
  LET v == IF sv.k = "loc" /\ sv.t = "oop" THEN sfn.contents[sv.l] ELSE Null
      match == IF v.a = "stack" THEN MatchObjectToStackOop(v.s, pool) ELSE {}
  IN  IF match = {} THEN sv
      ELSE ObjectRef(pool[CHOOSE i \in match : \A j \in match : i <= j].id)

\* The first set of deferred values for a virtual frame
DeferredFor(frame, vf) ==
  LET m == {i \in DOMAIN deferred : deferred[i].frame = frame /\ deferred[i].vf = vf}
  IN  IF m = {} THEN <<>> ELSE deferred[CHOOSE i \in m : \A j \in m : i <= j].values

\* update_locals, update_stack: values whose index lies in the given range
Updated(values, writes, from, size) ==
  [i \in DOMAIN values |->
     IF from + i - 1 \in DOMAIN writes /\ i <= size THEN writes[from + i - 1] ELSE values[i]]

Locals(frame, vf) ==
  LET raw == decoded.scopes[vf].locals
  IN  Updated([i \in DOMAIN raw |-> CreateStackValue(GetScopeValue(raw[i], decoded.pool))],
              DeferredFor(frame, vf), 0, MaxLocals)
Expressions(frame, vf) ==
  LET raw == decoded.scopes[vf].stack
  IN  Updated([i \in DOMAIN raw |-> CreateStackValue(GetScopeValue(raw[i], decoded.pool))],
              DeferredFor(frame, vf), MaxLocals, MaxStack)

\* monitors: the owner of a monitor may be an object that was not reallocated.
Monitors(frame, vf) ==
  LET raw == decoded.scopes[vf].monitors
      writes == DeferredFor(frame, vf)
      owner(m) == CreateStackValue(m.owner)
  IN  [i \in DOMAIN raw |->
         [owner |-> IF MaxLocals + MaxStack + i - 1 \in DOMAIN writes
                      THEN writes[MaxLocals + MaxStack + i - 1] ELSE owner(raw[i]),
          eliminated |-> raw[i].eliminated,
          replaced |-> raw[i].owner.k = "object" /\ owner(raw[i]) = Null]]

-----------------------------------------------------------------------------
\* update_deferred_value, for update_local and update_stack: the frame's set is
\* found or made, and the value for the index replaces an earlier one.
UpdateDeferredValue(frame, vf, index, v) ==
  LET m == {i \in DOMAIN deferred : deferred[i].frame = frame /\ deferred[i].vf = vf}
      write(f) == [k \in DOMAIN f \cup {index} |-> IF k = index THEN v ELSE f[k]]
  IN  deferred' = IF m # {}
        THEN [deferred EXCEPT ![CHOOSE i \in m : \A j \in m : i <= j].values = write(@)]
        ELSE Append(deferred, [frame |-> frame, vf |-> vf, values |-> write(<<>>)])
=============================================================================
