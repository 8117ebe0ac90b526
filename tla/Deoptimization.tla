---------------------------- MODULE Deoptimization ----------------------------
(***************************************************************************)
(* A thread deoptimizes a compiled frame (runtime/deoptimization.cpp): the *)
(* objects that its debug information describes are allocated in the heap, *)
(* their fields are restored from the frame and from the stack objects,    *)
(* eliminated locks are taken, the frame is packed into a vframeArray and  *)
(* unpacked to interpreter frames. An allocation may fail, and then all of *)
(* these frames are popped with an OutOfMemoryError.                       *)
(*                                                                         *)
(* Before that a debugger may write to the locals of the frame "f" and of  *)
(* its caller "g". An allocation may be a point where the collector moves  *)
(* objects.                                                                *)
(***************************************************************************)
EXTENDS CompiledVFrame

CONSTANTS
  Klass,       \* the layout of each class
  Writes,      \* writes a debugger may make: frame, virtual frame, index, value
  MaxWrites, MaxDeopts

VARIABLES
  dp_pc,
  next,                  \* the object, or the virtual frame, to be done next
  heap,                  \* fields of reallocated objects
  failures,              \* realloc_failures
  pending_exception,     \* of the thread
  saved_exception,       \* the one that was pending when reallocation began
  exec_mode,
  result,                \* the oop result register: "valid" or "stale"
  biased,                \* objects with a bias pattern in their mark
  locked,                \* how often the thread has locked each object
  frames_to_pop,         \* frames_to_pop_failed_realloc
  vframe_array,          \* vframe_array_head: the packed virtual frames
  vframe_array_last,     \* kept from the previous deoptimization
  live_arrays,           \* vframeArrays with their UnrollBlocks on the C heap
  in_deopt_handler,
  writes, deopts,        \* bounds: writes made, deoptimizations done
  wrote                  \* auxiliary: last value written to each place

dpVars == <<dp_pc, next, heap, failures, pending_exception, saved_exception, exec_mode,
            result, biased, locked, frames_to_pop, vframe_array, vframe_array_last,
            live_arrays, in_deopt_handler, writes, deopts, wrote>>
deoptVars == <<diVars, cvVars, dpVars>>

NoArray == [id |-> 0, frames |-> <<>>]

\* Objects a monitor of the compiled frame really holds.
Held(s) ==
  UNION {{m.obj : m \in {s.scopes[d].monitors[i] : i \in
            {k \in DOMAIN s.scopes[d].monitors : ~s.scopes[d].monitors[k].eliminated}}} :
         d \in DOMAIN s.scopes}
HeldOops(s) == {IF n.k = "reg" THEN s.contents[n.l] ELSE n.v : n \in Held(s)}

DPInit(s, mode, pending) ==
  /\ DIInit(s) /\ CVInit
  /\ dp_pc = "compiled" /\ next = 1 /\ heap = <<>> /\ failures = FALSE
  /\ pending_exception = pending /\ saved_exception = "none"
  /\ exec_mode = mode /\ result = "valid"
  /\ biased = IF s.biased_locking THEN HeldOops(s) ELSE {}
  /\ locked = [o \in HeldOops(s) |-> 1]
  /\ frames_to_pop = 0 /\ vframe_array = NoArray /\ vframe_array_last = 0
  /\ live_arrays = {} /\ in_deopt_handler = 0
  /\ writes = 0 /\ deopts = 0 /\ wrote = <<>>

-----------------------------------------------------------------------------
\* The code is compiled and its debug information is recorded and read.
Compile ==
  /\ dp_pc = "compiled" /\ DINext
  /\ dp_pc' = IF decoded' # NotRead THEN "suspended" ELSE "compiled"
  /\ UNCHANGED <<cvVars, next, heap, failures, pending_exception, saved_exception, exec_mode,
                 result, biased, locked, frames_to_pop, vframe_array, vframe_array_last,
                 live_arrays, in_deopt_handler, writes, deopts, wrote>>

\* compiledVFrame::update_local and update_stack on a frame that is scheduled
\* for deoptimization
UpdateLocal(w) ==
  /\ dp_pc = "suspended" /\ w.vf \in DOMAIN sfn.scopes /\ writes < MaxWrites /\ writes' = writes + 1
  /\ UpdateDeferredValue(w.frame, w.vf, w.index, w.value)
  /\ wrote' = [k \in DOMAIN wrote \cup {<<w.frame, w.vf, w.index>>} |->
                 IF k = <<w.frame, w.vf, w.index>> THEN w.value ELSE wrote[k]]
  /\ UNCHANGED <<diVars, value, dp_pc, next, heap, failures, pending_exception,
                 saved_exception, exec_mode, result, biased, locked, frames_to_pop,
                 vframe_array, vframe_array_last, live_arrays, in_deopt_handler, deopts>>

\* Faulty variant: stack objects are left out of the condition.
EliminatesAllocationsOld(flags) ==
  flags.jvmci \/ (flags.DoEscapeAnalysis /\ flags.EliminateAllocations)

\* The condition under which objects are reallocated
EliminatesAllocations(flags) ==
  \/ flags.jvmci
  \/ flags.DoEscapeAnalysis /\ flags.EliminateAllocations
  \/ flags.DoEscapeAnalysis /\ flags.UseStackAllocationRuntime

SavesResult == sfn.return_oop /\ ~sfn.popframe /\ exec_mode = "deopt"

\* fetch_unroll_info up to realloc_objects, which sets a pending exception aside.
FetchUnrollInfo ==
  /\ dp_pc = "suspended"
  /\ in_deopt_handler' = in_deopt_handler + 1
  /\ next' = 1
  /\ IF EliminatesAllocations(sfn.flags) /\ decoded.pool # <<>>
       THEN /\ dp_pc' = "realloc"
            /\ saved_exception' = pending_exception /\ pending_exception' = "none"
       ELSE /\ dp_pc' = "revoke" /\ UNCHANGED <<saved_exception, pending_exception>>
  /\ UNCHANGED <<diVars, cvVars, heap, failures, exec_mode, result, biased, locked,
                 frames_to_pop, vframe_array, vframe_array_last, live_arrays, writes,
                 deopts, wrote>>

\* One object of realloc_objects; the collector may run, and the result register
\* is not in the oop map.
ReallocObject(ok, gc) ==
  LET o == decoded.pool[next] IN
  /\ dp_pc = "realloc" /\ next <= Len(decoded.pool)
  /\ value' = [id \in DOMAIN value \cup {o.id} |->
                 IF id = o.id THEN IF ok THEN New(id) ELSE Null ELSE value[id]]
  /\ failures' = (failures \/ ~ok)
  /\ biased' = IF ok /\ sfn.biased_locking THEN biased \cup {New(o.id)} ELSE biased
  /\ result' = IF gc THEN "stale" ELSE result
  /\ next' = next + 1
  /\ UNCHANGED <<diVars, deferred, dp_pc, heap, pending_exception, saved_exception, exec_mode,
                 locked, frames_to_pop, vframe_array, vframe_array_last, live_arrays,
                 in_deopt_handler, writes, deopts, wrote>>

\* The end of realloc_objects: OutOfMemoryError, or what was pending before.
EndRealloc ==
  /\ dp_pc = "realloc" /\ next > Len(decoded.pool)
  /\ pending_exception' = IF failures THEN "oom" ELSE saved_exception
  /\ dp_pc' = "reassign" /\ next' = 1
  /\ UNCHANGED <<diVars, cvVars, heap, failures, saved_exception, exec_mode, result, biased,
                 locked, frames_to_pop, vframe_array, vframe_array_last, live_arrays,
                 in_deopt_handler, writes, deopts, wrote>>

-----------------------------------------------------------------------------
\* Fields of a scalar replaced object, from its scope values. A pair of int
\* fields may be described by one long (big_value, not emitted by C2).
BigValue(types, i, vals, sv) ==
  /\ i < Len(types) /\ types[i + 1] = "int"
  /\ \/ vals[sv].k = "loc" /\ vals[sv].t = "lng"
     \/ vals[sv].k = "int" /\ sv < Len(vals) /\ vals[sv + 1].k = "long"

RECURSIVE ScalarFields(_, _, _, _)

\* Faulty variant: a long is read as one scope value.
ScalarFieldsShortLong(types, i, vals, sv) ==
  IF i > Len(types) THEN <<>>
  ELSE <<CreateStackValue(GetScopeValue(vals[sv], decoded.pool))>>
         \o ScalarFields(types, i + 1, vals, sv + 1)

\* reassign_scalar_replaced_fields_by_klass, and the elements of type arrays
ScalarFields(types, i, vals, sv) ==
  IF i > Len(types) THEN <<>>
  ELSE LET v == CreateStackValue(GetScopeValue(vals[sv], decoded.pool)) IN
       CASE types[i] = "oop" -> <<v>> \o ScalarFields(types, i + 1, vals, sv + 1)
         [] types[i] = "int" /\ ~BigValue(types, i, vals, sv) ->
              <<v>> \o ScalarFields(types, i + 1, vals, sv + 1)
         [] types[i] = "int" /\ BigValue(types, i, vals, sv) ->
              <<CreateStackValue(vals[sv + 1]), "overwritten">>
                 \o ScalarFields(types, i + 2, vals, sv + 2)
         [] types[i] = "long" ->
              <<CreateStackValue(vals[sv + 1])>> \o ScalarFields(types, i + 1, vals, sv + 2)

\* The element types of an array of the described length
TypesOf(o) ==
  LET k == Klass[o.klass]
      n == IF o.stack THEN o.length
           ELSE IF k.elem = "long" THEN Len(o.fields) \div 2 ELSE Len(o.fields)
  IN  IF k.elem = "none" THEN k.fields ELSE [i \in 1..n |-> k.elem]

\* Faulty variant: the copied fields still point into the frame.
StackFieldsRaw(o) == [i \in DOMAIN TypesOf(o) |-> sfn.memory[o.slot][i]]

\* ReassignStackObjectFields and the stack allocated arrays: fields are copied,
\* and a pointer into the frame becomes the object reallocated for that address.
StackFields(o) ==
  [i \in DOMAIN TypesOf(o) |->
     LET v == sfn.memory[o.slot][i]
         match == IF v.a = "stack" THEN MatchObjectToStackOop(v.s, decoded.pool) ELSE {}
     IN  IF match = {} THEN v
         ELSE ValueOf(decoded.pool[CHOOSE j \in match : \A k \in match : j <= k].id)]

\* One object of reassign_fields; one whose reallocation failed is skipped.
ReassignFields ==
  LET o == decoded.pool[next] IN
  /\ dp_pc = "reassign" /\ next <= Len(decoded.pool)
  /\ heap' = IF ValueOf(o.id) = Null THEN heap
             ELSE [id \in DOMAIN heap \cup {o.id} |->
                     IF id # o.id THEN heap[id]
                     ELSE IF o.stack THEN StackFields(o)
                     ELSE ScalarFields(TypesOf(o), 1, o.fields, 1)]
  /\ next' = next + 1
  /\ UNCHANGED <<diVars, cvVars, dp_pc, failures, pending_exception, saved_exception,
                 exec_mode, result, biased, locked, frames_to_pop, vframe_array,
                 vframe_array_last, live_arrays, in_deopt_handler, writes, deopts, wrote>>

\* The end of eliminate_allocations puts the saved result back.
EndReassign ==
  /\ dp_pc = "reassign" /\ next > Len(decoded.pool)
  /\ result' = IF SavesResult THEN "valid" ELSE result
  /\ dp_pc' = "revoke"
  /\ UNCHANGED <<diVars, cvVars, next, heap, failures, pending_exception, saved_exception,
                 exec_mode, biased, locked, frames_to_pop, vframe_array, vframe_array_last,
                 live_arrays, in_deopt_handler, writes, deopts, wrote>>

-----------------------------------------------------------------------------
AllMonitors == FlattenSeq([d \in DOMAIN decoded.scopes |-> Monitors("f", d)])

\* revoke_from_deopt_handler: biases of the locks that are held
RevokeBiases ==
  /\ dp_pc = "revoke"
  /\ biased' = IF ~sfn.biased_locking THEN biased
               ELSE biased \ {AllMonitors[i].owner : i \in
                      {k \in DOMAIN AllMonitors : ~AllMonitors[k].eliminated}}
  /\ dp_pc' = "relock" /\ next' = 1
  /\ UNCHANGED <<diVars, cvVars, heap, failures, pending_exception, saved_exception,
                 exec_mode, result, locked, frames_to_pop, vframe_array, vframe_array_last,
                 live_arrays, in_deopt_handler, writes, deopts, wrote>>

EliminatesLocks(flags) ==
  flags.jvmci \/ ((flags.DoEscapeAnalysis \/ flags.EliminateNestedLocks) /\ flags.EliminateLocks)

Enter(counts, o) ==
  [x \in DOMAIN counts \cup {o} |->
     (IF x \in DOMAIN counts THEN counts[x] ELSE 0) + (IF x = o THEN 1 ELSE 0)]
Exit(counts, o) == [counts EXCEPT ![o] = @ - 1]

\* Faulty variant: the bias of a new object stays in its mark.
RelockBiased(mons, i, st) ==
  IF mons[i].eliminated /\ ~mons[i].replaced
    THEN [st EXCEPT !.locked = Enter(@, mons[i].owner)] ELSE st

\* One monitor of relock_objects: not when its owner could not be reallocated
Relock(mons, i, st) ==
  IF mons[i].eliminated /\ ~mons[i].replaced
    THEN [locked |-> Enter(st.locked, mons[i].owner), biased |-> st.biased \ {mons[i].owner}]
    ELSE st

\* eliminate_locks: relock_objects for one virtual frame
RelockObjects ==
  LET mons == Monitors("f", next)
      st   == FoldLeftDomain(LAMBDA s, i : Relock(mons, i, s),
                             [locked |-> locked, biased |-> biased], mons)
  IN  /\ dp_pc = "relock" /\ next <= Len(decoded.scopes)
      /\ locked' = IF EliminatesLocks(sfn.flags) THEN st.locked ELSE locked
      /\ biased' = IF EliminatesLocks(sfn.flags) THEN st.biased ELSE biased
      /\ next' = next + 1
      /\ UNCHANGED <<diVars, cvVars, dp_pc, heap, failures, pending_exception,
                     saved_exception, exec_mode, result, frames_to_pop, vframe_array,
                     vframe_array_last, live_arrays, in_deopt_handler, writes, deopts, wrote>>

\* create_vframeArray, and pop_frames_failed_reallocs: when an allocation has
\* failed all monitors are released and none is left in the array.
CreateVFrameArray ==
  LET frame(d) == [locals |-> Locals("f", d), stack |-> Expressions("f", d),
                   monitors |-> IF failures THEN <<>> ELSE Monitors("f", d)]
      id == deopts + 1
      owned == SelectSeq(AllMonitors, LAMBDA m : ~m.replaced)
  IN  /\ dp_pc = "relock" /\ next > Len(decoded.scopes)
      /\ vframe_array' = [id |-> id, frames |-> [d \in DOMAIN decoded.scopes |-> frame(d)]]
      /\ live_arrays' = live_arrays \cup {id}
      /\ frames_to_pop' = IF failures THEN Len(decoded.scopes) ELSE frames_to_pop
      /\ locked' = IF failures
                     THEN FoldLeft(LAMBDA c, m : Exit(c, m.owner), locked, owned) ELSE locked
      /\ dp_pc' = "deferred"
      /\ UNCHANGED <<diVars, cvVars, next, heap, failures, pending_exception,
                     saved_exception, exec_mode, result, biased, vframe_array_last,
                     in_deopt_handler, writes, deopts, wrote>>

\* Faulty variant: only the first set of deferred values is freed.
FreeFirstDeferred ==
  LET m == {i \in DOMAIN deferred : deferred[i].frame = "f"} IN
  /\ dp_pc = "deferred"
  /\ deferred' = IF m = {} THEN deferred
                 ELSE RemoveAt(deferred, CHOOSE i \in m : \A j \in m : i <= j)
  /\ dp_pc' = "unroll"
  /\ UNCHANGED <<diVars, value, next, heap, failures, pending_exception, saved_exception,
                 exec_mode, result, biased, locked, frames_to_pop, vframe_array,
                 vframe_array_last, live_arrays, in_deopt_handler, writes, deopts, wrote>>

\* The deferred values of all virtual frames of this frame are in the array now.
FreeDeferred ==
  /\ dp_pc = "deferred"
  /\ deferred' = SelectSeq(deferred, LAMBDA s : s.frame # "f")
  /\ dp_pc' = "unroll"
  /\ UNCHANGED <<diVars, value, next, heap, failures, pending_exception, saved_exception,
                 exec_mode, result, biased, locked, frames_to_pop, vframe_array,
                 vframe_array_last, live_arrays, in_deopt_handler, writes, deopts, wrote>>

\* The UnrollBlock: the error of a failed reallocation is thrown in the
\* interpreter, unless it is an uncommon trap, which throws it itself.
MakeUnrollBlock ==
  /\ dp_pc = "unroll" /\ dp_pc' = "unpack"
  /\ IF frames_to_pop > 0 /\ exec_mode # "uncommon_trap"
       THEN exec_mode' = "exception" /\ pending_exception' = "none"
       ELSE UNCHANGED <<exec_mode, pending_exception>>
  /\ UNCHANGED <<diVars, cvVars, next, heap, failures, saved_exception, result, biased,
                 locked, frames_to_pop, vframe_array, vframe_array_last, live_arrays,
                 in_deopt_handler, writes, deopts, wrote>>

\* unpack_frames and cleanup_deopt_info: the array of the deoptimization before
\* is deleted, this one is kept until the next.
UnpackFrames ==
  /\ dp_pc = "unpack" /\ dp_pc' = "interpreted"
  /\ live_arrays' = live_arrays \ {vframe_array_last}
  /\ vframe_array_last' = vframe_array.id
  /\ in_deopt_handler' = in_deopt_handler - 1
  /\ deopts' = deopts + 1
  /\ UNCHANGED <<diVars, cvVars, next, heap, failures, pending_exception, saved_exception,
                 exec_mode, result, biased, locked, frames_to_pop, vframe_array, writes, wrote>>

\* The interpreter pops the frames that could not be restored (external), and
\* the thread later deoptimizes another activation of the method.
AnotherActivation ==
  /\ dp_pc = "interpreted" /\ deopts < MaxDeopts
  /\ dp_pc' = "suspended"
  /\ value' = <<>> /\ heap' = <<>> /\ failures' = FALSE /\ frames_to_pop' = 0
  /\ pending_exception' = "none" /\ result' = "valid" /\ vframe_array' = NoArray
  /\ biased' = IF sfn.biased_locking THEN HeldOops(sfn) ELSE {}
  /\ locked' = [o \in HeldOops(sfn) |-> 1]
  /\ wrote' = [k \in {p \in DOMAIN wrote : p[1] # "f"} |-> wrote[k]]
  /\ UNCHANGED <<diVars, deferred, next, saved_exception, exec_mode, vframe_array_last,
                 live_arrays, in_deopt_handler, writes, deopts>>

DPNext ==
  \/ Compile \/ \E w \in Writes : UpdateLocal(w)
  \/ FetchUnrollInfo \/ \E ok, gc \in BOOLEAN : ReallocObject(ok, gc)
  \/ EndRealloc \/ ReassignFields \/ EndReassign
  \/ RevokeBiases \/ RelockObjects \/ CreateVFrameArray \/ FreeDeferred
  \/ MakeUnrollBlock \/ UnpackFrames \/ AnotherActivation

-----------------------------------------------------------------------------
\* The values the program sees: a SafePointScalarObject and the address of a
\* stack object both mean the object that is made for it.
SobjAt(s) ==
  LET nodes == UNION {{sfn.scopes[d].scalars[i] : i \in DOMAIN sfn.scopes[d].scalars} :
                      d \in DOMAIN sfn.scopes}
  IN  (CHOOSE n \in {m \in nodes : m.k = "sobj"} : n.stack /\ n.slot = s).id
Meant(v) == IF v.a = "stack" THEN New(SobjAt(v.s)) ELSE v
Denotes(n) ==
  CASE n.k = "sobj" -> New(n.id)
    [] n.k = "reg"  -> Meant(sfn.contents[n.l])
    [] n.k = "con"  -> IF n.t = "oop" THEN n.v ELSE IF n.t = "top" THEN Null ELSE Num(n.v)

SameValues(values, nodes, frame, d, from) ==
  \A i \in DOMAIN nodes :
    LET at == IF nodes[i].t = "long" THEN i + 1 ELSE i IN
    nodes[i].t # "top" =>
      values[at] = IF <<frame, d, from + at - 1>> \in DOMAIN wrote
                     THEN wrote[<<frame, d, from + at - 1>>] ELSE Denotes(nodes[i])

\* The interpreter frames and the objects made for them are the compiled frame:
\* every local and expression has the value the program means, or the one a
\* debugger wrote last, each described object exists once with the fields it had
\* in registers or on the stack, and nothing points into the dead frame
\* (realloc_objects, reassign_fields, get_scope_value and the debug information
\* they read).
FrameRestored ==
  dp_pc \in {"unpack", "interpreted"} /\ ~failures =>
    /\ \A d \in DOMAIN sfn.scopes :
         /\ SameValues(vframe_array.frames[d].locals, sfn.scopes[d].locals, "f", d, 0)
         /\ SameValues(vframe_array.frames[d].stack, sfn.scopes[d].stack, "f", d, MaxLocals)
    /\ \A i \in DOMAIN objs :
         LET node == CHOOSE n \in {sfn.in[k] : k \in DOMAIN sfn.in} :
                       n.k = "sobj" /\ n.id = objs[i].id
         IN  heap[node.id] = IF node.stack
               THEN [j \in 1..node.n |-> Meant(sfn.memory[node.slot][j])]
               ELSE [j \in 1..node.n |-> Denotes(sfn.in[node.first + j - 1])]

\* When frames are popped because an object could not be allocated the thread
\* holds none of their locks, and the error is on its way: as the exception to
\* unpack with, or pending for the uncommon trap. Otherwise each lock of the
\* compiled frame is held as often as its monitors say, no owner keeps a bias,
\* an exception that was pending is pending again, and the oop a call returned
\* has survived the collections of reallocation.
ThreadStateRestored ==
  dp_pc \in {"unpack", "interpreted"} =>
    IF failures
      THEN /\ \A o \in DOMAIN locked : locked[o] = 0
           /\ frames_to_pop = Len(sfn.scopes)
           /\ IF exec_mode = "uncommon_trap" THEN pending_exception = "oom"
              ELSE exec_mode = "exception" /\ pending_exception = "none"
      ELSE /\ \A o \in DOMAIN locked :
                locked[o] = Cardinality({i \in DOMAIN AllMonitors : AllMonitors[i].owner = o})
           /\ \A i \in DOMAIN AllMonitors : AllMonitors[i].owner \in DOMAIN locked \ biased
           /\ frames_to_pop = 0
           /\ saved_exception # "none" => pending_exception = saved_exception
           /\ SavesResult => result = "valid"

\* Deferred values are dropped with the frame they were written for, in all its
\* virtual frames, and kept for other frames; vframeArrays do not accumulate.
DeoptInfoFreed ==
  dp_pc = "interpreted" =>
    /\ \A i \in DOMAIN deferred : deferred[i].frame # "f"
    /\ \A k \in DOMAIN wrote : k[1] = "g" =>
         \E i \in DOMAIN deferred : deferred[i].frame = "g" /\ deferred[i].vf = k[2]
                                    /\ deferred[i].values[k[3]] = wrote[k]
    /\ live_arrays = {vframe_array_last} /\ in_deopt_handler = 0
=============================================================================
