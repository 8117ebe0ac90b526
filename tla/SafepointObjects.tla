--------------------------- MODULE SafepointObjects ---------------------------
(***************************************************************************)
(* The debug information of safepoints while PhaseMacroExpand removes      *)
(* allocations (opto/macro.cpp). scalar_replacement appends the values of  *)
(* an object's fields to each safepoint that refers to it and puts a       *)
(* SafePointScalarObject in place of the reference; a field without a      *)
(* known value undoes all of it. register_stack_allocated_object_with_-    *)
(* safepoints appends a SafePointScalarObject for a stack object to every  *)
(* safepoint that can be reached from it.                                  *)
(*                                                                         *)
(* A safepoint is the sequence of its debug inputs, so positions are       *)
(* relative to debug_start() and scloff() drops out of first_index.        *)
(***************************************************************************)
EXTENDS Integers, Sequences, FiniteSets

CONSTANTS
  Allocs, Safepoints,
  nfields,   \* fields or elements of each allocation
  uses,      \* kinds of the other uses of each result
  held,      \* allocations that may be stored in fields of each allocation
  reach,     \* safepoints reached through Phis, casts, loads and stores
  Arrays     \* array allocations

ASSUME SafepointAssumption ==
  /\ Allocs # {} /\ nfields \in [Allocs -> Nat] /\ held \in [Allocs -> SUBSET Allocs]
  /\ reach \in [Allocs -> SUBSET Safepoints] /\ Arrays \subseteq Allocs

Val     == [kind |-> "value"]
Res(a)  == [kind |-> "result", alloc |-> a]
\* SafePointScalarObjectNode: first_index, n_fields, is_stack_allocated
Sobj(a, first, stack) ==
  [kind |-> "object", alloc |-> a, first |-> first, n |-> nfields[a], stack |-> stack]

VARIABLES
  input,      \* debug inputs of each safepoint
  endoff,     \* jvms->endoff()
  fate,       \* what became of each allocation
  sp_pc,
  alloc,      \* the allocation being worked on
  sfpt, j,    \* the safepoint and the field being worked on
  safepoints, \* still to be done
  safepoints_done,
  temp,       \* <<safepoint, direct>>: uses found by the walk from the result
  safepoint_map,
  length_on_entry,  \* arrays whose length is stored at method entry
  saved       \* auxiliary: input and endoff when the replacement began

spVars == <<input, endoff, fate, sp_pc, alloc, sfpt, j, safepoints, safepoints_done,
          temp, safepoint_map, length_on_entry, saved>>

Position(s) == 1..Len(input[s])
UsesOf(a)   == {s \in Safepoints : \E i \in Position(s) : input[s][i] = Res(a)}

SPInit(debug) ==
  /\ input = debug
  /\ endoff = [s \in Safepoints |-> Len(input[s])]
  /\ fate = [a \in Allocs |-> "macro"]
  /\ sp_pc = "eliminate" /\ j = 0
  /\ alloc = (CHOOSE a \in Allocs : TRUE) /\ sfpt = (CHOOSE s \in Safepoints : TRUE)
  /\ safepoints = {} /\ safepoints_done = {} /\ temp = {} /\ safepoint_map = {}
  /\ length_on_entry = {}
  /\ saved = <<input, endoff>>

-----------------------------------------------------------------------------
\* can_eliminate_allocation: every use is a store to a known field, a copy to
\* it, a card mark or debug information; the length of an array is known. A
\* store of the object itself is a use of another kind.
CanEliminate(a) ==
  /\ uses[a] \subseteq {"field store", "copied to", "card mark"}
  /\ \A b \in Allocs : a \in held[b] => fate[b] = "scalar"

ScalarReplacement(a) ==
  /\ sp_pc = "eliminate" /\ fate[a] \in {"macro", "kept"} /\ CanEliminate(a)
  /\ alloc' = a /\ sp_pc' = "safepoints"
  /\ safepoints' = UsesOf(a) /\ safepoints_done' = {}
  /\ saved' = <<input, endoff>>
  /\ UNCHANGED <<input, endoff, fate, sfpt, j, temp, safepoint_map, length_on_entry>>

PopSafepoint(s) ==
  /\ sp_pc = "safepoints" /\ s \in safepoints
  /\ sfpt' = s /\ j' = 0 /\ sp_pc' = "fields"
  /\ safepoints' = safepoints \ {s}
  /\ UNCHANGED <<input, endoff, fate, alloc, safepoints_done, temp,
                 safepoint_map, length_on_entry, saved>>

\* value_from_mem finds the value of the next field at this safepoint.
AddField(v) ==
  /\ sp_pc = "fields" /\ j < nfields[alloc]
  /\ input' = [input EXCEPT ![sfpt] = Append(@, v)]
  /\ j' = j + 1
  /\ UNCHANGED <<endoff, fate, sp_pc, alloc, sfpt, safepoints, safepoints_done,
                 temp, safepoint_map, length_on_entry, saved>>

\* replace_edges_in_range over the debug inputs up to endoff.
Replaced(ins, a, o) == [i \in DOMAIN ins |-> IF ins[i] = Res(a) THEN o ELSE ins[i]]

\* Faulty variant: the debug information still ends before the fields.
EndFieldsShort ==
  LET o == Sobj(alloc, Len(input[sfpt]) - j + 1, FALSE) IN
  /\ sp_pc = "fields" /\ j = nfields[alloc]
  /\ input' = [input EXCEPT ![sfpt] = Replaced(@, alloc, o)]
  /\ safepoints_done' = safepoints_done \cup {sfpt}
  /\ sp_pc' = "safepoints"
  /\ UNCHANGED <<endoff, fate, alloc, sfpt, j, safepoints, temp, safepoint_map,
                 length_on_entry, saved>>

\* adjust_safepoint_jvms after the last field.
EndFields ==
  LET o == Sobj(alloc, Len(input[sfpt]) - j + 1, FALSE) IN
  /\ sp_pc = "fields" /\ j = nfields[alloc]
  /\ endoff' = [endoff EXCEPT ![sfpt] = Len(input[sfpt])]
  /\ input' = [input EXCEPT ![sfpt] = Replaced(@, alloc, o)]
  /\ safepoints_done' = safepoints_done \cup {sfpt}
  /\ sp_pc' = "safepoints"
  /\ UNCHANGED <<fate, alloc, sfpt, j, safepoints, temp, safepoint_map,
                 length_on_entry, saved>>

Shorter(s, n) == SubSeq(input[s], 1, Len(input[s]) - n)

\* Faulty variant: objects are recognised by their first field only.
RestoredByFirst(s) ==
  LET ins == Shorter(s, nfields[alloc]) IN
  [i \in DOMAIN ins |->
     IF ins[i].kind = "object" /\ ins[i].first = Len(ins) + 1
       THEN Res(alloc) ELSE ins[i]]

\* A finished safepoint without the fields, and with the reference in the place
\* of the object whose fields started at its end.
Restored(s) ==
  LET ins == Shorter(s, nfields[alloc]) IN
  [i \in DOMAIN ins |->
     IF ins[i].kind = "object" /\ ins[i].first = Len(ins) + 1
                               /\ ins[i].n = nfields[alloc]
       THEN Res(alloc) ELSE ins[i]]

\* value_from_mem returns NULL: what was added is removed everywhere.
NoFieldValue ==
  /\ sp_pc = "fields" /\ j < nfields[alloc]
  /\ input' = [s \in Safepoints |-> IF s = sfpt THEN Shorter(s, j)
                                    ELSE IF s \in safepoints_done THEN Restored(s)
                                    ELSE input[s]]
  /\ endoff' = [s \in Safepoints |-> IF s \in safepoints_done
                  THEN Len(input[s]) - nfields[alloc] ELSE endoff[s]]
  /\ sp_pc' = "eliminate" /\ fate' = [fate EXCEPT ![alloc] = "kept"]
  /\ UNCHANGED <<alloc, sfpt, j, safepoints, safepoints_done, temp,
                 safepoint_map, length_on_entry, saved>>

\* process_users_of_allocation: the stores to the object go, and with them the
\* uses of what was stored.
ProcessUsers ==
  /\ sp_pc = "safepoints" /\ safepoints = {}
  /\ fate' = [fate EXCEPT ![alloc] = "scalar"]
  /\ sp_pc' = "eliminate"
  /\ UNCHANGED <<input, endoff, alloc, sfpt, j, safepoints, safepoints_done,
                 temp, safepoint_map, length_on_entry, saved>>

\* The second half of expand_macro_nodes: nothing more is eliminated.
EndEliminate ==
  /\ sp_pc = "eliminate" /\ sp_pc' = "expand"
  /\ UNCHANGED <<input, endoff, fate, alloc, sfpt, j, safepoints,
                 safepoints_done, temp, safepoint_map, length_on_entry, saved>>

-----------------------------------------------------------------------------
\* The walk of register_stack_allocated_object_with_safepoints starts at the
\* result; a safepoint is found once for each of its inputs.
StackAllocation(a) ==
  /\ sp_pc = "expand" /\ fate[a] \in {"macro", "kept"}
  /\ alloc' = a /\ sp_pc' = "direct" /\ safepoint_map' = {}
  /\ temp' = UNION {{<<s, i>> : i \in {k \in Position(s) : input[s][k] = Res(a)}} :
                      s \in Safepoints}
  /\ UNCHANGED <<input, endoff, fate, sfpt, j, safepoints, safepoints_done,
                 length_on_entry, saved>>

\* Faulty variant: an object node for each use.
HandleSafepointAnew(u) ==
  LET s == u[1]
      o == Sobj(alloc, Len(input[s]) + 1, TRUE)
      ins == Append(input[s], o)
  IN  /\ sp_pc \in {"direct", "indirect"} /\ u \in temp
      /\ input' = [input EXCEPT ![s] = IF sp_pc = "direct" THEN Replaced(ins, alloc, o) ELSE ins]
      /\ endoff' = [endoff EXCEPT ![s] = Len(ins)]
      /\ safepoint_map' = safepoint_map \cup {<<s, o>>}
      /\ temp' = temp \ {u}
      /\ UNCHANGED <<fate, sp_pc, alloc, sfpt, j, safepoints, safepoints_done,
                     length_on_entry, saved>>

\* handle_safepoint_for_stack_allocation: an object node is added to the
\* safepoint the first time, and takes the place of direct references.
HandleSafepoint(u) ==
  LET s == u[1]
      known == {m \in safepoint_map : m[1] = s}
      o == IF known # {} THEN (CHOOSE m \in known : TRUE)[2]
           ELSE Sobj(alloc, Len(input[s]) + 1, TRUE)
      ins == IF known # {} THEN input[s] ELSE Append(input[s], o)
  IN  /\ sp_pc \in {"direct", "indirect"} /\ u \in temp
      /\ input' = [input EXCEPT ![s] = IF sp_pc = "direct" THEN Replaced(ins, alloc, o) ELSE ins]
      /\ endoff' = [endoff EXCEPT ![s] = Len(ins)]
      /\ safepoint_map' = safepoint_map \cup {<<s, o>>}
      /\ temp' = temp \ {u}
      /\ UNCHANGED <<fate, sp_pc, alloc, sfpt, j, safepoints, safepoints_done,
                     length_on_entry, saved>>

\* Faulty variant: only uses of the result itself are looked at.
WalkResultOnly ==
  /\ sp_pc = "direct" /\ temp = {}
  /\ sp_pc' = "indirect"
  /\ UNCHANGED <<input, endoff, fate, alloc, sfpt, j, safepoints, temp,
                 safepoints_done, safepoint_map, length_on_entry, saved>>

\* The uses of the result are done; the walk goes on to the other nodes.
WalkOn ==
  /\ sp_pc = "direct" /\ temp = {}
  /\ sp_pc' = "indirect" /\ temp' = {<<s, 0>> : s \in reach[alloc]}
  /\ UNCHANGED <<input, endoff, fate, alloc, sfpt, j, safepoints,
                 safepoints_done, safepoint_map, length_on_entry, saved>>

\* The walk is over; arrays that safepoints see through other nodes get their
\* length at method entry (stack_allocation_init_array_length_on_entry).
EndStackAllocation ==
  /\ sp_pc = "indirect" /\ temp = {}
  /\ fate' = [fate EXCEPT ![alloc] = "stack"]
  /\ sp_pc' = "expand"
  /\ length_on_entry' = length_on_entry \cup
       IF reach[alloc] # {} THEN {alloc} \cap Arrays ELSE {}
  /\ UNCHANGED <<input, endoff, alloc, sfpt, j, safepoints, safepoints_done,
                 temp, safepoint_map, saved>>

SPNext ==
  \/ \E a \in Allocs : ScalarReplacement(a) \/ StackAllocation(a)
  \/ \E s \in Safepoints : PopSafepoint(s)
  \/ \E v \in {Val} \cup {Res(b) : b \in held[alloc]} : AddField(v)
  \/ EndFields \/ NoFieldValue \/ ProcessUsers \/ EndEliminate
  \/ \E u \in temp : HandleSafepoint(u)
  \/ WalkOn \/ EndStackAllocation

\* The debug inputs of the parsed method: results of allocations and other values
DebugInputs == [Safepoints -> Seq({Val} \cup {Res(a) : a \in Allocs})]
SPSpec == (\E debug \in DebugInputs : SPInit(debug)) /\ [][SPNext]_spVars

-----------------------------------------------------------------------------
AtRest == sp_pc \in {"eliminate", "expand"}
ObjectsAt(s) == {o \in {input[s][i] : i \in Position(s)} : o.kind = "object"}
FieldsAt(o)  == IF o.stack THEN {o.first} ELSE o.first..(o.first + o.n - 1)

\* An allocation that could not be scalar replaced leaves no trace: all inputs
\* of all safepoints, and the ends of their debug information, are as before,
\* wherever the replacement stopped (the rollback in scalar_replacement).
RollbackExact ==
  AtRest /\ fate[alloc] = "kept" => saved = <<input, endoff>>

\* Between two allocations the debug information can be read: it ends where the
\* inputs end, the fields of each object lie within, and no two objects share
\* them (first_index is recorded when the object is made, and more objects are
\* appended or removed later).
FieldsDisjoint ==
  AtRest => \A s \in Safepoints :
    /\ endoff[s] = Len(input[s])
    /\ \A o \in ObjectsAt(s) : FieldsAt(o) \subseteq Position(s)
    /\ \A o, p \in ObjectsAt(s) : o # p => FieldsAt(o) \cap FieldsAt(p) = {}
    /\ \A o \in ObjectsAt(s) : o.stack => input[s][o.first] = o

\* A scalar replaced object is gone from every safepoint ("all uses of allocated
\* objects must be deleted"), and what stands for it is one object per safepoint.
ReplacedEverywhere ==
  AtRest => \A a \in Allocs :
    /\ fate[a] \in {"scalar", "stack"} => UsesOf(a) = {}
    /\ \A s \in Safepoints :
         Cardinality({o \in ObjectsAt(s) : o.alloc = a}) <= 1

\* Every safepoint that can be reached from a stack object describes it, also
\* where the object is not a debug value but in a field of one or behind a Phi.
StackObjectsDescribed ==
  AtRest => \A a \in Allocs : fate[a] = "stack" =>
    /\ \A s \in reach[a] : \E o \in ObjectsAt(s) : o.alloc = a /\ o.stack
    /\ a \in Arrays /\ reach[a] # {} => a \in length_on_entry
=============================================================================
