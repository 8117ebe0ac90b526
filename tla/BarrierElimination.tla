-------------------------- MODULE BarrierElimination --------------------------
(***************************************************************************)
(* What becomes of the write barrier of each reference store when objects  *)
(* are put on the stack. Barriers are generated with a check that the      *)
(* object is in the heap and are registered (post_barrier of               *)
(* cardTableBarrierSetC2.cpp and g1BarrierSetC2.cpp); those of scalar      *)
(* replaced and stack objects are eliminated, those that a stack object    *)
(* may reach are unregistered                                              *)
(* (process_write_barriers_on_stack_allocated_objects, macro.cpp), and the *)
(* check is taken out of all that are still registered (expand_barriers).  *)
(*                                                                         *)
(* The ideal graph is reduced to nodes with a reference value: results of  *)
(* allocations, values from the heap, Phis (casts are Phis of one input)   *)
(* and loads; be_stores are the StoreP nodes, each with its CastP2X.       *)
(***************************************************************************)
EXTENDS Integers, FiniteSets

CONSTANT BEStarts   \* methods: [graph, stores, place], as in the variables

VARIABLES
  be_graph,    \* node -> [kind, ins]: ins are the inputs, or the base of a load
  be_stores,   \* store -> [base, val, null]: nodes, and whether NULL is stored
  place,       \* allocation result -> stack, heap or scalar
  barrier,     \* store -> none, checked, unchecked or gone
  enqueued,    \* _enqueue_barriers
  be_pc,
  be_todo,     \* stack and scalar objects still to be processed
  node_worklist, be_visited

beVars == <<be_graph, be_stores, place, barrier, enqueued, be_pc, be_todo, node_worklist, be_visited>>

\* What a node may refer to when the code runs: the results of allocations, and "h",
\* an object of the heap that came from elsewhere
Origins(graph) == {n \in DOMAIN graph : graph[n].kind = "alloc"} \cup {"h"}
Merges(graph)  == {n \in DOMAIN graph : graph[n].kind \in {"phi", "load"}}
\* What is loaded from the objects from: what a store to one of them may have stored
Loaded(st, val, from) ==
  (UNION {val[st[s].val] : s \in {t \in DOMAIN st : ~st[t].null /\ val[st[t].base] \cap from # {}}})
    \cup (from \cap {"h"})
\* What comes to node n if the nodes refer to val
Flow(graph, st, val, n) ==
  LET from == UNION {val[m] : m \in graph[n].ins}
  IN  IF graph[n].kind = "load" THEN Loaded(st, val, from) ELSE from
Valuations(graph) ==
  {[n \in DOMAIN graph |->
      CASE n \in Merges(graph) -> v[n] [] graph[n].kind = "alloc" -> {n} [] OTHER -> {"h"}] :
     v \in [Merges(graph) -> SUBSET Origins(graph)]}
Solves(graph, st, val) == \A n \in Merges(graph) : Flow(graph, st, val, n) \subseteq val[n]
\* The least solution
MayRefer(graph, st) ==
  LET vs == {v \in Valuations(graph) : Solves(graph, st, v)}
  IN  [n \in DOMAIN graph |-> {o \in Origins(graph) : \A v \in vs : o \in v[n]}]

\* A scalar replaced object is neither merged, nor stored, nor read
\* (adjust_scalar_replaceable_state, can_eliminate_allocation).
ScalarsAlone(s) ==
  \A n \in DOMAIN s.place : s.place[n] = "scalar" =>
    /\ \A m \in DOMAIN s.graph : n \notin s.graph[m].ins
    /\ \A i \in DOMAIN s.stores : s.stores[i].val # n

\* What the chain verification has made sure of: an object that may hold a stack
\* object is on the stack or scalar replaced.
ChainsVerified(s) ==
  LET val == MayRefer(s.graph, s.stores)
      On(o, where) == o # "h" /\ s.place[o] \in where
  IN  \A i \in DOMAIN s.stores :
        (~s.stores[i].null /\ \E o \in val[s.stores[i].val] : On(o, {"stack"}))
          => \A o \in val[s.stores[i].base] : On(o, {"stack", "scalar"})

IsBEStart(s) ==
  /\ "h" \notin DOMAIN s.graph
  /\ \A n \in DOMAIN s.graph : s.graph[n].kind \in {"alloc", "heap", "phi", "load"} /\ s.graph[n].ins \subseteq DOMAIN s.graph
  /\ \A i \in DOMAIN s.stores : {s.stores[i].base, s.stores[i].val} \subseteq DOMAIN s.graph
  /\ s.place \in [Origins(s.graph) \ {"h"} -> {"stack", "heap", "scalar"}]
  /\ ScalarsAlone(s) /\ ChainsVerified(s)

ASSUME BarrierAssumption == \A s \in BEStarts : IsBEStart(s)

BEInit(s) ==
  /\ be_graph = s.graph /\ be_stores = s.stores /\ place = s.place
  /\ barrier = [i \in DOMAIN s.stores |-> "none"] /\ enqueued = {}
  /\ be_pc = "parse" /\ be_todo = {n \in DOMAIN s.place : s.place[n] # "heap"}
  /\ node_worklist = {} /\ be_visited = {}

-----------------------------------------------------------------------------
\* post_barrier: none for NULL, otherwise one with a check, which is registered
PostBarrier(s) ==
  /\ be_pc = "parse" /\ barrier[s] = "none" /\ ~be_stores[s].null
  /\ barrier' = [barrier EXCEPT ![s] = "checked"]
  /\ enqueued' = enqueued \cup {s}
  /\ UNCHANGED <<be_graph, be_stores, place, be_pc, be_todo, node_worklist, be_visited>>

EndParse ==
  /\ be_pc = "parse" /\ \A s \in DOMAIN be_stores : be_stores[s].null \/ barrier[s] # "none"
  /\ be_pc' = "macro"
  /\ UNCHANGED <<be_graph, be_stores, place, barrier, enqueued, be_todo, node_worklist, be_visited>>

\* The CastP2X nodes that use the result or an address in the object
Direct(n) == {s \in DOMAIN be_stores : be_stores[s].base = n /\ barrier[s] # "none"}
\* eliminate_gc_barrier, which leaves alone what is not registered
Eliminated(n) == Direct(n) \cap enqueued

\* A scalar replaced object: its barriers go with it.
EliminateScalar(n) ==
  /\ be_pc = "macro" /\ n \in be_todo /\ place[n] = "scalar"
  /\ barrier' = [s \in DOMAIN be_stores |-> IF s \in Eliminated(n) THEN "gone" ELSE barrier[s]]
  /\ enqueued' = enqueued \ Eliminated(n)
  /\ be_todo' = be_todo \ {n}
  /\ UNCHANGED <<be_graph, be_stores, place, be_pc, node_worklist, be_visited>>

\* process_write_barriers_on_stack_allocated_objects: direct barriers first
EliminateDirect(n) ==
  /\ be_pc = "macro" /\ n \in be_todo /\ place[n] = "stack"
  /\ barrier' = [s \in DOMAIN be_stores |-> IF s \in Eliminated(n) THEN "gone" ELSE barrier[s]]
  /\ enqueued' = enqueued \ Eliminated(n)
  /\ be_todo' = be_todo \ {n} /\ be_pc' = "walk"
  /\ node_worklist' = {n} /\ be_visited' = {}
  /\ UNCHANGED <<be_graph, be_stores, place>>

\* Faulty variant: the walk does not go through loads.
NextNodesNoLoads(n) ==
  {m \in DOMAIN be_graph : be_graph[m].kind = "phi" /\ n \in be_graph[m].ins}
    \cup {be_stores[s].base : s \in {t \in DOMAIN be_stores : be_stores[t].val = n}}

\* Phis, casts and loads that use a node, and the base of a store that stores it
NextNodes(n) ==
  {m \in DOMAIN be_graph : be_graph[m].kind \in {"phi", "load"} /\ n \in be_graph[m].ins}
    \cup {be_stores[s].base : s \in {t \in DOMAIN be_stores : be_stores[t].val = n}}

\* One node of the walk: the barriers on it are unregistered.
UnregisterBarriers(n) ==
  /\ be_pc = "walk" /\ n \in node_worklist
  /\ enqueued' = IF n \in be_visited THEN enqueued
                 ELSE enqueued \ {s \in DOMAIN be_stores : be_stores[s].base = n}
  /\ node_worklist' = IF n \in be_visited THEN node_worklist \ {n}
                      ELSE (node_worklist \ {n}) \cup (NextNodes(n) \ be_visited)
  /\ be_visited' = be_visited \cup {n}
  /\ UNCHANGED <<be_graph, be_stores, place, barrier, be_pc, be_todo>>

EndWalkBarriers ==
  /\ be_pc = "walk" /\ node_worklist = {} /\ be_pc' = "macro"
  /\ UNCHANGED <<be_graph, be_stores, place, barrier, enqueued, be_todo, node_worklist, be_visited>>

\* process_barrier_node: the check becomes constant true, with either collector.
ProcessBarrierNode(s) == IF s \in enqueued THEN "unchecked" ELSE barrier[s]
ExpandBarriers ==
  /\ be_pc = "macro" /\ be_todo = {} /\ be_pc' = "expanded"
  /\ barrier' = [s \in DOMAIN be_stores |-> ProcessBarrierNode(s)]
  /\ UNCHANGED <<be_graph, be_stores, place, enqueued, be_todo, node_worklist, be_visited>>

BENext ==
  \/ \E s \in DOMAIN be_stores : PostBarrier(s)
  \/ \E n \in DOMAIN place : EliminateScalar(n) \/ EliminateDirect(n)
  \/ \E n \in node_worklist : UnregisterBarriers(n)
  \/ EndParse \/ EndWalkBarriers \/ ExpandBarriers

BESpec == (\E s \in BEStarts : BEInit(s)) /\ [][BENext]_beVars

-----------------------------------------------------------------------------
\* The barrier of a store to what may be a stack object is gone or still has its
\* check, although the object may come from a Phi, or from a field that another
\* store has filled; and the barrier of a store to what may be a heap object is
\* never eliminated.
ChecksKept ==
  be_pc = "expanded" =>
    LET refs == MayRefer(be_graph, be_stores)
        At(o) == IF o = "h" THEN "heap" ELSE place[o]
    IN  \A s \in DOMAIN be_stores : ~be_stores[s].null =>
          /\ (\E o \in refs[be_stores[s].base] : At(o) = "stack") => barrier[s] \in {"checked", "gone"}
          /\ (\E o \in refs[be_stores[s].base] : At(o) = "heap") => barrier[s] \in {"checked", "unchecked"}
=============================================================================
