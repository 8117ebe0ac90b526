-------------------------- MODULE WriteBarriers_proofs --------------------------
(***************************************************************************)
(* Proofs about the write barriers.                                        *)
(*                                                                         *)
(* The first part is about BarrierElimination: taking the check out of the *)
(* registered barriers is safe, for any graph, any stores and any          *)
(* placement of the objects that passed the chain verification, since the  *)
(* nodes reached by the walks of                                           *)
(* process_write_barriers_on_stack_allocated_objects include every node    *)
(* that may refer to a stack object.                                       *)
(*                                                                         *)
(* The second part is about G1Barriers: the post barrier keeps the         *)
(* remembered sets complete and the pre barrier lets marking miss nothing, *)
(* for any number of threads, any heap and stack objects and any           *)
(* interleaving with the refinement thread and the marker.                 *)
(***************************************************************************)
EXTENDS BarrierElimination, G1Barriers, WellFoundedInduction, TLAPS

\* The method under compilation does not change.
FixedInv ==
  \E s \in BEStarts : be_graph = s.graph /\ be_stores = s.stores /\ place = s.place

BETypeInv ==
  /\ be_pc \in {"parse", "macro", "walk", "expanded"}
  /\ barrier \in [DOMAIN be_stores -> {"none", "checked", "unchecked", "gone"}]
  /\ enqueued \subseteq DOMAIN be_stores
  /\ be_todo \subseteq DOMAIN place
  /\ node_worklist \subseteq DOMAIN be_graph
  /\ be_visited \subseteq DOMAIN be_graph

\* Only registered barriers lose their check, and only those of an object that is
\* not in the heap are eliminated.
BarrierInv ==
  /\ be_pc # "expanded" => \A s \in DOMAIN be_stores : barrier[s] # "unchecked"
  /\ \A s \in DOMAIN be_stores : barrier[s] = "unchecked" => s \in enqueued
  /\ be_pc # "parse" => \A s \in DOMAIN be_stores : be_stores[s].null \/ barrier[s] # "none"
  /\ \A s \in DOMAIN be_stores : barrier[s] = "gone" =>
       be_stores[s].base \in DOMAIN place /\ place[be_stores[s].base] # "heap"

TodoInv ==
  /\ be_pc = "parse" => \A n \in DOMAIN place : place[n] = "stack" => n \in be_todo
  /\ be_pc = "expanded" => be_todo = {}

\* No barrier on a node of C is registered.
Quiet(C) == \A s \in enqueued : be_stores[s].base \notin C

\* What follows a node that the walk has visited is visited too, or will be.
WalkInv ==
  be_pc = "walk" =>
    /\ \A n \in be_visited : NextNodes(n) \subseteq be_visited \cup node_worklist
    /\ Quiet(be_visited)

\* A node is covered when it is in a set that the walk does not leave and that has
\* no registered barrier.
Covers(C) == C \subseteq DOMAIN be_graph /\ (\A n \in C : NextNodes(n) \subseteq C) /\ Quiet(C)
Covered(n) == \E C \in SUBSET DOMAIN be_graph : n \in C /\ Covers(C)

\* Every stack object whose walk has ended is covered.
CoverInv ==
  \A n \in DOMAIN place : (place[n] = "stack" /\ n \notin be_todo) =>
    Covered(n) \/ (be_pc = "walk" /\ n \in be_visited \cup node_worklist)

BEInv == FixedInv /\ BETypeInv /\ BarrierInv /\ TodoInv /\ WalkInv /\ CoverInv

-----------------------------------------------------------------------------
\* What the nodes may refer to.

Stack(s) == {o \in DOMAIN s.place : s.place[o] = "stack"}
Solutions(graph, st) == {v \in Valuations(graph) : Solves(graph, st, v)}
\* The valuation that agrees with v on the nodes that merge values
Val(graph, v) ==
  [n \in DOMAIN graph |->
     CASE n \in Merges(graph) -> v[n] [] graph[n].kind = "alloc" -> {n} [] OTHER -> {"h"}]

\* What a load may get.
LEMMA LoadedHas ==
  ASSUME NEW st, NEW val, NEW from, NEW x
  PROVE  x \in Loaded(st, val, from) <=>
           \/ x \in from \cap {"h"}
           \/ \E i \in DOMAIN st : /\ ~st[i].null /\ val[st[i].base] \cap from # {}
                                  /\ x \in val[st[i].val]
<1> DEFINE Filled == {t \in DOMAIN st : ~st[t].null /\ val[st[t].base] \cap from # {}}
           Sets == {val[st[i].val] : i \in Filled}
<1>1. x \in Loaded(st, val, from) <=> (x \in UNION Sets \/ x \in from \cap {"h"})
  <2>1. Loaded(st, val, from) = (UNION Sets) \cup (from \cap {"h"})
    BY DEF Loaded
  <2>2. \A A, B, C : A = B \cup C => (x \in A <=> (x \in B \/ x \in C))
    OBVIOUS
  <2> QED BY <2>1, <2>2, Zenon
<1>2. x \in UNION Sets <=> \E i \in Filled : x \in val[st[i].val]
  <2> HIDE DEF Filled
  <2> QED BY Zenon
<1>3. (\E i \in Filled : x \in val[st[i].val]) <=>
        \E i \in DOMAIN st : /\ ~st[i].null /\ val[st[i].base] \cap from # {}
                            /\ x \in val[st[i].val]
  BY Zenon
<1> QED BY <1>1, <1>2, <1>3, Zenon

\* More values come to a node when its inputs refer to more.
LEMMA FlowGrows ==
  ASSUME NEW s, IsBEStart(s), NEW v, NEW w, NEW m \in DOMAIN s.graph,
         \A n \in DOMAIN s.graph : v[n] \subseteq w[n]
  PROVE  Flow(s.graph, s.stores, v, m) \subseteq Flow(s.graph, s.stores, w, m)
<1> DEFINE From(u) == UNION {u[k] : k \in s.graph[m].ins}
<1>1. From(v) \subseteq From(w)
  BY DEF IsBEStart
<1>2. Loaded(s.stores, v, From(v)) \subseteq Loaded(s.stores, w, From(w))
  <2> HIDE DEF From
  <2> SUFFICES ASSUME NEW x, x \in Loaded(s.stores, v, From(v)), x \notin From(v) \cap {"h"}
               PROVE  x \in Loaded(s.stores, w, From(w))
    BY <1>1, LoadedHas
  <2>1. PICK i \in DOMAIN s.stores : /\ ~s.stores[i].null /\ v[s.stores[i].base] \cap From(v) # {}
                                     /\ x \in v[s.stores[i].val]
    BY LoadedHas
  <2>2. s.stores[i].base \in DOMAIN s.graph /\ s.stores[i].val \in DOMAIN s.graph
    BY DEF IsBEStart
  <2>3. w[s.stores[i].base] \cap From(w) # {} /\ x \in w[s.stores[i].val]
    BY <1>1, <2>1, <2>2
  <2> QED BY <2>1, <2>3, LoadedHas
<1> QED BY <1>1, <1>2 DEF Flow

\* A valuation is given by what it says of the merging nodes.
LEMMA ValIsValuation ==
  ASSUME NEW graph, NEW v \in [Merges(graph) -> SUBSET Origins(graph)]
  PROVE  Val(graph, v) \in Valuations(graph)
BY DEF Val, Valuations

LEMMA ValAtMerge ==
  ASSUME NEW graph, NEW v, NEW n \in Merges(graph)
  PROVE  Val(graph, v)[n] = v[n]
<1>1. n \in DOMAIN graph /\ graph[n].kind # "alloc"
  BY DEF Merges
<1> QED BY <1>1 DEF Val

\* In every valuation an allocation refers to its object, and a heap node to the heap.
LEMMA ValuationOf ==
  ASSUME NEW graph, NEW val \in Valuations(graph), NEW n \in DOMAIN graph
  PROVE  /\ n \in Merges(graph) => val[n] \subseteq Origins(graph)
         /\ (n \notin Merges(graph) /\ graph[n].kind = "alloc") => val[n] = {n}
         /\ (n \notin Merges(graph) /\ graph[n].kind # "alloc") => val[n] = {"h"}
<1>1. PICK v \in [Merges(graph) -> SUBSET Origins(graph)] :
        val = [k \in DOMAIN graph |->
                 CASE k \in Merges(graph) -> v[k] [] graph[k].kind = "alloc" -> {k} [] OTHER -> {"h"}]
  BY DEF Valuations
<1>2. val[n] = CASE n \in Merges(graph) -> v[n] [] graph[n].kind = "alloc" -> {n} [] OTHER -> {"h"}
  BY <1>1
<1>3. CASE n \in Merges(graph)
  <2>1. graph[n].kind # "alloc"
    BY <1>3 DEF Merges
  <2> QED BY <1>2, <1>3, <2>1
<1>4. CASE n \notin Merges(graph)
  BY <1>2, <1>4
<1> QED BY <1>3, <1>4

\* Everything a valuation holds is an origin.
LEMMA ValuationIsOrigins ==
  ASSUME NEW graph, NEW val \in Valuations(graph), NEW n \in DOMAIN graph
  PROVE  val[n] \subseteq Origins(graph)
<1>1. CASE n \in Merges(graph)
  BY <1>1, ValuationOf
<1>2. CASE n \notin Merges(graph) /\ graph[n].kind = "alloc"
  BY <1>2, ValuationOf DEF Origins
<1>3. CASE n \notin Merges(graph) /\ graph[n].kind # "alloc"
  BY <1>3, ValuationOf DEF Origins
<1> QED BY <1>1, <1>2, <1>3

\* Only origins flow.
LEMMA FlowIsOrigins ==
  ASSUME NEW s, IsBEStart(s), NEW v, NEW m \in DOMAIN s.graph,
         \A n \in DOMAIN s.graph : v[n] \subseteq Origins(s.graph)
  PROVE  Flow(s.graph, s.stores, v, m) \subseteq Origins(s.graph)
<1> DEFINE From == UNION {v[k] : k \in s.graph[m].ins}
<1>1. From \subseteq Origins(s.graph)
  BY DEF IsBEStart
<1>2. \A i \in DOMAIN s.stores : s.stores[i].val \in DOMAIN s.graph
  BY DEF IsBEStart
<1>3. Loaded(s.stores, v, From) \subseteq Origins(s.graph)
  <2> HIDE DEF From
  <2> QED BY <1>1, <1>2, LoadedHas
<1> QED BY <1>1, <1>3 DEF Flow

\* There is a solution: every merge may refer to everything.
LEMMA SolutionExists ==
  ASSUME NEW s, IsBEStart(s)
  PROVE  Solutions(s.graph, s.stores) # {}
<1> DEFINE top == [n \in Merges(s.graph) |-> Origins(s.graph)]
           val == Val(s.graph, top)
<1>1. val \in Valuations(s.graph)
  BY ValIsValuation
<1>2. \A n \in Merges(s.graph) : val[n] = Origins(s.graph)
  BY DEF Val, Merges
<1> HIDE DEF val
<1>3. \A n \in DOMAIN s.graph : val[n] \subseteq Origins(s.graph)
  BY <1>1, ValuationIsOrigins
<1>4. \A n \in Merges(s.graph) : n \in DOMAIN s.graph
  BY DEF Merges
<1>5. Solves(s.graph, s.stores, val)
  BY <1>2, <1>3, <1>4, FlowIsOrigins DEF Solves
<1> QED BY <1>1, <1>5 DEF Solutions

\* MayRefer is a solution, below every other one.
LEMMA MayReferLeast ==
  ASSUME NEW s, IsBEStart(s)
  PROVE  LET refs == MayRefer(s.graph, s.stores)
         IN  /\ \A n \in DOMAIN s.graph : refs[n] \subseteq Origins(s.graph)
             /\ \A v \in Solutions(s.graph, s.stores) : \A n \in DOMAIN s.graph : refs[n] \subseteq v[n]
             /\ \A n \in Merges(s.graph) : Flow(s.graph, s.stores, refs, n) \subseteq refs[n]
             /\ \A n \in DOMAIN s.graph : n \notin Merges(s.graph) =>
                  refs[n] = IF s.graph[n].kind = "alloc" THEN {n} ELSE {"h"}
<1> DEFINE refs == MayRefer(s.graph, s.stores)
           vs == Solutions(s.graph, s.stores)
<1>1. \A n \in DOMAIN s.graph : refs[n] = {o \in Origins(s.graph) : \A v \in vs : o \in v[n]}
  BY DEF MayRefer, Solutions
<1>2. \A v \in vs : v \in Valuations(s.graph) /\ Solves(s.graph, s.stores, v)
  BY DEF Solutions
<1>3. vs # {}
  BY SolutionExists
<1>4. \A n \in Merges(s.graph) : n \in DOMAIN s.graph
  BY DEF Merges
<1> HIDE DEF refs, vs
<1>5. \A n \in DOMAIN s.graph : refs[n] \subseteq Origins(s.graph)
  BY <1>1
<1>6. \A v \in vs : \A n \in DOMAIN s.graph : refs[n] \subseteq v[n]
  BY <1>1
<1>7. ASSUME NEW n \in Merges(s.graph)
      PROVE  Flow(s.graph, s.stores, refs, n) \subseteq refs[n]
  <2>1. Flow(s.graph, s.stores, refs, n) \subseteq Origins(s.graph)
    BY <1>4, <1>5, FlowIsOrigins
  <2>2. ASSUME NEW v \in vs PROVE Flow(s.graph, s.stores, refs, n) \subseteq v[n]
    <3>1. Flow(s.graph, s.stores, refs, n) \subseteq Flow(s.graph, s.stores, v, n)
      BY <1>4, <1>6, FlowGrows
    <3>2. Flow(s.graph, s.stores, v, n) \subseteq v[n]
      BY <1>2 DEF Solves
    <3> QED BY <3>1, <3>2
  <2> QED BY <1>1, <1>4, <2>1, <2>2
<1>8. ASSUME NEW n \in DOMAIN s.graph, n \notin Merges(s.graph)
      PROVE  refs[n] = IF s.graph[n].kind = "alloc" THEN {n} ELSE {"h"}
  <2>1. CASE s.graph[n].kind = "alloc"
    <3>1. \A v \in vs : v[n] = {n}
      BY <1>2, <1>8, <2>1, ValuationOf
    <3>2. n \in Origins(s.graph)
      BY <2>1 DEF Origins
    <3> QED BY <1>1, <1>3, <2>1, <3>1, <3>2
  <2>2. CASE s.graph[n].kind # "alloc"
    <3>1. \A v \in vs : v[n] = {"h"}
      BY <1>2, <1>8, <2>2, ValuationOf
    <3>2. "h" \in Origins(s.graph)
      BY DEF Origins
    <3> QED BY <1>1, <1>3, <2>2, <3>1, <3>2
  <2> QED BY <2>1, <2>2
<1> QED BY <1>5, <1>6, <1>7, <1>8 DEF refs, vs

\* No node but its allocation refers to a scalar replaced object.
LEMMA ScalarUnshared ==
  ASSUME NEW s, IsBEStart(s), NEW a \in DOMAIN s.place, s.place[a] = "scalar",
         NEW n \in DOMAIN s.graph, a \in MayRefer(s.graph, s.stores)[n]
  PROVE  n = a
<1> DEFINE refs == MayRefer(s.graph, s.stores)
           v == [k \in Merges(s.graph) |-> refs[k] \ {a}]
           val == Val(s.graph, v)
<1>1. a # "h" /\ a \in DOMAIN s.graph /\ s.graph[a].kind = "alloc" /\ a \notin Merges(s.graph)
  BY DEF IsBEStart, Origins, Merges
<1>2. \A k \in DOMAIN s.graph : refs[k] \subseteq Origins(s.graph)
  BY MayReferLeast
<1>3. \A k \in Merges(s.graph) : k \in DOMAIN s.graph
  BY DEF Merges
<1>4. val \in Valuations(s.graph)
  <2>1. v \in [Merges(s.graph) -> SUBSET Origins(s.graph)]
    BY <1>2, <1>3
  <2> QED BY <2>1, ValIsValuation
<1>5. \A k \in Merges(s.graph) : val[k] = refs[k] \ {a}
  BY <1>3, ValAtMerge
<1>0. /\ \A k \in Merges(s.graph) : Flow(s.graph, s.stores, refs, k) \subseteq refs[k]
      /\ \A k \in DOMAIN s.graph : k \notin Merges(s.graph) =>
           refs[k] = IF s.graph[k].kind = "alloc" THEN {k} ELSE {"h"}
      /\ \A w \in Solutions(s.graph, s.stores) : refs[n] \subseteq w[n]
  BY MayReferLeast
<1> HIDE DEF val, refs
<1>6. ASSUME NEW k \in DOMAIN s.graph
      PROVE  val[k] \subseteq refs[k] /\ (k # a => a \notin val[k])
  <2>1. CASE k \in Merges(s.graph)
    BY <1>5, <2>1
  <2>2. CASE k \notin Merges(s.graph)
    <3>1. refs[k] = IF s.graph[k].kind = "alloc" THEN {k} ELSE {"h"}
      BY <1>0, <2>2
    <3>2. val[k] = IF s.graph[k].kind = "alloc" THEN {k} ELSE {"h"}
      <4>1. CASE s.graph[k].kind = "alloc"
        BY <1>4, <2>2, <4>1, ValuationOf
      <4>2. CASE s.graph[k].kind # "alloc"
        BY <1>4, <2>2, <4>2, ValuationOf
      <4> QED BY <4>1, <4>2
    <3> QED BY <1>1, <3>1, <3>2
  <2> QED BY <2>1, <2>2
<1>7. ASSUME NEW m \in Merges(s.graph) PROVE Flow(s.graph, s.stores, val, m) \subseteq val[m]
  <2> DEFINE From == UNION {val[k] : k \in s.graph[m].ins}
  <2>1. Flow(s.graph, s.stores, val, m) \subseteq refs[m]
    <3>1. Flow(s.graph, s.stores, val, m) \subseteq Flow(s.graph, s.stores, refs, m)
      BY <1>3, <1>6, FlowGrows
    <3>2. Flow(s.graph, s.stores, refs, m) \subseteq refs[m]
      BY <1>0
    <3> QED BY <3>1, <3>2
  <2>2. a \notin From
    <3>1. a \notin s.graph[m].ins /\ s.graph[m].ins \subseteq DOMAIN s.graph
      BY <1>3 DEF IsBEStart, ScalarsAlone
    <3> QED BY <1>6, <3>1
  <2> HIDE DEF From
  <2>3. a \notin Loaded(s.stores, val, From)
    <3>1. \A i \in DOMAIN s.stores : s.stores[i].val # a /\ s.stores[i].val \in DOMAIN s.graph
      BY DEF IsBEStart, ScalarsAlone
    <3> QED BY <1>1, <1>6, <3>1, LoadedHas
  <2>4. a \notin Flow(s.graph, s.stores, val, m)
    BY <2>2, <2>3 DEF Flow, From
  <2> QED BY <1>5, <2>1, <2>4
<1>8. val \in Solutions(s.graph, s.stores)
  BY <1>4, <1>7 DEF Solutions, Solves
<1>9. refs[n] \subseteq val[n]
  BY <1>8, <1>0
<1> QED BY <1>6, <1>9 DEF refs

\* A set of nodes that holds the stack objects and that Phis, casts and loads do not
\* leave holds every node that may refer to a stack object.
LEMMA StackStaysIn ==
  ASSUME NEW s, IsBEStart(s), NEW U, Stack(s) \subseteq U,
         \A m \in Merges(s.graph) : m \notin U => s.graph[m].ins \cap U = {},
         NEW n \in DOMAIN s.graph, MayRefer(s.graph, s.stores)[n] \cap Stack(s) # {}
  PROVE  n \in U
<1> DEFINE refs == MayRefer(s.graph, s.stores)
           v == [k \in Merges(s.graph) |-> IF k \in U THEN refs[k] ELSE refs[k] \ Stack(s)]
           val == Val(s.graph, v)
<1>1. \A a \in DOMAIN s.place : a # "h" /\ a \in DOMAIN s.graph /\ s.graph[a].kind = "alloc"
  BY DEF IsBEStart, Origins
<1>2. \A k \in DOMAIN s.graph : refs[k] \subseteq Origins(s.graph)
  BY MayReferLeast
<1>3. \A k \in Merges(s.graph) : k \in DOMAIN s.graph
  BY DEF Merges
<1>4. val \in Valuations(s.graph)
  <2>1. v \in [Merges(s.graph) -> SUBSET Origins(s.graph)]
    BY <1>2, <1>3
  <2> QED BY <2>1, ValIsValuation
<1>5. \A k \in Merges(s.graph) : val[k] = IF k \in U THEN refs[k] ELSE refs[k] \ Stack(s)
  BY <1>3, ValAtMerge
<1>0. /\ \A k \in Merges(s.graph) : Flow(s.graph, s.stores, refs, k) \subseteq refs[k]
      /\ \A k \in DOMAIN s.graph : k \notin Merges(s.graph) =>
           refs[k] = IF s.graph[k].kind = "alloc" THEN {k} ELSE {"h"}
      /\ \A w \in Solutions(s.graph, s.stores) : refs[n] \subseteq w[n]
  BY MayReferLeast
<1> HIDE DEF val, refs
<1>6. ASSUME NEW k \in DOMAIN s.graph
      PROVE  val[k] \subseteq refs[k] /\ (k \notin U => val[k] \cap Stack(s) = {})
  <2>1. CASE k \in Merges(s.graph)
    BY <1>5, <2>1
  <2>2. CASE k \notin Merges(s.graph)
    <3>1. refs[k] = IF s.graph[k].kind = "alloc" THEN {k} ELSE {"h"}
      BY <1>0, <2>2
    <3>2. val[k] = IF s.graph[k].kind = "alloc" THEN {k} ELSE {"h"}
      <4>1. CASE s.graph[k].kind = "alloc"
        BY <1>4, <2>2, <4>1, ValuationOf
      <4>2. CASE s.graph[k].kind # "alloc"
        BY <1>4, <2>2, <4>2, ValuationOf
      <4> QED BY <4>1, <4>2
    <3>3. "h" \notin Stack(s)
      BY <1>1 DEF Stack
    <3> QED BY <3>1, <3>2, <3>3
  <2> QED BY <2>1, <2>2
<1>7. ASSUME NEW m \in Merges(s.graph) PROVE Flow(s.graph, s.stores, val, m) \subseteq val[m]
  <2> DEFINE From == UNION {val[k] : k \in s.graph[m].ins}
  <2>1. Flow(s.graph, s.stores, val, m) \subseteq refs[m]
    <3>1. Flow(s.graph, s.stores, val, m) \subseteq Flow(s.graph, s.stores, refs, m)
      BY <1>3, <1>6, FlowGrows
    <3>2. Flow(s.graph, s.stores, refs, m) \subseteq refs[m]
      BY <1>0
    <3> QED BY <3>1, <3>2
  <2>2. CASE m \in U
    BY <1>5, <2>1, <2>2
  <2>3. CASE m \notin U
    <3>0. s.graph[m].ins \subseteq DOMAIN s.graph /\ s.graph[m].ins \cap U = {}
      BY <1>3, <2>3 DEF IsBEStart
    <3>1. From \cap Stack(s) = {}
      BY <1>6, <3>0
    <3>2. \A a \in From : \E k \in s.graph[m].ins : a \in refs[k]
      BY <1>6, <3>0
    <3> HIDE DEF From
    <3>3. ASSUME NEW x \in Stack(s), x \in Loaded(s.stores, val, From) PROVE FALSE
      <4>1. x # "h"
        BY <1>1 DEF Stack
      <4>2. PICK i \in DOMAIN s.stores : /\ ~s.stores[i].null /\ val[s.stores[i].base] \cap From # {}
                                         /\ x \in val[s.stores[i].val]
        BY <3>3, <4>1, LoadedHas
      <4>3. s.stores[i].base \in DOMAIN s.graph /\ s.stores[i].val \in DOMAIN s.graph
        BY DEF IsBEStart
      <4>4. PICK a \in From : a \in refs[s.stores[i].base]
        BY <1>6, <4>2, <4>3
      <4>5. x \in refs[s.stores[i].val] /\ s.place[x] = "stack"
        BY <1>6, <4>2, <4>3 DEF Stack
      <4>6. a # "h" /\ s.place[a] \in {"stack", "scalar"}
        BY <4>1, <4>2, <4>4, <4>5 DEF IsBEStart, ChainsVerified, refs
      <4>7. a \in DOMAIN s.place
        BY <1>2, <4>3, <4>4, <4>6 DEF IsBEStart
      <4>8. s.place[a] = "scalar"
        BY <3>1, <4>6, <4>7 DEF Stack
      <4>9. PICK k \in s.graph[m].ins : a \in refs[k]
        BY <3>2
      <4>10. k = a
        BY <3>0, <4>7, <4>8, <4>9, ScalarUnshared DEF refs
      <4> QED BY <1>3, <4>7, <4>8, <4>9, <4>10 DEF IsBEStart, ScalarsAlone
    <3>4. Flow(s.graph, s.stores, val, m) \cap Stack(s) = {}
      BY <3>1, <3>3 DEF Flow, From
    <3> QED BY <1>5, <2>1, <2>3, <3>4
  <2> QED BY <2>2, <2>3
<1>8. val \in Solutions(s.graph, s.stores)
  BY <1>4, <1>7 DEF Solutions, Solves
<1>9. refs[n] \subseteq val[n]
  BY <1>8, <1>0
<1> QED BY <1>6, <1>9 DEF refs

-----------------------------------------------------------------------------
\* The invariant.

\* The method is one the analysis accepted.
LEMMA StartOf ==
  ASSUME FixedInv
  PROVE  /\ IsBEStart([graph |-> be_graph, stores |-> be_stores, place |-> place])
         /\ DOMAIN place \subseteq DOMAIN be_graph
         /\ \A i \in DOMAIN be_stores : be_stores[i].base \in DOMAIN be_graph
<1>1. PICK s \in BEStarts : be_graph = s.graph /\ be_stores = s.stores /\ place = s.place
  BY DEF FixedInv
<1> DEFINE r == [graph |-> be_graph, stores |-> be_stores, place |-> place]
<1>2. r.graph = s.graph /\ r.stores = s.stores /\ r.place = s.place
  BY <1>1
<1> HIDE DEF r
<1>3. IsBEStart(s)
  BY BarrierAssumption
<1>4. IsBEStart(r)
  BY <1>2, <1>3 DEF IsBEStart, ScalarsAlone, ChainsVerified
<1>5. DOMAIN place \subseteq DOMAIN be_graph
  BY <1>1, <1>3 DEF IsBEStart, Origins
<1>6. \A i \in DOMAIN be_stores : be_stores[i].base \in DOMAIN be_graph
  BY <1>1, <1>3 DEF IsBEStart
<1> QED BY <1>4, <1>5, <1>6 DEF r

\* NextNodes stays within the graph.
LEMMA NextInGraph ==
  ASSUME FixedInv, NEW n
  PROVE  NextNodes(n) \subseteq DOMAIN be_graph
BY StartOf DEF NextNodes

\* What is covered stays covered as long as no barrier is registered.
LEMMA StaysCovered ==
  ASSUME be_graph' = be_graph, be_stores' = be_stores, enqueued' \subseteq enqueued,
         NEW n, Covered(n)
  PROVE  Covered(n)'
<1>1. PICK C \in SUBSET DOMAIN be_graph : n \in C /\ Covers(C)
  BY DEF Covered
<1>2. \A k \in C : NextNodes(k)' = NextNodes(k)
  BY DEF NextNodes
<1>3. Covers(C)'
  BY <1>1, <1>2 DEF Covers, Quiet
<1> QED BY <1>1, <1>3 DEF Covered

LEMMA BEInitially ==
  ASSUME NEW s \in BEStarts, BEInit(s)
  PROVE  BEInv
<1>1. FixedInv
  BY DEF BEInit, FixedInv
<1>2. BETypeInv
  BY DEF BEInit, BETypeInv
<1>3. BarrierInv
  BY DEF BEInit, BarrierInv
<1>4. TodoInv
  BY DEF BEInit, TodoInv
<1>5. WalkInv
  BY DEF BEInit, WalkInv
<1>6. CoverInv
  BY DEF BEInit, CoverInv
<1> QED BY <1>1, <1>2, <1>3, <1>4, <1>5, <1>6 DEF BEInv

\* post_barrier and the end of parsing: no walk has begun.
LEMMA ParseKeeps ==
  ASSUME BEInv, (\E s \in DOMAIN be_stores : PostBarrier(s)) \/ EndParse
  PROVE  BEInv'
<1> USE DEF BEInv
<1>1. ASSUME NEW s \in DOMAIN be_stores, PostBarrier(s) PROVE BEInv'
  <2> USE <1>1 DEF PostBarrier
  <2>1. FixedInv'
    BY DEF FixedInv
  <2>2. BETypeInv'
    BY DEF BETypeInv
  <2>3. BarrierInv'
    BY DEF BarrierInv, BETypeInv
  <2>4. TodoInv' /\ WalkInv'
    BY DEF TodoInv, WalkInv
  <2>5. CoverInv'
    BY DEF CoverInv, TodoInv
  <2> QED BY <2>1, <2>2, <2>3, <2>4, <2>5
<1>2. ASSUME EndParse PROVE BEInv'
  <2> USE <1>2 DEF EndParse
  <2>1. FixedInv'
    BY DEF FixedInv
  <2>2. BETypeInv'
    BY DEF BETypeInv
  <2>3. BarrierInv'
    BY DEF BarrierInv
  <2>4. TodoInv' /\ WalkInv'
    BY DEF TodoInv, WalkInv
  <2>5. CoverInv'
    BY DEF CoverInv, TodoInv
  <2> QED BY <2>1, <2>2, <2>3, <2>4, <2>5
<1> QED BY <1>1, <1>2

\* The direct barriers of an object that is not in the heap are eliminated.
LEMMA EliminateKeeps ==
  ASSUME BEInv, NEW n \in DOMAIN place, EliminateScalar(n) \/ EliminateDirect(n)
  PROVE  BEInv'
<1> USE DEF BEInv
<1>1. /\ be_pc = "macro" /\ n \in be_todo /\ place[n] # "heap"
      /\ barrier' = [s \in DOMAIN be_stores |-> IF s \in Eliminated(n) THEN "gone" ELSE barrier[s]]
      /\ enqueued' = enqueued \ Eliminated(n) /\ be_todo' = be_todo \ {n}
      /\ be_graph' = be_graph /\ be_stores' = be_stores /\ place' = place
  BY DEF EliminateScalar, EliminateDirect
<1>2. \A s \in Eliminated(n) : s \in DOMAIN be_stores /\ be_stores[s].base = n
  BY DEF Eliminated, Direct
<1>3. \/ be_pc' = be_pc /\ place[n] = "scalar" /\ node_worklist' = node_worklist /\ be_visited' = be_visited
      \/ be_pc' = "walk" /\ node_worklist' = {n} /\ be_visited' = {}
  BY DEF EliminateScalar, EliminateDirect
<1>4. FixedInv'
  BY <1>1 DEF FixedInv
<1>5. BETypeInv'
  <2>1. n \in DOMAIN be_graph
    BY StartOf
  <2> QED BY <1>1, <1>3, <2>1 DEF BETypeInv
<1>6. BarrierInv'
  <2>1. \A s \in DOMAIN be_stores : barrier'[s] = IF s \in Eliminated(n) THEN "gone" ELSE barrier[s]
    BY <1>1
  <2> HIDE DEF BEInv
  <2>2. BarrierInv
    BY DEF BEInv
  <2>3. \A s \in DOMAIN be_stores : barrier'[s] # "unchecked" /\ (be_stores[s].null \/ barrier'[s] # "none")
    BY <1>1, <2>1, <2>2 DEF BarrierInv
  <2>4. \A s \in DOMAIN be_stores : barrier'[s] = "gone" =>
          be_stores[s].base \in DOMAIN place /\ place[be_stores[s].base] # "heap"
    BY <1>1, <1>2, <2>1, <2>2 DEF BarrierInv
  <2> QED BY <1>1, <2>3, <2>4 DEF BarrierInv
<1>7. TodoInv'
  BY <1>1, <1>3 DEF TodoInv
<1>8. WalkInv'
  BY <1>1, <1>3 DEF WalkInv, Quiet
<1>9. CoverInv'
  <2> SUFFICES ASSUME NEW k \in DOMAIN place, place[k] = "stack", k \notin be_todo'
               PROVE  Covered(k)' \/ (be_pc' = "walk" /\ k \in be_visited' \cup node_worklist')
    BY <1>1 DEF CoverInv
  <2>1. CASE k = n
    BY <1>3, <2>1
  <2>2. CASE k # n
    <3>1. Covered(k)
      BY <1>1, <2>2 DEF CoverInv
    <3> QED BY <1>1, <3>1, StaysCovered
  <2> QED BY <2>1, <2>2
<1> QED BY <1>4, <1>5, <1>6, <1>7, <1>8, <1>9

\* The walk leaves no registered barrier behind.
LEMMA WalkKeeps ==
  ASSUME BEInv, NEW n \in node_worklist, UnregisterBarriers(n)
  PROVE  BEInv'
<1> USE DEF BEInv
<1>1. /\ be_pc = "walk" /\ be_pc' = be_pc /\ barrier' = barrier /\ be_todo' = be_todo
      /\ be_graph' = be_graph /\ be_stores' = be_stores /\ place' = place
      /\ be_visited' = be_visited \cup {n}
  BY DEF UnregisterBarriers
<1>2. enqueued' = IF n \in be_visited THEN enqueued
                  ELSE enqueued \ {s \in DOMAIN be_stores : be_stores[s].base = n}
  BY DEF UnregisterBarriers
<1>3. node_worklist' = IF n \in be_visited THEN node_worklist \ {n}
                       ELSE (node_worklist \ {n}) \cup (NextNodes(n) \ be_visited)
  BY DEF UnregisterBarriers
<1>4. FixedInv'
  BY <1>1 DEF FixedInv
<1>5. BETypeInv'
  <2>1. NextNodes(n) \subseteq DOMAIN be_graph /\ n \in DOMAIN be_graph
    BY NextInGraph DEF BETypeInv
  <2> QED BY <1>1, <1>2, <1>3, <2>1 DEF BETypeInv
<1>6. BarrierInv'
  BY <1>1 DEF BarrierInv
<1>7. TodoInv'
  BY <1>1 DEF TodoInv
<1>8. /\ NextNodes(n) \subseteq be_visited' \cup node_worklist'
      /\ be_visited \cup node_worklist \subseteq be_visited' \cup node_worklist'
  BY <1>1, <1>3 DEF WalkInv
<1>9. \A k \in be_visited' : NextNodes(k)' = NextNodes(k)
  BY <1>1 DEF NextNodes
<1>10. WalkInv'
  <2>1. \A k \in be_visited' : NextNodes(k)' \subseteq be_visited' \cup node_worklist'
    BY <1>1, <1>8, <1>9 DEF WalkInv
  <2>2. Quiet(be_visited)'
    BY <1>1, <1>2 DEF WalkInv, Quiet, BETypeInv
  <2> QED BY <2>1, <2>2 DEF WalkInv
<1>11. enqueued' \subseteq enqueued
  BY <1>2
<1>12. CoverInv'
  <2> SUFFICES ASSUME NEW k \in DOMAIN place, place[k] = "stack", k \notin be_todo
               PROVE  Covered(k)' \/ k \in be_visited' \cup node_worklist'
    BY <1>1 DEF CoverInv
  <2>1. Covered(k) \/ k \in be_visited \cup node_worklist
    BY DEF CoverInv
  <2> QED BY <1>1, <1>8, <1>11, <2>1, StaysCovered
<1> QED BY <1>4, <1>5, <1>6, <1>7, <1>10, <1>12

\* When a walk ends, what it visited covers its object.
LEMMA EndWalkKeeps ==
  ASSUME BEInv, EndWalkBarriers
  PROVE  BEInv'
<1> USE DEF BEInv
<1>1. /\ be_pc = "walk" /\ node_worklist = {} /\ be_pc' = "macro"
      /\ be_graph' = be_graph /\ be_stores' = be_stores /\ place' = place /\ barrier' = barrier
      /\ enqueued' = enqueued /\ be_todo' = be_todo /\ node_worklist' = node_worklist
      /\ be_visited' = be_visited
  BY DEF EndWalkBarriers
<1>2. FixedInv' /\ BETypeInv'
  BY <1>1 DEF FixedInv, BETypeInv
<1>3. BarrierInv' /\ TodoInv' /\ WalkInv'
  BY <1>1 DEF BarrierInv, TodoInv, WalkInv
<1>4. Covers(be_visited) /\ be_visited \in SUBSET DOMAIN be_graph
  BY <1>1 DEF WalkInv, BETypeInv, Covers
<1>5. CoverInv'
  <2> SUFFICES ASSUME NEW k \in DOMAIN place, place[k] = "stack", k \notin be_todo
               PROVE  Covered(k)'
    BY <1>1 DEF CoverInv
  <2>1. Covered(k)
    BY <1>1, <1>4 DEF CoverInv, Covered
  <2> QED BY <1>1, <2>1, StaysCovered
<1> QED BY <1>2, <1>3, <1>5

\* The check is taken out of the registered barriers only.
LEMMA ExpandKeeps ==
  ASSUME BEInv, ExpandBarriers
  PROVE  BEInv'
<1> USE DEF BEInv
<1>1. /\ be_pc = "macro" /\ be_todo = {} /\ be_pc' = "expanded"
      /\ be_graph' = be_graph /\ be_stores' = be_stores /\ place' = place
      /\ enqueued' = enqueued /\ be_todo' = be_todo /\ node_worklist' = node_worklist
      /\ be_visited' = be_visited
      /\ barrier' = [s \in DOMAIN be_stores |-> IF s \in enqueued THEN "unchecked" ELSE barrier[s]]
  BY DEF ExpandBarriers, ProcessBarrierNode
<1>2. FixedInv' /\ BETypeInv'
  BY <1>1 DEF FixedInv, BETypeInv
<1>3. BarrierInv'
  BY <1>1 DEF BarrierInv, BETypeInv
<1>4. TodoInv' /\ WalkInv'
  BY <1>1 DEF TodoInv, WalkInv
<1>5. CoverInv'
  <2> SUFFICES ASSUME NEW k \in DOMAIN place, place[k] = "stack"
               PROVE  Covered(k)'
    BY <1>1 DEF CoverInv
  <2>1. Covered(k)
    BY <1>1 DEF CoverInv
  <2> QED BY <1>1, <2>1, StaysCovered
<1> QED BY <1>2, <1>3, <1>4, <1>5

LEMMA BEStep ==
  ASSUME BEInv, [BENext]_beVars
  PROVE  BEInv'
<1>1. CASE \E s \in DOMAIN be_stores : PostBarrier(s)
  BY <1>1, ParseKeeps
<1>2. CASE EndParse
  BY <1>2, ParseKeeps
<1>3. CASE \E n \in DOMAIN place : EliminateScalar(n) \/ EliminateDirect(n)
  BY <1>3, EliminateKeeps
<1>4. CASE \E n \in node_worklist : UnregisterBarriers(n)
  BY <1>4, WalkKeeps
<1>5. CASE EndWalkBarriers
  BY <1>5, EndWalkKeeps
<1>6. CASE ExpandBarriers
  BY <1>6, ExpandKeeps
<1>7. CASE UNCHANGED beVars
  <2>1. FixedInv' = FixedInv /\ BETypeInv' = BETypeInv /\ BarrierInv' = BarrierInv /\ TodoInv' = TodoInv
    BY <1>7 DEF beVars, FixedInv, BETypeInv, BarrierInv, TodoInv
  <2>2. WalkInv'
    BY <1>7 DEF BEInv, beVars, WalkInv, NextNodes, Quiet
  <2>3. \A n : Covered(n) => Covered(n)'
    BY <1>7, StaysCovered DEF beVars
  <2>4. CoverInv'
    BY <1>7, <2>3 DEF BEInv, beVars, CoverInv
  <2> QED BY <2>1, <2>2, <2>4 DEF BEInv
<1> QED BY <1>1, <1>2, <1>3, <1>4, <1>5, <1>6, <1>7 DEF BENext

\* When the barriers have been expanded, the walks have unregistered the barrier of
\* every store to what may be a stack object.
LEMMA InvImpliesKept ==
  ASSUME BEInv
  PROVE  ChecksKept
<1> SUFFICES ASSUME be_pc = "expanded", NEW i \in DOMAIN be_stores, ~be_stores[i].null
             PROVE  LET refs == MayRefer(be_graph, be_stores)
                        At(o) == IF o = "h" THEN "heap" ELSE place[o]
                    IN  /\ (\E o \in refs[be_stores[i].base] : At(o) = "stack") => barrier[i] \in {"checked", "gone"}
                        /\ (\E o \in refs[be_stores[i].base] : At(o) = "heap") => barrier[i] \in {"checked", "unchecked"}
  BY DEF ChecksKept
<1> DEFINE refs == MayRefer(be_graph, be_stores)
           At(o) == IF o = "h" THEN "heap" ELSE place[o]
           r == [graph |-> be_graph, stores |-> be_stores, place |-> place]
           b == be_stores[i].base
           U == {n \in DOMAIN be_graph : Covered(n)}
<1>1. /\ IsBEStart(r) /\ DOMAIN place \subseteq DOMAIN be_graph /\ b \in DOMAIN be_graph
  BY StartOf DEF BEInv
<1>2. r.graph = be_graph /\ r.stores = be_stores /\ r.place = place
  OBVIOUS
<1> HIDE DEF r
<1>3. /\ refs[b] \subseteq Origins(be_graph)
      /\ b \notin Merges(be_graph) => refs[b] = IF be_graph[b].kind = "alloc" THEN {b} ELSE {"h"}
  BY <1>1, <1>2, MayReferLeast
<1>4. DOMAIN place = Origins(be_graph) \ {"h"} /\ "h" \notin DOMAIN be_graph
  BY <1>1, <1>2 DEF IsBEStart
<1>5. barrier[i] \in {"none", "checked", "unchecked", "gone"} /\ barrier[i] # "none"
  BY DEF BEInv, BETypeInv, BarrierInv
<1>6. ASSUME NEW o \in refs[b], At(o) = "stack"
      PROVE  barrier[i] \in {"checked", "gone"}
  <2>1. Stack(r) \subseteq U
    BY <1>1, <1>2 DEF Stack, BEInv, CoverInv, TodoInv
  <2>2. ASSUME NEW m \in Merges(be_graph), m \notin U, NEW k \in be_graph[m].ins, k \in U
        PROVE  FALSE
    <3>1. PICK C \in SUBSET DOMAIN be_graph : k \in C /\ Covers(C)
      BY <2>2 DEF Covered
    <3>2. m \in NextNodes(k) /\ m \in DOMAIN be_graph
      BY DEF Merges, NextNodes
    <3>3. m \in C
      BY <3>1, <3>2 DEF Covers
    <3> QED BY <2>2, <3>1, <3>2, <3>3 DEF Covered
  <2>3. o \in Stack(r)
    BY <1>2, <1>3, <1>4, <1>6 DEF Stack
  <2>4. \A m \in Merges(be_graph) : m \notin U => be_graph[m].ins \cap U = {}
    BY <2>2
  <2> HIDE DEF U
  <2>5. b \in U
    BY <1>1, <1>2, <1>6, <2>1, <2>3, <2>4, StackStaysIn
  <2>6. i \notin enqueued
    BY <2>5 DEF U, Covered, Covers, Quiet
  <2> QED BY <1>5, <2>6 DEF BEInv, BarrierInv
<1>7. ASSUME NEW o \in refs[b], At(o) = "heap", barrier[i] = "gone"
      PROVE  FALSE
  <2>1. b \in DOMAIN place /\ place[b] # "heap"
    BY <1>7 DEF BEInv, BarrierInv
  <2>2. b # "h" /\ be_graph[b].kind = "alloc" /\ b \notin Merges(be_graph)
    BY <1>4, <2>1 DEF Origins, Merges
  <2>3. o = b
    BY <1>3, <2>2
  <2> QED BY <1>7, <2>1, <2>2, <2>3
<1> QED BY <1>5, <1>6, <1>7

\* The inductive invariant of the barriers' elimination holds for every method.
THEOREM BEInvariant == BESpec => []BEInv
<1>1. (\E s \in BEStarts : BEInit(s)) => BEInv
  BY BEInitially
<1>2. BEInv /\ [BENext]_beVars => BEInv'
  BY BEStep
<1> QED BY <1>1, <1>2, PTL DEF BESpec

\* With any method that passed the chain verification, the check that the object is
\* in the heap is taken only out of barriers whose object cannot be on the stack, and
\* only barriers whose object cannot be in the heap are eliminated
\* (process_write_barriers_on_stack_allocated_objects, expand_barriers).
THEOREM ChecksAreKept == BESpec => []ChecksKept
BY BEInvariant, InvImpliesKept, PTL

-----------------------------------------------------------------------------
FieldStores == [what : {"field"}, at : Locations, val : {0} \cup HeapObjs]
CardStores  == [what : {"card"}, at : Int, val : {"dirty"}]
Writes == [pc : {"idle", "store", "membar"}, base : Objs \cup {0}, loc : Locations \cup {0},
           val : {0} \cup HeapObjs]

G1TypeInv ==
  /\ Locations \subseteq DOMAIN heap
  /\ \A c \in DOMAIN card : card[c] \in CardStates
  /\ \A o \in Objs : CardOf(o) \in DOMAIN card
  /\ \A o \in HeapObjs : Region(o) \in DOMAIN remset
  /\ store_buf \in [Mutators -> Seq(FieldStores \cup CardStores)]
  /\ dcq \in [Mutators -> Seq(Int)]
  /\ mut \in [Mutators -> Writes]
  /\ \A m \in Mutators : mut[m].pc # "idle" => mut[m].base \in Objs /\ mut[m].loc \in FieldsOf[mut[m].base]

\* The card table covers the heap, and the new object stays in eden.
TableInv ==
  /\ \A c \in DOMAIN card : (card[c] = "foreign") = ~InHeap(c * CardWords)
  /\ card[CardOf(FreshObject)] = "young"

\* A barrier that has passed the filters is about an old object of the heap.
MembarInv ==
  \A m \in Mutators : mut[m].pc = "membar" =>
    mut[m].base \in HeapObjs /\ card[CardOf(mut[m].base)] # "young"

\* A dirty mark under way is the oldest store of its thread, and its card is still
\* in the queue of that thread.
CardStoreInv ==
  \A m \in Mutators : \A i \in DOMAIN store_buf[m] :
    LET s == store_buf[m][i]
    IN  s.what = "card" =>
          /\ i = 1 /\ s.at \in ToSet(dcq[m])
          /\ s.at \in DOMAIN card /\ card[s.at] \notin {"young", "foreign"}

\* A store under way that makes a reference into another region is followed by the
\* rest of its barrier.
FieldStoreInv ==
  \A m \in Mutators : \A i \in DOMAIN store_buf[m] :
    LET s == store_buf[m][i]
    IN  \A o \in HeapObjs :
          (/\ s.what = "field" /\ s.at \in FieldsOf[o] /\ s.val \in HeapObjs
           /\ Region(s.val) # Region(o) /\ card[CardOf(o)] # "young") =>
             mut[m].pc = "membar" /\ mut[m].base = o

\* The dirty mark of card c is the oldest store of thread m that is under way.
DirtyUnderWay(m, c) ==
  store_buf[m] # <<>> /\ store_buf[m][1].what = "card" /\ store_buf[m][1].at = c

\* A dirty card is queued.
DirtyInv ==
  \A c \in DOMAIN card : card[c] = "dirty" =>
    c \in dcq_done \/ \E m \in Mutators : c \in ToSet(dcq[m])

\* A reference into another region is remembered, or its card will be refined
\* after now: being queued is not enough, for the refinement thread drops a queued
\* card that is clean.
RememberedInv ==
  \A o \in HeapObjs : \A l \in FieldsOf[o] :
    CrossRegion(heap, card, o, l) =>
      \/ CardOf(o) \in remset[Region(heap[l])]
      \/ CardOf(o) = refining
      \/ card[CardOf(o)] = "dirty"
      \/ \E m \in Mutators : \/ DirtyUnderWay(m, CardOf(o))
                             \/ (mut[m].pc = "membar" /\ mut[m].base = o)

G1Inv ==
  /\ G1TypeInv /\ TableInv /\ MembarInv /\ CardStoreInv /\ FieldStoreInv
  /\ DirtyInv /\ RememberedInv

-----------------------------------------------------------------------------
LEMMA HeapFacts ==
  /\ \A o \in HeapObjs : o \in Objs /\ o \in Nat /\ o # 0
  /\ 0 \notin HeapObjs
  /\ \A o \in Objs : o \in Nat /\ CardOf(o) \in Nat /\ CardOf(o) # -1
<1>1. \A o \in Objs : o \in Nat /\ o # 0
  BY G1Assumption
<1>2. ASSUME NEW o \in Objs PROVE CardOf(o) \in Nat
  BY <1>1, G1Assumption DEF CardOf
<1> QED BY <1>1, <1>2, SMT DEF HeapObjs

\* The unsigned comparison is exact for the addresses that objects have.
LEMMA HeapAddresses ==
  ASSUME NEW o \in Objs, IsHeapAddress(o)
  PROVE  o \in HeapObjs
<1>1. o \in 1..(Wrap - 1) /\ o # HeapEnd
  BY G1Assumption
<1>2. CASE o >= HeapStart
  <2>1. (o - HeapStart) % Wrap = o - HeapStart
    BY <1>1, <1>2, G1Assumption
  <2> QED BY <1>1, <1>2, <2>1, G1Assumption DEF IsHeapAddress, HeapObjs, InHeap
<1>3. CASE o < HeapStart
  <2>1. (o - HeapStart) % Wrap = o - HeapStart + Wrap
    BY <1>1, <1>3, G1Assumption
  <2> QED BY <1>1, <1>3, <2>1, G1Assumption DEF IsHeapAddress
<1> QED BY <1>1, <1>2, <1>3, G1Assumption

\* The card of an object of the heap is in the table.
LEMMA HeapCards ==
  ASSUME NEW o \in HeapObjs
  PROVE  InHeap(CardOf(o) * CardWords)
<1> DEFINE q == o \div CardWords
           k == HeapStart \div CardWords
<1>1. /\ o \in Nat /\ o >= HeapStart /\ o < HeapEnd
      /\ HeapStart \in Nat /\ HeapEnd \in Nat /\ CardWords \in Nat /\ CardWords > 0
  BY HeapFacts, G1Assumption DEF HeapObjs, InHeap
<1>2. q \in Nat /\ q * CardWords <= o /\ o < (q + 1) * CardWords
  BY <1>1
<1>3. k \in Nat /\ k * CardWords = HeapStart
  BY <1>1, G1Assumption
<1>4. q >= k
  <2> SUFFICES ASSUME q + 1 <= k PROVE FALSE
    BY <1>2, <1>3
  <2>1. (q + 1) * CardWords <= k * CardWords
    BY <1>1, <1>2, <1>3
  <2> QED BY <2>1, <1>1, <1>2, <1>3
<1>5. q * CardWords >= k * CardWords
  BY <1>1, <1>2, <1>3, <1>4
<1> QED BY <1>1, <1>2, <1>3, <1>5 DEF InHeap, CardOf

\* A thread finds a card young only if it is.
LEMMA YoungCard ==
  ASSUME CardStoreInv, NEW m \in Mutators, NEW c \in DOMAIN card, Card(m, c) # "young"
  PROVE  card[c] # "young"
<1> DEFINE own == {i \in DOMAIN store_buf[m] : store_buf[m][i].at = c /\ store_buf[m][i].what = "card"}
<1>1. CASE own = {}
  BY <1>1 DEF Card, Read
<1>2. CASE own # {}
  BY <1>2 DEF CardStoreInv
<1> QED BY <1>1, <1>2

\* Nothing is lost when a queue is handed over.
LEMMA EnqueueKeeps ==
  ASSUME NEW q \in Seq(Int), NEW done, NEW e \in Int
  PROVE  LET r == Enqueue(q, done, e)
         IN  /\ r.q \in Seq(Int)
             /\ e \in ToSet(r.q)
             /\ \A c \in ToSet(q) \cup done : c \in ToSet(r.q) \cup r.done
<1>1. CASE Len(q) < QueueSize
  <2> DEFINE r == Append(q, e)
  <2>1. r \in Seq(Int) /\ Len(r) = Len(q) + 1 /\ r[Len(q) + 1] = e /\ \A i \in 1..Len(q) : r[i] = q[i]
    OBVIOUS
  <2>2. DOMAIN r = 1..(Len(q) + 1) /\ DOMAIN q = 1..Len(q) /\ Len(q) \in Nat
    BY <2>1
  <2> HIDE DEF r
  <2>3. e \in ToSet(r) /\ \A c \in ToSet(q) : c \in ToSet(r)
    BY <2>1, <2>2 DEF ToSet
  <2>4. Enqueue(q, done, e) = [q |-> r, done |-> done]
    BY <1>1 DEF Enqueue, r
  <2> QED BY <2>1, <2>3, <2>4
<1>2. CASE ~(Len(q) < QueueSize)
  <2>1. Enqueue(q, done, e) = [q |-> <<e>>, done |-> done \cup ToSet(q)]
    BY <1>2 DEF Enqueue
  <2>2. <<e>> \in Seq(Int) /\ e \in ToSet(<<e>>)
    BY DEF ToSet
  <2> QED BY <2>1, <2>2
<1> QED BY <1>1, <1>2

remVars == <<heap, card, store_buf, mut, dcq, dcq_done, refining, remset>>

LEMMA NextCases ==
  ASSUME [G1Next]_g1Vars
  PROVE  \/ UNCHANGED remVars
         \/ \E m \in Mutators :
              \/ \E o \in Objs : \E l \in FieldsOf[o], v \in {0} \cup HeapObjs : PreBarrierOfStore(m, o, l, v)
              \/ StoreField(m) \/ MarkCard(m) \/ DrainStore(m)
         \/ \E c \in DOMAIN card : CleanCard(c)
         \/ RefineCard
<1>1. CASE UNCHANGED g1Vars
  BY <1>1 DEF g1Vars, remVars
<1>2. ASSUME NEW m \in Mutators, NEW l \in DOMAIN heap, LoadField(m, l) PROVE UNCHANGED remVars
  BY <1>2 DEF LoadField, remVars
<1>3. ASSUME NEW m \in Mutators, NewObject(m) PROVE UNCHANGED remVars
  BY <1>3 DEF NewObject, remVars, queueVars
<1>4. ASSUME NEW dead, StartMarking(dead) PROVE UNCHANGED remVars
  BY <1>4 DEF StartMarking, remVars, queueVars
<1>5. CASE Remark
  BY <1>5 DEF Remark, remVars
<1>6. ASSUME NEW o \in HeapObjs, MarkObject(o) PROVE UNCHANGED remVars
  BY <1>6 DEF MarkObject, remVars, queueVars
<1> QED BY <1>1, <1>2, <1>3, <1>4, <1>5, <1>6, Zenon DEF G1Next, Mutate

-----------------------------------------------------------------------------
LEMMA TypeInductive ==
  ASSUME G1Inv, [G1Next]_g1Vars
  PROVE  G1TypeInv'
<1> USE DEF G1TypeInv
<1>1. CASE UNCHANGED remVars
  BY <1>1 DEF G1Inv, remVars
<1>2. ASSUME NEW m \in Mutators, NEW o \in Objs, NEW l \in FieldsOf[o], NEW v \in {0} \cup HeapObjs,
             PreBarrierOfStore(m, o, l, v)
      PROVE  G1TypeInv'
  <2>1. [pc |-> "store", base |-> o, loc |-> l, val |-> v] \in Writes
    BY DEF Writes, Locations
  <2> QED BY <1>2, <2>1 DEF G1Inv, PreBarrierOfStore
<1>3. ASSUME NEW m \in Mutators, StoreField(m) PROVE G1TypeInv'
  <2> DEFINE s == [what |-> "field", at |-> mut[m].loc, val |-> mut[m].val]
  <2>1. mut[m] \in Writes /\ mut[m].base \in Objs /\ mut[m].loc \in FieldsOf[mut[m].base]
    BY <1>3 DEF G1Inv, StoreField
  <2>2. s \in FieldStores \cup CardStores
    BY <2>1 DEF Writes, FieldStores, Locations
  <2>3. Waiting(mut[m]) \in Writes /\ IdleMut \in Writes
    BY <2>1 DEF Writes, Waiting, IdleMut
  <2>4. store_buf' \in [Mutators -> Seq(FieldStores \cup CardStores)]
    <3>1. Append(store_buf[m], s) \in Seq(FieldStores \cup CardStores)
      BY <2>2 DEF G1Inv
    <3>2. store_buf' = [store_buf EXCEPT ![m] = Append(@, s)]
      BY <1>3 DEF StoreField
    <3> QED BY <3>1, <3>2 DEF G1Inv
  <2>5. mut' = [mut EXCEPT ![m] = Waiting(mut[m])] \/ mut' = [mut EXCEPT ![m] = IdleMut]
    BY <1>3 DEF StoreField
  <2>6. mut' \in [Mutators -> Writes] /\ \A k \in Mutators : mut'[k].pc # "idle" => mut'[k].base \in Objs /\ mut'[k].loc \in FieldsOf[mut'[k].base]
    <3>1. Waiting(mut[m]).base = mut[m].base /\ Waiting(mut[m]).loc = mut[m].loc /\ IdleMut.pc = "idle"
      BY DEF Waiting, IdleMut
    <3> QED BY <2>1, <2>3, <2>5, <3>1 DEF G1Inv
  <2> QED BY <1>3, <2>4, <2>6 DEF G1Inv, StoreField, queueVars
<1>4. ASSUME NEW m \in Mutators, MarkCard(m) PROVE G1TypeInv'
  <2> DEFINE c == CardOf(mut[m].base)
             s == [what |-> "card", at |-> c, val |-> "dirty"]
             e == Enqueue(dcq[m], dcq_done, c)
  <2>1. mut[m].base \in Objs /\ c \in Int
    BY <1>4, HeapFacts DEF G1Inv, MarkCard
  <2>2. s \in FieldStores \cup CardStores
    BY <2>1 DEF CardStores
  <2>3. e.q \in Seq(Int)
    BY <2>1, EnqueueKeeps DEF G1Inv
  <2>4. /\ store_buf' = store_buf \/ store_buf' = [store_buf EXCEPT ![m] = Append(@, s)]
        /\ dcq' = dcq \/ dcq' = [dcq EXCEPT ![m] = e.q]
        /\ mut' = [mut EXCEPT ![m] = IdleMut]
        /\ UNCHANGED <<heap, card, remset>>
    BY <1>4 DEF MarkCard
  <2> HIDE DEF s, e, c
  <2>5. store_buf' \in [Mutators -> Seq(FieldStores \cup CardStores)]
    <3>1. Append(store_buf[m], s) \in Seq(FieldStores \cup CardStores)
      BY <2>2 DEF G1Inv
    <3> QED BY <3>1, <2>4 DEF G1Inv
  <2>6. mut' \in [Mutators -> Writes] /\ \A k \in Mutators : mut'[k].pc # "idle" => mut'[k].base \in Objs /\ mut'[k].loc \in FieldsOf[mut'[k].base]
    BY <2>4 DEF G1Inv, IdleMut, Writes
  <2> QED BY <2>3, <2>4, <2>5, <2>6 DEF G1Inv
<1>5. ASSUME NEW m \in Mutators, DrainStore(m) PROVE G1TypeInv'
  <2> DEFINE s == Head(store_buf[m])
  <2>1. store_buf[m] \in Seq(FieldStores \cup CardStores) /\ store_buf[m] # <<>>
    BY <1>5 DEF DrainStore, G1Inv
  <2>2. s \in FieldStores \cup CardStores /\ Tail(store_buf[m]) \in Seq(FieldStores \cup CardStores)
    BY <2>1
  <2>3. store_buf' = [store_buf EXCEPT ![m] = Tail(@)] /\ UNCHANGED <<mut, dcq, remset>>
    BY <1>5 DEF DrainStore, queueVars
  <2>4. store_buf' \in [Mutators -> Seq(FieldStores \cup CardStores)]
    BY <2>2, <2>3 DEF G1Inv
  <2>5. DOMAIN heap' = DOMAIN heap /\ DOMAIN card' = DOMAIN card
    BY <1>5 DEF DrainStore
  <2>6. \A c \in DOMAIN card : card'[c] \in CardStates
    <3>1. s.what = "card" => s.val = "dirty"
      BY <2>2 DEF FieldStores, CardStores
    <3> QED BY <1>5, <3>1 DEF DrainStore, G1Inv, CardStates
  <2> QED BY <2>3, <2>4, <2>5, <2>6 DEF G1Inv
<1>6. ASSUME NEW c \in DOMAIN card, CleanCard(c) PROVE G1TypeInv'
  BY <1>6 DEF G1Inv, CleanCard, CardStates
<1>7. CASE RefineCard
  BY <1>7 DEF G1Inv, RefineCard, queueVars
<1> QED BY <1>1, <1>2, <1>3, <1>4, <1>5, <1>6, <1>7, NextCases

LEMMA TableInductive ==
  ASSUME G1Inv, [G1Next]_g1Vars
  PROVE  TableInv'
<1> USE DEF TableInv
<1>1. CASE UNCHANGED card
  BY <1>1 DEF G1Inv
<1>2. ASSUME NEW m \in Mutators, DrainStore(m) PROVE TableInv'
  <2> DEFINE s == store_buf[m][1]
  <2>1. store_buf[m] \in Seq(FieldStores \cup CardStores) /\ store_buf[m] # <<>>
    BY <1>2 DEF DrainStore, G1Inv, G1TypeInv
  <2>2. s = Head(store_buf[m]) /\ 1 \in DOMAIN store_buf[m] /\ s \in FieldStores \cup CardStores
    BY <2>1
  <2>3. s.what = "card" => s.val = "dirty" /\ s.at \in DOMAIN card /\ card[s.at] \notin {"young", "foreign"}
    BY <2>2 DEF FieldStores, CardStores, G1Inv, CardStoreInv
  <2>4. card' = IF s.what = "card" THEN [card EXCEPT ![s.at] = s.val] ELSE card
    BY <1>2, <2>2 DEF DrainStore
  <2>5. CardOf(FreshObject) \in DOMAIN card
    BY G1Assumption, HeapFacts DEF G1Inv, G1TypeInv
  <2> HIDE DEF s
  <2> QED BY <2>3, <2>4, <2>5 DEF G1Inv
<1>3. ASSUME NEW c \in DOMAIN card, CleanCard(c) PROVE TableInv'
  <2>1. CardOf(FreshObject) \in DOMAIN card
    BY G1Assumption, HeapFacts DEF G1Inv, G1TypeInv
  <2> QED BY <1>3, <2>1 DEF CleanCard, G1Inv
<1>4. UNCHANGED card \/ (\E m \in Mutators : DrainStore(m)) \/ (\E c \in DOMAIN card : CleanCard(c))
  BY NextCases, Zenon DEF remVars, PreBarrierOfStore, StoreField, MarkCard, RefineCard
<1> QED BY <1>1, <1>2, <1>3, <1>4

\* No step makes a card young, and none makes a young card old.
LEMMA YoungStable ==
  ASSUME G1Inv, [G1Next]_g1Vars
  PROVE  /\ DOMAIN card' = DOMAIN card
         /\ \A c \in DOMAIN card : /\ card'[c] = "young" <=> card[c] = "young"
                                   /\ card'[c] = "foreign" <=> card[c] = "foreign"
<1>1. CASE UNCHANGED card
  BY <1>1
<1>2. ASSUME NEW m \in Mutators, DrainStore(m)
      PROVE  /\ DOMAIN card' = DOMAIN card
             /\ \A c \in DOMAIN card : /\ card'[c] = "young" <=> card[c] = "young"
                                       /\ card'[c] = "foreign" <=> card[c] = "foreign"
  <2> DEFINE s == store_buf[m][1]
  <2>1. store_buf[m] \in Seq(FieldStores \cup CardStores) /\ store_buf[m] # <<>>
    BY <1>2 DEF DrainStore, G1Inv, G1TypeInv
  <2>2. s = Head(store_buf[m]) /\ 1 \in DOMAIN store_buf[m] /\ s \in FieldStores \cup CardStores
    BY <2>1
  <2>3. s.what = "card" => s.val = "dirty" /\ s.at \in DOMAIN card /\ card[s.at] \notin {"young", "foreign"}
    BY <2>2 DEF FieldStores, CardStores, G1Inv, CardStoreInv
  <2>4. card' = IF s.what = "card" THEN [card EXCEPT ![s.at] = s.val] ELSE card
    BY <1>2, <2>2 DEF DrainStore
  <2> HIDE DEF s
  <2> QED BY <2>3, <2>4
<1>3. ASSUME NEW d \in DOMAIN card, CleanCard(d)
      PROVE  /\ DOMAIN card' = DOMAIN card
             /\ \A c \in DOMAIN card : /\ card'[c] = "young" <=> card[c] = "young"
                                       /\ card'[c] = "foreign" <=> card[c] = "foreign"
  BY <1>3 DEF CleanCard
<1>4. UNCHANGED card \/ (\E m \in Mutators : DrainStore(m)) \/ (\E c \in DOMAIN card : CleanCard(c))
  BY NextCases, Zenon DEF remVars, PreBarrierOfStore, StoreField, MarkCard, RefineCard
<1> QED BY <1>1, <1>2, <1>3, <1>4

LEMMA MembarInductive ==
  ASSUME G1Inv, [G1Next]_g1Vars
  PROVE  MembarInv'
<1> SUFFICES ASSUME NEW k \in Mutators, mut'[k].pc = "membar"
             PROVE  mut'[k].base \in HeapObjs /\ card'[CardOf(mut'[k].base)] # "young"
  BY DEF MembarInv
<1>1. CASE mut'[k] = mut[k]
  <2>1. mut[k].base \in HeapObjs /\ card[CardOf(mut[k].base)] # "young" /\ CardOf(mut[k].base) \in DOMAIN card
    BY <1>1, HeapFacts DEF G1Inv, MembarInv, G1TypeInv
  <2> QED BY <1>1, <2>1, YoungStable
<1>2. ASSUME NEW m \in Mutators, StoreField(m), mut'[k] # mut[k]
      PROVE  mut'[k].base \in HeapObjs /\ card'[CardOf(mut'[k].base)] # "young"
  <2>1. k = m /\ Passes(m, mut[m]) /\ mut'[m] = Waiting(mut[m]) /\ card' = card
    <3>1. (mut' = [mut EXCEPT ![m] = Waiting(mut[m])] /\ Passes(m, mut[m])) \/ mut' = [mut EXCEPT ![m] = IdleMut]
      BY <1>2 DEF StoreField
    <3>2. mut \in [Mutators -> Writes] /\ IdleMut.pc = "idle"
      BY DEF G1Inv, G1TypeInv, IdleMut
    <3> QED BY <1>2, <3>1, <3>2 DEF StoreField
  <2>2. mut[m].base \in Objs
    BY <1>2 DEF StoreField, G1Inv, G1TypeInv
  <2>3. mut[m].base \in HeapObjs /\ Card(m, CardOf(mut[m].base)) # "young"
    BY <2>1, <2>2, HeapAddresses DEF Passes
  <2>4. CardOf(mut[m].base) \in DOMAIN card
    BY <2>2 DEF G1Inv, G1TypeInv
  <2>5. card[CardOf(mut[m].base)] # "young"
    BY <2>3, <2>4, YoungCard DEF G1Inv
  <2>6. mut'[k].base = mut[m].base
    BY <2>1 DEF Waiting
  <2> QED BY <2>1, <2>3, <2>5, <2>6
<1>3. ASSUME NEW m \in Mutators, MarkCard(m) PROVE mut'[k] = mut[k]
  <2>1. mut' = [mut EXCEPT ![m] = IdleMut] /\ IdleMut.pc = "idle" /\ mut \in [Mutators -> Writes]
    BY <1>3 DEF MarkCard, IdleMut, G1Inv, G1TypeInv
  <2> QED BY <2>1
<1>4. ASSUME NEW m \in Mutators, NEW o, NEW l, NEW v, PreBarrierOfStore(m, o, l, v) PROVE mut'[k] = mut[k]
  <2>1. mut' = [mut EXCEPT ![m] = [pc |-> "store", base |-> o, loc |-> l, val |-> v]] /\ mut \in [Mutators -> Writes]
    BY <1>4 DEF PreBarrierOfStore, G1Inv, G1TypeInv
  <2> QED BY <2>1
<1>5. (mut'[k] = mut[k]) \/ (\E m \in Mutators : StoreField(m))
  BY <1>3, <1>4, NextCases, Zenon DEF remVars, DrainStore, CleanCard, RefineCard
<1> QED BY <1>1, <1>2, <1>5

LEMMA BufferFacts ==
  ASSUME NEW S, NEW b \in Seq(S), NEW s \in S
  PROVE  /\ Append(b, s) \in Seq(S) /\ DOMAIN Append(b, s) = 1..(Len(b) + 1)
         /\ DOMAIN b = 1..Len(b) /\ Len(b) \in Nat
         /\ Append(b, s)[Len(b) + 1] = s
         /\ \A i \in DOMAIN b : Append(b, s)[i] = b[i]
         /\ b # <<>> => /\ Head(b) = b[1] /\ 1 \in DOMAIN b
                        /\ \A i \in DOMAIN Tail(b) : i \in Nat /\ i # 0 /\ i + 1 \in DOMAIN b /\ Tail(b)[i] = b[i + 1]
OBVIOUS

\* What a store and the rest of its barrier do to the store buffers
LEMMA StoreStep ==
  ASSUME G1TypeInv, NEW m \in Mutators, StoreField(m)
  PROVE  LET s == [what |-> "field", at |-> mut[m].loc, val |-> mut[m].val]
         IN  /\ s \in FieldStores /\ mut[m].base \in Objs /\ mut[m].loc \in FieldsOf[mut[m].base]
             /\ store_buf' = [store_buf EXCEPT ![m] = Append(@, s)]
<1>1. mut[m] \in Writes /\ mut[m].base \in Objs /\ mut[m].loc \in FieldsOf[mut[m].base]
  BY DEF G1TypeInv, StoreField
<1>2. [what |-> "field", at |-> mut[m].loc, val |-> mut[m].val] \in FieldStores
  BY <1>1 DEF Writes, FieldStores, Locations
<1> QED BY <1>1, <1>2 DEF StoreField

\* The barrier of an object marks a card of the table, and an empty store buffer
\* shows the thread what is in memory.
LEMMA MarkStep ==
  ASSUME G1Inv, NEW m \in Mutators, MarkCard(m)
  PROVE  LET c == CardOf(mut[m].base)
             s == [what |-> "card", at |-> c, val |-> "dirty"]
             e == Enqueue(dcq[m], dcq_done, c)
         IN  /\ mut[m].base \in HeapObjs /\ c \in DOMAIN card /\ c \in Int /\ s \in CardStores
             /\ card[c] \notin {"young", "foreign"}
             /\ store_buf[m] = <<>>
             /\ mut' = [mut EXCEPT ![m] = IdleMut]
             /\ \/ card[c] = "dirty" /\ UNCHANGED <<store_buf, dcq, dcq_done>>
                \/ /\ store_buf' = [store_buf EXCEPT ![m] = Append(@, s)]
                   /\ dcq' = [dcq EXCEPT ![m] = e.q] /\ dcq_done' = e.done
<1> DEFINE c == CardOf(mut[m].base)
<1>1. mut[m].base \in HeapObjs /\ mut[m].base \in Objs /\ card[c] # "young"
  BY HeapFacts DEF MarkCard, G1Inv, MembarInv
<1>2. c \in DOMAIN card /\ c \in Int
  BY <1>1, HeapFacts DEF G1Inv, G1TypeInv
<1>3. card[c] # "foreign"
  BY <1>1, <1>2, HeapCards DEF G1Inv, TableInv
<1>4. [what |-> "card", at |-> c, val |-> "dirty"] \in CardStores
  BY <1>2 DEF CardStores
<1>5. store_buf[m] = <<>>
  BY DEF MarkCard, MemBarVolatile
<1>6. Card(m, c) = card[c]
  BY <1>5 DEF Card, Read
<1> QED BY <1>1, <1>2, <1>3, <1>4, <1>5, <1>6 DEF MarkCard

LEMMA DrainStep ==
  ASSUME G1Inv, NEW m \in Mutators, DrainStore(m)
  PROVE  LET s == store_buf[m][1]
         IN  /\ store_buf[m] # <<>> /\ 1 \in DOMAIN store_buf[m]
             /\ s \in FieldStores \cup CardStores
             /\ store_buf' = [store_buf EXCEPT ![m] = Tail(@)]
             /\ \A i \in DOMAIN Tail(store_buf[m]) :
                  i \in Nat /\ i # 0 /\ i + 1 \in DOMAIN store_buf[m] /\ Tail(store_buf[m])[i] = store_buf[m][i + 1]
             /\ heap' = IF s.what = "field" THEN [heap EXCEPT ![s.at] = s.val] ELSE heap
             /\ card' = IF s.what = "card" THEN [card EXCEPT ![s.at] = "dirty"] ELSE card
<1>1. store_buf[m] \in Seq(FieldStores \cup CardStores) /\ store_buf[m] # <<>>
  BY DEF DrainStore, G1Inv, G1TypeInv
<1>2. store_buf[m][1] \in FieldStores \cup CardStores
  BY <1>1
<1>3. /\ Head(store_buf[m]) = store_buf[m][1] /\ 1 \in DOMAIN store_buf[m]
      /\ \A i \in DOMAIN Tail(store_buf[m]) :
           i \in Nat /\ i # 0 /\ i + 1 \in DOMAIN store_buf[m] /\ Tail(store_buf[m])[i] = store_buf[m][i + 1]
  BY <1>1, <1>2, BufferFacts
<1>4. store_buf[m][1].what = "card" => store_buf[m][1].val = "dirty"
  BY <1>2 DEF FieldStores, CardStores
<1> QED BY <1>1, <1>2, <1>3, <1>4 DEF DrainStore

LEMMA CardStoreInductive ==
  ASSUME G1Inv, [G1Next]_g1Vars
  PROVE  CardStoreInv'
<1> SUFFICES ASSUME NEW k \in Mutators, NEW i \in DOMAIN store_buf'[k], store_buf'[k][i].what = "card"
             PROVE  /\ i = 1 /\ store_buf'[k][i].at \in ToSet(dcq'[k])
                    /\ store_buf'[k][i].at \in DOMAIN card' /\ card'[store_buf'[k][i].at] \notin {"young", "foreign"}
  BY DEF CardStoreInv
<1> DEFINE Goal == /\ i = 1 /\ store_buf'[k][i].at \in ToSet(dcq'[k])
                   /\ store_buf'[k][i].at \in DOMAIN card' /\ card'[store_buf'[k][i].at] \notin {"young", "foreign"}
<1>0. store_buf \in [Mutators -> Seq(FieldStores \cup CardStores)] /\ dcq \in [Mutators -> Seq(Int)]
  BY DEF G1Inv, G1TypeInv
<1>1. ASSUME dcq'[k] = dcq[k], i \in DOMAIN store_buf[k], store_buf'[k][i] = store_buf[k][i] PROVE Goal
  <2>1. /\ i = 1 /\ store_buf[k][i].at \in ToSet(dcq[k])
        /\ store_buf[k][i].at \in DOMAIN card /\ card[store_buf[k][i].at] \notin {"young", "foreign"}
    BY <1>1 DEF G1Inv, CardStoreInv
  <2> QED BY <1>1, <2>1, YoungStable
<1>2. CASE dcq' = dcq /\ store_buf' = store_buf
  BY <1>1, <1>2
<1>3. ASSUME NEW m \in Mutators, StoreField(m) PROVE Goal
  <2> DEFINE s == [what |-> "field", at |-> mut[m].loc, val |-> mut[m].val]
  <2>1. s \in FieldStores \cup CardStores /\ store_buf' = [store_buf EXCEPT ![m] = Append(@, s)] /\ dcq' = dcq
    BY <1>3, StoreStep DEF G1Inv, StoreField, queueVars
  <2>2. s.what = "field"
    OBVIOUS
  <2> HIDE DEF s
  <2>3. CASE k = m
    <3>1. store_buf'[k] = Append(store_buf[k], s) /\ store_buf[k] \in Seq(FieldStores \cup CardStores)
      BY <1>0, <2>1, <2>3
    <3>2. i \in 1..(Len(store_buf[k]) + 1) /\ DOMAIN store_buf[k] = 1..Len(store_buf[k]) /\ Len(store_buf[k]) \in Nat
      BY <2>1, <3>1, BufferFacts
    <3>3. Append(store_buf[k], s)[Len(store_buf[k]) + 1] = s /\ \A j \in DOMAIN store_buf[k] : Append(store_buf[k], s)[j] = store_buf[k][j]
      BY <2>1, <3>1, BufferFacts
    <3>4. i # Len(store_buf[k]) + 1
      BY <2>2, <3>1, <3>3
    <3>5. i \in DOMAIN store_buf[k]
      BY <3>2, <3>4
    <3> QED BY <1>1, <2>1, <3>1, <3>3, <3>5
  <2>4. CASE k # m
    BY <1>0, <1>1, <2>1, <2>4
  <2> QED BY <2>3, <2>4
<1>4. ASSUME NEW m \in Mutators, MarkCard(m) PROVE Goal
  <2> DEFINE c == CardOf(mut[m].base)
             s == [what |-> "card", at |-> c, val |-> "dirty"]
             e == Enqueue(dcq[m], dcq_done, c)
  <2>1. /\ c \in DOMAIN card /\ c \in Int /\ card[c] \notin {"young", "foreign"} /\ store_buf[m] = <<>>
        /\ \/ UNCHANGED <<store_buf, dcq>>
           \/ store_buf' = [store_buf EXCEPT ![m] = Append(@, s)] /\ dcq' = [dcq EXCEPT ![m] = e.q]
        /\ s.at = c
    BY <1>4, MarkStep
  <2>2. c \in ToSet(e.q)
    BY <1>0, <2>1, EnqueueKeeps
  <2> HIDE DEF c, s, e
  <2>3. CASE k = m
    <3>1. store_buf'[k] = Append(<<>>, s) /\ dcq'[k] = e.q
      BY <1>0, <2>1, <2>3
    <3>2. i = 1 /\ store_buf'[k][i] = s
      BY <3>1
    <3> QED BY <2>1, <2>2, <3>1, <3>2, YoungStable
  <2>4. CASE k # m
    BY <1>0, <1>1, <2>1, <2>4
  <2> QED BY <2>3, <2>4
<1>5. ASSUME NEW m \in Mutators, DrainStore(m) PROVE Goal
  <2>1. /\ store_buf' = [store_buf EXCEPT ![m] = Tail(@)] /\ dcq' = dcq
        /\ \A j \in DOMAIN Tail(store_buf[m]) :
             j \in Nat /\ j # 0 /\ j + 1 \in DOMAIN store_buf[m] /\ Tail(store_buf[m])[j] = store_buf[m][j + 1]
    BY <1>5, DrainStep DEF DrainStore, queueVars
  <2>2. CASE k = m
    <3>1. i \in DOMAIN Tail(store_buf[m]) /\ store_buf'[k][i] = Tail(store_buf[m])[i]
      BY <1>0, <2>1, <2>2
    <3>2. i \in Nat /\ i # 0 /\ i + 1 \in DOMAIN store_buf[m] /\ store_buf[m][i + 1].what = "card"
      BY <2>1, <3>1
    <3>3. i + 1 = 1
      BY <3>2 DEF G1Inv, CardStoreInv
    <3> QED BY <3>2, <3>3
  <2>3. CASE k # m
    BY <1>0, <1>1, <2>1, <2>3
  <2> QED BY <2>2, <2>3
<1>6. (dcq' = dcq /\ store_buf' = store_buf) \/ (\E m \in Mutators : StoreField(m) \/ MarkCard(m) \/ DrainStore(m))
  BY NextCases, Zenon DEF remVars, PreBarrierOfStore, CleanCard, RefineCard, queueVars
<1> QED BY <1>2, <1>3, <1>4, <1>5, <1>6

\* A thread finds every young card young, and every address of the heap in it.
LEMMA OldCard ==
  ASSUME G1TypeInv, CardStoreInv, NEW m \in Mutators, NEW c \in DOMAIN card, card[c] # "young"
  PROVE  Card(m, c) # "young"
<1> DEFINE own == {i \in DOMAIN store_buf[m] : store_buf[m][i].at = c /\ store_buf[m][i].what = "card"}
<1>1. CASE own = {}
  BY <1>1 DEF Card, Read
<1>2. CASE own # {}
  <2>1. own = {1} /\ 1 \in DOMAIN store_buf[m]
    BY <1>2 DEF CardStoreInv
  <2>2. (CHOOSE i \in own : \A j \in own : j <= i) = 1
    BY <2>1
  <2>3. store_buf[m][1] \in FieldStores \cup CardStores /\ store_buf[m][1].what = "card"
    BY <2>1 DEF G1TypeInv
  <2>4. store_buf[m][1].val = "dirty"
    BY <2>3 DEF FieldStores, CardStores
  <2>5. Card(m, c) = store_buf[m][CHOOSE i \in own : \A j \in own : j <= i].val
    BY <1>2 DEF Card, Read
  <2> QED BY <2>2, <2>4, <2>5
<1> QED BY <1>1, <1>2

LEMMA HeapIsHeapAddress ==
  ASSUME NEW o \in HeapObjs
  PROVE  IsHeapAddress(o)
<1>1. o \in Nat /\ o >= HeapStart /\ o < HeapEnd /\ HeapStart \in Nat /\ HeapEnd \in Nat /\ Wrap \in Nat /\ HeapEnd <= Wrap
  BY HeapFacts, G1Assumption DEF HeapObjs, InHeap
<1>2. (o - HeapStart) % Wrap = o - HeapStart
  BY <1>1
<1> QED BY <1>1, <1>2 DEF IsHeapAddress

LEMMA FieldStoreInductive ==
  ASSUME G1Inv, [G1Next]_g1Vars
  PROVE  FieldStoreInv'
<1> SUFFICES ASSUME NEW k \in Mutators, NEW i \in DOMAIN store_buf'[k], NEW o \in HeapObjs,
                    store_buf'[k][i].what = "field", store_buf'[k][i].at \in FieldsOf[o],
                    store_buf'[k][i].val \in HeapObjs, Region(store_buf'[k][i].val) # Region(o),
                    card'[CardOf(o)] # "young"
             PROVE  mut'[k].pc = "membar" /\ mut'[k].base = o
  BY DEF FieldStoreInv
<1> DEFINE Goal == mut'[k].pc = "membar" /\ mut'[k].base = o
<1>0. /\ store_buf \in [Mutators -> Seq(FieldStores \cup CardStores)] /\ mut \in [Mutators -> Writes]
      /\ o \in Objs /\ CardOf(o) \in DOMAIN card /\ card[CardOf(o)] # "young"
  BY HeapFacts, YoungStable DEF G1Inv, G1TypeInv
<1>1. ASSUME NEW j \in DOMAIN store_buf[k], store_buf'[k][i] = store_buf[k][j]
      PROVE  mut[k].pc = "membar" /\ mut[k].base = o
  BY <1>0, <1>1 DEF G1Inv, FieldStoreInv
<1>2. CASE mut' = mut /\ store_buf' = store_buf
  BY <1>1, <1>2
<1>3. ASSUME NEW m \in Mutators, NEW q, NEW l, NEW v, PreBarrierOfStore(m, q, l, v) PROVE Goal
  <2>1. mut[k].pc = "membar" /\ mut[k].base = o
    BY <1>1, <1>3 DEF PreBarrierOfStore
  <2>2. k # m
    BY <1>3, <2>1 DEF PreBarrierOfStore
  <2>3. mut'[k] = mut[k]
    BY <1>0, <1>3, <2>2 DEF PreBarrierOfStore
  <2> QED BY <2>1, <2>3
<1>4. ASSUME NEW m \in Mutators, StoreField(m) PROVE Goal
  <2> DEFINE s == [what |-> "field", at |-> mut[m].loc, val |-> mut[m].val]
  <2>1. s \in FieldStores \cup CardStores /\ store_buf' = [store_buf EXCEPT ![m] = Append(@, s)]
    BY <1>4, StoreStep DEF G1Inv
  <2>2. s.at = mut[m].loc /\ s.val = mut[m].val /\ mut[m].base \in Objs /\ mut[m].loc \in FieldsOf[mut[m].base]
    BY <1>4, StoreStep DEF G1Inv
  <2> HIDE DEF s
  <2>3. CASE k # m
    <3>1. store_buf'[k] = store_buf[k]
      BY <1>0, <2>1, <2>3
    <3>2. mut'[k] = mut[k]
      BY <1>0, <1>4, <2>3 DEF StoreField
    <3> QED BY <1>1, <3>1, <3>2
  <2>4. CASE k = m
    <3>1. store_buf'[k] = Append(store_buf[k], s) /\ store_buf[k] \in Seq(FieldStores \cup CardStores)
      BY <1>0, <2>1, <2>4
    <3>2. i \in 1..(Len(store_buf[k]) + 1) /\ DOMAIN store_buf[k] = 1..Len(store_buf[k]) /\ Len(store_buf[k]) \in Nat
      BY <2>1, <3>1, BufferFacts
    <3>3. Append(store_buf[k], s)[Len(store_buf[k]) + 1] = s /\ \A j \in DOMAIN store_buf[k] : Append(store_buf[k], s)[j] = store_buf[k][j]
      BY <2>1, <3>1, BufferFacts
    <3>4. i \notin DOMAIN store_buf[k]
      <4> SUFFICES ASSUME i \in DOMAIN store_buf[k] PROVE FALSE
        OBVIOUS
      <4>1. mut[k].pc = "membar"
        BY <1>1, <3>1, <3>3
      <4> QED BY <1>4, <2>4, <4>1 DEF StoreField
    <3>5. i = Len(store_buf[k]) + 1
      BY <3>2, <3>4
    <3>6. store_buf'[k][i] = s
      BY <3>1, <3>3, <3>5
    <3>7. mut[m].base = o
      BY <1>0, <2>2, <3>6, G1Assumption
    <3>8. Passes(m, mut[m])
      <4>1. Region(mut[m].base) # Region(mut[m].val) /\ mut[m].val # 0
        BY <2>2, <3>6, <3>7, HeapFacts
      <4>2. Card(m, CardOf(mut[m].base)) # "young"
        BY <1>0, <3>7, OldCard DEF G1Inv
      <4>3. IsHeapAddress(mut[m].base)
        BY <3>7, HeapIsHeapAddress
      <4> QED BY <4>1, <4>2, <4>3 DEF Passes
    <3>9. ~CanRemovePostBarrier(m, mut[m].base)
      BY <1>0, <3>7 DEF CanRemovePostBarrier, G1Inv, TableInv
    <3>10. mut'[m] = Waiting(mut[m])
      BY <1>0, <1>4, <3>8, <3>9 DEF StoreField
    <3> QED BY <2>4, <3>7, <3>10 DEF Waiting
  <2> QED BY <2>3, <2>4
<1>5. ASSUME NEW m \in Mutators, MarkCard(m) PROVE Goal
  <2> DEFINE s == [what |-> "card", at |-> CardOf(mut[m].base), val |-> "dirty"]
  <2>1. /\ store_buf[m] = <<>> /\ s.what = "card"
        /\ store_buf' = store_buf \/ store_buf' = [store_buf EXCEPT ![m] = Append(@, s)]
        /\ mut' = [mut EXCEPT ![m] = IdleMut]
    BY <1>5, MarkStep
  <2> HIDE DEF s
  <2>2. k # m
    <3> SUFFICES ASSUME k = m PROVE FALSE
      OBVIOUS
    <3>1. store_buf'[k] = <<>> \/ store_buf'[k] = Append(<<>>, s)
      BY <1>0, <2>1
    <3>2. store_buf'[k] = <<s>> /\ i = 1
      BY <3>1
    <3> QED BY <2>1, <3>2
  <2>3. store_buf'[k] = store_buf[k] /\ mut'[k] = mut[k]
    BY <1>0, <2>1, <2>2
  <2> QED BY <1>1, <2>3
<1>6. ASSUME NEW m \in Mutators, DrainStore(m) PROVE Goal
  <2>1. /\ store_buf' = [store_buf EXCEPT ![m] = Tail(@)] /\ mut' = mut
        /\ \A j \in DOMAIN Tail(store_buf[m]) :
             j \in Nat /\ j # 0 /\ j + 1 \in DOMAIN store_buf[m] /\ Tail(store_buf[m])[j] = store_buf[m][j + 1]
    BY <1>6, DrainStep DEF DrainStore
  <2>2. CASE k = m
    <3>1. i \in DOMAIN Tail(store_buf[m]) /\ store_buf'[k][i] = Tail(store_buf[m])[i]
      BY <1>0, <2>1, <2>2
    <3> QED BY <1>1, <2>1, <2>2, <3>1
  <2>3. CASE k # m
    BY <1>0, <1>1, <2>1, <2>3
  <2> QED BY <2>2, <2>3
<1>7. \/ mut' = mut /\ store_buf' = store_buf
      \/ \E m \in Mutators : \/ \E q \in Objs : \E l \in FieldsOf[q], v \in {0} \cup HeapObjs : PreBarrierOfStore(m, q, l, v)
                             \/ StoreField(m) \/ MarkCard(m) \/ DrainStore(m)
  BY NextCases, Zenon DEF remVars, CleanCard, RefineCard
<1> QED BY <1>2, <1>3, <1>4, <1>5, <1>6, <1>7

LEMMA DirtyInductive ==
  ASSUME G1Inv, [G1Next]_g1Vars
  PROVE  DirtyInv'
<1> SUFFICES ASSUME NEW c \in DOMAIN card', card'[c] = "dirty"
             PROVE  c \in dcq_done' \/ \E m \in Mutators : c \in ToSet(dcq'[m])
  BY DEF DirtyInv
<1> DEFINE Goal == c \in dcq_done' \/ \E m \in Mutators : c \in ToSet(dcq'[m])
<1>0. dcq \in [Mutators -> Seq(Int)] /\ c \in DOMAIN card
  BY YoungStable DEF G1Inv, G1TypeInv
<1>1. card[c] = "dirty" => c \in dcq_done \/ \E m \in Mutators : c \in ToSet(dcq[m])
  BY <1>0 DEF G1Inv, DirtyInv
<1>2. CASE card' = card /\ dcq_done' = dcq_done /\ dcq' = dcq
  BY <1>1, <1>2
<1>3. ASSUME NEW m \in Mutators, MarkCard(m) PROVE Goal
  <2> DEFINE d == CardOf(mut[m].base)
             e == Enqueue(dcq[m], dcq_done, d)
  <2>1. /\ d \in Int
        /\ \/ UNCHANGED <<dcq, dcq_done>>
           \/ dcq' = [dcq EXCEPT ![m] = e.q] /\ dcq_done' = e.done
    BY <1>3, MarkStep
  <2>2. card' = card
    BY <1>3 DEF MarkCard
  <2>3. \A x \in ToSet(dcq[m]) \cup dcq_done : x \in ToSet(e.q) \cup e.done
    BY <1>0, <2>1, EnqueueKeeps
  <2> HIDE DEF e, d
  <2> QED BY <1>0, <1>1, <2>1, <2>2, <2>3
<1>4. ASSUME NEW m \in Mutators, DrainStore(m) PROVE Goal
  <2>1. dcq' = dcq /\ dcq_done' = dcq_done
    BY <1>4 DEF DrainStore, queueVars
  <2>2. CASE card[c] = "dirty"
    BY <1>1, <2>1, <2>2
  <2>3. CASE card[c] # "dirty"
    <3>1. 1 \in DOMAIN store_buf[m] /\ store_buf[m][1].what = "card" /\ store_buf[m][1].at = c
      BY <1>4, <2>3, DrainStep
    <3>2. c \in ToSet(dcq[m])
      BY <3>1 DEF G1Inv, CardStoreInv
    <3> QED BY <2>1, <3>2
  <2> QED BY <2>2, <2>3
<1>5. ASSUME NEW d \in DOMAIN card, CleanCard(d) PROVE Goal
  <2>1. dcq' = dcq /\ dcq_done' = dcq_done \ {d} /\ c # d /\ card[c] = "dirty"
    BY <1>0, <1>5 DEF CleanCard
  <2> QED BY <1>1, <2>1
<1>6. \/ card' = card /\ dcq_done' = dcq_done /\ dcq' = dcq
      \/ \E m \in Mutators : MarkCard(m) \/ DrainStore(m)
      \/ \E d \in DOMAIN card : CleanCard(d)
  <2>1. ASSUME NEW m, NEW o, NEW l, NEW v, PreBarrierOfStore(m, o, l, v) PROVE UNCHANGED <<card, dcq_done, dcq>>
    BY <2>1 DEF PreBarrierOfStore
  <2>2. ASSUME NEW m, StoreField(m) PROVE UNCHANGED <<card, dcq_done, dcq>>
    BY <2>2 DEF StoreField, queueVars
  <2> QED BY <2>1, <2>2, NextCases, Zenon DEF remVars, RefineCard, queueVars
<1> QED BY <1>2, <1>3, <1>4, <1>5, <1>6

LEMMA RememberedInductive ==
  ASSUME G1Inv, [G1Next]_g1Vars
  PROVE  RememberedInv'
<1> SUFFICES ASSUME NEW o \in HeapObjs, NEW l \in FieldsOf[o], CrossRegion(heap', card', o, l)
             PROVE  \/ CardOf(o) \in remset'[Region(heap'[l])]
                    \/ CardOf(o) = refining'
                    \/ card'[CardOf(o)] = "dirty"
                    \/ \E m \in Mutators : \/ DirtyUnderWay(m, CardOf(o))'
                                           \/ mut'[m].pc = "membar" /\ mut'[m].base = o
  BY DEF RememberedInv
<1> DEFINE Goal == \/ CardOf(o) \in remset'[Region(heap'[l])]
                   \/ CardOf(o) = refining'
                   \/ card'[CardOf(o)] = "dirty"
                   \/ \E m \in Mutators : \/ DirtyUnderWay(m, CardOf(o))'
                                          \/ mut'[m].pc = "membar" /\ mut'[m].base = o
           Then(m) == DirtyUnderWay(m, CardOf(o)) \/ (mut[m].pc = "membar" /\ mut[m].base = o)
<1>0. /\ store_buf \in [Mutators -> Seq(FieldStores \cup CardStores)] /\ mut \in [Mutators -> Writes]
      /\ o \in Objs /\ CardOf(o) \in DOMAIN card /\ l \in DOMAIN heap
      /\ CardOf(o) \in Nat /\ CardOf(o) # -1
  BY HeapFacts DEF G1Inv, G1TypeInv, Locations
<1>1. CASE heap'[l] # heap[l]
  <2>1. PICK m \in Mutators : DrainStore(m)
    BY <1>1, NextCases, Zenon DEF remVars, PreBarrierOfStore, StoreField, MarkCard, CleanCard, RefineCard
  <2>2. 1 \in DOMAIN store_buf[m] /\ store_buf[m][1].what = "field" /\ store_buf[m][1].at = l /\ heap'[l] = store_buf[m][1].val /\ card' = card
    BY <1>0, <1>1, <2>1, DrainStep
  <2>3. mut[m].pc = "membar" /\ mut[m].base = o
    BY <2>2 DEF G1Inv, FieldStoreInv, CrossRegion
  <2> QED BY <2>1, <2>3 DEF DrainStore
<1>2. CASE heap'[l] = heap[l]
  <2>1. CrossRegion(heap, card, o, l)
    BY <1>0, <1>2, YoungStable DEF CrossRegion
  <2>2. \/ CardOf(o) \in remset[Region(heap[l])]
        \/ CardOf(o) = refining
        \/ card[CardOf(o)] = "dirty"
        \/ \E m \in Mutators : Then(m)
    BY <2>1, Zenon DEF G1Inv, RememberedInv
  <2>3. heap[l] \in HeapObjs /\ Region(heap[l]) \in DOMAIN remset
    BY <2>1 DEF CrossRegion, G1Inv, G1TypeInv
  <2> DEFINE Kept == \A m \in Mutators : Then(m) => DirtyUnderWay(m, CardOf(o))' \/ (mut'[m].pc = "membar" /\ mut'[m].base = o)
  <2>4. ASSUME remset' = remset, refining' = refining, card' = card, Kept PROVE Goal
    BY <1>2, <2>2, <2>4
  <2>5. CASE UNCHANGED remVars
    BY <2>4, <2>5 DEF remVars, DirtyUnderWay
  <2>6. ASSUME NEW m \in Mutators, NEW q, NEW x, NEW v, PreBarrierOfStore(m, q, x, v) PROVE Goal
    <3>1. /\ mut[m].pc = "idle" /\ UNCHANGED <<store_buf, remset, refining, card>>
          /\ mut' = [mut EXCEPT ![m] = [pc |-> "store", base |-> q, loc |-> x, val |-> v]]
      BY <2>6 DEF PreBarrierOfStore
    <3>2. Kept
      BY <1>0, <3>1 DEF DirtyUnderWay
    <3> QED BY <2>4, <3>1, <3>2
  <2>7. ASSUME NEW m \in Mutators, StoreField(m) PROVE Goal
    <3> DEFINE s == [what |-> "field", at |-> mut[m].loc, val |-> mut[m].val]
    <3>1. s \in FieldStores \cup CardStores /\ store_buf' = [store_buf EXCEPT ![m] = Append(@, s)]
      BY <2>7, StoreStep DEF G1Inv
    <3> HIDE DEF s
    <3>2. ASSUME NEW k \in Mutators, Then(k)
          PROVE  DirtyUnderWay(k, CardOf(o))' \/ (mut'[k].pc = "membar" /\ mut'[k].base = o)
      <4>1. CASE k # m
        BY <1>0, <2>7, <3>1, <3>2, <4>1 DEF StoreField, DirtyUnderWay
      <4>2. CASE k = m
        <5>1. DirtyUnderWay(k, CardOf(o))
          BY <2>7, <3>2, <4>2 DEF StoreField
        <5>2. store_buf'[k] = Append(store_buf[k], s) /\ store_buf[k] \in Seq(FieldStores \cup CardStores) /\ store_buf[k] # <<>>
          BY <1>0, <3>1, <4>2, <5>1 DEF DirtyUnderWay
        <5>3. 1 \in DOMAIN store_buf[k] /\ Append(store_buf[k], s)[1] = store_buf[k][1] /\ Append(store_buf[k], s) # <<>>
          BY <3>1, <5>2, BufferFacts
        <5>4. DirtyUnderWay(k, CardOf(o))'
          BY <5>1, <5>2, <5>3 DEF DirtyUnderWay
        <5> QED BY <5>4
      <4> QED BY <4>1, <4>2
    <3> QED BY <2>4, <2>7, <3>2 DEF StoreField
  <2>8. ASSUME NEW m \in Mutators, MarkCard(m) PROVE Goal
    <3> DEFINE c == CardOf(mut[m].base)
               s == [what |-> "card", at |-> c, val |-> "dirty"]
    <3>1. /\ store_buf[m] = <<>> /\ mut' = [mut EXCEPT ![m] = IdleMut] /\ s.what = "card" /\ s.at = c
          /\ (card[c] = "dirty" /\ store_buf' = store_buf) \/ store_buf' = [store_buf EXCEPT ![m] = Append(@, s)]
      BY <2>8, MarkStep
    <3>2. UNCHANGED <<card, remset, refining>>
      BY <2>8 DEF MarkCard
    <3> HIDE DEF s
    <3>3. CASE mut[m].base = o
      <4>1. CASE card[c] = "dirty"
        BY <3>2, <3>3, <4>1
      <4>2. CASE store_buf' = [store_buf EXCEPT ![m] = Append(@, s)]
        <5>1. store_buf'[m] = <<s>>
          BY <1>0, <3>1, <4>2
        <5>2. DirtyUnderWay(m, CardOf(o))'
          BY <3>1, <3>3, <5>1 DEF DirtyUnderWay
        <5> QED BY <5>2
      <4> QED BY <3>1, <4>1, <4>2
    <3>4. CASE mut[m].base # o
      <4>1. Kept
        BY <1>0, <3>1, <3>4 DEF DirtyUnderWay
      <4> QED BY <2>4, <3>2, <4>1
    <3> QED BY <3>3, <3>4
  <2>9. ASSUME NEW m \in Mutators, DrainStore(m) PROVE Goal
    <3>1. UNCHANGED <<remset, refining, mut>>
      BY <2>9 DEF DrainStore
    <3>2. CASE card[CardOf(o)] = "dirty" \/ DirtyUnderWay(m, CardOf(o))
      <4>1. card'[CardOf(o)] = "dirty"
        BY <1>0, <2>9, <3>2, DrainStep DEF DirtyUnderWay
      <4> QED BY <4>1
    <3>3. CASE ~(card[CardOf(o)] = "dirty" \/ DirtyUnderWay(m, CardOf(o)))
      <4>1. store_buf' = [store_buf EXCEPT ![m] = Tail(@)]
        BY <2>9, DrainStep
      <4>2. Kept
        BY <1>0, <3>1, <3>3, <4>1 DEF DirtyUnderWay
      <4> QED BY <1>2, <2>2, <3>1, <3>3, <4>2
    <3> QED BY <3>2, <3>3
  <2>10. ASSUME NEW d \in DOMAIN card, CleanCard(d) PROVE Goal
    <3>1. refining = -1 /\ UNCHANGED <<remset, mut, store_buf>>
      BY <2>10 DEF CleanCard
    <3>2. Kept
      BY <3>1 DEF DirtyUnderWay
    <3>3. card[CardOf(o)] = "dirty" => CardOf(o) = refining' \/ card'[CardOf(o)] = "dirty"
      BY <1>0, <2>10 DEF CleanCard
    <3> QED BY <1>0, <1>2, <2>2, <3>1, <3>2, <3>3
  <2>11. CASE RefineCard
    <3>1. UNCHANGED <<card, mut, store_buf>>
      BY <2>11 DEF RefineCard
    <3>2. Kept
      BY <3>1 DEF DirtyUnderWay
    <3>3. CardOf(o) = refining => heap[l] \in CrossRefs(refining)
      BY <2>3 DEF CrossRefs
    <3>4. CardOf(o) = refining => CardOf(o) \in remset'[Region(heap[l])]
      BY <2>3, <2>11, <3>3 DEF RefineCard
    <3>5. CardOf(o) \in remset[Region(heap[l])] => CardOf(o) \in remset'[Region(heap[l])]
      BY <2>3, <2>11 DEF RefineCard
    <3> QED BY <1>2, <2>2, <3>1, <3>2, <3>4, <3>5
  <2> QED BY <2>5, <2>6, <2>7, <2>8, <2>9, <2>10, <2>11, NextCases
<1> QED BY <1>1, <1>2

-----------------------------------------------------------------------------
LEMMA G1InvInit ==
  ASSUME NEW s \in G1Starts, G1Init(s)
  PROVE  G1Inv
<1>0. IsG1Start(s)
  BY G1Assumption
<1>1. G1TypeInv
  BY <1>0 DEF G1TypeInv, G1Init, IsG1Start, Writes, IdleMut
<1>2. TableInv
  BY <1>0 DEF TableInv, G1Init, IsG1Start
<1>3. MembarInv /\ CardStoreInv /\ FieldStoreInv
  BY DEF MembarInv, CardStoreInv, FieldStoreInv, G1Init, IdleMut
<1>4. DirtyInv
  BY <1>0 DEF DirtyInv, G1Init, IsG1Start
<1>5. RememberedInv
  BY <1>0 DEF RememberedInv, G1Init, IsG1Start
<1> QED BY <1>1, <1>2, <1>3, <1>4, <1>5 DEF G1Inv

LEMMA G1InvInductive ==
  G1Inv /\ [G1Next]_g1Vars => G1Inv'
BY TypeInductive, TableInductive, MembarInductive, CardStoreInductive, FieldStoreInductive,
   DirtyInductive, RememberedInductive DEF G1Inv

\* A mark under way and a dirty card are both in a queue, and so the reference is
\* where RemSetComplete looks for it.
LEMMA G1InvImplies ==
  ASSUME G1Inv
  PROVE  RemSetComplete
<1>1. ASSUME NEW o \in HeapObjs, NEW l \in FieldsOf[o], CrossRegion(heap, card, o, l)
      PROVE  \/ CardOf(o) \in remset[Region(heap[l])] \/ CardOf(o) \in dcq_done \/ CardOf(o) = refining
             \/ \E m \in Mutators : \/ CardOf(o) \in ToSet(dcq[m])
                                    \/ mut[m].base = o /\ mut[m].pc = "membar"
  <2>1. \/ CardOf(o) \in remset[Region(heap[l])]
        \/ CardOf(o) = refining
        \/ card[CardOf(o)] = "dirty"
        \/ \E m \in Mutators : DirtyUnderWay(m, CardOf(o)) \/ (mut[m].pc = "membar" /\ mut[m].base = o)
    BY <1>1, Zenon DEF G1Inv, RememberedInv
  <2>2. card[CardOf(o)] = "dirty" => CardOf(o) \in dcq_done \/ \E m \in Mutators : CardOf(o) \in ToSet(dcq[m])
    BY HeapFacts DEF G1Inv, G1TypeInv, DirtyInv
  <2>3. ASSUME NEW m \in Mutators, DirtyUnderWay(m, CardOf(o)) PROVE CardOf(o) \in ToSet(dcq[m])
    <3>1. store_buf[m] \in Seq(FieldStores \cup CardStores) /\ store_buf[m] # <<>>
      BY <2>3 DEF G1Inv, G1TypeInv, DirtyUnderWay
    <3>2. 1 \in DOMAIN store_buf[m]
      BY <3>1
    <3> QED BY <2>3, <3>2 DEF G1Inv, CardStoreInv, DirtyUnderWay
  <2> QED BY <2>1, <2>2, <2>3
<1> QED BY <1>1 DEF RemSetComplete, G1Inv, TableInv

\* For any number of threads, any layout of the heap and any stack objects around it,
\* G1's post barrier, with its filters, the range check for stack objects and its
\* elision for new objects, loses no reference between regions, although the
\* refinement thread cleans cards while stores are under way; and it marks no card
\* that is not in the table.
THEOREM RemSetIsComplete == G1Spec => []RemSetComplete
<1>1. (\E s \in G1Starts : G1Init(s)) => G1Inv
  BY G1InvInit
<1>2. G1Inv /\ [G1Next]_g1Vars => G1Inv'
  BY G1InvInductive
<1>3. G1Inv => RemSetComplete
  BY G1InvImplies
<1> QED BY <1>1, <1>2, <1>3, PTL DEF G1Spec

-----------------------------------------------------------------------------
(***************************************************************************)
(* Marking. The argument is about the snapshot: the heap when marking      *)
(* began.                                                                  *)
(***************************************************************************)
ChainEntries == {"init"} \cup [base : Objs, off : Int]

MarkTypeInv ==
  /\ DOMAIN heap = Locations /\ DOMAIN snap = Locations
  /\ \A l \in Locations : heap[l] \in {0} \cup HeapObjs /\ snap[l] \in {0} \cup HeapObjs
  /\ regs \in [Mutators -> SUBSET Objs]
  /\ satb \in [Mutators -> Seq(Int)]
  /\ chain \in [Mutators -> Seq(ChainEntries)]
  /\ \A m, k \in Mutators : chain[m] # <<>> /\ chain[k] # <<>> => m = k
  /\ grey \subseteq marked /\ marked \subseteq HeapObjs

\* What the marker has marked or will find in a queue
Known == marked \cup (Logged \cap HeapObjs)
\* What was reachable from there when marking began
Live == Closure(snap, Known)

\* No store of the compiled code to this field of the new object so far
Unwritten(l) ==
  \A m \in Mutators : \A i \in 2..Len(chain[m]) : chain[m][i].off # l - FreshObject
FreshInv ==
  \A l \in FieldsOf[FreshObject] : Unwritten(l) =>
    /\ heap[l] = 0 /\ snap[l] = 0
    /\ \A m \in Mutators : \A i \in DOMAIN store_buf[m] : store_buf[m][i].what = "field" => store_buf[m][i].at # l

\* A reference of the snapshot is known to the marker, or still in its field, in an
\* object that the marker has yet to scan.
SnapInv ==
  phase = "marking" =>
    \A o \in HeapObjs : \A l \in FieldsOf[o] \ WeakFields :
      snap[l] \in HeapObjs => snap[l] \in Known \/ (heap[l] = snap[l] /\ o \notin marked \ grey)

\* Thread m is about to overwrite field l.
Pending(m, l) ==
  \/ mut[m].pc = "store" /\ mut[m].loc = l
  \/ \E i \in DOMAIN store_buf[m] : store_buf[m][i].what = "field" /\ store_buf[m][i].at = l
PendingInv ==
  phase = "marking" =>
    \A o \in HeapObjs : \A l \in FieldsOf[o] \ WeakFields : \A m \in Mutators :
      Pending(m, l) /\ snap[l] \in HeapObjs => snap[l] \in Known

\* What a thread holds or is storing was live when marking began, or is known.
HeldInv ==
  phase = "marking" =>
    \A m \in Mutators :
      /\ \A o \in regs[m] : o \in HeapObjs => o \in Live
      /\ mut[m].pc = "store" => mut[m].val \in Live \cup {0}
      /\ \A i \in DOMAIN store_buf[m] : store_buf[m][i].what = "field" => store_buf[m][i].val \in Live \cup {0}

\* A field has its value of the snapshot or such a reference; stack objects were
\* roots.
MemoryInv ==
  phase = "marking" =>
    /\ \A l \in Locations : heap[l] = snap[l] \/ heap[l] \in Live \cup {0}
    /\ \A o \in StackObjs : \A l \in FieldsOf[o] : snap[l] \in marked \cup {0}

RemarkInv ==
  phase = "remarked" => AtSafepoint /\ Closure(heap, Roots(regs)) \subseteq marked

MarkInv ==
  /\ G1TypeInv /\ MarkTypeInv /\ FreshInv /\ SnapInv /\ PendingInv /\ HeldInv /\ MemoryInv /\ RemarkInv

-----------------------------------------------------------------------------
LEMMA ClosureFacts ==
  ASSUME NEW memory, NEW s \in SUBSET HeapObjs
  PROVE  /\ s \subseteq Closure(memory, s) /\ Closure(memory, s) \subseteq HeapObjs
         /\ Closed(memory, Closure(memory, s))
         /\ \A t \in SUBSET HeapObjs : s \subseteq t /\ Closed(memory, t) => Closure(memory, s) \subseteq t
<1>1. s \subseteq Closure(memory, s) /\ Closure(memory, s) \subseteq HeapObjs
  BY DEF Closure
<1>2. ASSUME NEW o \in Closure(memory, s), NEW q \in Strong(memory, o) PROVE q \in Closure(memory, s)
  <2>1. q \in HeapObjs
    BY DEF Strong
  <2>2. ASSUME NEW t \in SUBSET HeapObjs, s \subseteq t, Closed(memory, t) PROVE q \in t
    <3>1. o \in t
      BY <2>2 DEF Closure
    <3> QED BY <2>2, <3>1 DEF Closed
  <2> QED BY <2>1, <2>2 DEF Closure
<1>3. \A t \in SUBSET HeapObjs : s \subseteq t /\ Closed(memory, t) => Closure(memory, s) \subseteq t
  BY DEF Closure
<1> QED BY <1>1, <1>2, <1>3 DEF Closed

LEMMA ClosureGrows ==
  ASSUME NEW memory, NEW s \in SUBSET HeapObjs, NEW t \in SUBSET HeapObjs, s \subseteq t
  PROVE  Closure(memory, s) \subseteq Closure(memory, t)
<1>1. t \subseteq Closure(memory, t) /\ Closure(memory, t) \in SUBSET HeapObjs /\ Closed(memory, Closure(memory, t))
  BY ClosureFacts
<1> QED BY <1>1, ClosureFacts

\* A finite sequence has a last element in any set of its positions.
LEMMA LastOf ==
  ASSUME NEW n \in Nat, NEW S \in SUBSET (1..n), S # {}
  PROVE  \E i \in S : \A j \in S : j <= i
<1> DEFINE T == {n - i : i \in S}
           R == OpToRel(<, Nat)
<1>1. T \subseteq Nat /\ T # {}
  OBVIOUS
<1>2. PICK x \in T : \A y \in T : ~(<<y, x>> \in R)
  BY <1>1, WFMin, NatLessThanWellFounded
<1>3. PICK i \in S : x = n - i
  OBVIOUS
<1>4. ASSUME NEW j \in S PROVE j <= i
  <2>1. n - j \in T /\ n - j \in Nat /\ x \in Nat
    BY <1>1
  <2>2. ~(n - j < x)
    BY <1>2, <2>1 DEF OpToRel
  <2> QED BY <1>3, <2>2
<1> QED BY <1>4

\* A thread reads a store of its own, or what is in memory.
LEMMA FieldValue ==
  ASSUME G1TypeInv, NEW m \in Mutators, NEW l
  PROVE  \/ /\ Field(m, l) = heap[l]
            /\ ~\E i \in DOMAIN store_buf[m] : store_buf[m][i].what = "field" /\ store_buf[m][i].at = l
         \/ \E i \in DOMAIN store_buf[m] :
              store_buf[m][i].what = "field" /\ store_buf[m][i].at = l /\ Field(m, l) = store_buf[m][i].val
<1> DEFINE own == {i \in DOMAIN store_buf[m] : store_buf[m][i].at = l /\ store_buf[m][i].what = "field"}
<1>1. CASE own = {}
  BY <1>1 DEF Field, Read
<1>2. CASE own # {}
  <2>1. DOMAIN store_buf[m] = 1..Len(store_buf[m]) /\ Len(store_buf[m]) \in Nat
    BY DEF G1TypeInv
  <2>2. \E i \in own : \A j \in own : j <= i
    BY <1>2, <2>1, LastOf
  <2> DEFINE i == CHOOSE i \in own : \A j \in own : j <= i
  <2>3. i \in own
    BY <2>2
  <2>4. Field(m, l) = store_buf[m][i].val
    BY <1>2 DEF Field, Read
  <2> HIDE DEF i
  <2> QED BY <2>3, <2>4
<1> QED BY <1>1, <1>2

LEMMA FieldType ==
  ASSUME G1TypeInv, MarkTypeInv, NEW m \in Mutators, NEW l \in Locations
  PROVE  Field(m, l) \in {0} \cup HeapObjs
<1>1. ASSUME NEW i \in DOMAIN store_buf[m], store_buf[m][i].what = "field" PROVE store_buf[m][i].val \in {0} \cup HeapObjs
  <2>1. store_buf[m][i] \in FieldStores \cup CardStores
    BY DEF G1TypeInv
  <2> QED BY <1>1, <2>1 DEF FieldStores, CardStores
<1>2. CASE Field(m, l) = heap[l]
  BY <1>2 DEF MarkTypeInv
<1>3. CASE \E i \in DOMAIN store_buf[m] : store_buf[m][i].what = "field" /\ Field(m, l) = store_buf[m][i].val
  BY <1>1, <1>3
<1> QED BY <1>2, <1>3, FieldValue

\* The pre barrier keeps what is logged, and logs the value.
LEMMA PreBarrierStep ==
  ASSUME MarkTypeInv, NEW m \in Mutators, NEW v \in {0} \cup HeapObjs, PreBarrier(m, v)
  PROVE  /\ satb' \in [Mutators -> Seq(Int)] /\ Logged \subseteq Logged'
         /\ phase = "marking" /\ v # 0 => v \in Logged'
<1>1. CASE phase = "marking" /\ v # 0
  <2> DEFINE e == Enqueue(satb[m], satb_done, v)
  <2>1. satb[m] \in Seq(Int) /\ v \in Int
    BY <1>1, HeapFacts DEF MarkTypeInv
  <2>2. e.q \in Seq(Int) /\ v \in ToSet(e.q) /\ \A c \in ToSet(satb[m]) \cup satb_done : c \in ToSet(e.q) \cup e.done
    BY <2>1, EnqueueKeeps
  <2>3. satb' = [satb EXCEPT ![m] = e.q] /\ satb_done' = e.done
    BY <1>1 DEF PreBarrier
  <2> HIDE DEF e
  <2>4. satb' \in [Mutators -> Seq(Int)] /\ satb'[m] = e.q /\ \A k \in Mutators : k # m => satb'[k] = satb[k]
    BY <2>2, <2>3 DEF MarkTypeInv
  <2>5. v \in Logged'
    BY <2>2, <2>4 DEF Logged
  <2>6. ASSUME NEW c \in Logged PROVE c \in Logged'
    <3>1. CASE c \in satb_done \/ c \in ToSet(satb[m])
      BY <2>2, <2>3, <2>4, <3>1 DEF Logged
    <3>2. CASE \E k \in Mutators : k # m /\ c \in ToSet(satb[k])
      BY <2>4, <3>2 DEF Logged
    <3> QED BY <3>1, <3>2 DEF Logged
  <2> QED BY <2>4, <2>5, <2>6
<1>2. CASE ~(phase = "marking" /\ v # 0)
  BY <1>2 DEF PreBarrier, Logged, MarkTypeInv
<1> QED BY <1>1, <1>2

seenVars == <<heap, snap, regs, satb, satb_done, chain, marked, grey, phase, store_buf, mut>>

LEMMA MarkCases ==
  ASSUME [G1Next]_g1Vars
  PROVE  \/ UNCHANGED seenVars
         \/ \E m \in Mutators :
              \/ \E l \in DOMAIN heap : LoadField(m, l)
              \/ NewObject(m)
              \/ \E o \in Objs : \E l \in FieldsOf[o], v \in {0} \cup HeapObjs : PreBarrierOfStore(m, o, l, v)
              \/ StoreField(m) \/ MarkCard(m) \/ DrainStore(m)
         \/ \E dead \in SUBSET HeapObjs : StartMarking(dead)
         \/ \E o \in HeapObjs : MarkObject(o)
         \/ Remark
<1>1. CASE UNCHANGED g1Vars
  BY <1>1 DEF g1Vars, seenVars
<1>2. ASSUME NEW c, CleanCard(c) PROVE UNCHANGED seenVars
  BY <1>2 DEF CleanCard, seenVars, markVars
<1>3. CASE RefineCard
  BY <1>3 DEF RefineCard, seenVars, markVars, queueVars
<1> QED BY <1>1, <1>2, <1>3, Zenon DEF G1Next, Mutate

LEMMA MarkTypeInductive ==
  ASSUME G1TypeInv, MarkTypeInv, [G1Next]_g1Vars
  PROVE  MarkTypeInv'
<1> USE DEF MarkTypeInv
<1>0. 0 \notin HeapObjs /\ \A o \in HeapObjs : o \in Objs
  BY HeapFacts
<1>1. CASE UNCHANGED seenVars
  BY <1>1 DEF seenVars
<1>2. ASSUME NEW m \in Mutators, NEW l \in DOMAIN heap, LoadField(m, l) PROVE MarkTypeInv'
  <2>1. Field(m, l) \in {0} \cup HeapObjs
    BY FieldType
  <2>2. regs' = [regs EXCEPT ![m] = @ \cup ({Field(m, l)} \ {0})] /\ UNCHANGED <<heap, snap, chain, marked, grey>>
    BY <1>2 DEF LoadField, markVars
  <2>3. satb' \in [Mutators -> Seq(Int)]
    <3>1. CASE PreBarrier(m, Field(m, l))
      BY <2>1, <3>1, PreBarrierStep
    <3>2. CASE UNCHANGED satb
      BY <3>2
    <3> QED BY <1>2, <3>1, <3>2 DEF LoadField
  <2> HIDE DEF MarkTypeInv
  <2>4. regs' \in [Mutators -> SUBSET Objs]
    BY <1>0, <2>1, <2>2 DEF MarkTypeInv
  <2> QED BY <2>2, <2>3, <2>4 DEF MarkTypeInv
<1>3. ASSUME NEW m \in Mutators, NewObject(m) PROVE MarkTypeInv'
  <2>1. /\ regs' = [regs EXCEPT ![m] = @ \cup {FreshObject}] /\ chain' = [chain EXCEPT ![m] = <<"init">>]
        /\ \A k \in Mutators : chain[k] = <<>>
        /\ marked' = marked \cup {FreshObject} \/ marked' = marked
        /\ UNCHANGED <<heap, snap, satb, grey>>
    BY <1>3 DEF NewObject, queueVars
  <2>2. FreshObject \in HeapObjs /\ FreshObject \in Objs
    BY <1>0, G1Assumption
  <2>3. <<"init">> \in Seq(ChainEntries)
    BY DEF ChainEntries
  <2>4. chain' \in [Mutators -> Seq(ChainEntries)] /\ \A k, j \in Mutators : chain'[k] # <<>> /\ chain'[j] # <<>> => k = j
    BY <2>1, <2>3
  <2>5. regs' \in [Mutators -> SUBSET Objs] /\ grey' \subseteq marked' /\ marked' \subseteq HeapObjs
    BY <2>1, <2>2
  <2> QED BY <2>1, <2>4, <2>5
<1>4. ASSUME NEW m \in Mutators, NEW o \in Objs, NEW l \in FieldsOf[o], NEW v \in {0} \cup HeapObjs,
             PreBarrierOfStore(m, o, l, v)
      PROVE  MarkTypeInv'
  <2>1. l \in Locations
    BY DEF Locations
  <2>2. Field(m, l) \in {0} \cup HeapObjs
    BY <2>1, FieldType
  <2>3. satb' \in [Mutators -> Seq(Int)]
    <3>1. CASE PreBarrier(m, Field(m, l))
      BY <2>2, <3>1, PreBarrierStep
    <3>2. CASE UNCHANGED satb
      BY <3>2
    <3> QED BY <1>4, <3>1, <3>2 DEF PreBarrierOfStore
  <2>4. UNCHANGED <<heap, snap, regs, chain, marked, grey>>
    BY <1>4 DEF PreBarrierOfStore, markVars
  <2> QED BY <2>3, <2>4
<1>5. ASSUME NEW m \in Mutators, StoreField(m) PROVE MarkTypeInv'
  <2> DEFINE e == [base |-> mut[m].base, off |-> mut[m].loc - mut[m].base]
  <2>1. mut[m].base \in Objs /\ mut[m].loc \in FieldsOf[mut[m].base]
    BY <1>5, StoreStep
  <2>2. e \in ChainEntries
    <3>1. mut[m].base \in Int /\ mut[m].loc \in Int
      <4>1. mut[m].loc \in Locations
        BY <2>1 DEF Locations
      <4>2. mut[m].loc \in Nat
        BY <4>1, G1Assumption
      <4>3. mut[m].base \in Nat
        BY <2>1, HeapFacts
      <4> QED BY <4>2, <4>3
    <3> QED BY <2>1, <3>1 DEF ChainEntries
  <2>3. chain' = [chain EXCEPT ![m] = IF @ = <<>> THEN @ ELSE Append(@, e)] /\ UNCHANGED <<heap, snap, regs, satb, marked, grey>>
    BY <1>5 DEF StoreField, markVars, queueVars
  <2> HIDE DEF e
  <2>4. chain'[m] \in Seq(ChainEntries) /\ (chain'[m] # <<>> => chain[m] # <<>>) /\ \A k \in Mutators : k # m => chain'[k] = chain[k]
    <3>1. chain[m] \in Seq(ChainEntries) /\ Append(chain[m], e) \in Seq(ChainEntries)
      BY <2>2
    <3> QED BY <2>3, <3>1
  <2>5. chain' \in [Mutators -> Seq(ChainEntries)] /\ \A k, j \in Mutators : chain'[k] # <<>> /\ chain'[j] # <<>> => k = j
    BY <2>3, <2>4
  <2> QED BY <2>3, <2>5
<1>6. ASSUME NEW m \in Mutators, MarkCard(m) PROVE MarkTypeInv'
  BY <1>6 DEF MarkCard, markVars
<1>7. ASSUME NEW m \in Mutators, DrainStore(m) PROVE MarkTypeInv'
  <2>1. UNCHANGED <<snap, regs, satb, chain, marked, grey>>
    BY <1>7 DEF DrainStore, markVars, queueVars
  <2>2. store_buf[m] \in Seq(FieldStores \cup CardStores) /\ store_buf[m] # <<>>
    BY <1>7 DEF DrainStore, G1TypeInv
  <2>3. Head(store_buf[m]) \in FieldStores \cup CardStores
    BY <2>2
  <2>4. Head(store_buf[m]).what = "field" => Head(store_buf[m]).val \in {0} \cup HeapObjs
    BY <2>3 DEF FieldStores, CardStores
  <2>5. DOMAIN heap' = Locations /\ \A l \in Locations : heap'[l] \in {0} \cup HeapObjs
    BY <1>7, <2>4 DEF DrainStore
  <2> QED BY <2>1, <2>5
<1>8. ASSUME NEW dead, StartMarking(dead) PROVE MarkTypeInv'
  <2>1. UNCHANGED <<heap, satb, chain>> /\ snap' = heap /\ regs' = [m \in Mutators |-> regs[m] \ dead]
        /\ marked' = Roots(regs') /\ grey' = Roots(regs')
    BY <1>8 DEF StartMarking, queueVars
  <2>2. Roots(regs') \subseteq HeapObjs
    BY DEF Roots
  <2> QED BY <2>1, <2>2
<1>9. ASSUME NEW o \in HeapObjs, MarkObject(o) PROVE MarkTypeInv'
  <2>1. UNCHANGED <<heap, snap, regs, satb, chain>>
        /\ marked' = marked \cup Strong(heap, o) /\ grey' = (grey \ {o}) \cup (Strong(heap, o) \ marked)
    BY <1>9 DEF MarkObject, queueVars
  <2>2. Strong(heap, o) \subseteq HeapObjs
    BY DEF Strong
  <2> QED BY <2>1, <2>2
<1>10. CASE Remark
  <2>1. UNCHANGED <<heap, snap, regs, chain>> /\ satb' = [m \in Mutators |-> <<>>] /\ grey' = {}
        /\ marked' = marked \cup Closure(heap, (grey \cup Logged) \cap HeapObjs)
    BY <1>10 DEF Remark
  <2>2. Closure(heap, (grey \cup Logged) \cap HeapObjs) \subseteq HeapObjs
    BY DEF Closure
  <2>3. satb' \in [Mutators -> Seq(Int)]
    BY <2>1
  <2> QED BY <2>1, <2>2, <2>3
<1> HIDE DEF MarkTypeInv
<1> QED BY <1>1, <1>2, <1>3, <1>4, <1>5, <1>6, <1>7, <1>8, <1>9, <1>10, MarkCases

\* While marking is under way, the snapshot stays and nothing that is known is lost.
LEMMA KnownGrows ==
  ASSUME G1TypeInv, MarkTypeInv, [G1Next]_g1Vars, phase = "marking", phase' = "marking"
  PROVE  /\ snap' = snap /\ marked \subseteq marked' /\ Logged \subseteq Logged'
         /\ Known \subseteq Known' /\ Known' \subseteq HeapObjs /\ Live \subseteq Live'
<1> DEFINE Goal == snap' = snap /\ marked \subseteq marked' /\ Logged \subseteq Logged'
<1>1. ASSUME UNCHANGED seenVars PROVE Goal
  <2>1. snap' = snap /\ marked' = marked /\ satb' = satb /\ satb_done' = satb_done
    BY <1>1 DEF seenVars
  <2>2. Logged' = Logged
    BY <2>1 DEF Logged
  <2> QED BY <2>1, <2>2
<1>2. ASSUME NEW m \in Mutators, NEW l \in DOMAIN heap, LoadField(m, l) PROVE Goal
  <2>1. Field(m, l) \in {0} \cup HeapObjs
    BY FieldType DEF MarkTypeInv
  <2>2. UNCHANGED <<snap, marked>>
    BY <1>2 DEF LoadField, markVars
  <2>3. CASE PreBarrier(m, Field(m, l))
    BY <2>1, <2>2, <2>3, PreBarrierStep
  <2>4. CASE UNCHANGED <<satb, satb_done>>
    BY <2>2, <2>4 DEF Logged
  <2> QED BY <1>2, <2>3, <2>4 DEF LoadField
<1>3. ASSUME NEW m \in Mutators, NewObject(m) PROVE Goal
  BY <1>3 DEF NewObject, queueVars, Logged
<1>4. ASSUME NEW m \in Mutators, NEW o \in Objs, NEW l \in FieldsOf[o], NEW v, PreBarrierOfStore(m, o, l, v) PROVE Goal
  <2>1. Field(m, l) \in {0} \cup HeapObjs
    BY FieldType DEF Locations
  <2>2. UNCHANGED <<snap, marked>>
    BY <1>4 DEF PreBarrierOfStore, markVars
  <2>3. CASE PreBarrier(m, Field(m, l))
    BY <2>1, <2>2, <2>3, PreBarrierStep
  <2>4. CASE UNCHANGED <<satb, satb_done>>
    BY <2>2, <2>4 DEF Logged
  <2> QED BY <1>4, <2>3, <2>4 DEF PreBarrierOfStore
<1>5. ASSUME NEW m \in Mutators, StoreField(m) PROVE Goal
  BY <1>5 DEF StoreField, markVars, queueVars, Logged
<1>6. ASSUME NEW m \in Mutators, MarkCard(m) PROVE Goal
  BY <1>6 DEF MarkCard, markVars, Logged
<1>7. ASSUME NEW m \in Mutators, DrainStore(m) PROVE Goal
  BY <1>7 DEF DrainStore, markVars, queueVars, Logged
<1>8. ASSUME NEW dead, StartMarking(dead) PROVE FALSE
  BY <1>8 DEF StartMarking
<1>9. ASSUME NEW o \in HeapObjs, MarkObject(o) PROVE Goal
  BY <1>9 DEF MarkObject, queueVars, Logged
<1>10. ~Remark
  BY DEF Remark
<1>11. Goal
  BY <1>1, <1>2, <1>3, <1>4, <1>5, <1>6, <1>7, <1>8, <1>9, <1>10, MarkCases
<1>12. MarkTypeInv'
  BY MarkTypeInductive
<1>13. Known \subseteq Known' /\ Known' \subseteq HeapObjs
  BY <1>11, <1>12 DEF Known, MarkTypeInv
<1>14. Closure(snap, Known) \subseteq Closure(snap, Known')
  BY <1>13, ClosureGrows
<1> QED BY <1>11, <1>13, <1>14 DEF Live

LEMMA FreshInductive ==
  ASSUME G1Inv, MarkInv, OwnStores, [G1Next]_g1Vars
  PROVE  FreshInv'
<1> SUFFICES ASSUME NEW l \in FieldsOf[FreshObject], Unwritten(l)'
             PROVE  /\ heap'[l] = 0 /\ snap'[l] = 0
                    /\ \A k \in Mutators : \A i \in DOMAIN store_buf'[k] :
                         store_buf'[k][i].what = "field" => store_buf'[k][i].at # l
  BY DEF FreshInv
<1> DEFINE Clean == \A k \in Mutators : \A i \in DOMAIN store_buf[k] : store_buf[k][i].what = "field" => store_buf[k][i].at # l
           CleanNext == \A k \in Mutators : \A i \in DOMAIN store_buf'[k] : store_buf'[k][i].what = "field" => store_buf'[k][i].at # l
           Goal == heap'[l] = 0 /\ snap'[l] = 0 /\ CleanNext
<1>0. /\ store_buf \in [Mutators -> Seq(FieldStores \cup CardStores)] /\ chain \in [Mutators -> Seq(ChainEntries)]
      /\ FreshObject \in Objs /\ l \in Locations
  BY G1Assumption, HeapFacts DEF MarkInv, G1TypeInv, MarkTypeInv, Locations
<1>1. Unwritten(l) => heap[l] = 0 /\ snap[l] = 0 /\ Clean
  BY DEF MarkInv, FreshInv
<1>2. ASSUME UNCHANGED <<heap, snap, store_buf, chain>> PROVE Goal
  <2>1. Unwritten(l)
    BY <1>2 DEF Unwritten
  <2> QED BY <1>1, <1>2, <2>1
<1>3. ASSUME NEW m \in Mutators, NewObject(m) PROVE Goal
  <2>1. \A k \in Mutators : chain[k] = <<>>
    BY <1>3 DEF NewObject
  <2>2. Unwritten(l)
    BY <2>1 DEF Unwritten
  <2>3. UNCHANGED <<heap, snap, store_buf>>
    BY <1>3 DEF NewObject
  <2> QED BY <1>1, <2>2, <2>3
<1>4. ASSUME NEW m \in Mutators, StoreField(m) PROVE Goal
  <2> DEFINE s == [what |-> "field", at |-> mut[m].loc, val |-> mut[m].val]
             e == [base |-> mut[m].base, off |-> mut[m].loc - mut[m].base]
  <2>1. /\ s \in FieldStores \cup CardStores /\ s.at = mut[m].loc
        /\ store_buf' = [store_buf EXCEPT ![m] = Append(@, s)]
        /\ mut[m].base \in Objs /\ mut[m].loc \in FieldsOf[mut[m].base]
    BY <1>4, StoreStep DEF MarkInv
  <2>2. /\ chain' = [chain EXCEPT ![m] = IF @ = <<>> THEN @ ELSE Append(@, e)]
        /\ e.off = mut[m].loc - mut[m].base /\ UNCHANGED <<heap, snap>> /\ mut[m].pc = "store"
    BY <1>4 DEF StoreField, markVars
  <2> HIDE DEF s, e
  <2>3. \A k \in Mutators : chain'[k] = chain[k] \/ (k = m /\ chain[m] # <<>> /\ chain'[m] = Append(chain[m], e))
    BY <1>0, <2>2
  <2>4. chain[m] # <<>> => /\ Len(chain[m]) \in Nat /\ Len(chain[m]) >= 1 /\ Len(Append(chain[m], e)) = Len(chain[m]) + 1
                           /\ Append(chain[m], e)[Len(chain[m]) + 1] = e
                           /\ \A i \in 1..Len(chain[m]) : Append(chain[m], e)[i] = chain[m][i]
    <3>1. chain[m] \in Seq(ChainEntries)
      BY <1>0
    <3> QED BY <3>1
  <2>5. Unwritten(l)
    <3> SUFFICES ASSUME NEW k \in Mutators, NEW i \in 2..Len(chain[k]) PROVE chain[k][i].off # l - FreshObject
      BY DEF Unwritten
    <3>1. CASE chain'[k] = chain[k]
      BY <3>1 DEF Unwritten
    <3>2. CASE k = m /\ chain[m] # <<>> /\ chain'[m] = Append(chain[m], e)
      <4>1. i \in 2..Len(chain'[k]) /\ chain'[k][i] = chain[k][i]
        BY <2>4, <3>2
      <4> QED BY <4>1 DEF Unwritten
    <3> QED BY <2>3, <3>1, <3>2
  <2>6. mut[m].loc # l
    <3> SUFFICES ASSUME mut[m].loc = l PROVE FALSE
      OBVIOUS
    <3>1. mut[m].base = FreshObject
      BY <1>0, <2>1, G1Assumption
    <3>2. chain[m] # <<>>
      BY <2>2, <3>1 DEF OwnStores
    <3>3. chain'[m] = Append(chain[m], e)
      BY <1>0, <2>2, <3>2
    <3>4. Len(chain[m]) + 1 \in 2..Len(chain'[m]) /\ chain'[m][Len(chain[m]) + 1].off = l - FreshObject
      BY <2>2, <2>4, <3>1, <3>2, <3>3
    <3> QED BY <3>4 DEF Unwritten
  <2>7. CleanNext
    <3> SUFFICES ASSUME NEW k \in Mutators, NEW i \in DOMAIN store_buf'[k], store_buf'[k][i].what = "field"
                 PROVE  store_buf'[k][i].at # l
      OBVIOUS
    <3>1. CASE k # m
      BY <1>0, <1>1, <2>1, <2>5, <3>1
    <3>2. CASE k = m
      <4>1. store_buf'[k] = Append(store_buf[k], s) /\ store_buf[k] \in Seq(FieldStores \cup CardStores)
        BY <1>0, <2>1, <3>2
      <4>2. (i \in DOMAIN store_buf[k] /\ store_buf'[k][i] = store_buf[k][i]) \/ store_buf'[k][i] = s
        BY <2>1, <4>1
      <4> QED BY <1>1, <2>1, <2>5, <2>6, <4>2
    <3> QED BY <3>1, <3>2
  <2> QED BY <1>1, <2>2, <2>5, <2>7
<1>5. ASSUME NEW m \in Mutators, MarkCard(m) PROVE Goal
  <2> DEFINE s == [what |-> "card", at |-> CardOf(mut[m].base), val |-> "dirty"]
  <2>1. store_buf[m] = <<>> /\ s.what = "card" /\ (store_buf' = store_buf \/ store_buf' = [store_buf EXCEPT ![m] = Append(@, s)])
    BY <1>5, MarkStep
  <2>2. UNCHANGED <<heap, snap, chain>>
    BY <1>5 DEF MarkCard, markVars
  <2>3. Unwritten(l)
    BY <2>2 DEF Unwritten
  <2> HIDE DEF s
  <2>4. CleanNext
    <3> SUFFICES ASSUME NEW k \in Mutators, NEW i \in DOMAIN store_buf'[k], store_buf'[k][i].what = "field"
                 PROVE  store_buf'[k][i].at # l
      OBVIOUS
    <3>1. CASE store_buf'[k] = store_buf[k]
      BY <1>1, <2>3, <3>1
    <3>2. CASE store_buf'[k] = <<s>>
      BY <2>1, <3>2
    <3> QED BY <1>0, <2>1, <3>1, <3>2
  <2> QED BY <1>1, <2>2, <2>3, <2>4
<1>6. ASSUME NEW m \in Mutators, DrainStore(m) PROVE Goal
  <2>1. UNCHANGED <<snap, chain>>
    BY <1>6 DEF DrainStore, markVars
  <2>2. Unwritten(l)
    BY <2>1 DEF Unwritten
  <2>3. heap'[l] = heap[l]
    <3>1. /\ 1 \in DOMAIN store_buf[m]
          /\ heap' = IF store_buf[m][1].what = "field" THEN [heap EXCEPT ![store_buf[m][1].at] = store_buf[m][1].val] ELSE heap
      BY <1>6, DrainStep
    <3>2. store_buf[m][1].what = "field" => store_buf[m][1].at # l
      BY <1>1, <2>2, <3>1
    <3>3. l \in DOMAIN heap
      BY <1>0 DEF MarkInv, MarkTypeInv
    <3> QED BY <3>1, <3>2, <3>3
  <2>4. CleanNext
    <3> SUFFICES ASSUME NEW k \in Mutators, NEW i \in DOMAIN store_buf'[k], store_buf'[k][i].what = "field"
                 PROVE  store_buf'[k][i].at # l
      OBVIOUS
    <3>1. /\ store_buf' = [store_buf EXCEPT ![m] = Tail(@)]
          /\ \A j \in DOMAIN Tail(store_buf[m]) :
               j \in Nat /\ j # 0 /\ j + 1 \in DOMAIN store_buf[m] /\ Tail(store_buf[m])[j] = store_buf[m][j + 1]
      BY <1>6, DrainStep
    <3>2. CASE k # m
      BY <1>0, <1>1, <2>2, <3>1, <3>2
    <3>3. CASE k = m
      <4>1. i \in DOMAIN Tail(store_buf[m]) /\ store_buf'[k][i] = Tail(store_buf[m])[i]
        BY <1>0, <3>1, <3>3
      <4> QED BY <1>1, <2>2, <3>1, <4>1
    <3> QED BY <3>2, <3>3
  <2> QED BY <1>1, <2>1, <2>2, <2>3, <2>4
<1>7. ASSUME NEW dead, StartMarking(dead) PROVE Goal
  <2>1. UNCHANGED <<heap, store_buf, chain>> /\ snap' = heap
    BY <1>7 DEF StartMarking
  <2>2. Unwritten(l)
    BY <2>1 DEF Unwritten
  <2> QED BY <1>1, <2>1, <2>2
<1>8. \/ UNCHANGED <<heap, snap, store_buf, chain>>
      \/ \E m \in Mutators : NewObject(m) \/ StoreField(m) \/ MarkCard(m) \/ DrainStore(m)
      \/ \E dead \in SUBSET HeapObjs : StartMarking(dead)
  <2>1. ASSUME NEW m, NEW l1, LoadField(m, l1) PROVE UNCHANGED <<heap, snap, store_buf, chain>>
    BY <2>1 DEF LoadField, markVars
  <2>2. ASSUME NEW m, NEW o, NEW l1, NEW v, PreBarrierOfStore(m, o, l1, v) PROVE UNCHANGED <<heap, snap, store_buf, chain>>
    BY <2>2 DEF PreBarrierOfStore, markVars
  <2>3. ASSUME NEW o, MarkObject(o) PROVE UNCHANGED <<heap, snap, store_buf, chain>>
    BY <2>3 DEF MarkObject
  <2>4. ASSUME Remark PROVE UNCHANGED <<heap, snap, store_buf, chain>>
    BY <2>4 DEF Remark
  <2> QED BY <2>1, <2>2, <2>3, <2>4, MarkCases, Zenon DEF seenVars
<1> QED BY <1>2, <1>3, <1>4, <1>5, <1>6, <1>7, <1>8

LEMMA MarkingBegins ==
  ASSUME [G1Next]_g1Vars, phase' = "marking", phase # "marking"
  PROVE  \E dead \in SUBSET HeapObjs : StartMarking(dead)
<1>1. ASSUME NEW m, NEW l, LoadField(m, l) PROVE phase' = phase
  BY <1>1 DEF LoadField, markVars
<1>2. ASSUME NEW m, NEW o, NEW l, NEW v, PreBarrierOfStore(m, o, l, v) PROVE phase' = phase
  BY <1>2 DEF PreBarrierOfStore, markVars
<1>3. ASSUME NEW m, NewObject(m) \/ StoreField(m) \/ MarkCard(m) \/ DrainStore(m) PROVE phase' = phase
  BY <1>3 DEF NewObject, StoreField, MarkCard, DrainStore, markVars
<1>4. ASSUME NEW o, MarkObject(o) PROVE phase' = phase
  BY <1>4 DEF MarkObject
<1>5. ~Remark
  BY DEF Remark
<1>6. ASSUME UNCHANGED seenVars PROVE phase' = phase
  BY <1>6 DEF seenVars
<1> QED BY <1>1, <1>2, <1>3, <1>4, <1>5, <1>6, MarkCases

LEMMA MarkingBegun ==
  ASSUME MarkInv, NEW dead, StartMarking(dead)
  PROVE  SnapInv' /\ PendingInv' /\ HeldInv' /\ MemoryInv'
<1>1. /\ snap' = heap /\ heap' = heap /\ store_buf' = store_buf /\ mut' = mut /\ marked' = Roots(regs') /\ grey' = Roots(regs')
      /\ regs' = [m \in Mutators |-> regs[m] \ dead] /\ AtSafepoint
  BY DEF StartMarking
<1>2. SnapInv'
  BY <1>1 DEF SnapInv
<1>3. PendingInv'
  BY <1>1 DEF PendingInv, Pending, AtSafepoint
<1>4. Known' \in SUBSET HeapObjs /\ marked' \subseteq Known'
  BY <1>1 DEF Known, Roots
<1>5. Known' \subseteq Live'
  BY <1>4, ClosureFacts DEF Live
<1>6. HeldInv'
  <2>1. ASSUME NEW m \in Mutators, NEW o \in regs'[m], o \in HeapObjs PROVE o \in Live'
    <3>1. o \in Roots(regs')
      BY <2>1 DEF Roots
    <3> QED BY <1>1, <1>4, <1>5, <3>1
  <2> QED BY <1>1, <2>1 DEF HeldInv, AtSafepoint
<1>7. MemoryInv'
  <2>1. ASSUME NEW o \in StackObjs, NEW l \in FieldsOf[o] PROVE heap[l] \in Roots(regs') \cup {0}
    <3>1. l \in UNION {FieldsOf[q] : q \in StackObjs}
      OBVIOUS
    <3>2. l \in Locations
      BY DEF Locations, StackObjs
    <3>3. heap[l] \in HeapObjs \cup {0}
      BY <3>2 DEF MarkInv, MarkTypeInv
    <3> QED BY <3>1, <3>3 DEF Roots
  <2> QED BY <1>1, <2>1 DEF MemoryInv
<1> QED BY <1>2, <1>3, <1>6, <1>7

LEMMA SnapInductive ==
  ASSUME G1Inv, MarkInv, [G1Next]_g1Vars
  PROVE  SnapInv'
<1>1. CASE phase' # "marking"
  BY <1>1 DEF SnapInv
<1>2. CASE phase' = "marking" /\ phase # "marking"
  BY <1>2, MarkingBegins, MarkingBegun
<1>3. CASE phase' = "marking" /\ phase = "marking"
  <2> SUFFICES ASSUME NEW o \in HeapObjs, NEW l \in FieldsOf[o] \ WeakFields, snap'[l] \in HeapObjs
               PROVE  snap'[l] \in Known' \/ (heap'[l] = snap'[l] /\ o \notin marked' \ grey')
    BY DEF SnapInv
  <2> DEFINE Goal == snap[l] \in Known' \/ (heap'[l] = heap[l] /\ o \notin marked' \ grey')
  <2>1. snap' = snap /\ Known \subseteq Known' /\ marked \subseteq marked'
    BY <1>3, KnownGrows DEF MarkInv
  <2>2. snap[l] \in Known \/ (heap[l] = snap[l] /\ o \notin marked \ grey)
    BY <1>3, <2>1 DEF MarkInv, SnapInv
  <2>3. CASE snap[l] \in Known
    BY <2>1, <2>3
  <2>4. CASE heap[l] = snap[l] /\ o \notin marked \ grey
    <3>1. ASSUME UNCHANGED <<heap, marked, grey>> PROVE Goal
      BY <2>4, <3>1
    <3>2. ASSUME NEW m \in Mutators, NewObject(m) PROVE Goal
      <4>1. heap' = heap /\ grey' = grey /\ marked' \subseteq marked \cup {FreshObject} /\ \A k \in Mutators : chain[k] = <<>>
        BY <3>2 DEF NewObject
      <4>2. CASE o = FreshObject
        <5>1. Unwritten(l)
          BY <4>1 DEF Unwritten
        <5>2. snap[l] = 0
          BY <4>2, <5>1 DEF MarkInv, FreshInv
        <5> QED BY <2>1, <5>2, HeapFacts
      <4>3. CASE o # FreshObject
        BY <2>4, <4>1, <4>3
      <4> QED BY <4>2, <4>3
    <3>3. ASSUME NEW m \in Mutators, DrainStore(m) PROVE Goal
      <4>1. marked' = marked /\ grey' = grey
        BY <3>3 DEF DrainStore, markVars
      <4>2. CASE heap'[l] = heap[l]
        BY <2>4, <4>1, <4>2
      <4>3. CASE heap'[l] # heap[l]
        <5>0. /\ 1 \in DOMAIN store_buf[m]
              /\ heap' = IF store_buf[m][1].what = "field" THEN [heap EXCEPT ![store_buf[m][1].at] = store_buf[m][1].val] ELSE heap
          BY <3>3, DrainStep
        <5>1. store_buf[m][1].what = "field" /\ store_buf[m][1].at = l
          BY <4>3, <5>0
        <5>2. Pending(m, l)
          BY <5>0, <5>1 DEF Pending
        <5>3. snap[l] \in Known
          BY <1>3, <2>1, <5>2 DEF MarkInv, PendingInv
        <5> QED BY <2>1, <5>3
      <4> QED BY <4>2, <4>3
    <3>4. ASSUME NEW q \in HeapObjs, MarkObject(q) PROVE Goal
      <4>1. heap' = heap /\ marked' = marked \cup Strong(heap, q) /\ grey' = (grey \ {q}) \cup (Strong(heap, q) \ marked)
        BY <3>4 DEF MarkObject
      <4>2. CASE o = q
        <5>1. snap[l] \in Strong(heap, o)
          BY <2>1, <2>4 DEF Strong
        <5> QED BY <4>1, <4>2, <5>1 DEF Known
      <4>3. CASE o # q
        BY <2>4, <4>1, <4>3
      <4> QED BY <4>2, <4>3
    <3>5. Goal
      <4>1. ASSUME NEW m, NEW x, LoadField(m, x) PROVE UNCHANGED <<heap, marked, grey>>
        BY <4>1 DEF LoadField, markVars
      <4>2. ASSUME NEW m, NEW q, NEW x, NEW v, PreBarrierOfStore(m, q, x, v) PROVE UNCHANGED <<heap, marked, grey>>
        BY <4>2 DEF PreBarrierOfStore, markVars
      <4>3. ASSUME NEW m, StoreField(m) PROVE UNCHANGED <<heap, marked, grey>>
        BY <4>3 DEF StoreField, markVars
      <4>4. ASSUME NEW m, MarkCard(m) PROVE UNCHANGED <<heap, marked, grey>>
        BY <4>4 DEF MarkCard, markVars
      <4>5. ASSUME UNCHANGED seenVars PROVE UNCHANGED <<heap, marked, grey>>
        BY <4>5 DEF seenVars
      <4>6. ASSUME NEW dead, StartMarking(dead) PROVE FALSE
        BY <1>3, <4>6 DEF StartMarking
      <4>7. ~Remark
        BY <1>3 DEF Remark
      <4> HIDE DEF Goal
      <4> QED BY <3>1, <3>2, <3>3, <3>4, <4>1, <4>2, <4>3, <4>4, <4>5, <4>6, <4>7, MarkCases
    <3> QED BY <2>1, <2>4, <3>5
  <2> QED BY <2>2, <2>3, <2>4
<1> QED BY <1>1, <1>2, <1>3

LEMMA PendingInductive ==
  ASSUME G1Inv, MarkInv, [G1Next]_g1Vars
  PROVE  PendingInv'
<1>1. CASE phase' # "marking"
  BY <1>1 DEF PendingInv
<1>2. CASE phase' = "marking" /\ phase # "marking"
  BY <1>2, MarkingBegins, MarkingBegun
<1>3. CASE phase' = "marking" /\ phase = "marking"
  <2> SUFFICES ASSUME NEW o \in HeapObjs, NEW l \in FieldsOf[o] \ WeakFields, NEW k \in Mutators,
                      Pending(k, l)', snap'[l] \in HeapObjs
               PROVE  snap'[l] \in Known'
    BY DEF PendingInv
  <2>0. /\ store_buf \in [Mutators -> Seq(FieldStores \cup CardStores)] /\ mut \in [Mutators -> Writes]
        /\ o \in Objs /\ l \in Locations
    BY HeapFacts DEF MarkInv, G1TypeInv, Locations
  <2>1. snap' = snap /\ Known \subseteq Known'
    BY <1>3, KnownGrows DEF MarkInv
  <2>2. ASSUME Pending(k, l) PROVE snap[l] \in Known'
    BY <1>3, <2>1, <2>2 DEF MarkInv, PendingInv
  <2>3. ASSUME store_buf' = store_buf, mut' = mut PROVE Pending(k, l)
    BY <2>3 DEF Pending
  <2>4. ASSUME NEW m \in Mutators, StoreField(m) PROVE Pending(k, l)
    <3> DEFINE s == [what |-> "field", at |-> mut[m].loc, val |-> mut[m].val]
    <3>1. s \in FieldStores \cup CardStores /\ s.at = mut[m].loc /\ store_buf' = [store_buf EXCEPT ![m] = Append(@, s)]
      BY <2>4, StoreStep DEF MarkInv
    <3>2. /\ mut[m].pc = "store"
          /\ mut' = [mut EXCEPT ![m] = Waiting(mut[m])] \/ mut' = [mut EXCEPT ![m] = IdleMut]
      BY <2>4 DEF StoreField
    <3>3. Waiting(mut[m]).pc = "membar" /\ IdleMut.pc = "idle"
      BY DEF Waiting, IdleMut
    <3> HIDE DEF s
    <3>4. CASE k # m
      BY <2>0, <3>1, <3>2, <3>4 DEF Pending
    <3>5. CASE k = m
      <4>1. mut'[k].pc # "store"
        BY <2>0, <3>2, <3>3, <3>5
      <4>2. PICK i \in DOMAIN store_buf'[k] : store_buf'[k][i].what = "field" /\ store_buf'[k][i].at = l
        BY <4>1 DEF Pending
      <4>3. store_buf'[k] = Append(store_buf[k], s) /\ store_buf[k] \in Seq(FieldStores \cup CardStores)
        BY <2>0, <3>1, <3>5
      <4>4. (i \in DOMAIN store_buf[k] /\ store_buf'[k][i] = store_buf[k][i]) \/ store_buf'[k][i] = s
        BY <3>1, <4>3
      <4> QED BY <3>1, <3>2, <3>5, <4>2, <4>4 DEF Pending
    <3> QED BY <3>4, <3>5
  <2>5. ASSUME NEW m \in Mutators, MarkCard(m) PROVE Pending(k, l)
    <3> DEFINE s == [what |-> "card", at |-> CardOf(mut[m].base), val |-> "dirty"]
    <3>1. /\ store_buf[m] = <<>> /\ s.what = "card" /\ mut' = [mut EXCEPT ![m] = IdleMut]
          /\ store_buf' = store_buf \/ store_buf' = [store_buf EXCEPT ![m] = Append(@, s)]
          /\ IdleMut.pc = "idle"
      BY <2>5, MarkStep DEF IdleMut
    <3> HIDE DEF s
    <3>2. k # m
      <4> SUFFICES ASSUME k = m PROVE FALSE
        OBVIOUS
      <4>1. mut'[k].pc = "idle" /\ (store_buf'[k] = <<>> \/ store_buf'[k] = <<s>>)
        BY <2>0, <3>1
      <4> QED BY <3>1, <4>1 DEF Pending
    <3> QED BY <2>0, <3>1, <3>2 DEF Pending
  <2>6. ASSUME NEW m \in Mutators, DrainStore(m) PROVE Pending(k, l)
    <3>1. /\ store_buf' = [store_buf EXCEPT ![m] = Tail(@)] /\ mut' = mut
          /\ \A j \in DOMAIN Tail(store_buf[m]) :
               j \in Nat /\ j # 0 /\ j + 1 \in DOMAIN store_buf[m] /\ Tail(store_buf[m])[j] = store_buf[m][j + 1]
      BY <2>6, DrainStep DEF DrainStore
    <3>2. CASE k # m
      BY <2>0, <3>1, <3>2 DEF Pending
    <3>3. CASE k = m
      <4>1. store_buf'[k] = Tail(store_buf[k])
        BY <2>0, <3>1, <3>3
      <4> QED BY <3>1, <3>3, <4>1 DEF Pending
    <3> QED BY <3>2, <3>3
  <2>7. ASSUME NEW m \in Mutators, NEW q \in Objs, NEW x \in FieldsOf[q], NEW v, PreBarrierOfStore(m, q, x, v)
        PROVE  snap[l] \in Known'
    <3>1. /\ mut' = [mut EXCEPT ![m] = [pc |-> "store", base |-> q, loc |-> x, val |-> v]]
          /\ store_buf' = store_buf
      BY <2>7 DEF PreBarrierOfStore
    <3>2. CASE k # m \/ x # l
      <4>1. Pending(k, l)
        BY <2>0, <3>1, <3>2 DEF Pending
      <4> QED BY <2>2, <4>1
    <3>3. CASE k = m /\ x = l
      <4>1. q = o
        BY <2>0, <3>3, G1Assumption
      <4>2. CASE CanRemovePreBarrier(m, q, x)
        <5>1. FreshObject = o /\ chain[m] # <<>> /\ \A i \in 2..Len(chain[m]) : chain[m][i].off # l - FreshObject
          BY <3>3, <4>1, <4>2 DEF CanRemovePreBarrier
        <5>2. \A j \in Mutators : j # m => chain[j] = <<>>
          BY <5>1 DEF MarkInv, MarkTypeInv
        <5>3. Unwritten(l)
          BY <5>1, <5>2 DEF Unwritten
        <5>4. snap[l] = 0
          BY <5>1, <5>3 DEF MarkInv, FreshInv
        <5> QED BY <2>1, <5>4, HeapFacts
      <4>3. CASE ~CanRemovePreBarrier(m, q, x)
        <5>1. PreBarrier(m, Field(m, l))
          BY <2>7, <3>3, <4>3 DEF PreBarrierOfStore
        <5>2. CASE \E i \in DOMAIN store_buf[m] : store_buf[m][i].what = "field" /\ store_buf[m][i].at = l
          <6>1. Pending(k, l)
            BY <3>3, <5>2 DEF Pending
          <6> QED BY <2>2, <6>1
        <5>3. CASE Field(m, l) = heap[l]
          <6>1. CASE snap[l] \in Known
            BY <2>1, <6>1
          <6>2. CASE heap[l] = snap[l]
            <7>1. snap[l] # 0 /\ Field(m, l) = snap[l] /\ Field(m, l) \in HeapObjs
              BY <2>1, <5>3, <6>2, HeapFacts
            <7>2. snap[l] \in Logged'
              BY <1>3, <5>1, <7>1, PreBarrierStep DEF MarkInv
            <7> QED BY <2>1, <7>2 DEF Known
          <6> QED BY <1>3, <2>1, <6>1, <6>2 DEF MarkInv, SnapInv
        <5> QED BY <5>2, <5>3, FieldValue DEF MarkInv
      <4> QED BY <4>2, <4>3
    <3> QED BY <3>2, <3>3
  <2>8. snap[l] \in Known'
    <3>1. ASSUME NEW m, NEW x, LoadField(m, x) PROVE store_buf' = store_buf /\ mut' = mut
      BY <3>1 DEF LoadField
    <3>2. ASSUME NEW m, NewObject(m) PROVE store_buf' = store_buf /\ mut' = mut
      BY <3>2 DEF NewObject
    <3>3. ASSUME NEW q, MarkObject(q) PROVE store_buf' = store_buf /\ mut' = mut
      BY <3>3 DEF MarkObject
    <3>4. ASSUME UNCHANGED seenVars PROVE store_buf' = store_buf /\ mut' = mut
      BY <3>4 DEF seenVars
    <3>5. ASSUME NEW dead, StartMarking(dead) PROVE FALSE
      BY <1>3, <3>5 DEF StartMarking
    <3>6. ~Remark
      BY <1>3 DEF Remark
    <3> QED BY <2>2, <2>3, <2>4, <2>5, <2>6, <2>7, <3>1, <3>2, <3>3, <3>4, <3>5, <3>6, MarkCases
  <2> QED BY <2>1, <2>8
<1> QED BY <1>1, <1>2, <1>3

\* What a thread finds in a field is known, or was live when marking began.
LEMMA LoadedIsLive ==
  ASSUME MarkInv, [G1Next]_g1Vars, phase = "marking", phase' = "marking",
         NEW m \in Mutators, NEW l \in DOMAIN heap, LoadField(m, l), Field(m, l) # 0
  PROVE  Field(m, l) \in Live'
<1>1. Live \subseteq Live' /\ Known' \in SUBSET HeapObjs /\ Known \in SUBSET HeapObjs
  BY KnownGrows DEF MarkInv
<1>2. Known' \subseteq Live' /\ Known \subseteq Live /\ Closed(snap, Live)
  BY <1>1, ClosureFacts DEF Live
<1>3. l \in Locations /\ Field(m, l) \in HeapObjs
  BY FieldType DEF MarkInv, MarkTypeInv
<1>4. PICK o \in regs[m] : l \in FieldsOf[o]
  BY DEF LoadField
<1>5. o \in Objs
  BY <1>4 DEF MarkInv, MarkTypeInv
<1>6. CASE l \in WeakFields
  <2>1. PreBarrier(m, Field(m, l))
    BY <1>6 DEF LoadField
  <2>2. Field(m, l) \in Logged'
    BY <1>3, <2>1, PreBarrierStep DEF MarkInv
  <2> QED BY <1>2, <1>3, <2>2 DEF Known
<1>7. CASE l \notin WeakFields
  <2>1. ASSUME NEW i \in DOMAIN store_buf[m], store_buf[m][i].what = "field", Field(m, l) = store_buf[m][i].val
        PROVE  Field(m, l) \in Live
    BY <2>1 DEF MarkInv, HeldInv
  <2>2. ASSUME Field(m, l) = heap[l], heap[l] # snap[l] PROVE Field(m, l) \in Live
    BY <1>3, <2>2 DEF MarkInv, MemoryInv
  <2>3. ASSUME Field(m, l) = snap[l], o \in HeapObjs PROVE Field(m, l) \in Live
    <3>1. o \in Live
      BY <1>4, <2>3 DEF MarkInv, HeldInv
    <3>2. Field(m, l) \in Strong(snap, o)
      BY <1>3, <1>4, <1>7, <2>3 DEF Strong
    <3> QED BY <1>2, <3>1, <3>2 DEF Closed
  <2>4. ASSUME Field(m, l) = snap[l], o \notin HeapObjs PROVE Field(m, l) \in Live
    <3>1. snap[l] \in marked
      BY <1>4, <1>5, <2>4 DEF MarkInv, MemoryInv, StackObjs
    <3> QED BY <1>2, <2>4, <3>1 DEF Known
  <2>5. Field(m, l) \in Live
    BY <2>1, <2>2, <2>3, <2>4, FieldValue DEF MarkInv
  <2> QED BY <1>1, <2>5
<1> QED BY <1>6, <1>7

LEMMA HeldInductive ==
  ASSUME G1Inv, MarkInv, [G1Next]_g1Vars
  PROVE  HeldInv'
<1>1. CASE phase' # "marking"
  BY <1>1 DEF HeldInv
<1>2. CASE phase' = "marking" /\ phase # "marking"
  BY <1>2, MarkingBegins, MarkingBegun
<1>3. CASE phase' = "marking" /\ phase = "marking"
  <2> DEFINE Regs(k)   == \A o \in regs'[k] : o \in HeapObjs => o \in Live'
             Stored(k) == mut'[k].pc = "store" => mut'[k].val \in Live' \cup {0}
             Buffer(k) == \A i \in DOMAIN store_buf'[k] : store_buf'[k][i].what = "field" => store_buf'[k][i].val \in Live' \cup {0}
  <2> SUFFICES ASSUME NEW k \in Mutators PROVE Regs(k) /\ Stored(k) /\ Buffer(k)
    BY DEF HeldInv
  <2>0. /\ store_buf \in [Mutators -> Seq(FieldStores \cup CardStores)] /\ mut \in [Mutators -> Writes]
        /\ regs \in [Mutators -> SUBSET Objs]
    BY DEF MarkInv, G1TypeInv, MarkTypeInv
  <2>1. Live \subseteq Live' /\ Known' \subseteq Live'
    <3>1. Live \subseteq Live' /\ Known' \in SUBSET HeapObjs
      BY <1>3, KnownGrows DEF MarkInv
    <3> QED BY <3>1, ClosureFacts DEF Live
  <2>2. \A o \in regs[k] : o \in HeapObjs => o \in Live'
    BY <1>3, <2>1 DEF MarkInv, HeldInv
  <2>3. \A j \in Mutators : mut[j].pc = "store" => mut[j].val \in Live' \cup {0}
    BY <1>3, <2>1 DEF MarkInv, HeldInv
  <2>4. \A i \in DOMAIN store_buf[k] : store_buf[k][i].what = "field" => store_buf[k][i].val \in Live' \cup {0}
    BY <1>3, <2>1 DEF MarkInv, HeldInv
  <2>5. regs' = regs => Regs(k)
    BY <2>2
  <2>6. mut' = mut => Stored(k)
    BY <2>3
  <2>7. store_buf' = store_buf => Buffer(k)
    BY <2>4
  <2> DEFINE Goal == Regs(k) /\ Stored(k) /\ Buffer(k)
  <2>8. ASSUME NEW m \in Mutators, NEW l \in DOMAIN heap, LoadField(m, l) PROVE Goal
    <3>1. regs' = [regs EXCEPT ![m] = @ \cup ({Field(m, l)} \ {0})] /\ mut' = mut /\ store_buf' = store_buf
      BY <2>8 DEF LoadField
    <3>2. Field(m, l) # 0 => Field(m, l) \in Live'
      BY <1>3, <2>8, LoadedIsLive
    <3>3. Regs(k)
      BY <2>0, <2>2, <3>1, <3>2
    <3> QED BY <2>6, <2>7, <3>1, <3>3
  <2>9. ASSUME NEW m \in Mutators, NewObject(m) PROVE Goal
    <3>1. /\ regs' = [regs EXCEPT ![m] = @ \cup {FreshObject}] /\ mut' = mut /\ store_buf' = store_buf
          /\ FreshObject \in marked'
      BY <1>3, <2>9 DEF NewObject
    <3>2. FreshObject \in Live'
      BY <2>1, <3>1 DEF Known
    <3>3. Regs(k)
      BY <2>0, <2>2, <3>1, <3>2
    <3> QED BY <2>6, <2>7, <3>1, <3>3
  <2>10. ASSUME NEW m \in Mutators, NEW o, NEW l, NEW v, PreBarrierOfStore(m, o, l, v) PROVE Goal
    <3>1. /\ mut' = [mut EXCEPT ![m] = [pc |-> "store", base |-> o, loc |-> l, val |-> v]]
          /\ regs' = regs /\ store_buf' = store_buf /\ v \in {0} \cup (regs[m] \cap HeapObjs)
      BY <2>10 DEF PreBarrierOfStore
    <3>2. v \in Live' \cup {0}
      BY <1>3, <2>1, <3>1 DEF MarkInv, HeldInv
    <3>3. Stored(k)
      BY <2>0, <2>3, <3>1, <3>2
    <3> QED BY <2>5, <2>7, <3>1, <3>3
  <2>11. ASSUME NEW m \in Mutators, StoreField(m) PROVE Goal
    <3> DEFINE s == [what |-> "field", at |-> mut[m].loc, val |-> mut[m].val]
    <3>1. s \in FieldStores \cup CardStores /\ s.val = mut[m].val /\ store_buf' = [store_buf EXCEPT ![m] = Append(@, s)]
      BY <2>11, StoreStep DEF MarkInv
    <3>2. /\ mut[m].pc = "store" /\ regs' = regs
          /\ mut' = [mut EXCEPT ![m] = Waiting(mut[m])] \/ mut' = [mut EXCEPT ![m] = IdleMut]
      BY <2>11 DEF StoreField
    <3>3. Waiting(mut[m]).pc = "membar" /\ IdleMut.pc = "idle"
      BY DEF Waiting, IdleMut
    <3>4. s.val \in Live' \cup {0}
      BY <2>3, <3>1, <3>2
    <3> HIDE DEF s
    <3>5. Stored(k)
      BY <2>0, <2>3, <3>2, <3>3
    <3>6. Buffer(k)
      <4>1. CASE k # m
        BY <2>0, <2>4, <3>1, <4>1
      <4>2. CASE k = m
        <5>1. store_buf'[k] = Append(store_buf[k], s) /\ store_buf[k] \in Seq(FieldStores \cup CardStores)
          BY <2>0, <3>1, <4>2
        <5>2. \A i \in DOMAIN store_buf'[k] : (i \in DOMAIN store_buf[k] /\ store_buf'[k][i] = store_buf[k][i]) \/ store_buf'[k][i] = s
          BY <3>1, <5>1
        <5> QED BY <2>4, <3>4, <5>2
      <4> QED BY <4>1, <4>2
    <3> QED BY <2>5, <3>2, <3>5, <3>6
  <2>12. ASSUME NEW m \in Mutators, MarkCard(m) PROVE Goal
    <3> DEFINE s == [what |-> "card", at |-> CardOf(mut[m].base), val |-> "dirty"]
    <3>1. /\ store_buf[m] = <<>> /\ s.what = "card" /\ mut' = [mut EXCEPT ![m] = IdleMut]
          /\ store_buf' = store_buf \/ store_buf' = [store_buf EXCEPT ![m] = Append(@, s)]
          /\ IdleMut.pc = "idle"
      BY <2>12, MarkStep DEF IdleMut
    <3>2. regs' = regs
      BY <2>12 DEF MarkCard
    <3> HIDE DEF s
    <3>3. Stored(k)
      BY <2>0, <2>3, <3>1
    <3>4. Buffer(k)
      <4>1. store_buf'[k] = store_buf[k] \/ store_buf'[k] = <<s>>
        BY <2>0, <3>1
      <4> QED BY <2>4, <3>1, <4>1
    <3> QED BY <2>5, <3>2, <3>3, <3>4
  <2>13. ASSUME NEW m \in Mutators, DrainStore(m) PROVE Goal
    <3>1. /\ store_buf' = [store_buf EXCEPT ![m] = Tail(@)] /\ mut' = mut /\ regs' = regs
          /\ \A j \in DOMAIN Tail(store_buf[m]) :
               j \in Nat /\ j # 0 /\ j + 1 \in DOMAIN store_buf[m] /\ Tail(store_buf[m])[j] = store_buf[m][j + 1]
      BY <2>13, DrainStep DEF DrainStore
    <3>2. Buffer(k)
      <4>1. CASE k # m
        BY <2>0, <2>4, <3>1, <4>1
      <4>2. CASE k = m
        <5>1. store_buf'[k] = Tail(store_buf[k])
          BY <2>0, <3>1, <4>2
        <5> QED BY <2>4, <3>1, <4>2, <5>1
      <4> QED BY <4>1, <4>2
    <3> QED BY <2>5, <2>6, <3>1, <3>2
  <2>14. ASSUME regs' = regs, mut' = mut, store_buf' = store_buf PROVE Goal
    BY <2>5, <2>6, <2>7, <2>14
  <2>15. Goal
    <3>1. ASSUME NEW q, MarkObject(q) PROVE regs' = regs /\ mut' = mut /\ store_buf' = store_buf
      BY <3>1 DEF MarkObject
    <3>2. ASSUME UNCHANGED seenVars PROVE regs' = regs /\ mut' = mut /\ store_buf' = store_buf
      BY <3>2 DEF seenVars
    <3>3. ASSUME NEW dead, StartMarking(dead) PROVE FALSE
      BY <1>3, <3>3 DEF StartMarking
    <3>4. ~Remark
      BY <1>3 DEF Remark
    <3> HIDE DEF Goal
    <3> QED BY <2>8, <2>9, <2>10, <2>11, <2>12, <2>13, <2>14, <3>1, <3>2, <3>3, <3>4, MarkCases
  <2> QED BY <2>15
<1> QED BY <1>1, <1>2, <1>3

LEMMA MemoryInductive ==
  ASSUME G1Inv, MarkInv, [G1Next]_g1Vars
  PROVE  MemoryInv'
<1>1. CASE phase' # "marking"
  BY <1>1 DEF MemoryInv
<1>2. CASE phase' = "marking" /\ phase # "marking"
  BY <1>2, MarkingBegins, MarkingBegun
<1>3. CASE phase' = "marking" /\ phase = "marking"
  <2>1. snap' = snap /\ marked \subseteq marked' /\ Live \subseteq Live'
    BY <1>3, KnownGrows DEF MarkInv
  <2>2. \A o \in StackObjs : \A l \in FieldsOf[o] : snap'[l] \in marked' \cup {0}
    BY <1>3, <2>1 DEF MarkInv, MemoryInv
  <2> SUFFICES ASSUME NEW l \in Locations PROVE heap'[l] = snap[l] \/ heap'[l] \in Live' \cup {0}
    BY <2>1, <2>2 DEF MemoryInv
  <2> DEFINE Goal == heap'[l] = snap[l] \/ heap'[l] \in Live' \cup {0}
  <2>3. heap'[l] = heap[l] => Goal
    BY <1>3, <2>1 DEF MarkInv, MemoryInv
  <2>4. ASSUME NEW m \in Mutators, DrainStore(m) PROVE Goal
    <3>1. /\ 1 \in DOMAIN store_buf[m]
          /\ heap' = IF store_buf[m][1].what = "field" THEN [heap EXCEPT ![store_buf[m][1].at] = store_buf[m][1].val] ELSE heap
      BY <2>4, DrainStep
    <3>2. store_buf[m][1].what = "field" => store_buf[m][1].val \in Live' \cup {0}
      BY <1>3, <2>1, <3>1 DEF MarkInv, HeldInv
    <3>3. CASE heap'[l] # heap[l]
      <4>1. l \in DOMAIN heap
        BY DEF MarkInv, MarkTypeInv
      <4>2. store_buf[m][1].what = "field" /\ heap'[l] = store_buf[m][1].val
        BY <3>1, <3>3, <4>1
      <4> QED BY <3>2, <4>2
    <3> QED BY <2>3, <3>3
  <2>5. Goal
    <3>1. ASSUME NEW m, NEW x, LoadField(m, x) PROVE heap' = heap
      BY <3>1 DEF LoadField
    <3>2. ASSUME NEW m, NEW q, NEW x, NEW v, PreBarrierOfStore(m, q, x, v) PROVE heap' = heap
      BY <3>2 DEF PreBarrierOfStore
    <3>3. ASSUME NEW m, NewObject(m) \/ StoreField(m) \/ MarkCard(m) PROVE heap' = heap
      BY <3>3 DEF NewObject, StoreField, MarkCard
    <3>4. ASSUME NEW q, MarkObject(q) PROVE heap' = heap
      BY <3>4 DEF MarkObject
    <3>5. ASSUME UNCHANGED seenVars PROVE heap' = heap
      BY <3>5 DEF seenVars
    <3>6. ASSUME NEW dead, StartMarking(dead) PROVE FALSE
      BY <1>3, <3>6 DEF StartMarking
    <3>7. ~Remark
      BY <1>3 DEF Remark
    <3> HIDE DEF Goal
    <3> QED BY <2>3, <2>4, <3>1, <3>2, <3>3, <3>4, <3>5, <3>6, <3>7, MarkCases
  <2> QED BY <2>5
<1> QED BY <1>1, <1>2, <1>3

\* What the final mark adds closes the marked objects, first under the references of
\* the snapshot and therefore under those of the heap.
LEMMA RemarkCompletes ==
  ASSUME MarkInv, Remark
  PROVE  RemarkInv'
<1> DEFINE W == (grey \cup Logged) \cap HeapObjs
           C == Closure(heap, W)
           R == marked \cup C
<1>1. /\ phase = "marking" /\ AtSafepoint /\ marked' = R
      /\ UNCHANGED <<heap, regs, mut, store_buf>>
  BY DEF Remark
<1>2. W \subseteq C /\ C \subseteq HeapObjs /\ Closed(heap, C)
  BY ClosureFacts
<1>3. marked \subseteq HeapObjs /\ grey \subseteq marked
  BY DEF MarkInv, MarkTypeInv
<1> HIDE DEF C
<1>4. Known \subseteq R /\ R \in SUBSET HeapObjs /\ Known \in SUBSET HeapObjs
  BY <1>2, <1>3 DEF Known
<1>5. Closed(snap, R)
  <2> SUFFICES ASSUME NEW o \in R, NEW v \in Strong(snap, o) PROVE v \in R
    BY DEF Closed
  <2>1. PICK l \in FieldsOf[o] \ WeakFields : v = snap[l] /\ v \in HeapObjs
    BY DEF Strong
  <2>2. CASE v \in Known
    BY <1>4, <2>2
  <2>3. CASE heap[l] = snap[l] /\ o \notin marked \ grey
    <3>1. o \in C
      BY <1>2, <1>3, <2>3
    <3>2. v \in Strong(heap, o)
      BY <2>1, <2>3 DEF Strong
    <3> QED BY <1>2, <3>1, <3>2 DEF Closed
  <2>4. o \in HeapObjs
    BY <1>4
  <2> QED BY <1>1, <2>1, <2>2, <2>3, <2>4 DEF MarkInv, SnapInv
<1>6. Live \subseteq R
  BY <1>4, <1>5, ClosureFacts DEF Live
<1>7. Closed(heap, R)
  <2> SUFFICES ASSUME NEW o \in R, NEW v \in Strong(heap, o) PROVE v \in R
    BY DEF Closed
  <2>1. PICK l \in FieldsOf[o] \ WeakFields : v = heap[l] /\ v \in HeapObjs
    BY DEF Strong
  <2>2. l \in Locations
    BY <1>4, HeapFacts DEF Locations
  <2>3. CASE heap[l] = snap[l]
    <3>1. v \in Strong(snap, o)
      BY <2>1, <2>3 DEF Strong
    <3> QED BY <1>5, <3>1 DEF Closed
  <2>4. CASE heap[l] \in Live \cup {0}
    BY <1>6, <2>1, <2>4, HeapFacts
  <2> QED BY <1>1, <2>2, <2>3, <2>4 DEF MarkInv, MemoryInv
<1>8. Roots(regs) \in SUBSET R
  <2> SUFFICES ASSUME NEW v \in Roots(regs) PROVE v \in R
    OBVIOUS
  <2>1. v \in HeapObjs
    BY DEF Roots
  <2>2. CASE \E m \in Mutators : v \in regs[m]
    BY <1>1, <1>6, <2>1, <2>2 DEF MarkInv, HeldInv
  <2>3. CASE \E o \in StackObjs : \E l \in FieldsOf[o] : v = heap[l]
    <3>1. PICK o \in StackObjs : \E l \in FieldsOf[o] : v = heap[l]
      BY <2>3
    <3>2. PICK l \in FieldsOf[o] : v = heap[l]
      BY <3>1
    <3>3. l \in Locations
      BY DEF Locations, StackObjs
    <3>4. heap[l] = snap[l] \/ heap[l] \in Live \cup {0}
      BY <1>1, <3>3 DEF MarkInv, MemoryInv
    <3>5. snap[l] \in marked \cup {0}
      BY <1>1 DEF MarkInv, MemoryInv
    <3> QED BY <1>6, <2>1, <3>2, <3>4, <3>5, HeapFacts
  <2> QED BY <2>2, <2>3 DEF Roots
<1>9. Closure(heap, Roots(regs)) \subseteq R
  <2>1. Roots(regs) \in SUBSET HeapObjs
    BY DEF Roots
  <2> QED BY <1>4, <1>7, <1>8, <2>1, ClosureFacts
<1>10. Roots(regs)' = Roots(regs) /\ AtSafepoint'
  BY <1>1 DEF Roots, AtSafepoint
<1> QED BY <1>1, <1>9, <1>10 DEF RemarkInv

LEMMA RemarkInductive ==
  ASSUME G1Inv, MarkInv, [G1Next]_g1Vars
  PROVE  RemarkInv'
<1>1. CASE phase' # "remarked"
  BY <1>1 DEF RemarkInv
<1>2. CASE phase' = "remarked" /\ phase # "remarked"
  <2>1. ASSUME NEW m, NEW l, LoadField(m, l) PROVE phase' = phase
    BY <2>1 DEF LoadField, markVars
  <2>2. ASSUME NEW m, NEW o, NEW l, NEW v, PreBarrierOfStore(m, o, l, v) PROVE phase' = phase
    BY <2>2 DEF PreBarrierOfStore, markVars
  <2>3. ASSUME NEW m, NewObject(m) \/ StoreField(m) \/ MarkCard(m) \/ DrainStore(m) PROVE phase' = phase
    BY <2>3 DEF NewObject, StoreField, MarkCard, DrainStore, markVars
  <2>4. ASSUME NEW o, MarkObject(o) PROVE phase' = phase
    BY <2>4 DEF MarkObject
  <2>5. ASSUME NEW dead, StartMarking(dead) PROVE phase' = "marking"
    BY <2>5 DEF StartMarking
  <2>6. ASSUME UNCHANGED seenVars PROVE phase' = phase
    BY <2>6 DEF seenVars
  <2>7. Remark
    BY <1>2, <2>1, <2>2, <2>3, <2>4, <2>5, <2>6, MarkCases
  <2> QED BY <2>7, RemarkCompletes
<1>3. CASE phase' = "remarked" /\ phase = "remarked"
  <2>1. AtSafepoint /\ Closure(heap, Roots(regs)) \subseteq marked
    BY <1>3 DEF MarkInv, RemarkInv
  <2>2. ASSUME NEW m \in Mutators, NEW l, LoadField(m, l) PROVE FALSE
    BY <1>3, <2>2 DEF LoadField
  <2>3. ASSUME NEW m \in Mutators, NEW o, NEW l, NEW v, PreBarrierOfStore(m, o, l, v) PROVE FALSE
    BY <1>3, <2>3 DEF PreBarrierOfStore
  <2>4. ASSUME NEW m \in Mutators, NewObject(m) \/ StoreField(m) \/ MarkCard(m) \/ DrainStore(m) PROVE FALSE
    BY <1>3, <2>1, <2>4 DEF NewObject, StoreField, MarkCard, DrainStore, AtSafepoint
  <2>5. ASSUME NEW o, MarkObject(o) PROVE FALSE
    BY <1>3, <2>5 DEF MarkObject
  <2>6. ASSUME NEW dead, StartMarking(dead) PROVE FALSE
    BY <1>3, <2>6 DEF StartMarking
  <2>7. ~Remark
    BY <1>3 DEF Remark
  <2>8. UNCHANGED seenVars
    BY <2>2, <2>3, <2>4, <2>5, <2>6, <2>7, MarkCases
  <2>9. UNCHANGED <<heap, regs, mut, store_buf, marked>>
    BY <2>8 DEF seenVars
  <2>10. Roots(regs)' = Roots(regs) /\ AtSafepoint'
    BY <2>1, <2>9 DEF Roots, AtSafepoint
  <2> QED BY <2>1, <2>9, <2>10 DEF RemarkInv
<1> QED BY <1>1, <1>2, <1>3

-----------------------------------------------------------------------------
LEMMA MarkInvInit ==
  ASSUME NEW s \in G1Starts, G1Init(s)
  PROVE  MarkInv
<1>0. IsG1Start(s)
  BY G1Assumption
<1>1. G1TypeInv
  BY G1InvInit DEF G1Inv
<1>2. MarkTypeInv
  BY <1>0 DEF MarkTypeInv, G1Init, IsG1Start
<1>3. FreshInv
  BY <1>0 DEF FreshInv, G1Init, IsG1Start
<1>4. phase # "marking" /\ phase # "remarked"
  BY <1>0 DEF G1Init, IsG1Start
<1> QED BY <1>1, <1>2, <1>3, <1>4 DEF MarkInv, SnapInv, PendingInv, HeldInv, MemoryInv, RemarkInv

LEMMA MarkInvInductive ==
  G1Inv /\ MarkInv /\ OwnStores /\ [G1Next]_g1Vars => MarkInv'
<1> SUFFICES ASSUME G1Inv, MarkInv, OwnStores, [G1Next]_g1Vars PROVE MarkInv'
  OBVIOUS
<1>1. G1TypeInv' /\ MarkTypeInv'
  BY TypeInductive, MarkTypeInductive DEF MarkInv
<1> QED BY <1>1, FreshInductive, SnapInductive, PendingInductive, HeldInductive, MemoryInductive, RemarkInductive DEF MarkInv

\* As long as no thread but its allocator stores to a new object, marking misses
\* nothing that the threads still reach: for any number of threads, any heap, any
\* stack objects without barriers and any interleaving of stores, loads and the
\* marker, although pre barriers are elided for stores to new objects.
THEOREM MarkingIsComplete == G1Spec /\ []OwnStores => []MarkingComplete
<1>1. (\E s \in G1Starts : G1Init(s)) => G1Inv /\ MarkInv
  BY G1InvInit, MarkInvInit
<1>2. G1Inv /\ MarkInv /\ OwnStores /\ [G1Next]_g1Vars => G1Inv' /\ MarkInv'
  BY G1InvInductive, MarkInvInductive
<1>3. MarkInv => MarkingComplete
  BY DEF MarkInv, RemarkInv, MarkingComplete
<1> QED BY <1>1, <1>2, <1>3, PTL DEF G1Spec
=============================================================================
