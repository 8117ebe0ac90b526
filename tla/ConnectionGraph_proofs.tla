------------------------ MODULE ConnectionGraph_proofs ------------------------
(***************************************************************************)
(* The finished connection graph is closed and its escape states are final *)
(* for every graph that step 1 of compute_escape leaves, whatever its      *)
(* size and the order in which its lists are walked.                       *)
(*                                                                         *)
(* Two facts carry the argument. A pass that has added nothing so far has  *)
(* not changed the graph, so what it found of the objects it has visited   *)
(* still holds (VisitInv), and what the last run of find_non_escaped_-     *)
(* objects left still holds (SpreadInv). Null is added after the last      *)
(* pass: it changes nothing that the other objects or the escape states    *)
(* depend on, and the entries put on the worklist for it are all that is   *)
(* not yet closed.                                                         *)
(***************************************************************************)
EXTENDS ConnectionGraph, FiniteSetTheorems, TLAPS

Entries == ((Nodes \ Objects) \X {"use"}) \cup (Fields \X {"base"})

\* The types that the proof needs: more about edges, and about the pass counter.
GraphTypes ==
  /\ edges \subseteq EdgeSpace /\ bases \subseteq Fields \X (Objects \cup Vars)
  /\ src \subseteq Nodes /\ dst \subseteq Nodes
StateTypes ==
  /\ esc \in [Nodes -> Escapes] /\ fesc \in [Nodes -> Escapes]
  /\ esc[phantom_obj] = GlobalEscape /\ fesc[phantom_obj] = GlobalEscape
  /\ escape_worklist \subseteq Nodes
ListTypes ==
  /\ worklist \subseteq in_worklist /\ in_worklist \subseteq Entries
  /\ pc = "fields" => in_worklist = {}
ControlTypes ==
  /\ pc \in {"escape", "pass", "fields", "nulls", "done", "nothing", "bailout"}
  /\ at \in 0..Len(JavaObjects) /\ new_edges \in BOOLEAN
  /\ iterations \in 0..(CG_BUILD_ITER_LIMIT + 1)
  /\ pc \in {"escape", "pass", "fields"} => iterations <= CG_BUILD_ITER_LIMIT
FateTypes ==
  /\ non_escaped \subseteq Allocs \cup Calls /\ todo \subseteq non_escaped
  /\ does_not_escape \subseteq Allocs
CGTypeInv == GraphTypes /\ StateTypes /\ ListTypes /\ ControlTypes /\ FateTypes

CopiesInv == CopiesMarked(edges, src, dst) /\ (CopyDestinationsKnown => DestinationsKnown(edges))

\* What the escape states of node n say of those it leads to is there.
Spread(n) ==
  /\ \A e \in Edges(n) \ {null_obj} :
       /\ fesc[e] >= fesc[n]
       /\ e \notin Arraycopies => esc[e] >= esc[n]
       /\ n \in Objects /\ e \in Fields => esc[e] >= fesc[n]
  /\ n \in Fields /\ esc[n] >= ArgEscape => <<n, phantom_obj>> \in edges

\* States are final: since they were computed the graph has not grown.
StatesFinal == pc \in {"fields", "nulls", "done"} \/ (pc = "pass" /\ ~new_edges)
SpreadInv ==
  /\ pc = "escape" => \A n \in Nodes : n \in escape_worklist \/ Spread(n)
  /\ StatesFinal => \A n \in Nodes : Spread(n)

Remaining == {o \in Allocs \cup Calls : esc[o] < GlobalEscape}
FatesInv ==
  /\ pc = "escape" => Remaining \subseteq non_escaped
  /\ pc \in {"pass", "fields", "nulls", "done"} => non_escaped = Remaining
  /\ pc \in {"escape", "pass", "fields"} => does_not_escape = {} /\ todo = {}
  /\ pc = "nulls" => does_not_escape = (non_escaped \ todo) \cap Allocs
  /\ pc = "done" => does_not_escape = non_escaped \cap Allocs

\* The entry e of the worklist has nothing to do for object o.
Satisfied(e, o) ==
  IF e[2] = "base" THEN <<e[1], o>> \in bases
  ELSE <<e[1], o>> \in edges \/ (e[1] \in Arraycopies /\ o = null_obj)
\* All that the visit of o would look at
Visited(o) == \A e \in Populate(o) : Satisfied(e, o)
Visiting(o) == \A e \in Populate(o) : e \in worklist \/ Satisfied(e, o)

VisitInv ==
  /\ pc = "pass" /\ ~new_edges =>
       /\ \A i \in 1..Len(JavaObjects) : i < at => Visited(JavaObjects[i])
       /\ at > 0 => Visiting(JavaObjects[at])
  /\ pc = "fields" => \A o \in Objects : Visited(o)
  /\ pc = "nulls" =>
       /\ \A o \in Objects \ {null_obj} : Visited(o)
       /\ Visiting(null_obj)
       /\ \A e \in in_worklist : e \in worklist \/ Satisfied(e, null_obj)
  /\ pc = "done" => \A o \in Objects : Visited(o)

CGInv == CGTypeInv /\ CopiesInv /\ SpreadInv /\ FatesInv /\ VisitInv

-----------------------------------------------------------------------------
\* Facts about the sets of nodes and about entries of the worklist.
LEMMA NodeSets ==
  /\ phantom_obj \in Objects /\ null_obj \in Objects /\ phantom_obj # null_obj
  /\ Allocs \cup Calls \cup Consts \subseteq Objects /\ Objects \subseteq Nodes
  /\ Vars \subseteq Nodes \ Objects /\ Fields \subseteq Nodes \ Objects
  /\ Arraycopies \subseteq Nodes \ Objects
  /\ Vars \cap Fields = {} /\ Vars \cap Arraycopies = {} /\ Fields \cap Arraycopies = {}
  /\ Nodes = Objects \cup Vars \cup Fields \cup Arraycopies
  /\ \A o \in Allocs \cup Calls \cup Consts : o # phantom_obj /\ o # null_obj
  BY ConnectionGraphAssumption DEF Objects, Nodes

LEMMA EdgeKinds ==
  ASSUME GraphTypes
  PROVE  /\ \A n, m : <<n, m>> \in edges =>
              n \in Nodes /\ m \in Nodes /\ (n \in Objects => m \in Arraycopies)
         /\ \A f, b : <<f, b>> \in bases => f \in Fields /\ b \in Objects \cup Vars
  BY NodeSets DEF GraphTypes, EdgeSpace

LEMMA UsesTyped ==
  ASSUME GraphTypes
  PROVE  /\ \A n \in Vars \cup Fields : UsesOf(n) \subseteq Entries
         /\ \A f \in Fields : FieldUsesOf(f) \subseteq Entries
<1>1. ASSUME NEW n \in Vars \cup Fields PROVE UsesOf(n) \subseteq Entries
  <2>1. Uses(n) \subseteq Nodes \ Objects
    BY EdgeKinds, NodeSets DEF Uses
  <2>2. BaseUses(n) \subseteq Fields
    BY DEF BaseUses
  <2> QED
    BY <2>1, <2>2 DEF UsesOf, Entries
<1>2. ASSUME NEW f \in Fields PROVE FieldUsesOf(f) \subseteq Entries
  <2>1. \A c : AliasesAt(f, c) \subseteq Nodes \ Objects
    BY NodeSets DEF AliasesAt, FieldsOf, BaseUses
  <2>2. {<<g, "use">> : g \in UNION {AliasesAt(f, c) :
                    c \in Bases(f) \cup UNION {CopiedTo(b) : b \in Bases(f)}}} \subseteq Entries
    BY <2>1 DEF Entries
  <2> QED
    BY <1>1, <2>2 DEF FieldUsesOf
<1> QED
  BY <1>1, <1>2

LEMMA PopulateTyped ==
  ASSUME GraphTypes, NEW o \in Objects
  PROVE  Populate(o) \subseteq Entries
<1>1. Uses(o) \ Arraycopies \subseteq Vars \cup Fields
  BY EdgeKinds, NodeSets DEF Uses
<1> QED
  BY <1>1, UsesTyped DEF Populate

LEMMA CurrentIsObject ==
  ASSUME ControlTypes, pc \in {"pass", "nulls"}
  PROVE  Current \in Objects
<1>1. CASE at > 0
  <2>1. at \in DOMAIN JavaObjects
    BY <1>1, ConnectionGraphAssumption DEF ControlTypes
  <2> QED
    BY <2>1, ConnectionGraphAssumption, NodeSets DEF Current
<1>2. CASE ~(at > 0)
  BY <1>2, NodeSets DEF Current, ControlTypes
<1> QED
  BY <1>1, <1>2

\* The list after add_to_worklist
LEMMA PushTyped ==
  ASSUME ListTypes, NEW entries, NEW kept, entries \subseteq Entries, kept \subseteq worklist,
         Push(entries, kept), pc' = "fields" => pc = "fields" /\ entries = {}
  PROVE  ListTypes'
  BY DEF ListTypes, Push, Entries

-----------------------------------------------------------------------------
\* Unknown values are added to fields.
LEMMA AddUnknownStep ==
  ASSUME CGTypeInv, CopiesInv, NEW fs \in SUBSET Fields, AddUnknown(fs), UNCHANGED <<bases, src, dst>>
  PROVE  /\ GraphTypes' /\ CopiesInv' /\ edges \subseteq edges'
         /\ \E new \in SUBSET fs : edges' = edges \cup (new \X {phantom_obj})
                                   /\ Push(UNION {FieldUsesOf(f) : f \in new}, worklist)
         /\ \A f \in fs : <<f, phantom_obj>> \in edges'
         /\ fs = {} => edges' = edges
<1> DEFINE new == {f \in fs : <<f, phantom_obj>> \notin edges}
<1>1. edges' = edges \cup (new \X {phantom_obj}) /\ Push(UNION {FieldUsesOf(f) : f \in new}, worklist)
  BY DEF AddUnknown
<1>2. \A f \in fs : <<f, phantom_obj>> \in edges'
  BY <1>1
<1>3. new \subseteq fs
  OBVIOUS
<1>a. fs = {} => edges' = edges
  BY <1>1
<1> HIDE DEF new
<1>4. GraphTypes'
  BY <1>1, <1>3, NodeSets DEF CGTypeInv, GraphTypes, EdgeSpace
<1>5. \A n, m \in Nodes : <<n, m>> \in edges' => <<n, m>> \in edges \/ (n \in Fields /\ m = phantom_obj)
  BY <1>1, <1>3
<1>6. CopiesMarked(edges', src', dst')
  <2> SUFFICES ASSUME NEW a \in Arraycopies, NEW n \in Nodes
               PROVE  /\ <<a, n>> \in edges' => n \in src /\ n # null_obj
                      /\ <<n, a>> \in edges' => n \in dst /\ n # null_obj
    BY DEF CopiesMarked
  <2>1. (<<a, n>> \in edges' => <<a, n>> \in edges) /\ (<<n, a>> \in edges' => <<n, a>> \in edges)
    BY <1>5, NodeSets
  <2> QED
    BY <2>1 DEF CopiesInv, CopiesMarked
<1>7. CopyDestinationsKnown => DestinationsKnown(edges')
  BY <1>1, <1>5, NodeSets DEF CopiesInv, DestinationsKnown
<1> QED
  BY <1>1, <1>2, <1>3, <1>4, <1>6, <1>7, <1>a DEF CopiesInv

-----------------------------------------------------------------------------
\* An entry of the worklist is done.
LEMMA EntryKinds ==
  ASSUME NEW e \in Entries
  PROVE  /\ e[2] = "base" => e[1] \in Fields
         /\ e[2] # "base" => e[2] = "use" /\ e[1] \in Vars \cup Fields \cup Arraycopies
         /\ e = <<e[1], e[2]>>
  BY NodeSets DEF Entries

LEMMA AddEdgeFrame ==
  ASSUME CGTypeInv, NEW e \in worklist, AddEdge(e)
  PROVE  /\ pc \in {"pass", "nulls"} /\ Current \in Objects /\ Current' = Current
         /\ UNCHANGED <<esc, fesc, shape, non_escaped, escape_worklist, pc, at, iterations,
                        todo, does_not_escape>>
         /\ AddBase(e) \/ AddSource(e) \/ OldEdge(e) \/ AddToVar(e) \/ AddToField(e)
         /\ e \in Entries
<1>1. /\ pc \in {"pass", "nulls"}
      /\ UNCHANGED <<esc, fesc, shape, non_escaped, escape_worklist, pc, at, iterations,
                     todo, does_not_escape>>
      /\ AddBase(e) \/ AddSource(e) \/ OldEdge(e) \/ AddToVar(e) \/ AddToField(e)
  BY DEF AddEdge
<1>2. Current \in Objects
  BY <1>1, CurrentIsObject DEF CGTypeInv
<1>3. e \in Entries
  BY DEF CGTypeInv, ListTypes
<1> QED
  BY <1>1, <1>2, <1>3 DEF Current

\* What an entry can change: one base or one edge, and the copies of a variable.
LEMMA AddEdgeGraph ==
  ASSUME CGTypeInv, NEW e \in worklist, AddEdge(e)
  PROVE  /\ edges \subseteq edges' /\ bases \subseteq bases' /\ src \subseteq src' /\ dst \subseteq dst'
         /\ bases' \subseteq bases \cup {<<e[1], Current>>}
         /\ bases' # bases => e[1] \in Fields
         /\ \A n, m : <<n, m>> \in edges' /\ <<n, m>> \notin edges =>
              \/ n = e[1] /\ m = Current
              \/ n = Current /\ m \in Arraycopies /\ e[1] \in Vars /\ <<e[1], m>> \in edges
                 /\ Current # null_obj
         /\ edges' # edges => e[1] \in Vars \cup Fields \cup Arraycopies /\ <<e[1], Current>> \in edges'
         /\ new_edges' \in BOOLEAN
         /\ ~new_edges' => ~new_edges /\ UNCHANGED <<edges, bases, src, dst>>
<1>0. /\ AddBase(e) \/ AddSource(e) \/ OldEdge(e) \/ AddToVar(e) \/ AddToField(e)
      /\ new_edges \in BOOLEAN /\ e \in Entries
  BY AddEdgeFrame DEF CGTypeInv, ControlTypes
<1>1. CASE AddBase(e)
  BY <1>0, <1>1, EntryKinds DEF AddBase
<1>2. CASE AddSource(e)
  <2>1. CASE UNCHANGED <<edges, src, new_edges>>
    BY <1>0, <1>2, <2>1 DEF AddSource
  <2>2. CASE ~UNCHANGED <<edges, src, new_edges>>
    <3>1. /\ edges' = edges \cup {<<e[1], Current>>} /\ src' = src \cup {Current}
          /\ new_edges' = TRUE /\ e[1] \in Arraycopies /\ UNCHANGED <<bases, dst>>
      BY <1>2, <2>2 DEF AddSource
    <3> QED
      BY <3>1
  <2> QED
    BY <2>1, <2>2
<1>3. CASE OldEdge(e)
  BY <1>0, <1>3 DEF OldEdge, graphVars
<1>4. CASE AddToVar(e)
  <2> DEFINE acs == IF e[1] \in dst /\ Current # null_obj THEN Edges(e[1]) \cap Arraycopies ELSE {}
             written == {a \in acs : <<Current, a>> \notin edges}
  <2>1. /\ e[1] \in Vars /\ edges' = edges \cup {<<e[1], Current>>} \cup ({Current} \X written)
        /\ dst' = (IF written = {} THEN dst ELSE dst \cup {Current})
        /\ new_edges' = TRUE /\ UNCHANGED <<bases, src>>
    BY <1>4 DEF AddToVar
  <2>2. \A a \in written : a \in Arraycopies /\ <<e[1], a>> \in edges /\ Current # null_obj
    BY <2>1, NodeSets DEF Edges
  <2> HIDE DEF written
  <2> QED
    BY <2>1, <2>2
<1>5. CASE AddToField(e)
  BY <1>0, <1>5 DEF AddToField
<1> QED
  BY <1>0, <1>1, <1>2, <1>3, <1>4, <1>5

LEMMA AddEdgeLists ==
  ASSUME CGTypeInv, NEW e \in worklist, AddEdge(e)
  PROVE  /\ ListTypes' /\ Satisfied(e, Current)' /\ worklist \ {e} \subseteq worklist'
         /\ \E entries \in SUBSET Entries :
              /\ Push(entries, worklist \ {e})
              /\ entries = IF <<e[1], Current>> \in edges \/ e[2] = "base" \/ e[1] \in Arraycopies THEN {}
                           ELSE IF e[1] \in Vars THEN UsesOf(e[1]) ELSE FieldUsesOf(e[1])
<1>0. /\ AddBase(e) \/ AddSource(e) \/ OldEdge(e) \/ AddToVar(e) \/ AddToField(e)
      /\ Current' = Current /\ e \in Entries /\ pc' = pc /\ pc # "fields" /\ ListTypes /\ GraphTypes
  BY AddEdgeFrame DEF CGTypeInv
<1>1. PICK entries \in SUBSET Entries :
        /\ Push(entries, worklist \ {e})
        /\ entries = IF <<e[1], Current>> \in edges \/ e[2] = "base" \/ e[1] \in Arraycopies THEN {}
                     ELSE IF e[1] \in Vars THEN UsesOf(e[1]) ELSE FieldUsesOf(e[1])
  <2>1. CASE AddBase(e) \/ AddSource(e) \/ OldEdge(e)
    BY <1>0, <2>1 DEF AddBase, AddSource, OldEdge
  <2>2. CASE AddToVar(e)
    BY <1>0, <2>2, UsesTyped, NodeSets DEF AddToVar
  <2>3. CASE AddToField(e)
    BY <1>0, <2>3, UsesTyped, NodeSets DEF AddToField
  <2> QED
    BY <1>0, <2>1, <2>2, <2>3
<1>2. ListTypes'
  BY <1>0, <1>1, PushTyped
<1>3. worklist \ {e} \subseteq worklist'
  BY <1>1 DEF Push
<1>4. Satisfied(e, Current)'
  <2>1. CASE AddBase(e)
    BY <1>0, <2>1 DEF AddBase, Satisfied
  <2>2. CASE AddSource(e)
    BY <1>0, <2>2 DEF AddSource, Satisfied
  <2>3. CASE OldEdge(e)
    BY <1>0, <2>3 DEF OldEdge, Satisfied, graphVars
  <2>4. CASE AddToVar(e)
    BY <1>0, <2>4 DEF AddToVar, Satisfied
  <2>5. CASE AddToField(e)
    BY <1>0, <2>5 DEF AddToField, Satisfied
  <2> QED
    BY <1>0, <2>1, <2>2, <2>3, <2>4, <2>5
<1> QED
  BY <1>1, <1>2, <1>3, <1>4

LEMMA AddEdgeCopies ==
  ASSUME CGTypeInv, CopiesInv, NEW e \in worklist, AddEdge(e)
  PROVE  GraphTypes' /\ CopiesInv'
<1>0. /\ AddBase(e) \/ AddSource(e) \/ OldEdge(e) \/ AddToVar(e) \/ AddToField(e)
      /\ Current \in Objects /\ e \in Entries /\ GraphTypes
      /\ e[1] \in Vars \cup Fields \cup Arraycopies
  BY AddEdgeFrame, EntryKinds DEF CGTypeInv
<1> DEFINE o == Current
<1>1. /\ edges \subseteq edges' /\ src \subseteq src' /\ dst \subseteq dst'
      /\ bases' \subseteq bases \cup {<<e[1], o>>} /\ (bases' # bases => e[1] \in Fields)
      /\ \A n, m : <<n, m>> \in edges' /\ <<n, m>> \notin edges =>
           \/ n = e[1] /\ m = o
           \/ n = o /\ m \in Arraycopies /\ e[1] \in Vars /\ <<e[1], m>> \in edges /\ o # null_obj
  BY AddEdgeGraph
<1>2. src' \subseteq src \cup {o} /\ dst' \subseteq dst \cup {o}
  <2>1. CASE AddBase(e) \/ OldEdge(e) \/ AddToField(e)
    BY <2>1 DEF AddBase, OldEdge, AddToField, graphVars
  <2>2. CASE AddSource(e)
    BY <2>2 DEF AddSource
  <2>3. CASE AddToVar(e)
    BY <2>3 DEF AddToVar
  <2> QED
    BY <1>0, <2>1, <2>2, <2>3
<1>3. ASSUME <<e[1], o>> \in edges', <<e[1], o>> \notin edges, e[1] \in Arraycopies
      PROVE  o \in src' /\ o # null_obj
  <2>1. AddSource(e)
    BY <1>0, <1>3, NodeSets DEF AddBase, OldEdge, AddToVar, AddToField
  <2> QED
    BY <1>3, <2>1 DEF AddSource
<1>4. ASSUME e[1] \in Vars, <<e[1], o>> \in edges', <<e[1], o>> \notin edges
      PROVE  /\ \A a \in Arraycopies : <<e[1], a>> \in edges /\ o # null_obj => <<o, a>> \in edges'
             /\ \A a \in Arraycopies : <<o, a>> \in edges' /\ <<o, a>> \notin edges => o \in dst'
  <2>1. AddToVar(e)
    BY <1>0, <1>4, NodeSets DEF AddBase, OldEdge, AddSource, AddToField
  <2> DEFINE acs == IF e[1] \in dst /\ o # null_obj THEN Edges(e[1]) \cap Arraycopies ELSE {}
             written == {a \in acs : <<o, a>> \notin edges}
  <2>2. /\ edges' = edges \cup {<<e[1], o>>} \cup ({o} \X written)
        /\ dst' = (IF written = {} THEN dst ELSE dst \cup {o})
    BY <2>1 DEF AddToVar
  <2>3. \A a \in Arraycopies : <<e[1], a>> \in edges /\ o # null_obj => a \in acs
    <3>1. \A a \in Arraycopies : <<e[1], a>> \in edges => e[1] \in dst
      BY <1>0, NodeSets DEF CopiesInv, CopiesMarked
    <3>2. \A a \in Arraycopies : <<e[1], a>> \in edges => a \in Edges(e[1])
      BY NodeSets DEF Edges
    <3> QED
      BY <3>1, <3>2
  <2>4. \A a \in acs : a \in written \/ <<o, a>> \in edges
    OBVIOUS
  <2>5. \A a : a \in written => <<o, a>> \in edges'
    BY <2>2
  <2>6. \A a \in Arraycopies : <<o, a>> \in edges' /\ <<o, a>> \notin edges => a \in written
    <3>1. o # e[1]
      BY <1>0, NodeSets
    <3> HIDE DEF written
    <3> QED
      BY <2>2, <3>1
  <2> HIDE DEF written, acs
  <2>7. \A a \in Arraycopies : <<e[1], a>> \in edges /\ o # null_obj => <<o, a>> \in edges'
    BY <1>1, <2>3, <2>4, <2>5
  <2> QED
    BY <2>2, <2>6, <2>7
<1> HIDE DEF o
<1>5. o \in Objects
  BY <1>0 DEF o
<1>6. GraphTypes'
  <2>1. ASSUME NEW n, NEW m, <<n, m>> \in edges' PROVE <<n, m>> \in EdgeSpace
    BY <1>0, <1>1, <1>5, <2>1, NodeSets DEF GraphTypes, EdgeSpace
  <2>2. \A x \in edges' : x \in EdgeSpace
    <3>1. \A x \in edges' \ edges : x = <<e[1], o>> \/ \E a \in Arraycopies : x = <<o, a>>
      <4>1. CASE AddBase(e) \/ OldEdge(e) \/ AddToField(e)
        BY <4>1 DEF AddBase, OldEdge, AddToField, graphVars, o
      <4>2. CASE AddSource(e)
        BY <4>2 DEF AddSource, o
      <4>3. CASE AddToVar(e)
        BY <4>3 DEF AddToVar, o
      <4> QED
        BY <1>0, <4>1, <4>2, <4>3
    <3> QED
      BY <1>0, <2>1, <3>1 DEF GraphTypes
  <2> QED
    BY <1>0, <1>1, <1>2, <1>5, <2>2, NodeSets DEF GraphTypes
<1>7. CopiesMarked(edges', src', dst')
  <2> SUFFICES ASSUME NEW a \in Arraycopies, NEW n \in Nodes
               PROVE  /\ <<a, n>> \in edges' => n \in src' /\ n # null_obj
                      /\ <<n, a>> \in edges' => n \in dst' /\ n # null_obj
    BY DEF CopiesMarked
  <2>1. /\ <<a, n>> \in edges => n \in src /\ n # null_obj
        /\ <<n, a>> \in edges => n \in dst /\ n # null_obj
    BY DEF CopiesInv, CopiesMarked
  <2>2. ASSUME <<a, n>> \in edges', <<a, n>> \notin edges PROVE n \in src' /\ n # null_obj
    <3>1. a = e[1] /\ n = o
      BY <1>1, <1>5, <2>2, NodeSets
    <3> QED
      BY <1>3, <2>2, <3>1 DEF o
  <2>3. ASSUME <<n, a>> \in edges', <<n, a>> \notin edges PROVE n \in dst' /\ n # null_obj
    <3>1. n = o /\ e[1] \in Vars /\ <<e[1], a>> \in edges /\ o # null_obj
      BY <1>1, <1>5, <2>3, NodeSets
    <3>2. <<e[1], o>> \in edges' /\ <<e[1], o>> \notin edges
      <4>1. AddToVar(e)
        BY <1>0, <1>5, <2>3, <3>1, NodeSets DEF AddBase, OldEdge, AddSource, AddToField, graphVars, o
      <4> QED
        BY <4>1 DEF AddToVar, o
    <3> QED
      BY <1>4, <2>3, <3>1, <3>2 DEF o
  <2> QED
    BY <1>1, <2>1, <2>2, <2>3
<1>8. CopyDestinationsKnown => DestinationsKnown(edges')
  <2> SUFFICES ASSUME CopyDestinationsKnown, NEW v \in Vars, NEW a \in Arraycopies, NEW p \in Objects \ {null_obj},
                      <<v, a>> \in edges', <<v, p>> \in edges'
               PROVE  <<p, a>> \in edges'
    BY DEF DestinationsKnown
  <2>1. <<v, a>> \in edges
    BY <1>1, <1>5, NodeSets
  <2>2. CASE <<v, p>> \in edges
    BY <1>1, <2>1, <2>2 DEF CopiesInv, DestinationsKnown
  <2>3. CASE <<v, p>> \notin edges
    <3>1. v = e[1] /\ p = o
      BY <1>1, <1>5, <2>3, NodeSets
    <3> QED
      BY <1>4, <2>1, <2>3, <3>1 DEF o
  <2> QED
    BY <2>2, <2>3
<1> QED
  BY <1>6, <1>7, <1>8 DEF CopiesInv

-----------------------------------------------------------------------------
\* Escape states only grow, and along an edge to what they have to be.
LEMMA NewStates ==
  ASSUME StateTypes, NEW n \in Nodes, NEW e \in Nodes
  PROVE  /\ NewEsc(n, e) \in Escapes /\ NewFieldsEsc(n, e) \in Escapes
         /\ NewEsc(n, e) >= esc[e] /\ NewFieldsEsc(n, e) >= fesc[e]
         /\ e # null_obj =>
              /\ NewFieldsEsc(n, e) >= fesc[n]
              /\ e \notin Arraycopies => NewEsc(n, e) >= esc[n]
              /\ n \in Objects /\ e \in Fields => NewEsc(n, e) >= fesc[n]
<1>1. /\ esc[n] \in 1..3 /\ esc[e] \in 1..3 /\ fesc[n] \in 1..3 /\ fesc[e] \in 1..3
  BY DEF StateTypes, Escapes, NoEscape, GlobalEscape
<1>2. /\ NewEsc(n, e) \in 1..3 /\ NewEsc(n, e) >= esc[e]
      /\ e # null_obj =>
           /\ e \notin Arraycopies => NewEsc(n, e) >= esc[n]
           /\ n \in Objects /\ e \in Fields => NewEsc(n, e) >= fesc[n]
  BY <1>1, NodeSets DEF NewEsc
<1>3. /\ NewFieldsEsc(n, e) \in 1..3 /\ NewFieldsEsc(n, e) >= fesc[e]
      /\ e # null_obj => NewFieldsEsc(n, e) >= fesc[n]
  BY <1>1, <1>2 DEF NewFieldsEsc
<1> QED
  BY <1>2, <1>3 DEF Escapes, NoEscape, GlobalEscape

\* A node stays done while other nodes get higher states and it gets edges to
\* phantom_obj, which escapes, or to null_obj, whose state does not matter.
LEMMA SpreadKept ==
  ASSUME NEW m \in Nodes, Spread(m), StateTypes, StateTypes', esc'[m] = esc[m], fesc'[m] = fesc[m],
         \A e \in Nodes : esc'[e] >= esc[e] /\ fesc'[e] >= fesc[e],
         Edges(m)' \subseteq Edges(m) \cup {phantom_obj, null_obj}, Edges(m) \subseteq Nodes,
         edges \subseteq edges'
  PROVE  Spread(m)'
<1>1. \A e \in Nodes : esc[e] \in 1..3 /\ fesc[e] \in 1..3 /\ esc'[e] \in 1..3 /\ fesc'[e] \in 1..3
  BY DEF StateTypes, Escapes, NoEscape, GlobalEscape
<1>2. phantom_obj \in Nodes /\ phantom_obj \in Objects /\ phantom_obj \notin Fields
  BY NodeSets
<1>3. ASSUME NEW e \in Edges(m)' \ {null_obj}
      PROVE  /\ fesc'[e] >= fesc'[m]
             /\ e \notin Arraycopies => esc'[e] >= esc'[m]
             /\ m \in Objects /\ e \in Fields => esc'[e] >= fesc'[m]
  <2>1. CASE e = phantom_obj
    <3>1. esc'[e] = 3 /\ fesc'[e] = 3
      BY <2>1 DEF StateTypes, GlobalEscape
    <3> QED
      BY <1>1, <1>2, <2>1, <3>1
  <2>2. CASE e \in Edges(m)
    <3>1. /\ fesc[e] >= fesc[m]
          /\ e \notin Arraycopies => esc[e] >= esc[m]
          /\ m \in Objects /\ e \in Fields => esc[e] >= fesc[m]
      BY <1>3, <2>2 DEF Spread
    <3>2. e \in Nodes /\ esc'[e] >= esc[e] /\ fesc'[e] >= fesc[e]
      BY <2>2
    <3> QED
      BY <1>1, <3>1, <3>2
  <2> QED
    BY <1>3, <2>1, <2>2
<1>4. m \in Fields /\ esc'[m] >= ArgEscape => <<m, phantom_obj>> \in edges'
  BY DEF Spread
<1> QED
  BY <1>3, <1>4 DEF Spread

LEMMA EdgesOfUnknown ==
  ASSUME NEW new, edges' = edges \cup (new \X {phantom_obj}), UNCHANGED bases, NEW m \in Nodes
  PROVE  Edges(m)' \subseteq Edges(m) \cup {phantom_obj, null_obj} /\ Edges(m) \subseteq Nodes
  BY NodeSets DEF Edges, BaseUses

\* One iteration of find_non_escaped_objects: a node is done or will be looked at.
LEMMA SpreadEscapeStep ==
  ASSUME CGInv, NEW n \in Nodes, SpreadEscape(n)
  PROVE  CGInv'
<1> DEFINE fs == IF n \in Fields /\ esc[n] >= ArgEscape THEN {n} ELSE {}
<1>0. /\ pc = "escape" /\ n \in escape_worklist
      /\ esc'  = [e \in Nodes |-> IF e \in Edges(n) THEN NewEsc(n, e) ELSE esc[e]]
      /\ fesc' = [e \in Nodes |-> IF e \in Edges(n) THEN NewFieldsEsc(n, e) ELSE fesc[e]]
      /\ escape_worklist' = (escape_worklist \ {n}) \cup Changed(n)
      /\ AddUnknown(fs)
      /\ UNCHANGED <<bases, src, dst, shape, non_escaped, pc, at, new_edges,
                     iterations, todo, does_not_escape>>
  BY DEF SpreadEscape
<1>1. /\ CGTypeInv /\ CopiesInv /\ GraphTypes /\ StateTypes /\ ListTypes /\ ControlTypes /\ FateTypes
      /\ SpreadInv /\ FatesInv
  BY DEF CGInv, CGTypeInv
<1>2. Edges(n) \subseteq Nodes
  BY NodeSets DEF Edges, BaseUses
<1>3. \A e \in Nodes : /\ esc'[e] = IF e \in Edges(n) THEN NewEsc(n, e) ELSE esc[e]
                       /\ fesc'[e] = IF e \in Edges(n) THEN NewFieldsEsc(n, e) ELSE fesc[e]
  BY <1>0
<1>4. \A e \in Nodes : /\ esc'[e] \in Escapes /\ fesc'[e] \in Escapes
                       /\ esc'[e] >= esc[e] /\ fesc'[e] >= fesc[e]
  BY <1>1, <1>3, NewStates DEF StateTypes, Escapes, NoEscape, GlobalEscape
<1>5. StateTypes'
  <2>1. esc' \in [Nodes -> Escapes] /\ fesc' \in [Nodes -> Escapes]
    BY <1>0, <1>4
  <2>2. esc'[phantom_obj] = GlobalEscape /\ fesc'[phantom_obj] = GlobalEscape
    BY <1>1, <1>4, NodeSets DEF StateTypes, Escapes, NoEscape, GlobalEscape
  <2>3. escape_worklist' \subseteq Nodes
    BY <1>0, <1>1, <1>2 DEF StateTypes, Changed
  <2> QED
    BY <2>1, <2>2, <2>3 DEF StateTypes
<1>6. fs \in SUBSET Fields
  OBVIOUS
<1>7. PICK new \in SUBSET fs : edges' = edges \cup (new \X {phantom_obj})
                               /\ Push(UNION {FieldUsesOf(f) : f \in new}, worklist)
  BY <1>0, <1>1, <1>6, AddUnknownStep
<1>8. /\ GraphTypes' /\ CopiesInv' /\ edges \subseteq edges'
      /\ \A f \in fs : <<f, phantom_obj>> \in edges'
  BY <1>0, <1>1, <1>6, AddUnknownStep
<1>9. ListTypes'
  <2>1. UNION {FieldUsesOf(f) : f \in new} \subseteq Entries
    BY <1>1, <1>6, UsesTyped
  <2> QED
    BY <1>0, <1>1, <1>7, <2>1, PushTyped
<1>10. ControlTypes' /\ FateTypes'
  BY <1>0, <1>1 DEF ControlTypes, FateTypes
<1>11. ASSUME NEW m \in Nodes, m \notin escape_worklist'
       PROVE  Spread(m)'
  <2>1. esc'[m] = esc[m] /\ fesc'[m] = fesc[m]
    BY <1>0, <1>3, <1>11 DEF Changed
  <2>2. Edges(m)' \subseteq Edges(m) \cup {phantom_obj, null_obj} /\ Edges(m) \subseteq Nodes
    BY <1>0, <1>7, EdgesOfUnknown
  <2>3. CASE m # n
    <3>1. Spread(m)
      BY <1>0, <1>1, <1>11, <2>3 DEF SpreadInv
    <3> QED
      BY <1>1, <1>4, <1>5, <1>8, <2>1, <2>2, <3>1, SpreadKept
  <2>4. CASE m = n
    <3>1. ASSUME NEW e \in Edges(m)' \ {null_obj}
          PROVE  /\ fesc'[e] >= fesc'[m]
                 /\ e \notin Arraycopies => esc'[e] >= esc'[m]
                 /\ m \in Objects /\ e \in Fields => esc'[e] >= fesc'[m]
      <4>1. CASE e \in Edges(n)
        BY <1>1, <1>2, <1>3, <2>1, <2>4, <3>1, <4>1, NewStates
      <4>2. CASE e = phantom_obj
        BY <1>4, <1>5, <4>2, NodeSets DEF StateTypes, Escapes, NoEscape, GlobalEscape
      <4> QED
        BY <2>2, <2>4, <3>1, <4>1, <4>2
    <3>2. m \in Fields /\ esc'[m] >= ArgEscape => <<m, phantom_obj>> \in edges'
      BY <1>8, <2>1, <2>4
    <3> QED
      BY <3>1, <3>2 DEF Spread
  <2> QED
    BY <2>3, <2>4
<1>12. SpreadInv'
  BY <1>0, <1>11 DEF SpreadInv, StatesFinal
<1>13. FatesInv'
  <2>1. Remaining' \subseteq Remaining
    BY <1>1, <1>4, NodeSets DEF Remaining, StateTypes, Escapes, NoEscape, GlobalEscape
  <2> QED
    BY <1>0, <1>1, <2>1 DEF FatesInv
<1>14. VisitInv'
  BY <1>0 DEF VisitInv
<1> QED
  BY <1>5, <1>8, <1>9, <1>10, <1>12, <1>13, <1>14 DEF CGInv, CGTypeInv

\* Steps that leave escape states and bases alone and add at most unknown values:
\* done nodes stay done.
LEMMA SpreadAfterUnknown ==
  ASSUME GraphTypes, StateTypes, NEW new, edges' = edges \cup (new \X {phantom_obj}),
         UNCHANGED <<bases, esc, fesc>>, escape_worklist' \subseteq Nodes
  PROVE  StateTypes' /\ \A m \in Nodes : Spread(m) => Spread(m)'
<1>1. StateTypes'
  BY DEF StateTypes
<1>2. ASSUME NEW m \in Nodes, Spread(m) PROVE Spread(m)'
  <2>1. Edges(m)' \subseteq Edges(m) \cup {phantom_obj, null_obj} /\ Edges(m) \subseteq Nodes
    BY EdgesOfUnknown
  <2>2. \A e \in Nodes : esc'[e] >= esc[e] /\ fesc'[e] >= fesc[e]
    BY DEF StateTypes, Escapes, NoEscape, GlobalEscape
  <2> QED
    BY <1>1, <1>2, <2>1, <2>2, SpreadKept
<1> QED
  BY <1>1, <1>2

LEMMA NextPassTyped ==
  ASSUME ControlTypes, pc \in {"escape", "fields"}, NextPass
  PROVE  ControlTypes'
<1>1. CG_BUILD_ITER_LIMIT \in Nat /\ Len(JavaObjects) \in Nat
  BY ConnectionGraphAssumption
<1>2. /\ iterations \in Nat /\ iterations <= CG_BUILD_ITER_LIMIT /\ iterations' = iterations + 1
      /\ at \in 0..Len(JavaObjects) /\ new_edges \in BOOLEAN
  BY <1>1 DEF ControlTypes, NextPass
<1>3. CASE iterations < CG_BUILD_ITER_LIMIT
  <2>1. pc' = "pass" /\ at' = 0 /\ new_edges' = FALSE
    BY <1>3 DEF NextPass
  <2>2. iterations' \in 0..(CG_BUILD_ITER_LIMIT + 1) /\ iterations' <= CG_BUILD_ITER_LIMIT
    BY <1>1, <1>2, <1>3
  <2>3. at' \in 0..Len(JavaObjects)
    BY <1>1, <2>1
  <2>4. new_edges' \in BOOLEAN
    BY <2>1, Zenon
  <2> QED
    BY <2>1, <2>2, <2>3, <2>4 DEF ControlTypes
<1>4. CASE ~(iterations < CG_BUILD_ITER_LIMIT)
  <2>1. pc' = "bailout" /\ at' = at /\ new_edges' = new_edges
    BY <1>4 DEF NextPass
  <2> QED
    BY <1>1, <1>2, <1>4, <2>1 DEF ControlTypes
<1> QED
  BY <1>3, <1>4

LEMMA EndEscapeStep ==
  ASSUME CGInv, EndEscape
  PROVE  CGInv'
<1> DEFINE fs == UNION {BaseUses(o) : o \in {p \in non_escaped : UnknownContent(p)}}
<1>0. /\ pc = "escape" /\ escape_worklist = {} /\ AddUnknown(fs)
      /\ non_escaped' = {o \in non_escaped : esc[o] < GlobalEscape}
      /\ UNCHANGED <<bases, esc, fesc, src, dst, shape, escape_worklist, todo, does_not_escape>>
      /\ \/ pc' = "nothing" /\ UNCHANGED <<at, new_edges, iterations>>
         \/ NextPass
  BY DEF EndEscape
<1>1. /\ CGTypeInv /\ CopiesInv /\ GraphTypes /\ StateTypes /\ ListTypes /\ ControlTypes /\ FateTypes
      /\ SpreadInv /\ FatesInv
  BY DEF CGInv, CGTypeInv
<1>2. fs \in SUBSET Fields
  BY DEF BaseUses
<1> HIDE DEF fs
<1>3. PICK new \in SUBSET fs : edges' = edges \cup (new \X {phantom_obj})
                               /\ Push(UNION {FieldUsesOf(f) : f \in new}, worklist)
  BY <1>0, <1>1, <1>2, AddUnknownStep
<1>4. GraphTypes' /\ CopiesInv'
  BY <1>0, <1>1, <1>2, AddUnknownStep
<1>5. pc' \in {"nothing", "pass", "bailout"} /\ (pc' = "pass" => at' = 0 /\ new_edges' = FALSE)
  BY <1>0 DEF NextPass
<1>6. ListTypes'
  <2>1. UNION {FieldUsesOf(f) : f \in new} \subseteq Entries
    BY <1>1, <1>2, UsesTyped
  <2> QED
    BY <1>1, <1>3, <1>5, <2>1, PushTyped
<1>7. ControlTypes'
  <2>1. CASE pc' = "nothing" /\ UNCHANGED <<at, new_edges, iterations>>
    BY <1>1, <2>1 DEF ControlTypes
  <2>2. CASE NextPass
    BY <1>0, <1>1, <2>2, NextPassTyped
  <2> QED
    BY <1>0, <2>1, <2>2
<1>8. StateTypes' /\ \A m \in Nodes : Spread(m)'
  <2>1. \A m \in Nodes : Spread(m)
    BY <1>0, <1>1 DEF SpreadInv
  <2> QED
    BY <1>0, <1>1, <1>3, <2>1, SpreadAfterUnknown DEF StateTypes
<1>9. SpreadInv'
  BY <1>5, <1>8 DEF SpreadInv
<1>10. FateTypes' /\ FatesInv'
  <2>1. non_escaped' = Remaining' /\ non_escaped' \subseteq Allocs \cup Calls
    BY <1>0, <1>1 DEF FatesInv, Remaining, FateTypes
  <2>2. todo' = {}
    BY <1>0, <1>1 DEF FatesInv
  <2> QED
    BY <1>0, <1>1, <1>5, <2>1, <2>2 DEF FatesInv, FateTypes
<1>11. VisitInv'
  BY <1>5 DEF VisitInv
<1> QED
  BY <1>4, <1>6, <1>7, <1>8, <1>9, <1>10, <1>11 DEF CGInv, CGTypeInv

-----------------------------------------------------------------------------
\* Steps that leave the graph alone
LEMMA GraphKept ==
  ASSUME UNCHANGED <<edges, bases, src, dst, shape>>
  PROVE  /\ (CopiesInv => CopiesInv') /\ (GraphTypes => GraphTypes')
         /\ \A o : Populate(o)' = Populate(o) /\ (Visited(o) => Visited(o)')
         /\ \A e, o : Satisfied(e, o)' = Satisfied(e, o)
         /\ UNCHANGED <<esc, fesc>> => \A m : Spread(m) => Spread(m)'
<1>1. (CopiesInv => CopiesInv') /\ (GraphTypes => GraphTypes')
  BY DEF CopiesInv, CopiesMarked, DestinationsKnown, GraphTypes
<1>2. \A o : Populate(o)' = Populate(o)
  BY DEF Populate, FieldUsesOf, UsesOf, Uses, BaseUses, Bases, CopiedTo, AliasesAt, FieldsOf, SameOffset
<1>3. \A e, o : Satisfied(e, o)' = Satisfied(e, o)
  BY DEF Satisfied
<1>4. \A o : Visited(o) => Visited(o)'
  BY <1>2, <1>3 DEF Visited
<1>5. UNCHANGED <<esc, fesc>> => \A m : Spread(m) => Spread(m)'
  BY DEF Spread, Edges, BaseUses
<1> QED
  BY <1>1, <1>2, <1>3, <1>4, <1>5

LEMMA NextObjectStep ==
  ASSUME CGInv, NextObject
  PROVE  CGInv'
<1>0. /\ pc = "pass" /\ worklist = {} /\ at < Len(JavaObjects) /\ at' = at + 1
      /\ worklist' = Populate(JavaObjects[at + 1]) /\ in_worklist' = Populate(JavaObjects[at + 1])
      /\ UNCHANGED <<edges, bases, src, dst, shape>> /\ UNCHANGED <<esc, fesc>>
      /\ UNCHANGED <<non_escaped, escape_worklist, pc, new_edges, iterations, todo, does_not_escape>>
  BY DEF NextObject, graphVars
<1>1. /\ CopiesInv /\ GraphTypes /\ StateTypes /\ ControlTypes /\ FateTypes
      /\ SpreadInv /\ FatesInv /\ VisitInv
  BY DEF CGInv, CGTypeInv
<1>2. /\ Len(JavaObjects) \in Nat /\ at \in 0..Len(JavaObjects)
      /\ \A i \in 1..Len(JavaObjects) : JavaObjects[i] \in Objects
  BY <1>1, ConnectionGraphAssumption DEF ControlTypes
<1>3. GraphTypes' /\ CopiesInv' /\ StateTypes' /\ FateTypes' /\ FatesInv'
  BY <1>0, <1>1, GraphKept DEF StateTypes, FateTypes, FatesInv, Remaining
<1>4. ControlTypes'
  BY <1>0, <1>1, <1>2 DEF ControlTypes
<1>5. ListTypes'
  BY <1>0, <1>1, <1>2, PopulateTyped DEF ListTypes
<1>6. SpreadInv'
  BY <1>0, <1>1, GraphKept DEF SpreadInv, StatesFinal
<1>7. VisitInv'
  <2>0. PICK o \in Objects : o = JavaObjects[at']
    BY <1>0, <1>2
  <2> SUFFICES ASSUME ~new_edges
               PROVE  /\ \A i \in 1..Len(JavaObjects) : i < at + 1 => Visited(JavaObjects[i])'
                      /\ Visiting(o)'
    BY <1>0, <2>0 DEF VisitInv
  <2>1. \A i \in 1..Len(JavaObjects) : i < at + 1 => Visited(JavaObjects[i])
    <3>1. \A i \in 1..Len(JavaObjects) : i < at => Visited(JavaObjects[i])
      BY <1>0, <1>1 DEF VisitInv
    <3>2. at > 0 => Visited(JavaObjects[at])
      BY <1>0, <1>1 DEF VisitInv, Visiting, Visited
    <3>3. \A i \in 1..Len(JavaObjects) : i < at + 1 => i < at \/ (i = at /\ at > 0)
      BY <1>2
    <3> QED
      BY <3>1, <3>2, <3>3
  <2>2. Visiting(o)'
    <3>1. Populate(o)' = Populate(o) /\ worklist' = Populate(o)
      BY <1>0, <2>0, GraphKept
    <3> QED
      BY <3>1 DEF Visiting
  <2> QED
    BY <1>0, <2>1, <2>2, GraphKept
<1> QED
  BY <1>1, <1>3, <1>4, <1>5, <1>6, <1>7 DEF CGInv, CGTypeInv

LEMMA EndPassStep ==
  ASSUME CGInv, EndPass
  PROVE  CGInv'
<1>0. /\ pc = "pass" /\ worklist = {} /\ at = Len(JavaObjects) /\ in_worklist' = {}
      /\ IF new_edges THEN pc' = "escape" /\ escape_worklist' = Escaping
         ELSE pc' \in {"fields", "bailout"} /\ UNCHANGED escape_worklist
      /\ UNCHANGED <<edges, bases, src, dst, shape>> /\ UNCHANGED <<esc, fesc>>
      /\ UNCHANGED <<non_escaped, worklist, at, new_edges, iterations, todo, does_not_escape>>
  BY DEF EndPass, graphVars
<1>1. /\ CopiesInv /\ GraphTypes /\ StateTypes /\ ControlTypes /\ FateTypes
      /\ SpreadInv /\ FatesInv /\ VisitInv
  BY DEF CGInv, CGTypeInv
<1>2. escape_worklist' \subseteq Nodes
  BY <1>0, <1>1 DEF StateTypes, Escaping
<1>3. GraphTypes' /\ CopiesInv' /\ StateTypes' /\ FateTypes'
  BY <1>0, <1>1, <1>2, GraphKept DEF StateTypes, FateTypes
<1>4. ControlTypes' /\ ListTypes' /\ FatesInv'
  BY <1>0, <1>1 DEF ControlTypes, ListTypes, FatesInv, Remaining
<1>5. SpreadInv'
  <2>1. CASE ~new_edges
    BY <1>0, <1>1, <2>1, GraphKept DEF SpreadInv, StatesFinal
  <2>2. CASE new_edges
    <3> SUFFICES ASSUME NEW n \in Nodes, n \notin Escaping PROVE Spread(n)'
      BY <1>0, <2>2 DEF SpreadInv, StatesFinal
    <3>1. \A m \in Nodes : esc[m] \in 1..3 /\ fesc[m] \in 1..3
      BY <1>1 DEF StateTypes, Escapes, NoEscape, GlobalEscape
    <3>2. esc[n] = 1 /\ fesc[n] = 1
      BY <3>1 DEF Escaping, ArgEscape
    <3>3. Edges(n) \subseteq Nodes
      BY NodeSets DEF Edges, BaseUses
    <3>4. Spread(n)
      BY <3>1, <3>2, <3>3 DEF Spread, ArgEscape
    <3> QED
      BY <1>0, <3>4, GraphKept
  <2> QED
    BY <2>1, <2>2
<1>6. VisitInv'
  <2> SUFFICES ASSUME pc' = "fields", NEW o \in Objects PROVE Visited(o)'
    BY <1>0 DEF VisitInv
  <2>1. Len(JavaObjects) \in Nat
    BY ConnectionGraphAssumption
  <2>2. PICK i \in 1..Len(JavaObjects) : JavaObjects[i] = o
    BY ConnectionGraphAssumption
  <2>3. ~new_edges
    BY <1>0
  <2>4. CASE i < at
    BY <1>0, <1>1, <2>2, <2>3, <2>4, GraphKept DEF VisitInv
  <2>5. CASE i = at
    <3>1. Visiting(o)
      BY <1>0, <1>1, <2>1, <2>2, <2>3, <2>5 DEF VisitInv
    <3>2. Visited(o)
      BY <1>0, <3>1 DEF Visiting, Visited
    <3> QED
      BY <1>0, <3>2, GraphKept
  <2> QED
    BY <1>0, <2>1, <2>4, <2>5
<1> QED
  BY <1>3, <1>4, <1>5, <1>6 DEF CGInv, CGTypeInv

LEMMA TimeoutStep ==
  ASSUME CGInv, Timeout
  PROVE  CGInv'
<1>0. /\ pc' = "bailout" /\ UNCHANGED <<edges, bases, src, dst, shape>>
      /\ UNCHANGED <<esc, fesc, non_escaped, escape_worklist, worklist, in_worklist, at, new_edges,
                     iterations, todo, does_not_escape>>
  BY DEF Timeout, graphVars
<1>1. GraphTypes' /\ CopiesInv'
  BY <1>0, GraphKept DEF CGInv, CGTypeInv
<1>2. StateTypes' /\ ListTypes' /\ ControlTypes' /\ FateTypes'
  BY <1>0 DEF CGInv, CGTypeInv, StateTypes, ListTypes, ControlTypes, FateTypes
<1>3. SpreadInv' /\ FatesInv' /\ VisitInv'
  BY <1>0 DEF SpreadInv, StatesFinal, FatesInv, VisitInv
<1> QED
  BY <1>1, <1>2, <1>3 DEF CGInv, CGTypeInv

LEMMA FindFieldValuesStep ==
  ASSUME CGInv, FindFieldValues
  PROVE  CGInv'
<1>0. /\ pc = "fields" /\ AddUnknown(UnknownFields) /\ UNCHANGED shape
      /\ UNCHANGED <<bases, esc, fesc, src, dst, non_escaped, escape_worklist, does_not_escape>>
      /\ \/ UnknownFields # {} /\ NextPass /\ UNCHANGED todo
         \/ /\ UnknownFields = {} /\ pc' = "nulls" /\ todo' = non_escaped
            /\ UNCHANGED <<at, new_edges, iterations>>
  BY DEF FindFieldValues
<1>1. /\ CGTypeInv /\ CopiesInv /\ GraphTypes /\ StateTypes /\ ListTypes /\ ControlTypes /\ FateTypes
      /\ SpreadInv /\ FatesInv /\ VisitInv
  BY DEF CGInv, CGTypeInv
<1>2. UnknownFields \in SUBSET Fields
  BY DEF UnknownFields
<1>3. PICK new \in SUBSET UnknownFields : edges' = edges \cup (new \X {phantom_obj})
                               /\ Push(UNION {FieldUsesOf(f) : f \in new}, worklist)
  BY <1>0, <1>1, <1>2, AddUnknownStep
<1>4. GraphTypes' /\ CopiesInv' /\ (UnknownFields = {} => edges' = edges)
  BY <1>0, <1>1, <1>2, AddUnknownStep
<1>5. pc' \in {"pass", "bailout", "nulls"} /\ (pc' = "pass" => at' = 0 /\ new_edges' = FALSE)
  BY <1>0 DEF NextPass
<1>6. ListTypes'
  <2>1. UNION {FieldUsesOf(f) : f \in new} \subseteq Entries
    BY <1>1, <1>2, UsesTyped
  <2> QED
    BY <1>1, <1>3, <1>5, <2>1, PushTyped
<1>7. ControlTypes'
  <2>1. CASE NextPass
    BY <1>0, <1>1, <2>1, NextPassTyped
  <2>2. CASE pc' = "nulls" /\ UNCHANGED <<at, new_edges, iterations>>
    BY <1>1, <2>2 DEF ControlTypes
  <2> QED
    BY <1>0, <2>1, <2>2
<1>8. StateTypes' /\ SpreadInv'
  <2>1. \A m \in Nodes : Spread(m)
    BY <1>0, <1>1 DEF SpreadInv, StatesFinal
  <2>2. StateTypes' /\ \A m \in Nodes : Spread(m)'
    BY <1>0, <1>1, <1>3, <2>1, SpreadAfterUnknown DEF StateTypes
  <2> QED
    BY <1>5, <2>2 DEF SpreadInv
<1>9. FateTypes' /\ FatesInv'
  BY <1>0, <1>1, <1>5 DEF FateTypes, FatesInv, Remaining, NextPass
<1>10. VisitInv'
  <2>1. CASE pc' = "nulls"
    <3>1. UNCHANGED <<edges, bases, src, dst, shape>> /\ in_worklist' = {}
      <4>1. new = {} /\ in_worklist = {}
        BY <1>0, <1>1, <2>1 DEF NextPass, ListTypes
      <4>2. UNION {FieldUsesOf(f) : f \in new} = {}
        BY <4>1
      <4> QED
        BY <1>0, <1>3, <1>4, <2>1, <4>1, <4>2 DEF NextPass, Push
    <3>2. \A o \in Objects : Visited(o)'
      BY <1>0, <1>1, <3>1, GraphKept DEF VisitInv
    <3>3. Visiting(null_obj)'
      BY <3>2, NodeSets DEF Visiting, Visited
    <3> QED
      BY <2>1, <3>1, <3>2, <3>3 DEF VisitInv
  <2>2. CASE pc' # "nulls"
    BY <1>5, <2>2 DEF VisitInv
  <2> QED
    BY <2>1, <2>2
<1> QED
  BY <1>4, <1>6, <1>7, <1>8, <1>9, <1>10 DEF CGInv, CGTypeInv

LEMMA FinishStep ==
  ASSUME CGInv, Finish
  PROVE  CGInv'
<1>0. /\ pc = "nulls" /\ worklist = {} /\ todo = {} /\ pc' = "done" /\ in_worklist' = {}
      /\ UNCHANGED <<edges, bases, src, dst, shape>> /\ UNCHANGED <<esc, fesc>>
      /\ UNCHANGED <<non_escaped, escape_worklist, worklist, at, new_edges, iterations, todo, does_not_escape>>
  BY DEF Finish, graphVars
<1>1. GraphTypes' /\ CopiesInv'
  BY <1>0, GraphKept DEF CGInv, CGTypeInv
<1>2. StateTypes' /\ ListTypes' /\ ControlTypes' /\ FateTypes'
  BY <1>0 DEF CGInv, CGTypeInv, StateTypes, ListTypes, ControlTypes, FateTypes
<1>3. SpreadInv'
  BY <1>0, GraphKept DEF CGInv, SpreadInv, StatesFinal
<1>4. FatesInv'
  BY <1>0 DEF CGInv, FatesInv, Remaining
<1>5. VisitInv'
  <2>1. \A o \in Objects : Visited(o)
    BY <1>0 DEF CGInv, VisitInv, Visiting, Visited
  <2> QED
    BY <1>0, <2>1, GraphKept DEF VisitInv
<1> QED
  BY <1>1, <1>2, <1>3, <1>4, <1>5 DEF CGInv, CGTypeInv

-----------------------------------------------------------------------------
\* Where a value of field f is seen: bases of f and what is copied from them.
SeenAt(f) == Bases(f) \cup UNION {CopiedTo(b) : b \in Bases(f)}

\* Null among the values and bases changes nothing for the other objects, and not
\* which entries a node puts on the worklist.
LEMMA NullGrows ==
  ASSUME GraphTypes, CopiesInv, CopiesInv', NEW N \in SUBSET (Vars \cup Fields), NEW F \in SUBSET Fields,
         edges' = edges \cup (N \X {null_obj}), bases' = bases \cup (F \X {null_obj}),
         UNCHANGED <<src, dst, shape>>
  PROVE  /\ \A n \in Vars \cup Fields : UsesOf(n)' = UsesOf(n)
         /\ \A f \in Fields : FieldUsesOf(f)' = FieldUsesOf(f)
         /\ \A o \in Objects \ {null_obj} : Populate(o)' = Populate(o)
         /\ \A e, o : Satisfied(e, o) => Satisfied(e, o)'
         /\ \A m \in Nodes : Edges(m)' \subseteq Edges(m) \cup {phantom_obj, null_obj}
         /\ Uses(null_obj)' \subseteq Uses(null_obj) \cup N
<1>1. \A b : b # null_obj => Uses(b)' = Uses(b) /\ BaseUses(b)' = BaseUses(b)
  BY DEF Uses, BaseUses
<1>2. ASSUME NEW n \in Vars \cup Fields PROVE UsesOf(n)' = UsesOf(n)
  <2>1. n # null_obj
    BY NodeSets
  <2> QED
    BY <1>1, <2>1 DEF UsesOf
<1>3. \A c : FieldsOf(c)' = FieldsOf(c)
  BY <1>1 DEF FieldsOf
<1>4. \A f, c : AliasesAt(f, c)' = AliasesAt(f, c)
  BY <1>3 DEF AliasesAt, SameOffset
<1>5. \A b : CopiedTo(b)' = CopiedTo(b)
  <2>1. ASSUME NEW b, b # null_obj PROVE CopiedTo(b)' = CopiedTo(b)
    <3>1. \A a \in Arraycopies : Uses(a)' = Uses(a)
      BY <1>1, NodeSets
    <3>2. Uses(b)' = Uses(b) /\ src' = src /\ dst' = dst
      BY <1>1, <2>1
    <3>3. \A x : x \in CopiedTo(b) <=>
            b \in src /\ x # b /\ \E a \in Uses(b) \cap Arraycopies : x \in Uses(a) \cap dst
      BY DEF CopiedTo
    <3>4. \A x : x \in CopiedTo(b)' <=>
            b \in src' /\ x # b /\ \E a \in Uses(b)' \cap Arraycopies : x \in Uses(a)' \cap dst'
      BY DEF CopiedTo
    <3>5. \A x : x \in CopiedTo(b)' <=> x \in CopiedTo(b)
      BY <3>1, <3>2, <3>3, <3>4
    <3> QED
      BY <3>5
  <2>2. Uses(null_obj) \cap Arraycopies = {} /\ Uses(null_obj)' \cap Arraycopies = {}
    BY NodeSets DEF CopiesInv, CopiesMarked, Uses
  <2>3. CopiedTo(null_obj)' = {} /\ CopiedTo(null_obj) = {}
    BY <2>2 DEF CopiedTo
  <2> QED
    BY <2>1, <2>3
<1>6. \A f : Bases(f) \subseteq Bases(f)' /\ Bases(f)' \subseteq Bases(f) \cup {null_obj}
  BY DEF Bases
<1>7. CopiedTo(null_obj) = {} /\ \A f : AliasesAt(f, null_obj) = {}
  <2>1. Uses(null_obj) \cap Arraycopies = {}
    BY NodeSets DEF CopiesInv, CopiesMarked, Uses
  <2> QED
    BY <2>1 DEF CopiedTo, AliasesAt, FieldsOf
<1>8. ASSUME NEW f \in Fields PROVE FieldUsesOf(f)' = FieldUsesOf(f)
  <2>1. \A g : (\E c \in SeenAt(f)' : g \in AliasesAt(f, c)) <=> (\E c \in SeenAt(f) : g \in AliasesAt(f, c))
    <3>1. SeenAt(f) \subseteq SeenAt(f)'
      BY <1>5, <1>6 DEF SeenAt
    <3>2. SeenAt(f)' \subseteq SeenAt(f) \cup {null_obj}
      BY <1>5, <1>6, <1>7 DEF SeenAt
    <3> QED
      BY <1>7, <3>1, <3>2
  <2>2. UNION {AliasesAt(f, c)' : c \in SeenAt(f)'} = UNION {AliasesAt(f, c) : c \in SeenAt(f)}
    BY <1>4, <2>1
  <2> QED
    BY <1>2, <2>2 DEF FieldUsesOf, SeenAt
<1>9. ASSUME NEW o \in Objects \ {null_obj} PROVE Populate(o)' = Populate(o)
  <2>1. Uses(o) \ Arraycopies \subseteq Vars \cup Fields
    BY EdgeKinds, NodeSets DEF Uses
  <2>2. Uses(o)' = Uses(o)
    BY <1>1
  <2>3. \A u \in Uses(o) \ Arraycopies :
          (IF u \in Fields THEN FieldUsesOf(u)' ELSE UsesOf(u)') = IF u \in Fields THEN FieldUsesOf(u) ELSE UsesOf(u)
    BY <1>2, <1>8, <2>1
  <2> QED
    BY <2>2, <2>3 DEF Populate
<1>10. \A e, o : Satisfied(e, o) => Satisfied(e, o)'
  BY DEF Satisfied
<1>11. ASSUME NEW m \in Nodes PROVE Edges(m)' \subseteq Edges(m) \cup {phantom_obj, null_obj}
  BY <1>1 DEF Edges
<1>12. Uses(null_obj)' \subseteq Uses(null_obj) \cup N
  BY DEF Uses
<1> QED
  BY <1>2, <1>8, <1>9, <1>10, <1>11, <1>12

LEMMA SpreadAfterNull ==
  ASSUME StateTypes, UNCHANGED <<esc, fesc, escape_worklist>>, edges \subseteq edges',
         \A m \in Nodes : Edges(m)' \subseteq Edges(m) \cup {phantom_obj, null_obj}
  PROVE  StateTypes' /\ \A m \in Nodes : Spread(m) => Spread(m)'
<1>1. StateTypes'
  BY DEF StateTypes
<1>2. \A e \in Nodes : esc'[e] >= esc[e] /\ fesc'[e] >= fesc[e]
  BY DEF StateTypes, Escapes, NoEscape, GlobalEscape
<1>3. \A m \in Nodes : Edges(m) \subseteq Nodes
  BY NodeSets DEF Edges, BaseUses
<1> QED
  BY <1>1, <1>2, <1>3, SpreadKept

\* An entry done for null_obj after the last pass
LEMMA AddNullStep ==
  ASSUME CGInv, NEW e \in worklist, AddEdge(e), pc = "nulls"
  PROVE  SpreadInv' /\ VisitInv' /\ StateTypes'
<1>0. /\ CGTypeInv /\ GraphTypes /\ StateTypes /\ CopiesInv /\ SpreadInv /\ VisitInv /\ CopiesInv'
      /\ Current = null_obj /\ Current' = null_obj /\ pc' = "nulls"
      /\ UNCHANGED <<esc, fesc, escape_worklist>> /\ UNCHANGED shape
      /\ AddBase(e) \/ AddSource(e) \/ OldEdge(e) \/ AddToVar(e) \/ AddToField(e)
      /\ e \in Entries
  <2>1. CGTypeInv /\ GraphTypes /\ StateTypes /\ CopiesInv /\ SpreadInv /\ VisitInv /\ Current = null_obj
    BY DEF CGInv, CGTypeInv, Current
  <2> QED
    BY <2>1, AddEdgeFrame, AddEdgeCopies
<1>1. PICK entries \in SUBSET Entries :
        /\ Push(entries, worklist \ {e})
        /\ entries = IF <<e[1], null_obj>> \in edges \/ e[2] = "base" \/ e[1] \in Arraycopies THEN {}
                     ELSE IF e[1] \in Vars THEN UsesOf(e[1]) ELSE FieldUsesOf(e[1])
  BY <1>0, AddEdgeLists
<1>2. Satisfied(e, null_obj)' /\ worklist \ {e} \subseteq worklist'
  BY <1>0, AddEdgeLists DEF Satisfied
<1> DEFINE N == IF <<e[1], null_obj>> \in edges \/ e[2] = "base" \/ e[1] \in Arraycopies THEN {} ELSE {e[1]}
           F == IF e[2] = "base" THEN {e[1]} ELSE {}
<1>3. /\ N \in SUBSET (Vars \cup Fields) /\ F \in SUBSET Fields
      /\ edges' = edges \cup (N \X {null_obj}) /\ bases' = bases \cup (F \X {null_obj})
      /\ UNCHANGED <<src, dst>>
  <2>0. N \in SUBSET (Vars \cup Fields) /\ F \in SUBSET Fields
    BY <1>0, EntryKinds
  <2>1. CASE AddBase(e)
    <3>1. /\ e[2] = "base" /\ UNCHANGED <<edges, src, dst>>
          /\ bases' = bases \cup ({e[1]} \X {null_obj})
      BY <1>0, <2>1 DEF AddBase
    <3>2. N = {} /\ F = {e[1]}
      BY <3>1
    <3> QED
      BY <2>0, <3>1, <3>2
  <2>2. CASE AddSource(e) \/ OldEdge(e)
    <3>1. UNCHANGED <<edges, bases, src, dst>>
      BY <1>0, <2>2 DEF AddSource, OldEdge, graphVars
    <3>2. N = {} /\ F = {}
      BY <1>0, <2>2 DEF AddSource, OldEdge
    <3> QED
      BY <2>0, <3>1, <3>2
  <2>3. CASE AddToVar(e) \/ AddToField(e)
    <3>1. /\ e[1] \in Vars \cup Fields /\ e[2] = "use" /\ <<e[1], null_obj>> \notin edges
          /\ edges' = edges \cup ({e[1]} \X {null_obj}) /\ UNCHANGED <<bases, src, dst>>
      BY <1>0, <2>3 DEF AddToVar, AddToField
    <3>2. N = {e[1]} /\ F = {}
      BY <3>1, NodeSets
    <3> QED
      BY <2>0, <3>1, <3>2
  <2> QED
    BY <1>0, <2>1, <2>2, <2>3
<1>a. \A u \in N : u = e[1] /\ entries = IF u \in Vars THEN UsesOf(u) ELSE FieldUsesOf(u)
  BY <1>1
<1> HIDE DEF N, F
<1>4. /\ \A n \in Vars \cup Fields : UsesOf(n)' = UsesOf(n)
      /\ \A f \in Fields : FieldUsesOf(f)' = FieldUsesOf(f)
      /\ \A o \in Objects \ {null_obj} : Populate(o)' = Populate(o)
      /\ \A x, o : Satisfied(x, o) => Satisfied(x, o)'
      /\ \A m \in Nodes : Edges(m)' \subseteq Edges(m) \cup {phantom_obj, null_obj}
      /\ Uses(null_obj)' \subseteq Uses(null_obj) \cup N
  BY <1>0, <1>3, NullGrows
<1>5. StateTypes' /\ SpreadInv'
  <2>1. edges \subseteq edges' /\ \A n \in Nodes : Spread(n)
    BY <1>0, <1>3 DEF SpreadInv, StatesFinal
  <2>2. StateTypes' /\ \A n \in Nodes : Spread(n)'
    BY <1>0, <1>4, <2>1, SpreadAfterNull
  <2> QED
    BY <1>0, <2>2 DEF SpreadInv
<1>6. \A o \in Objects \ {null_obj} : Visited(o)'
  BY <1>0, <1>4 DEF VisitInv, Visited
<1>7. ASSUME NEW x, x \in worklist \/ Satisfied(x, null_obj)
      PROVE  x \in worklist' \/ Satisfied(x, null_obj)'
  BY <1>2, <1>4, <1>7
<1>8. \A x \in in_worklist' : x \in worklist' \/ Satisfied(x, null_obj)'
  <2>1. \A x \in in_worklist : x \in worklist' \/ Satisfied(x, null_obj)'
    BY <1>0, <1>7 DEF VisitInv
  <2> QED
    BY <1>1, <2>1 DEF Push
<1>9. Visiting(null_obj)'
  <2> SUFFICES ASSUME NEW x \in Populate(null_obj)'
               PROVE  x \in worklist' \/ Satisfied(x, null_obj)'
    BY DEF Visiting
  <2>1. PICK u \in Uses(null_obj)' \ Arraycopies : x \in IF u \in Fields THEN FieldUsesOf(u)' ELSE UsesOf(u)'
    BY DEF Populate
  <2>2. GraphTypes'
    BY <1>0, AddEdgeCopies
  <2>3. u \in Vars \cup Fields
    <3>1. <<u, null_obj>> \in edges' /\ u \notin Arraycopies
      BY <2>1 DEF Uses
    <3> QED
      BY <1>0, <1>3, <3>1, EdgeKinds, NodeSets
  <2>4. x \in IF u \in Fields THEN FieldUsesOf(u) ELSE UsesOf(u)
    BY <1>4, <2>1, <2>3
  <2>5. CASE u \in Uses(null_obj)
    <3>1. x \in Populate(null_obj)
      BY <2>1, <2>4, <2>5 DEF Populate
    <3> QED
      BY <1>0, <1>7, <3>1 DEF VisitInv, Visiting
  <2>6. CASE u \in N
    <3>1. u = e[1] /\ entries = IF u \in Vars THEN UsesOf(u) ELSE FieldUsesOf(u)
      BY <1>a, <2>6
    <3>2. x \in entries
      BY <2>3, <2>4, <3>1, NodeSets
    <3> QED
      BY <1>1, <1>8, <3>2 DEF Push
  <2> QED
    BY <1>4, <2>1, <2>5, <2>6
<1> QED
  BY <1>0, <1>5, <1>6, <1>8, <1>9 DEF VisitInv

LEMMA AddEdgeStep ==
  ASSUME CGInv, NEW e \in worklist, AddEdge(e)
  PROVE  CGInv'
<1>0. /\ CGTypeInv /\ GraphTypes /\ StateTypes /\ ControlTypes /\ FateTypes /\ CopiesInv
      /\ SpreadInv /\ FatesInv /\ VisitInv
  BY DEF CGInv, CGTypeInv
<1>1. /\ pc \in {"pass", "nulls"} /\ Current \in Objects /\ Current' = Current /\ UNCHANGED shape
      /\ UNCHANGED <<esc, fesc>>
      /\ UNCHANGED <<non_escaped, escape_worklist, pc, at, iterations, todo, does_not_escape>>
  BY <1>0, AddEdgeFrame
<1>2. GraphTypes' /\ CopiesInv' /\ ListTypes'
  BY <1>0, AddEdgeCopies, AddEdgeLists
<1>3. new_edges' \in BOOLEAN /\ (~new_edges' => ~new_edges /\ UNCHANGED <<edges, bases, src, dst>>)
  BY <1>0, AddEdgeGraph
<1>4. ControlTypes' /\ FateTypes' /\ FatesInv' /\ StateTypes'
  BY <1>0, <1>1, <1>3 DEF ControlTypes, FateTypes, FatesInv, Remaining, StateTypes
<1>5. SpreadInv' /\ VisitInv'
  <2>1. CASE pc = "nulls"
    BY <2>1, AddNullStep
  <2>2. CASE pc = "pass" /\ new_edges'
    BY <1>1, <2>2 DEF SpreadInv, StatesFinal, VisitInv
  <2>3. CASE pc = "pass" /\ ~new_edges'
    <3>1. ~new_edges /\ UNCHANGED <<edges, bases, src, dst, shape>>
      BY <1>1, <1>3, <2>3
    <3>2. SpreadInv'
      BY <1>0, <1>1, <2>3, <3>1, GraphKept DEF SpreadInv, StatesFinal
    <3>3. \A i \in 1..Len(JavaObjects) : i < at => Visited(JavaObjects[i])'
      BY <1>0, <2>3, <3>1, GraphKept DEF VisitInv
    <3>4. ASSUME at > 0 PROVE Visiting(JavaObjects[at])'
      <4>1. PICK o : o = JavaObjects[at] /\ o = Current /\ o = JavaObjects[at'] /\ o = Current'
        <5>1. at \in Nat /\ at # 0
          BY <1>0, <3>4 DEF ControlTypes
        <5> QED
          BY <1>1, <2>3, <5>1 DEF Current
      <4>2. Satisfied(e, o)' /\ worklist \ {e} \subseteq worklist'
        BY <1>0, <4>1, AddEdgeLists DEF Satisfied
      <4>3. Visiting(o)
        BY <1>0, <2>3, <3>1, <3>4, <4>1 DEF VisitInv
      <4>4. Visiting(o)'
        BY <3>1, <4>2, <4>3, GraphKept DEF Visiting
      <4> QED
        BY <4>1, <4>4 DEF Visiting
    <3> QED
      BY <1>1, <2>3, <3>2, <3>3, <3>4 DEF VisitInv
  <2> QED
    BY <1>1, <2>1, <2>2, <2>3
<1> QED
  BY <1>2, <1>4, <1>5 DEF CGInv, CGTypeInv

LEMMA InitNullsStep ==
  ASSUME CGInv, NEW o \in Allocs \cup Calls, InitNulls(o)
  PROVE  CGInv'
<1>0. /\ CGTypeInv /\ GraphTypes /\ StateTypes /\ ControlTypes /\ FateTypes /\ CopiesInv
      /\ SpreadInv /\ FatesInv /\ VisitInv
  BY DEF CGInv, CGTypeInv
<1>1. /\ pc = "nulls" /\ worklist = {} /\ o \in todo /\ todo' = todo \ {o}
      /\ does_not_escape' = does_not_escape \cup ({o} \cap Allocs)
      /\ UNCHANGED <<src, dst, shape>> /\ UNCHANGED <<esc, fesc, escape_worklist>>
      /\ UNCHANGED <<bases, non_escaped, pc, at, new_edges, iterations>>
  BY DEF InitNulls
<1>2. PICK fs \in SUBSET Fields :
        /\ edges' = edges \cup (fs \X {null_obj})
        /\ worklist' = UNION {FieldUsesOf(f) : f \in fs}
        /\ in_worklist' = worklist'
  <2>1. ASSUME NEW x \in NullFields(o) PROVE x \subseteq Fields
    <3>1. x \subseteq {f \in BaseUses(o) : <<f, null_obj>> \notin edges}
      BY <2>1 DEF NullFields
    <3> QED
      BY <3>1 DEF BaseUses
  <2> QED
    BY <2>1 DEF InitNulls
<1>3. GraphTypes' /\ CopiesInv'
  <2>1. GraphTypes'
    BY <1>0, <1>1, <1>2, NodeSets DEF GraphTypes, EdgeSpace
  <2>2. \A n, m : <<n, m>> \in edges' => <<n, m>> \in edges \/ (n \in Fields /\ m = null_obj)
    BY <1>2
  <2>3. CopiesMarked(edges', src', dst')
    <3> SUFFICES ASSUME NEW a \in Arraycopies, NEW n \in Nodes
                 PROVE  /\ <<a, n>> \in edges' => n \in src /\ n # null_obj
                        /\ <<n, a>> \in edges' => n \in dst /\ n # null_obj
      BY <1>1 DEF CopiesMarked
    <3>1. (<<a, n>> \in edges' => <<a, n>> \in edges) /\ (<<n, a>> \in edges' => <<n, a>> \in edges)
      BY <2>2, NodeSets
    <3> QED
      BY <1>0, <3>1 DEF CopiesInv, CopiesMarked
  <2>4. CopyDestinationsKnown => DestinationsKnown(edges')
    BY <1>0, <1>2, <2>2, NodeSets DEF CopiesInv, DestinationsKnown
  <2> QED
    BY <2>1, <2>3, <2>4 DEF CopiesInv
<1>4. edges' = edges \cup (fs \X {null_obj}) /\ bases' = bases \cup ({} \X {null_obj})
  BY <1>1, <1>2
<1>5. /\ \A n \in Vars \cup Fields : UsesOf(n)' = UsesOf(n)
      /\ \A f \in Fields : FieldUsesOf(f)' = FieldUsesOf(f)
      /\ \A p \in Objects \ {null_obj} : Populate(p)' = Populate(p)
      /\ \A x, p : Satisfied(x, p) => Satisfied(x, p)'
      /\ \A m \in Nodes : Edges(m)' \subseteq Edges(m) \cup {phantom_obj, null_obj}
      /\ Uses(null_obj)' \subseteq Uses(null_obj) \cup fs
  <2>1. fs \in SUBSET (Vars \cup Fields) /\ {} \in SUBSET Fields
    BY <1>2
  <2> QED
    BY <1>0, <1>1, <1>3, <1>4, <2>1, NullGrows
<1>6. StateTypes' /\ SpreadInv'
  <2>1. edges \subseteq edges' /\ \A n \in Nodes : Spread(n)
    BY <1>0, <1>1, <1>4 DEF SpreadInv, StatesFinal
  <2>2. StateTypes' /\ \A n \in Nodes : Spread(n)'
    BY <1>0, <1>1, <1>5, <2>1, SpreadAfterNull
  <2> QED
    BY <1>1, <2>2 DEF SpreadInv
<1>7. ListTypes' /\ ControlTypes'
  BY <1>0, <1>1, <1>2, UsesTyped DEF ListTypes, ControlTypes
<1>8. FateTypes' /\ FatesInv'
  BY <1>0, <1>1 DEF FateTypes, FatesInv, Remaining
<1>9. VisitInv'
  <2>1. \A p \in Objects \ {null_obj} : Visited(p)'
    BY <1>0, <1>1, <1>5 DEF VisitInv, Visited
  <2>2. Visiting(null_obj)'
    <3> SUFFICES ASSUME NEW x \in Populate(null_obj)'
                 PROVE  x \in worklist' \/ Satisfied(x, null_obj)'
      BY DEF Visiting
    <3>1. PICK u \in Uses(null_obj)' \ Arraycopies : x \in IF u \in Fields THEN FieldUsesOf(u)' ELSE UsesOf(u)'
      BY DEF Populate
    <3>2. u \in Vars \cup Fields
      <4>1. <<u, null_obj>> \in edges' /\ u \notin Arraycopies
        BY <3>1 DEF Uses
      <4> QED
        BY <1>0, <1>4, <4>1, EdgeKinds, NodeSets
    <3>3. x \in IF u \in Fields THEN FieldUsesOf(u) ELSE UsesOf(u)
      BY <1>5, <3>1, <3>2
    <3>4. CASE u \in Uses(null_obj)
      <4>1. x \in Populate(null_obj)
        BY <3>1, <3>3, <3>4 DEF Populate
      <4> QED
        BY <1>0, <1>1, <1>5, <4>1 DEF VisitInv, Visiting
    <3>5. CASE u \in fs
      BY <1>2, <3>3, <3>5
    <3> QED
      BY <1>5, <3>1, <3>4, <3>5
  <2> QED
    BY <1>1, <1>2, <2>1, <2>2 DEF VisitInv
<1> QED
  BY <1>3, <1>6, <1>7, <1>8, <1>9 DEF CGInv, CGTypeInv

-----------------------------------------------------------------------------
LEMMA CGInvInit == CGInit => CGInv
<1> SUFFICES ASSUME NEW g \in Starts, CGStart(g) PROVE CGInv
  BY DEF CGInit
<1>0. /\ edges = g.edges /\ bases = g.bases /\ src = g.src /\ dst = g.dst
      /\ esc = g.esc /\ fesc = g.fesc
      /\ non_escaped = {o \in Allocs \cup Calls : esc[o] < GlobalEscape}
      /\ escape_worklist = Escaping /\ worklist = {} /\ in_worklist = {} /\ pc = "escape" /\ at = 0
      /\ new_edges = TRUE /\ iterations = 0 /\ todo = {} /\ does_not_escape = {}
  BY DEF CGStart
<1>1. IsStart(g) /\ CG_BUILD_ITER_LIMIT \in Nat /\ Len(JavaObjects) \in Nat
  BY ConnectionGraphAssumption
<1>2. GraphTypes /\ CopiesInv
  BY <1>0, <1>1 DEF IsStart, GraphTypes, CopiesInv, CopyDestinationsKnown
<1>3. StateTypes
  BY <1>0, <1>1 DEF IsStart, StateTypes, Escaping
<1>4. new_edges \in BOOLEAN
  BY <1>0, Zenon
<1>5. ListTypes /\ ControlTypes /\ FateTypes /\ FatesInv
  BY <1>0, <1>1, <1>4 DEF ListTypes, ControlTypes, FateTypes, FatesInv, Remaining
<1>6. SpreadInv
  <2> SUFFICES ASSUME NEW n \in Nodes, n \notin Escaping PROVE Spread(n)
    BY <1>0 DEF SpreadInv, StatesFinal
  <2>1. \A m \in Nodes : esc[m] \in 1..3 /\ fesc[m] \in 1..3
    BY <1>3 DEF StateTypes, Escapes, NoEscape, GlobalEscape
  <2>2. esc[n] = 1 /\ fesc[n] = 1
    BY <2>1 DEF Escaping, ArgEscape
  <2>3. Edges(n) \subseteq Nodes
    BY NodeSets DEF Edges, BaseUses
  <2> QED
    BY <2>1, <2>2, <2>3 DEF Spread, ArgEscape
<1>7. VisitInv
  BY <1>0 DEF VisitInv
<1> QED
  BY <1>2, <1>3, <1>5, <1>6, <1>7 DEF CGInv, CGTypeInv

LEMMA CGInvNext == CGInv /\ [CGNext]_cgVars => CGInv'
<1> SUFFICES ASSUME CGInv, [CGNext]_cgVars PROVE CGInv'
  OBVIOUS
<1>1. CASE CGNext
  BY <1>1, SpreadEscapeStep, EndEscapeStep, AddEdgeStep, NextObjectStep, EndPassStep, TimeoutStep,
     FindFieldValuesStep, InitNullsStep, FinishStep DEF CGNext
<1>2. CASE UNCHANGED cgVars
  <2>0. /\ UNCHANGED <<edges, bases, src, dst, shape>> /\ UNCHANGED <<esc, fesc>>
        /\ UNCHANGED <<non_escaped, escape_worklist, worklist, in_worklist, pc, at, new_edges,
                       iterations, todo, does_not_escape>>
    BY <1>2 DEF cgVars
  <2>1. GraphTypes' /\ CopiesInv'
    BY <2>0, GraphKept DEF CGInv, CGTypeInv
  <2>2. StateTypes' /\ ListTypes' /\ ControlTypes' /\ FateTypes'
    BY <2>0 DEF CGInv, CGTypeInv, StateTypes, ListTypes, ControlTypes, FateTypes
  <2>3. SpreadInv'
    BY <2>0, GraphKept DEF CGInv, SpreadInv, StatesFinal
  <2>4. FatesInv'
    BY <2>0 DEF CGInv, FatesInv, Remaining
  <2>5. VisitInv'
    BY <2>0, GraphKept DEF CGInv, VisitInv, Visiting
  <2> QED
    BY <2>1, <2>2, <2>3, <2>4, <2>5 DEF CGInv, CGTypeInv
<1> QED
  BY <1>1, <1>2

\* The inductive invariant holds for every connection graph of step 1.
THEOREM CGInvariant == CGSpec => []CGInv
BY CGInvInit, CGInvNext, PTL DEF CGSpec

\* complete_connection_graph keeps its lists, states and counters well typed.
THEOREM CGTypeCorrect == CGSpec => []CGTypeOK
<1>1. CGInv => CGTypeOK
  <2> SUFFICES ASSUME CGInv PROVE CGTypeOK
    OBVIOUS
  <2>1. edges \subseteq Nodes \X Nodes
    BY NodeSets DEF CGInv, CGTypeInv, GraphTypes, EdgeSpace
  <2> QED
    BY <2>1 DEF CGInv, CGTypeInv, GraphTypes, StateTypes, ListTypes, ControlTypes, FateTypes, Entries,
                CGTypeOK
<1> QED
  BY <1>1, CGInvariant, PTL

\* For every connection graph of step 1: when complete_connection_graph is done, the
\* escape states are final, although null values were added after they were computed.
THEOREM EscapeIsFinal == CGSpec => []EscapeFinal
<1>1. CGInv => EscapeFinal
  <2> SUFFICES ASSUME CGInv, pc = "done"
               PROVE  /\ \A n \in Nodes : \A e \in Edges(n) \ {null_obj} :
                           /\ fesc[e] >= fesc[n]
                           /\ e \notin Arraycopies => esc[e] >= esc[n]
                           /\ n \in Objects /\ e \in Fields => esc[e] >= fesc[n]
                      /\ \A f \in Fields : esc[f] >= ArgEscape => <<f, phantom_obj>> \in edges
                      /\ does_not_escape = {o \in Allocs : esc[o] < GlobalEscape}
    BY DEF EscapeFinal
  <2>1. \A n \in Nodes : Spread(n)
    BY DEF CGInv, SpreadInv, StatesFinal
  <2>2. \A f \in Fields : esc[f] >= ArgEscape => <<f, phantom_obj>> \in edges
    BY <2>1, NodeSets DEF Spread
  <2>3. does_not_escape = {o \in Allocs : esc[o] < GlobalEscape}
    BY DEF CGInv, FatesInv, Remaining
  <2> QED
    BY <2>1, <2>2, <2>3 DEF Spread
<1> QED
  BY <1>1, CGInvariant, PTL

\* The entries that the visit of o would look at are those that closure is about.
LEMMA VisitedIsClosed ==
  ASSUME CGInv, NEW o \in Objects, Visited(o)
  PROVE  /\ \A n, m \in Vars \cup Fields :
              <<n, m>> \in edges /\ <<m, o>> \in edges => <<n, o>> \in edges
         /\ \A f \in Fields, v \in Vars : <<f, v>> \in bases /\ <<v, o>> \in edges => <<f, o>> \in bases
         /\ \A f, g \in Fields : <<f, o>> \in edges /\ SameLocation(f, g) => <<g, o>> \in edges
         /\ \A f, g \in Fields :
              CopyDestinationsKnown /\ <<f, o>> \in edges /\ CopiedInto(f, g) => <<g, o>> \in edges
<1>0. GraphTypes /\ CopiesInv
  BY DEF CGInv, CGTypeInv
<1>1. \A u \in Vars \cup Fields : <<u, o>> \in edges => u \in Uses(o) \ Arraycopies
  BY NodeSets DEF Uses
<1>2. ASSUME NEW u \in Vars \cup Fields, <<u, o>> \in edges, NEW e \in UsesOf(u)
      PROVE  Satisfied(e, o)
  <2>1. u \in Fields => UsesOf(u) \subseteq FieldUsesOf(u)
    BY DEF FieldUsesOf
  <2>2. e \in Populate(o)
    BY <1>1, <1>2, <2>1 DEF Populate
  <2> QED
    BY <2>2 DEF Visited
<1>3. ASSUME NEW n \in Vars \cup Fields, NEW m \in Vars \cup Fields, <<n, m>> \in edges, <<m, o>> \in edges
      PROVE  <<n, o>> \in edges
  <2>1. <<n, "use">> \in UsesOf(m)
    BY <1>3, NodeSets DEF UsesOf, Uses
  <2>2. Satisfied(<<n, "use">>, o)
    BY <1>2, <1>3, <2>1
  <2> QED
    BY <2>2, NodeSets DEF Satisfied
<1>4. ASSUME NEW f \in Fields, NEW v \in Vars, <<f, v>> \in bases, <<v, o>> \in edges
      PROVE  <<f, o>> \in bases
  <2>1. <<f, "base">> \in UsesOf(v)
    BY <1>4 DEF UsesOf, BaseUses
  <2>2. Satisfied(<<f, "base">>, o)
    BY <1>2, <1>4, <2>1
  <2> QED
    BY <2>2 DEF Satisfied
<1>5. ASSUME NEW f \in Fields, NEW g \in Fields, <<f, o>> \in edges, g # f,
             NEW c \in SeenAt(f), g \in AliasesAt(f, c)
      PROVE  <<g, o>> \in edges
  <2>1. <<g, "use">> \in FieldUsesOf(f)
    BY <1>5 DEF FieldUsesOf, SeenAt
  <2>2. <<g, "use">> \in Populate(o)
    BY <1>1, <1>5, <2>1 DEF Populate
  <2>3. Satisfied(<<g, "use">>, o)
    BY <2>2 DEF Visited
  <2> QED
    BY <2>3, NodeSets DEF Satisfied
<1>6. ASSUME NEW f \in Fields, NEW g \in Fields, <<f, o>> \in edges, SameLocation(f, g)
      PROVE  <<g, o>> \in edges
  <2>1. PICK b \in Allocs \cup Calls \cup Consts : b \in Bases(f) /\ b \in Bases(g) /\ SameOffset(f, g)
    BY <1>6 DEF SameLocation
  <2>2. b \in SeenAt(f) /\ (g # f => g \in AliasesAt(f, b))
    BY <2>1, NodeSets DEF SeenAt, AliasesAt, FieldsOf, BaseUses, Bases
  <2> QED
    BY <1>5, <1>6, <2>2
<1>7. ASSUME CopyDestinationsKnown, NEW f \in Fields, NEW g \in Fields, <<f, o>> \in edges, CopiedInto(f, g)
      PROVE  <<g, o>> \in edges
  <2>1. PICK a \in Arraycopies, s \in Objects, d \in Objects :
          /\ SameOffset(f, g) /\ s \in Bases(f) /\ d \in Bases(g)
          /\ s # d /\ d \notin {phantom_obj, null_obj} /\ <<a, s>> \in edges
          /\ <<d, a>> \in edges \/ \E v \in Vars : {<<v, a>>, <<v, d>>} \subseteq edges
    BY <1>7 DEF CopiedInto
  <2>2. <<d, a>> \in edges
    BY <1>0, <1>7, <2>1 DEF CopiesInv, DestinationsKnown
  <2>3. s \in src /\ d \in dst
    BY <1>0, <2>1, <2>2, NodeSets DEF CopiesInv, CopiesMarked
  <2>4. a \in Uses(s) \cap Arraycopies /\ d \in Uses(a) \cap dst
    BY <2>1, <2>2, <2>3, NodeSets DEF Uses
  <2>5. d \in CopiedTo(s)
    BY <2>1, <2>3, <2>4 DEF CopiedTo
  <2>6. d \in SeenAt(f) /\ (g # f => g \in AliasesAt(f, d))
    BY <2>1, <2>5 DEF SeenAt, AliasesAt, FieldsOf, BaseUses, Bases
  <2> QED
    BY <1>5, <1>7, <2>6
<1> QED
  BY <1>3, <1>4, <1>6, <1>7

\* For every connection graph of step 1: the graph that complete_connection_graph leaves
\* is closed under assignments, loads, stores, aliased fields and arraycopies, although
\* the passes stop after one without new edges and null is added after the last.
\* The hypothesis is needed: see CopyDestinationsKnown.
THEOREM PointsToIsClosed ==
  ASSUME CopyDestinationsKnown PROVE CGSpec => []PointsToClosed
<1>1. CGInv => PointsToClosed
  <2> SUFFICES ASSUME CGInv, pc = "done", NEW o \in Objects
               PROVE  /\ \A n, m \in Vars \cup Fields :
                           {<<n, m>>, <<m, o>>} \subseteq edges => <<n, o>> \in edges
                      /\ \A f \in Fields, v \in Vars :
                           <<f, v>> \in bases /\ <<v, o>> \in edges => <<f, o>> \in bases
                      /\ \A f, g \in Fields :
                           <<f, o>> \in edges /\ (SameLocation(f, g) \/ CopiedInto(f, g)) =>
                             <<g, o>> \in edges
    BY DEF PointsToClosed
  <2>1. Visited(o)
    BY DEF CGInv, VisitInv
  <2> QED
    BY <2>1, VisitedIsClosed
<1> QED
  BY <1>1, CGInvariant, PTL

-----------------------------------------------------------------------------
(***************************************************************************)
(* Every field gets a value. For each field the graph keeps a reason why   *)
(* it has one, or will: it is a field of an object whose content is        *)
(* unknown, something is stored in it, or it belongs to an allocation      *)
(* that null has been, or will be, added for.                              *)
(***************************************************************************)
\* The graph has grown from one of step 1, by edges to objects only.
GrownFrom(g) ==
  /\ g.edges \subseteq edges /\ g.bases \subseteq bases
  /\ \A f \in Fields, v \in Vars : <<f, v>> \in edges => <<f, v>> \in g.edges
  /\ shape.offset = g.offset /\ shape.raw = g.raw /\ shape.captured = g.captured
StartInv == \E g \in Starts : GrownFrom(g)

ConstantsInv == \A k \in Consts : esc[k] = GlobalEscape

\* find_init_values(o, phantom_obj) has been called for the objects it is for.
UnknownInv ==
  StatesFinal => \A o \in Allocs \cup Calls : UnknownContent(o) =>
    \A f \in BaseUses(o) : <<f, phantom_obj>> \in edges

\* find_field_value has left no field without values and without an allocation.
HasReason(f) == (\E m \in Nodes : <<f, m>> \in edges) \/ (\E a \in Allocs : <<f, a>> \in bases)
ReasonsInv == pc \in {"nulls", "done"} => \A f \in Fields : HasReason(f)

\* find_init_values(o, null_obj) has been called: f has null, will have, or need not.
NullKnown(o, f) ==
  \/ f \in shape.raw \/ <<o, shape.offset[f]>> \in shape.captured
  \/ <<f, null_obj>> \in edges \/ <<f, "use">> \in worklist
NullsInv ==
  /\ pc \in {"nulls", "done"} =>
       \A o \in Allocs \ todo : esc[o] = NoEscape => \A f \in BaseUses(o) : NullKnown(o, f)
  /\ pc = "done" => worklist = {} /\ todo = {}

FieldsInv == StartInv /\ ConstantsInv /\ UnknownInv /\ ReasonsInv /\ NullsInv
LEMMA StartKept ==
  ASSUME StartInv, edges \subseteq edges', bases \subseteq bases', UNCHANGED shape,
         \A f \in Fields, v \in Vars : <<f, v>> \in edges' => <<f, v>> \in edges
  PROVE  StartInv'
<1>1. PICK g \in Starts : GrownFrom(g)
  BY DEF StartInv
<1>2. GrownFrom(g)'
  BY <1>1 DEF GrownFrom
<1> QED
  BY <1>2 DEF StartInv

\* Steps that leave graph, states and lists alone
LEMMA FieldsKept ==
  ASSUME FieldsInv, UNCHANGED <<edges, bases, dst, shape>>, UNCHANGED <<esc, fesc>>
  PROVE  /\ StartInv' /\ ConstantsInv'
         /\ (StatesFinal' => StatesFinal) => UnknownInv'
<1>1. StartInv'
  BY StartKept DEF FieldsInv
<1>2. ConstantsInv'
  BY DEF FieldsInv, ConstantsInv
<1>3. (StatesFinal' => StatesFinal) => UnknownInv'
  BY DEF FieldsInv, UnknownInv, UnknownContent, BaseUses
<1> QED
  BY <1>1, <1>2, <1>3

LEMMA SpreadEscapeFields ==
  ASSUME CGInv, FieldsInv, NEW n \in Nodes, SpreadEscape(n)
  PROVE  FieldsInv'
<1> DEFINE fs == IF n \in Fields /\ esc[n] >= ArgEscape THEN {n} ELSE {}
<1>0. /\ pc = "escape" /\ AddUnknown(fs) /\ UNCHANGED <<bases, src, dst>> /\ UNCHANGED <<shape, pc>>
      /\ esc'  = [e \in Nodes |-> IF e \in Edges(n) THEN NewEsc(n, e) ELSE esc[e]]
  BY DEF SpreadEscape
<1>1. CGTypeInv /\ CopiesInv /\ StateTypes /\ StateTypes' /\ fs \in SUBSET Fields
  BY SpreadEscapeStep DEF CGInv, CGTypeInv
<1> HIDE DEF fs
<1>2. PICK new \in SUBSET fs : edges' = edges \cup (new \X {phantom_obj})
  BY <1>0, <1>1, AddUnknownStep
<1>3. StartInv'
  BY <1>0, <1>2, StartKept, NodeSets DEF FieldsInv
<1>4. ConstantsInv'
  <2> SUFFICES ASSUME NEW k \in Consts PROVE esc'[k] = GlobalEscape
    BY DEF ConstantsInv
  <2>1. k \in Nodes /\ esc[k] = GlobalEscape /\ esc'[k] \in 1..3
    BY <1>1, NodeSets DEF FieldsInv, ConstantsInv, StateTypes, Escapes, NoEscape, GlobalEscape
  <2>2. esc'[k] >= esc[k]
    BY <1>0, <1>1, <2>1, NewStates DEF StateTypes, Escapes, NoEscape, GlobalEscape
  <2> QED
    BY <2>1, <2>2 DEF GlobalEscape
<1>5. UnknownInv' /\ ReasonsInv' /\ NullsInv'
  BY <1>0 DEF UnknownInv, StatesFinal, ReasonsInv, NullsInv
<1> QED
  BY <1>3, <1>4, <1>5 DEF FieldsInv

LEMMA EndEscapeFields ==
  ASSUME CGInv, FieldsInv, EndEscape
  PROVE  FieldsInv'
<1> DEFINE fs == UNION {BaseUses(o) : o \in {p \in non_escaped : UnknownContent(p)}}
<1>0. /\ pc = "escape" /\ AddUnknown(fs) /\ UNCHANGED <<bases, src, dst>> /\ UNCHANGED <<shape, esc, fesc>>
      /\ \/ pc' = "nothing" /\ UNCHANGED <<at, new_edges, iterations>>
         \/ NextPass
  BY DEF EndEscape
<1>1. CGTypeInv /\ CopiesInv /\ fs \in SUBSET Fields
  BY DEF CGInv, BaseUses
<1>2. \A o \in non_escaped : UnknownContent(o) => BaseUses(o) \subseteq fs
  OBVIOUS
<1> HIDE DEF fs
<1>3. PICK new \in SUBSET fs : edges' = edges \cup (new \X {phantom_obj})
  BY <1>0, <1>1, AddUnknownStep
<1>4. \A f \in fs : <<f, phantom_obj>> \in edges'
  BY <1>0, <1>1, AddUnknownStep
<1>5. StartInv'
  BY <1>0, <1>3, StartKept, NodeSets DEF FieldsInv
<1>6. ConstantsInv'
  BY <1>0 DEF FieldsInv, ConstantsInv
<1>7. UnknownInv'
  <2> SUFFICES ASSUME NEW o \in Allocs \cup Calls, UnknownContent(o)', NEW f \in BaseUses(o)'
               PROVE  <<f, phantom_obj>> \in edges'
    BY DEF UnknownInv
  <2>1. UnknownContent(o) /\ f \in BaseUses(o)
    BY <1>0 DEF UnknownContent, BaseUses
  <2>2. o \in non_escaped
    BY <1>0, <2>1 DEF CGInv, FatesInv, Remaining, UnknownContent, NoEscape, GlobalEscape
  <2> QED
    BY <1>2, <1>4, <2>1, <2>2
<1>8. ReasonsInv' /\ NullsInv'
  BY <1>0 DEF ReasonsInv, NullsInv, NextPass
<1> QED
  BY <1>5, <1>6, <1>7, <1>8 DEF FieldsInv

LEMMA FindFieldValuesFields ==
  ASSUME CGInv, FieldsInv, FindFieldValues
  PROVE  FieldsInv'
<1>0. /\ pc = "fields" /\ AddUnknown(UnknownFields) /\ UNCHANGED <<bases, src, dst>>
      /\ UNCHANGED <<shape, esc, fesc, non_escaped>>
      /\ \/ UnknownFields # {} /\ NextPass /\ UNCHANGED todo
         \/ /\ UnknownFields = {} /\ pc' = "nulls" /\ todo' = non_escaped
            /\ UNCHANGED <<at, new_edges, iterations>>
  BY DEF FindFieldValues
<1>1. CGTypeInv /\ CopiesInv /\ UnknownFields \in SUBSET Fields
  BY DEF CGInv, UnknownFields
<1>2. PICK new \in SUBSET UnknownFields : edges' = edges \cup (new \X {phantom_obj})
  BY <1>0, <1>1, AddUnknownStep
<1>3. StartInv'
  BY <1>0, <1>1, <1>2, StartKept, NodeSets DEF FieldsInv
<1>4. ConstantsInv'
  BY <1>0 DEF FieldsInv, ConstantsInv
<1>5. UnknownInv'
  BY <1>0, <1>2 DEF FieldsInv, UnknownInv, StatesFinal, UnknownContent, BaseUses
<1>6. ReasonsInv'
  <2> SUFFICES ASSUME pc' = "nulls", NEW f \in Fields PROVE HasReason(f)'
    BY <1>0 DEF ReasonsInv, NextPass
  <2>1. f \notin UnknownFields
    BY <1>0 DEF NextPass
  <2>2. Edges(f) # {} \/ Bases(f) \cap Allocs # {}
    BY <2>1 DEF UnknownFields
  <2>3. CASE Edges(f) # {}
    <3>1. PICK m \in Nodes : <<f, m>> \in edges
      BY <2>3, NodeSets DEF Edges
    <3> QED
      BY <1>2, <3>1 DEF HasReason
  <2>4. CASE Bases(f) \cap Allocs # {}
    BY <1>0, <2>4 DEF HasReason, Bases
  <2> QED
    BY <2>2, <2>3, <2>4
<1>7. NullsInv'
  <2> SUFFICES ASSUME pc' = "nulls", NEW o \in Allocs, o \notin todo', esc'[o] = NoEscape PROVE FALSE
    BY <1>0 DEF NullsInv, NextPass
  <2> QED
    BY <1>0 DEF NextPass, CGInv, FatesInv, Remaining, NoEscape, GlobalEscape
<1> QED
  BY <1>3, <1>4, <1>5, <1>6, <1>7 DEF FieldsInv

\* Steps that add nothing and do not end a phase for the better
LEMMA QuietFields ==
  ASSUME CGInv, FieldsInv, NextObject \/ EndPass \/ Timeout \/ Finish \/ UNCHANGED cgVars
  PROVE  FieldsInv'
<1>0. UNCHANGED <<edges, bases, dst, shape>> /\ UNCHANGED <<esc, fesc>> /\ UNCHANGED <<new_edges, todo>>
  BY DEF NextObject, EndPass, Timeout, Finish, cgVars, graphVars
<1>1. \/ pc' = pc /\ (pc = "pass" \/ UNCHANGED worklist)
      \/ pc = "pass" /\ pc' = "fields" /\ ~new_edges
      \/ pc' \in {"escape", "bailout"}
      \/ pc = "nulls" /\ pc' = "done" /\ worklist = {} /\ todo = {} /\ UNCHANGED worklist
  BY DEF NextObject, EndPass, Timeout, Finish, cgVars
<1>2. StatesFinal' => StatesFinal
  BY <1>0, <1>1 DEF StatesFinal
<1>3. StartInv' /\ ConstantsInv' /\ UnknownInv'
  BY <1>0, <1>2, FieldsKept
<1>4. ReasonsInv'
  BY <1>0, <1>1 DEF FieldsInv, ReasonsInv, HasReason
<1>5. NullsInv'
  BY <1>0, <1>1 DEF FieldsInv, NullsInv, NullKnown, BaseUses
<1> QED
  BY <1>3, <1>4, <1>5 DEF FieldsInv
LEMMA AddEdgeFields ==
  ASSUME CGInv, FieldsInv, NEW e \in worklist, AddEdge(e)
  PROVE  FieldsInv'
<1>0. /\ CGTypeInv /\ pc \in {"pass", "nulls"} /\ Current \in Objects /\ UNCHANGED shape
      /\ UNCHANGED <<esc, fesc>> /\ UNCHANGED <<pc, at, todo>> /\ e \in Entries
      /\ AddBase(e) \/ AddSource(e) \/ OldEdge(e) \/ AddToVar(e) \/ AddToField(e)
  BY AddEdgeFrame DEF CGInv
<1>1. /\ edges \subseteq edges' /\ bases \subseteq bases' /\ bases' \subseteq bases \cup {<<e[1], Current>>}
      /\ \A n, m : <<n, m>> \in edges' /\ <<n, m>> \notin edges => m = Current \/ m \in Arraycopies
      /\ ~new_edges' => ~new_edges /\ UNCHANGED <<edges, bases, src, dst>>
  BY <1>0, AddEdgeGraph
<1>2. StartInv'
  <2>1. \A f \in Fields, v \in Vars : <<f, v>> \in edges' => <<f, v>> \in edges
    BY <1>0, <1>1, NodeSets
  <2> QED
    BY <1>0, <1>1, <2>1, StartKept DEF FieldsInv
<1>3. ConstantsInv'
  BY <1>0 DEF FieldsInv, ConstantsInv
<1>4. ReasonsInv'
  BY <1>0, <1>1 DEF FieldsInv, ReasonsInv, HasReason
<1>5. CASE pc = "pass"
  <2>1. NullsInv'
    BY <1>0, <1>5 DEF NullsInv
  <2>2. UnknownInv'
    <3>1. CASE new_edges'
      BY <1>0, <1>5, <3>1 DEF UnknownInv, StatesFinal
    <3>2. CASE ~new_edges'
      BY <1>0, <1>1, <1>5, <3>2, FieldsKept DEF StatesFinal
    <3> QED
      BY <3>1, <3>2
  <2> QED
    BY <1>2, <1>3, <1>4, <2>1, <2>2 DEF FieldsInv
<1>6. CASE pc = "nulls"
  <2>1. Current = null_obj /\ Current' = null_obj
    BY <1>0, <1>6 DEF Current
  <2>2. \A o \in Allocs \cup Calls : BaseUses(o)' = BaseUses(o)
    BY <1>1, <2>1, NodeSets DEF BaseUses
  <2>3. dst' = dst
    BY <1>0, <2>1 DEF AddBase, AddSource, OldEdge, AddToVar, AddToField, graphVars
  <2>4. UnknownInv'
    BY <1>0, <1>1, <1>6, <2>2, <2>3 DEF FieldsInv, UnknownInv, StatesFinal, UnknownContent
  <2>5. Satisfied(e, null_obj)' /\ worklist \ {e} \subseteq worklist'
    BY <1>0, <2>1, AddEdgeLists DEF Satisfied
  <2>6. ASSUME NEW o \in Allocs, NEW f \in Fields, NullKnown(o, f) PROVE NullKnown(o, f)'
    <3>1. CASE <<f, "use">> = e
      BY <2>5, <3>1, NodeSets DEF Satisfied, NullKnown
    <3>2. CASE <<f, "use">> # e
      BY <1>0, <1>1, <2>5, <2>6, <3>2 DEF NullKnown
    <3> QED
      BY <3>1, <3>2
  <2>7. NullsInv'
    <3> SUFFICES ASSUME NEW o \in Allocs, o \notin todo, esc[o] = NoEscape, NEW f \in BaseUses(o)
                 PROVE  NullKnown(o, f)'
      BY <1>0, <1>6, <2>2 DEF NullsInv
    <3>1. NullKnown(o, f) /\ f \in Fields
      BY <1>6 DEF FieldsInv, NullsInv, BaseUses
    <3> QED
      BY <2>6, <3>1
  <2> QED
    BY <1>2, <1>3, <1>4, <2>4, <2>7 DEF FieldsInv
<1> QED
  BY <1>0, <1>5, <1>6

\* What is pushed for a field reaches the others of the same object and offset.
LEMMA AliasPushed ==
  ASSUME NEW o \in Allocs, NEW f \in BaseUses(o), NEW g \in BaseUses(o), f # g, SameOffset(g, f)
  PROVE  <<f, "use">> \in FieldUsesOf(g)
<1>1. f \in AliasesAt(g, o) /\ o \in Bases(g)
  BY NodeSets DEF AliasesAt, FieldsOf, BaseUses, Bases
<1> QED
  BY <1>1 DEF FieldUsesOf

LEMMA OneIsSome == ASSUME NEW S, Cardinality(S) = 1 PROVE S # {}
  BY FS_EmptySet

\* find_init_values(o, null_obj) takes care of every field of o.
LEMMA NullForAll ==
  ASSUME CGInv, pc = "nulls", worklist = {}, NEW o \in Allocs, NEW fs \in NullFields(o),
         edges' = edges \cup (fs \X {null_obj}), worklist' = UNION {FieldUsesOf(f) : f \in fs},
         UNCHANGED shape, NEW f \in BaseUses(o)
  PROVE  NullKnown(o, f)'
<1> DEFINE bot   == {h \in BaseUses(o) : shape.offset[h] = OffsetBot}
           plain == (BaseUses(o) \ bot) \ shape.raw
           lacking == {h \in BaseUses(o) : <<h, null_obj>> \notin edges}
<1>1. /\ fs \subseteq lacking
      /\ Cardinality(fs \cap bot) = IF bot \cap lacking = {} THEN 0 ELSE 1
      /\ \E first \in SUBSET plain :
           /\ \A h \in plain : Cardinality({g \in first : shape.offset[g] = shape.offset[h]}) = 1
           /\ fs \ bot = {h \in first \cap lacking : <<o, shape.offset[h]>> \notin shape.captured}
  BY DEF NullFields
<1>2. /\ \A h : h \in bot <=> h \in BaseUses(o) /\ shape.offset[h] = OffsetBot
      /\ \A h : h \in plain <=> h \in BaseUses(o) /\ h \notin bot /\ h \notin shape.raw
      /\ \A h : h \in lacking <=> h \in BaseUses(o) /\ <<h, null_obj>> \notin edges
  OBVIOUS
<1> HIDE DEF bot, plain, lacking
<1>3. ASSUME NEW g \in BaseUses(o), SameOffset(g, f), g \in fs \/ <<g, null_obj>> \in edges
      PROVE  <<f, null_obj>> \in edges' \/ <<f, "use">> \in worklist'
  <2>1. CASE g = f
    BY <1>3, <2>1
  <2>2. CASE g # f /\ g \in fs
    BY <1>3, <2>2, AliasPushed
  <2>3. CASE g # f /\ <<g, null_obj>> \in edges
    <3>1. <<f, "use">> \in FieldUsesOf(g)
      BY <1>3, <2>3, AliasPushed
    <3>2. g \in Uses(null_obj) /\ g \in Fields /\ g \notin Arraycopies /\ f \notin Arraycopies
      BY <2>3, NodeSets DEF Uses, BaseUses
    <3>3. <<f, "use">> \in Populate(null_obj)
      BY <3>1, <3>2 DEF Populate
    <3>4. Satisfied(<<f, "use">>, null_obj)
      BY <3>3 DEF CGInv, VisitInv, Visiting
    <3> QED
      BY <3>2, <3>4 DEF Satisfied
  <2> QED
    BY <1>3, <2>1, <2>2, <2>3
<1>4. CASE f \in bot
  <2>1. CASE f \notin lacking
    BY <1>2, <2>1 DEF NullKnown
  <2>2. CASE f \in lacking
    <3>1. Cardinality(fs \cap bot) = 1
      BY <1>1, <1>4, <2>2
    <3>2. fs \cap bot # {}
      BY <3>1, OneIsSome
    <3>3. PICK g : g \in fs /\ g \in BaseUses(o) /\ shape.offset[g] = OffsetBot
      BY <1>2, <3>2
    <3> QED
      BY <1>3, <3>3 DEF SameOffset, NullKnown
  <2> QED
    BY <2>1, <2>2
<1>5. CASE f \notin bot /\ f \notin shape.raw /\ <<o, shape.offset[f]>> \notin shape.captured
  <2>1. f \in plain
    BY <1>2, <1>5
  <2>2. PICK first \in SUBSET plain :
           /\ \A h \in plain : Cardinality({g \in first : shape.offset[g] = shape.offset[h]}) = 1
           /\ fs \ bot = {h \in first \cap lacking : <<o, shape.offset[h]>> \notin shape.captured}
    BY <1>1
  <2>3. Cardinality({g \in first : shape.offset[g] = shape.offset[f]}) = 1
    BY <2>1, <2>2
  <2>4. {g \in first : shape.offset[g] = shape.offset[f]} # {}
    BY <2>3, OneIsSome
  <2>5. PICK g \in first : shape.offset[g] = shape.offset[f]
    BY <2>4
  <2>6. g \in BaseUses(o) /\ SameOffset(g, f)
    BY <1>2, <2>5 DEF SameOffset
  <2>7. g \in fs \/ <<g, null_obj>> \in edges
    BY <1>2, <1>5, <2>2, <2>5, <2>6
  <2> QED
    BY <1>3, <2>6, <2>7 DEF NullKnown
<1>6. CASE f \in shape.raw \/ <<o, shape.offset[f]>> \in shape.captured
  BY <1>6 DEF NullKnown
<1> QED
  BY <1>4, <1>5, <1>6

LEMMA InitNullsFields ==
  ASSUME CGInv, FieldsInv, NEW o \in Allocs \cup Calls, InitNulls(o)
  PROVE  FieldsInv'
<1>0. /\ pc = "nulls" /\ pc' = "nulls" /\ worklist = {} /\ todo' = todo \ {o} /\ UNCHANGED <<bases, dst>>
      /\ UNCHANGED shape /\ UNCHANGED <<esc, fesc>>
  BY DEF InitNulls
<1>1. PICK fs : /\ edges' = edges \cup (fs \X {null_obj}) /\ worklist' = UNION {FieldUsesOf(f) : f \in fs}
                /\ esc[o] = NoEscape /\ o \in Allocs => fs \in NullFields(o)
  BY DEF InitNulls
<1>2. StartInv'
  BY <1>0, <1>1, StartKept, NodeSets DEF FieldsInv
<1>3. ConstantsInv' /\ UnknownInv' /\ ReasonsInv'
  BY <1>0, <1>1 DEF FieldsInv, ConstantsInv, UnknownInv, StatesFinal, UnknownContent, BaseUses, ReasonsInv, HasReason
<1>4. ASSUME NEW p \in Allocs \ todo', esc[p] = NoEscape, NEW f \in BaseUses(p)
      PROVE  NullKnown(p, f)'
  <2>1. CASE p = o
    BY <1>0, <1>1, <1>4, <2>1, NullForAll
  <2>2. CASE p # o
    <3>1. NullKnown(p, f)
      BY <1>0, <1>4, <2>2 DEF FieldsInv, NullsInv
    <3> QED
      BY <1>0, <1>1, <3>1 DEF NullKnown
  <2> QED
    BY <2>1, <2>2
<1>5. NullsInv'
  BY <1>0, <1>4 DEF NullsInv, BaseUses
<1> QED
  BY <1>2, <1>3, <1>5 DEF FieldsInv

LEMMA FieldsInvInit == CGInit => FieldsInv
<1> SUFFICES ASSUME NEW g \in Starts, CGStart(g) PROVE FieldsInv
  BY DEF CGInit
<1>0. /\ edges = g.edges /\ bases = g.bases /\ esc = g.esc /\ pc = "escape"
      /\ shape = [offset |-> g.offset, raw |-> g.raw, captured |-> g.captured, rank |-> g.rank]
  BY DEF CGStart
<1>1. StartInv
  BY <1>0 DEF StartInv, GrownFrom
<1>2. ConstantsInv
  BY <1>0, ConnectionGraphAssumption DEF ConstantsInv, IsStart
<1> QED
  BY <1>0, <1>1, <1>2 DEF FieldsInv, UnknownInv, StatesFinal, ReasonsInv, NullsInv

LEMMA FieldsInvNext == CGInv /\ FieldsInv /\ [CGNext]_cgVars => FieldsInv'
  BY SpreadEscapeFields, EndEscapeFields, AddEdgeFields, FindFieldValuesFields, QuietFields,
     InitNullsFields DEF CGNext

\* Every field has, or will have, a reason for a value, in every connection graph of step 1.
THEOREM FieldsInvariant == CGSpec => []FieldsInv
BY FieldsInvInit, FieldsInvNext, CGInvariant, PTL DEF CGSpec
\* In a finished graph a field of an object other than null has a value, unless it is
\* the address of an initializing store, or of the location that a captured one writes.
LEMMA FieldOfObject ==
  ASSUME CGInv, FieldsInv, pc = "done", NEW f \in Fields, NEW b \in Objects \ {null_obj}, <<f, b>> \in bases
  PROVE  \/ Edges(f) \cap Objects # {}
         \/ f \in shape.raw
         \/ b \in Allocs /\ <<b, shape.offset[f]>> \in shape.captured
<1>0. \A n \in Nodes : esc[n] \in 1..3
  BY DEF CGInv, CGTypeInv, StateTypes, Escapes, NoEscape, GlobalEscape
<1>1. f \in BaseUses(b) /\ f \in Edges(b) \ {null_obj} /\ f \notin Arraycopies /\ b \in Nodes /\ f \in Nodes
  BY NodeSets DEF BaseUses, Edges
<1>2. ASSUME <<f, phantom_obj>> \in edges \/ <<f, null_obj>> \in edges PROVE Edges(f) \cap Objects # {}
  BY <1>2, NodeSets DEF Edges
<1>3. CASE esc[b] >= ArgEscape
  <2>1. Spread(b) /\ Spread(f)
    BY <1>1 DEF CGInv, SpreadInv, StatesFinal
  <2>2. esc[f] >= ArgEscape
    BY <1>0, <1>1, <1>3, <2>1 DEF Spread, ArgEscape
  <2> QED
    BY <1>2, <2>1, <2>2 DEF Spread
<1>4. CASE ~(esc[b] >= ArgEscape)
  <2>1. esc[b] = NoEscape
    BY <1>0, <1>1, <1>4 DEF ArgEscape, NoEscape
  <2>2. b \in Allocs \cup Calls
    BY <2>1 DEF FieldsInv, ConstantsInv, CGInv, CGTypeInv, StateTypes, Objects, NoEscape, GlobalEscape
  <2>3. CASE b \in Calls
    <3>1. <<f, phantom_obj>> \in edges
      BY <1>1, <2>1, <2>3 DEF FieldsInv, UnknownInv, StatesFinal, UnknownContent
    <3> QED
      BY <1>2, <3>1
  <2>4. CASE b \in Allocs
    <3>1. NullKnown(b, f) /\ worklist = {}
      BY <1>1, <2>1, <2>4 DEF FieldsInv, NullsInv
    <3> QED
      BY <1>2, <2>4, <3>1 DEF NullKnown
  <2> QED
    BY <2>2, <2>3, <2>4
<1> QED
  BY <1>3, <1>4

\* For every connection graph of step 1 in which stores may be reached: when
\* complete_connection_graph is done, every field points to an object
\* (verify_connection_graph: "field does not have references").
THEOREM FieldsAreInitialized ==
  ASSUME ValuesKnown PROVE CGSpec => []FieldsInitialized
<1>1. ASSUME CGInv, FieldsInv PROVE FieldsInitialized
  <2> SUFFICES ASSUME pc = "done" PROVE \A f \in Fields : Edges(f) \cap Objects # {}
    BY DEF FieldsInitialized
  <2>1. PICK g \in Starts : GrownFrom(g)
    BY <1>1 DEF FieldsInv, StartInv
  <2>2. CapturedStoresKnown(g) /\ LiveStores(g)
    BY <2>1 DEF ValuesKnown
  <2>3. GraphTypes /\ \A o \in Objects : Visited(o)
    BY <1>1 DEF CGInv, CGTypeInv, VisitInv
  <2> DEFINE nulls == {n \in Vars \cup Fields : \A o \in Objects \ {null_obj} : <<n, o>> \notin edges}
             empty == {n \in nulls : <<n, null_obj>> \notin edges}
  <2>4. \A n : n \in nulls <=> n \in Vars \cup Fields /\ \A o \in Objects \ {null_obj} : <<n, o>> \notin edges
    OBVIOUS
  <2>5. \A n : n \in empty <=> n \in Vars \cup Fields /\ \A o \in Objects : <<n, o>> \notin edges
    BY NodeSets
  <2>6. empty \subseteq nulls
    OBVIOUS
  <2> HIDE DEF nulls, empty
  <2>7. ASSUME NEW n \in Vars \cup Fields, NEW m \in Given(g, n), m \notin Objects
        PROVE  m \in Vars \cup Fields /\ \A o \in Objects : <<m, o>> \in edges => <<n, o>> \in edges
    <3>1. m \in Vars \cup Fields /\ <<n, m>> \in edges
      BY <2>1, <2>7, NodeSets DEF Given, GrownFrom
    <3> QED
      BY <1>1, <2>3, <3>1, VisitedIsClosed
  <2>8. \A n : \A m \in Given(g, n) : <<n, m>> \in edges
    BY <2>1 DEF Given, GrownFrom
  <2>9. \A n \in nulls : Given(g, n) \subseteq nulls \cup {null_obj}
    BY <2>4, <2>7, <2>8
  <2>10. \A n \in empty : Given(g, n) \subseteq empty
    BY <2>5, <2>7, <2>8
  <2>11. \A f \in empty : Edges(f) \cap Objects = {}
    BY <2>5, NodeSets DEF Edges
  <2>12. ASSUME NEW f \in Fields, NEW b \in Allocs, <<f, b>> \in bases, f \in empty,
                <<b, shape.offset[f]>> \in shape.captured
         PROVE  \E h \in empty \cap g.raw : g.offset[h] = g.offset[f]
    <3>1. PICK h \in g.raw, p \in Vars :
            g.offset[h] = g.offset[f] /\ <<h, p>> \in g.bases /\ <<p, b>> \in g.edges
      <4>1. <<b, g.offset[f]>> \in g.captured
        BY <2>1, <2>12 DEF GrownFrom
      <4> QED
        BY <2>2, <4>1 DEF CapturedStoresKnown
    <3>2. <<h, p>> \in bases /\ <<p, b>> \in edges /\ h \in Fields /\ b \in Objects
      BY <2>1, <2>3, <3>1, EdgeKinds, NodeSets DEF GrownFrom
    <3>3. <<h, b>> \in bases
      BY <1>1, <2>3, <3>2, VisitedIsClosed
    <3>4. SameLocation(h, f)
      BY <2>1, <2>12, <3>1, <3>2, <3>3, NodeSets DEF SameLocation, SameOffset, Bases, GrownFrom
    <3>5. \A o \in Objects : <<h, o>> \in edges => <<f, o>> \in edges
      BY <1>1, <2>3, <3>2, <3>4, VisitedIsClosed
    <3>6. h \in empty
      BY <2>5, <2>12, <3>2, <3>5
    <3> QED
      BY <3>1, <3>6
  <2>13. ASSUME NEW f \in empty \cap Fields
         PROVE  \/ /\ Given(g, f) # {}
                   /\ \A b \in Nodes : <<f, b>> \in g.bases => b \in nulls \cup {null_obj}
                \/ \E h \in empty \cap g.raw : g.offset[h] = g.offset[f]
    <3> SUFFICES ASSUME ~\E h \in empty \cap g.raw : g.offset[h] = g.offset[f]
                 PROVE  /\ Given(g, f) # {}
                        /\ \A b \in Nodes : <<f, b>> \in g.bases => b \in nulls \cup {null_obj}
      OBVIOUS
    <3>1. f \notin shape.raw
      BY <2>1 DEF GrownFrom
    <3>2. ASSUME NEW b \in Objects, <<f, b>> \in bases PROVE b = null_obj
      BY <1>1, <2>11, <2>12, <3>1, <3>2, FieldOfObject
    <3>3. Given(g, f) # {}
      <4>1. HasReason(f)
        BY <1>1 DEF FieldsInv, ReasonsInv
      <4>2. \A a \in Allocs : <<f, a>> \notin bases
        BY <3>2, NodeSets
      <4>3. PICK m \in Nodes : <<f, m>> \in edges
        BY <4>1, <4>2 DEF HasReason
      <4>4. m \in Vars
        BY <2>3, <2>5, <4>3, NodeSets DEF GraphTypes, EdgeSpace
      <4>5. m \in Given(g, f)
        BY <2>1, <4>3, <4>4, NodeSets DEF GrownFrom, Given
      <4> QED
        BY <4>5
    <3>4. ASSUME NEW b \in Nodes, <<f, b>> \in g.bases PROVE b \in nulls \cup {null_obj}
      <4>1. <<f, b>> \in bases
        BY <2>1, <3>4 DEF GrownFrom
      <4>2. CASE b \in Objects
        BY <3>2, <4>1, <4>2
      <4>3. CASE b \in Vars
        <5>1. \A o \in Objects : <<b, o>> \in edges => <<f, o>> \in bases
          BY <1>1, <2>3, <4>1, <4>3, VisitedIsClosed
        <5> QED
          BY <2>4, <3>2, <4>3, <5>1
      <4> QED
        BY <2>3, <4>1, <4>2, <4>3, EdgeKinds
    <3> QED
      BY <3>3, <3>4
  <2>14. NeverSet(g, empty, nulls) /\ NeverSet(g, {}, nulls)
    BY <2>9, <2>10, <2>13 DEF NeverSet
  <2>15. nulls \subseteq {n \in Vars \cup Fields : Given(g, n) \cap Objects \subseteq {null_obj}}
    BY <2>4, <2>8
  <2>16. empty \cap Fields = {}
    BY <2>2, <2>6, <2>14, <2>15 DEF LiveStores
  <2> SUFFICES ASSUME NEW f \in Fields PROVE Edges(f) \cap Objects # {}
    OBVIOUS
  <2>17. PICK o \in Objects : <<f, o>> \in edges
    BY <2>5, <2>16
  <2> QED
    BY <2>17, NodeSets DEF Edges
<1> QED
  BY <1>1, CGInvariant, FieldsInvariant, PTL
=============================================================================
