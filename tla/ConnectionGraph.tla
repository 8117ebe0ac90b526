--------------------------- MODULE ConnectionGraph ---------------------------
(***************************************************************************)
(* Step 2 of compute_escape: complete_connection_graph (opto/escape.cpp).  *)
(* The graph starts with the simple edges of the ideal graph. Passes over  *)
(* the JavaObjects push each along deferred edges, loads, stores, aliased  *)
(* fields and arraycopies; between passes escape states spread along the   *)
(* edges. It ends when a pass adds nothing, or is given up.                *)
(*                                                                         *)
(* Field nodes are the oop fields. Lists that the code walks in an order   *)
(* that construction happened to give them are sets here; the next element *)
(* is any of those that the graph ranks first, so a flat ranking allows    *)
(* every order. The passes keep the order of java_objects_worklist.        *)
(***************************************************************************)
EXTENDS Integers, Sequences, FiniteSets

CONSTANTS
  Allocs, Calls,     \* JavaObjects that may not escape: Allocate, CallStaticJava
  Consts,            \* JavaObjects of constants
  phantom_obj, null_obj,
  Vars, Fields, Arraycopies,
  JavaObjects,       \* java_objects_worklist, which starts with phantom_obj
  OffsetBot,
  CG_BUILD_ITER_LIMIT,
  Starts             \* graphs as add_final_edges leaves them

Objects  == Allocs \cup Calls \cup Consts \cup {phantom_obj, null_obj}
Nodes    == Objects \cup Vars \cup Fields \cup Arraycopies
NoEscape     == 1
ArgEscape    == 2
GlobalEscape == 3
Escapes  == NoEscape..GlobalEscape

\* Edges that a graph may have, see below
EdgeSpace == ((Vars \cup Arraycopies) \X Nodes) \cup (Fields \X (Objects \cup Vars))
             \cup (Objects \X Arraycopies)

\* Where elements are copied from and to is marked (add_arraycopy, "not for ConP NULL").
CopiesMarked(es, from, to) ==
  \A a \in Arraycopies, n \in Nodes :
    /\ <<a, n>> \in es => n \in from /\ n # null_obj
    /\ <<n, a>> \in es => n \in to /\ n # null_obj

\* An object that a destination variable points to is a destination itself. The code
\* sees to it for the edges it adds later, and not for those that step 1 leaves.
DestinationsKnown(es) ==
  \A v \in Vars, a \in Arraycopies, o \in Objects \ {null_obj} :
    {<<v, a>>, <<v, o>>} \subseteq es => <<o, a>> \in es

\* A graph of step 1
IsStart(g) ==
  /\ g.edges \subseteq EdgeSpace /\ g.bases \subseteq Fields \X (Objects \cup Vars)
  /\ g.esc \in [Nodes -> Escapes] /\ g.fesc \in [Nodes -> Escapes]
  /\ \A o \in Consts \cup {phantom_obj} : g.esc[o] = GlobalEscape /\ g.fesc[o] = GlobalEscape
  /\ g.src \subseteq Nodes /\ g.dst \subseteq Nodes
  /\ CopiesMarked(g.edges, g.src, g.dst)

ASSUME ConnectionGraphAssumption ==
  /\ Objects \cap (Vars \cup Fields \cup Arraycopies) = {}
  /\ Vars \cap (Fields \cup Arraycopies) = {} /\ Fields \cap Arraycopies = {}
  /\ phantom_obj # null_obj /\ {phantom_obj, null_obj} \cap (Allocs \cup Calls \cup Consts) = {}
  /\ JavaObjects \in Seq(Objects) /\ Objects = {JavaObjects[i] : i \in DOMAIN JavaObjects}
  /\ CG_BUILD_ITER_LIMIT \in Nat
  /\ \A g \in Starts : IsStart(g)

\* No start has a copy into a variable that step 1 makes point to an object, as a merge
\* of a constant does: the destination is a cast, a projection or a merge of those.
CopyDestinationsKnown == \A g \in Starts : DestinationsKnown(g.edges)

\* What step 1 knows that n may hold
Given(g, n) == {m \in Nodes \ Arraycopies : <<n, m>> \in g.edges}

\* The store that an Initialize has captured has a raw address, at the projection of the
\* allocation (find_init_values: "Raw pointers are used for initializing stores").
CapturedStoresKnown(g) ==
  \A c \in g.captured : \E h \in g.raw, p \in Vars :
    g.offset[h] = c[2] /\ <<h, p>> \in g.bases /\ <<p, c[1]>> \in g.edges

\* No run gives the nodes of empty a value, or those of nulls another value than null:
\* they get theirs from one another, and the fields among them are stored to at null
\* only, or hold what a captured store does that gets its value from empty as well.
NeverSet(g, empty, nulls) ==
  /\ \A n \in nulls : Given(g, n) \subseteq nulls \cup {null_obj}
  /\ \A n \in empty : Given(g, n) \subseteq empty
  /\ \A f \in empty \cap Fields :
       \/ /\ Given(g, f) # {}
          /\ \A b \in Nodes : <<f, b>> \in g.bases => b \in nulls \cup {null_obj}
       \/ \E h \in empty \cap g.raw : g.offset[h] = g.offset[f]

\* Every field that is stored to may be reached by a run: the code that only stores or
\* loads at null, or goes round in a circle that nothing enters, was removed before.
LiveStores(g) ==
  LET objectless == {n \in Vars \cup Fields : Given(g, n) \cap Objects \subseteq {null_obj}} IN
  \A nulls \in {ns \in SUBSET objectless : NeverSet(g, {}, ns)} :
    \A empty \in SUBSET nulls : NeverSet(g, empty, nulls) => empty \cap Fields = {}
ValuesKnown == \A g \in Starts : CapturedStoresKnown(g) /\ LiveStores(g)

(***************************************************************************)
(*   edges      <<n, m>>: n points to m. Variables point to objects,       *)
(*              variables, fields (loads) and, as destinations, to         *)
(*              Arraycopies; fields to what is stored; Arraycopies to      *)
(*              their source; destination objects to Arraycopies.          *)
(*   bases      <<f, b>>: b is a base of field f. A base object other than *)
(*              null_obj has an edge to the field.                         *)
(*   esc, fesc  escape_state() and fields_escape_state()                   *)
(*   src, dst   the nodes with arraycopy_src(), arraycopy_dst()            *)
(*   offset     of each field                                              *)
(*   raw        fields addressed by raw pointers (initializing stores)     *)
(*   captured   <<o, offset>>: an initializing store is captured           *)
(*   rank       the order in which lists are walked                        *)
(***************************************************************************)
VARIABLES
  edges, bases, esc, fesc, src, dst,
  shape,               \* offset, raw, captured, rank: no step changes them
  non_escaped,         \* non_escaped_worklist
  escape_worklist,
  worklist,            \* _worklist: <<n, "use">>, or <<f, "base">> for a base use
  in_worklist,         \* _in_worklist
  pc,
  at,                  \* index into JavaObjects, 0: the extra visit of phantom_obj
  new_edges,           \* new_edges > 0
  iterations,
  todo,                \* objects whose null initialisation is still to do
  does_not_escape      \* allocations whose Initialize is marked

graphVars == <<edges, bases, src, dst>>
cgVars == <<edges, bases, esc, fesc, src, dst, shape, non_escaped,
            escape_worklist, worklist, in_worklist, pc, at, new_edges,
            iterations, todo, does_not_escape>>

-----------------------------------------------------------------------------
Uses(n)  == {m \in Nodes : <<m, n>> \in edges}
Bases(f) == {b \in Nodes : <<f, b>> \in bases}
BaseUses(b) == {f \in Fields : <<f, b>> \in bases}

\* EdgeIterator: an object points to its fields, null has none.
Edges(n) == {m \in Nodes : <<n, m>> \in edges}
            \cup IF n \in Objects \ {null_obj} THEN BaseUses(n) ELSE {}

\* The fields of a base that have a node, phantom and null have none.
FieldsOf(b) == IF b \in {phantom_obj, null_obj} THEN {} ELSE BaseUses(b)

SameOffset(f, g) ==
  \/ shape.offset[f] = shape.offset[g]
  \/ OffsetBot \in {shape.offset[f], shape.offset[g]}

\* add_uses_to_worklist
UsesOf(n) == {<<u, "use">> : u \in Uses(n)}
             \cup IF n \in Vars THEN {<<f, "base">> : f \in BaseUses(n)} ELSE {}

\* add_fields_to_worklist: the other fields of base b that f may be.
AliasesAt(f, b) == {g \in FieldsOf(b) \ {f} : SameOffset(f, g)}

\* Where the elements of array b are copied to.
CopiedTo(b) ==
  IF b \notin src THEN {}
  ELSE (UNION {Uses(a) \cap dst : a \in Uses(b) \cap Arraycopies}) \ {b}

\* Faulty variant: arraycopies are forgotten.
FieldUsesOfNoCopies(f) ==
  UsesOf(f) \cup {<<g, "use">> : g \in UNION {AliasesAt(f, b) : b \in Bases(f)}}

\* add_field_uses_to_worklist
FieldUsesOf(f) ==
  UsesOf(f) \cup
  {<<g, "use">> : g \in UNION {AliasesAt(f, c) :
                    c \in Bases(f) \cup UNION {CopiedTo(b) : b \in Bases(f)}}}

\* add_to_worklist: an entry is put on the list once between two clears.
Push(entries, kept) ==
  /\ worklist' = kept \cup (entries \ in_worklist)
  /\ in_worklist' = in_worklist \cup entries

\* Fields fs get unknown values; their uses are pushed for those that are new.
AddUnknown(fs) ==
  LET new == {f \in fs : <<f, phantom_obj>> \notin edges} IN
    /\ edges' = edges \cup (new \X {phantom_obj})
    /\ Push(UNION {FieldUsesOf(f) : f \in new}, worklist)

-----------------------------------------------------------------------------
\* The node n may be the next of the nodes ns.
First(n, ns) == \A m \in ns : shape.rank[n] <= shape.rank[m]

Escaping == {n \in Nodes : esc[n] >= ArgEscape \/ fesc[n] >= ArgEscape}

\* Step 2 starts with graph g.
CGStart(g) ==
  /\ edges = g.edges /\ bases = g.bases /\ src = g.src /\ dst = g.dst
  /\ esc = g.esc /\ fesc = g.fesc
  /\ shape = [offset |-> g.offset, raw |-> g.raw, captured |-> g.captured,
             rank |-> g.rank]
  /\ non_escaped = {o \in Allocs \cup Calls : esc[o] < GlobalEscape}
  /\ escape_worklist = Escaping
  /\ worklist = {} /\ in_worklist = {}
  /\ pc = "escape" /\ at = 0
  /\ new_edges = TRUE /\ iterations = 0
  /\ todo = {} /\ does_not_escape = {}

CGInit == \E g \in Starts : CGStart(g)

-----------------------------------------------------------------------------
(***************************************************************************)
(* find_non_escaped_objects. Along an edge n -> e both states of n spread, *)
(* except that only the state of the fields goes through an Arraycopy, and *)
(* that it becomes the state of the fields of an object.                   *)
(***************************************************************************)
NewEsc(n, e) ==
  IF e \in Arraycopies \/ e = null_obj THEN esc[e]
  ELSE IF esc[n] < fesc[n] /\ esc[e] < fesc[n] /\ e \in Fields /\ n \in Objects
    THEN fesc[n]
  ELSE IF esc[e] < esc[n] THEN esc[n] ELSE esc[e]

\* set_escape_state raises the state of the fields as well.
NewFieldsEsc(n, e) ==
  LET raised == IF NewEsc(n, e) > fesc[e] THEN NewEsc(n, e) ELSE fesc[e]
  IN  IF e = null_obj THEN fesc[e]
      ELSE IF (e \in Arraycopies \/ esc[n] < fesc[n]) /\ raised < fesc[n]
        THEN fesc[n] ELSE raised

\* Faulty variant: all that an escaping node leads to is put on the worklist.
ChangedOrNot(n) == Edges(n)

\* null_obj is pushed although its state does not change.
Changed(n) ==
  {e \in Edges(n) : \/ NewEsc(n, e) # esc[e] \/ NewFieldsEsc(n, e) # fesc[e]
                    \/ e = null_obj /\ fesc[n] > NoEscape}

\* Faulty variant: what was raised is not looked at again.
SpreadEscapeOnce(n) ==
  /\ pc = "escape" /\ n \in escape_worklist /\ First(n, escape_worklist)
  /\ esc'  = [e \in Nodes |-> IF e \in Edges(n) THEN NewEsc(n, e) ELSE esc[e]]
  /\ fesc' = [e \in Nodes |-> IF e \in Edges(n) THEN NewFieldsEsc(n, e) ELSE fesc[e]]
  /\ escape_worklist' = escape_worklist \ {n}
  /\ AddUnknown(IF n \in Fields /\ esc[n] >= ArgEscape THEN {n} ELSE {})
  /\ UNCHANGED <<bases, src, dst, shape, non_escaped, pc, at, new_edges,
                 iterations, todo, does_not_escape>>

\* One iteration of the loop over escape_worklist. An escaping field has an
\* unknown value; phantom_obj, which it then points to, escapes already.
SpreadEscape(n) ==
  /\ pc = "escape" /\ n \in escape_worklist /\ First(n, escape_worklist)
  /\ esc'  = [e \in Nodes |-> IF e \in Edges(n) THEN NewEsc(n, e) ELSE esc[e]]
  /\ fesc' = [e \in Nodes |-> IF e \in Edges(n) THEN NewFieldsEsc(n, e) ELSE fesc[e]]
  /\ escape_worklist' = (escape_worklist \ {n}) \cup Changed(n)
  /\ AddUnknown(IF n \in Fields /\ esc[n] >= ArgEscape THEN {n} ELSE {})
  /\ UNCHANGED <<bases, src, dst, shape, non_escaped, pc, at, new_edges,
                 iterations, todo, does_not_escape>>

\* find_init_values(o, phantom_obj): the fields of objects that a call returned
\* or an arraycopy wrote have unknown values.
UnknownContent(o) == esc[o] = NoEscape /\ (o \in dst \/ o \in Calls)

\* The head of the inner while loop: another pass, if there may be one.
NextPass ==
  /\ iterations' = iterations + 1
  /\ IF iterations < CG_BUILD_ITER_LIMIT
       THEN pc' = "pass" /\ at' = 0 /\ new_edges' = FALSE
       ELSE pc' = "bailout" /\ UNCHANGED <<at, new_edges>>

EndEscape ==
  /\ pc = "escape" /\ escape_worklist = {}
  /\ non_escaped' = {o \in non_escaped : esc[o] < GlobalEscape}
  /\ AddUnknown(UNION {BaseUses(o) : o \in {p \in non_escaped : UnknownContent(p)}})
  /\ IF non_escaped' = {}
       THEN pc' = "nothing" /\ UNCHANGED <<at, new_edges, iterations>>
       ELSE NextPass
  /\ UNCHANGED <<bases, esc, fesc, src, dst, shape, escape_worklist, todo,
                 does_not_escape>>

-----------------------------------------------------------------------------
\* The object being pushed.
Current == IF pc = "nulls" THEN null_obj
           ELSE IF at = 0 THEN phantom_obj ELSE JavaObjects[at]

(***************************************************************************)
(* One entry of the worklist in add_java_object_edges(o).                  *)
(***************************************************************************)
AddBase(e) ==
  /\ e[2] = "base"
  /\ bases' = bases \cup {<<e[1], Current>>}
  /\ new_edges' = (new_edges \/ <<e[1], Current>> \notin bases)
  /\ Push({}, worklist \ {e})
  /\ UNCHANGED <<edges, src, dst>>

\* The Arraycopy gets another source; null has no elements to copy.
AddSource(e) ==
  /\ e[2] = "use" /\ e[1] \in Arraycopies
  /\ IF Current = null_obj \/ <<e[1], Current>> \in edges
       THEN UNCHANGED <<edges, src, new_edges>>
       ELSE /\ edges' = edges \cup {<<e[1], Current>>}
            /\ src' = src \cup {Current}
            /\ new_edges' = TRUE
  /\ Push({}, worklist \ {e})
  /\ UNCHANGED <<bases, dst>>

OldEdge(e) ==
  /\ e[2] = "use" /\ e[1] \notin Arraycopies /\ <<e[1], Current>> \in edges
  /\ Push({}, worklist \ {e})
  /\ UNCHANGED <<graphVars, new_edges>>

\* The variable points to the object now; if it is the destination of
\* arraycopies, so is the object.
AddToVar(e) ==
  LET v == e[1]
      acs == IF v \in dst /\ Current # null_obj THEN Edges(v) \cap Arraycopies ELSE {}
      written == {a \in acs : <<Current, a>> \notin edges}
  IN  /\ e[2] = "use" /\ v \in Vars /\ <<v, Current>> \notin edges
      /\ edges' = edges \cup {<<v, Current>>} \cup ({Current} \X written)
      /\ dst' = IF written = {} THEN dst ELSE dst \cup {Current}
      /\ new_edges' = TRUE
      /\ Push(UsesOf(v), worklist \ {e})
      /\ UNCHANGED <<bases, src>>

AddToField(e) ==
  /\ e[2] = "use" /\ e[1] \in Fields /\ <<e[1], Current>> \notin edges
  /\ edges' = edges \cup {<<e[1], Current>>}
  /\ new_edges' = TRUE
  /\ Push(FieldUsesOf(e[1]), worklist \ {e})
  /\ UNCHANGED <<bases, src, dst>>

AddEdge(e) ==
  /\ pc \in {"pass", "nulls"} /\ e \in worklist
  /\ First(e[1], {d[1] : d \in worklist})
  /\ AddBase(e) \/ AddSource(e) \/ OldEdge(e) \/ AddToVar(e) \/ AddToField(e)
  /\ UNCHANGED <<esc, fesc, shape, non_escaped, escape_worklist, pc, at,
                 iterations, todo, does_not_escape>>

\* The uses of an object's uses, with which its visit starts.
Populate(o) ==
  UNION {IF u \in Fields THEN FieldUsesOf(u) ELSE UsesOf(u) :
           u \in Uses(o) \ Arraycopies}

\* The visit of the current object is over; the next one starts.
NextObject ==
  /\ pc = "pass" /\ worklist = {} /\ at < Len(JavaObjects)
  /\ at' = at + 1
  /\ worklist' = Populate(JavaObjects[at + 1])
  /\ in_worklist' = Populate(JavaObjects[at + 1])
  /\ UNCHANGED <<graphVars, esc, fesc, shape, non_escaped, escape_worklist, pc,
                 new_edges, iterations, todo, does_not_escape>>

\* The end of a pass: escape states are brought up to date if it added edges,
\* otherwise fields without values are next.
EndPass ==
  /\ pc = "pass" /\ worklist = {} /\ at = Len(JavaObjects)
  /\ in_worklist' = {}
  /\ IF new_edges
       THEN pc' = "escape" /\ escape_worklist' = Escaping
       ELSE /\ pc' = IF iterations < CG_BUILD_ITER_LIMIT THEN "fields" ELSE "bailout"
            /\ UNCHANGED escape_worklist
  /\ UNCHANGED <<graphVars, esc, fesc, shape, non_escaped, worklist, at,
                 new_edges, iterations, todo, does_not_escape>>

\* EscapeAnalysisTimeout: looked at after every fourth object, after a pass
\* (with the escape states, of which nothing remains) and after the fields.
Timeout ==
  /\ \/ /\ pc = "pass" /\ worklist = {} /\ at >= 1
        /\ (at - 1) % 4 = 0 \/ at = Len(JavaObjects)
     \/ pc = "fields"
  /\ pc' = "bailout"
  /\ UNCHANGED <<graphVars, esc, fesc, shape, non_escaped, escape_worklist,
                 worklist, in_worklist, at, new_edges, iterations, todo,
                 does_not_escape>>

\* find_field_value: a field without edges is unknown unless one of its bases
\* is an allocation, whose initial value is found later.
UnknownFields ==
  {f \in Fields : Edges(f) = {} /\ Bases(f) \cap Allocs = {}}

\* Faulty variant: find_field_value is not called.
FindNoFieldValues ==
  /\ pc = "fields"
  /\ pc' = "nulls" /\ todo' = non_escaped
  /\ UNCHANGED <<graphVars, esc, fesc, shape, non_escaped, escape_worklist,
                 worklist, in_worklist, at, new_edges, iterations, does_not_escape>>

FindFieldValues ==
  /\ pc = "fields"
  /\ AddUnknown(UnknownFields)
  /\ IF UnknownFields # {} THEN NextPass /\ UNCHANGED todo
     ELSE /\ pc' = "nulls" /\ todo' = non_escaped
          /\ UNCHANGED <<at, new_edges, iterations>>
  /\ UNCHANGED <<bases, esc, fesc, src, dst, shape, non_escaped,
                 escape_worklist, does_not_escape>>

(***************************************************************************)
(* find_init_values(o, null_obj): one field of each offset is looked at,   *)
(* and gets null unless an initializing store is captured. Fields with     *)
(* unknown offset: the first that does not have null gets it.              *)
(***************************************************************************)
NullFields(o) ==
  LET bot   == {f \in BaseUses(o) : shape.offset[f] = OffsetBot}
      plain == (BaseUses(o) \ bot) \ shape.raw
      lacking == {f \in BaseUses(o) : <<f, null_obj>> \notin edges}
      OnePerOffset(fs) ==
        \A f \in plain : Cardinality({g \in fs : shape.offset[g] = shape.offset[f]}) = 1
  IN  {fs \in SUBSET lacking :
         /\ Cardinality(fs \cap bot) = IF bot \cap lacking = {} THEN 0 ELSE 1
         /\ \E first \in SUBSET plain :
              /\ OnePerOffset(first)
              /\ fs \ bot = {f \in first \cap lacking :
                               <<o, shape.offset[f]>> \notin shape.captured}}

\* An object of the last loop, with the propagation of null that it starts. An
\* allocation has an Initialize node here. Nothing reads new_edges any more.
InitNulls(o) ==
  /\ pc = "nulls" /\ worklist = {} /\ o \in todo /\ First(o, todo)
  /\ todo' = todo \ {o}
  /\ \E fs \in IF esc[o] = NoEscape /\ o \in Allocs THEN NullFields(o) ELSE {{}} :
       /\ edges' = edges \cup (fs \X {null_obj})
       /\ worklist' = UNION {FieldUsesOf(f) : f \in fs}
       /\ in_worklist' = worklist'
  /\ does_not_escape' = does_not_escape \cup ({o} \cap Allocs)
  /\ UNCHANGED <<bases, esc, fesc, src, dst, shape, non_escaped,
                 escape_worklist, pc, at, new_edges, iterations>>

Finish ==
  /\ pc = "nulls" /\ worklist = {} /\ todo = {}
  /\ pc' = "done" /\ in_worklist' = {}
  /\ UNCHANGED <<graphVars, esc, fesc, shape, non_escaped, escape_worklist,
                 worklist, at, new_edges, iterations, todo, does_not_escape>>

CGNext ==
  \/ \E n \in Nodes : SpreadEscape(n)
  \/ EndEscape
  \/ \E e \in worklist : AddEdge(e)
  \/ NextObject \/ EndPass \/ Timeout
  \/ FindFieldValues
  \/ \E o \in Allocs \cup Calls : InitNulls(o)
  \/ Finish

\* The compiler thread goes on until the graph is complete or given up.
CGSpec == CGInit /\ [][CGNext]_cgVars /\ WF_cgVars(CGNext)

-----------------------------------------------------------------------------
\* Every variable of the construction has its type.
CGTypeOK ==
  /\ edges \subseteq Nodes \X Nodes
  /\ bases \subseteq Fields \X (Objects \cup Vars)
  /\ esc \in [Nodes -> Escapes] /\ fesc \in [Nodes -> Escapes]
  /\ src \subseteq Nodes /\ dst \subseteq Nodes
  /\ non_escaped \subseteq Allocs \cup Calls /\ todo \subseteq non_escaped
  /\ escape_worklist \subseteq Nodes
  /\ worklist \subseteq in_worklist
  /\ in_worklist \subseteq ((Nodes \ Objects) \X {"use"}) \cup (Fields \X {"base"})
  /\ pc \in {"escape", "pass", "fields", "nulls", "done", "nothing", "bailout"}
  /\ at \in 0..Len(JavaObjects)
  /\ new_edges \in BOOLEAN
  /\ iterations \in 0..(CG_BUILD_ITER_LIMIT + 1)
  /\ does_not_escape \subseteq Allocs

\* Two field nodes may name the same location of an object.
SameLocation(f, g) ==
  SameOffset(f, g) /\ Bases(f) \cap Bases(g) \cap (Allocs \cup Calls \cup Consts) # {}

\* An element named by f may be copied into one named by g.
CopiedInto(f, g) ==
  /\ SameOffset(f, g)
  /\ \E a \in Arraycopies : \E s \in Bases(f) \cap Objects, d \in Bases(g) \cap Objects :
       /\ s # d /\ d \notin {phantom_obj, null_obj} /\ <<a, s>> \in edges
       /\ <<d, a>> \in edges \/ \E v \in Vars : {<<v, a>>, <<v, d>>} \subseteq edges

\* The finished graph is complete: a variable or field points to all that the
\* variables assigned to it and the fields loaded into it point to, a field
\* belongs to all that its base variable points to, and it points to all that
\* is stored under another name or copied there. Passes stop after one without
\* new edges, and nulls are added after the last one.
PointsToClosed ==
  pc = "done" => \A o \in Objects :
    /\ \A n, m \in Vars \cup Fields :
         {<<n, m>>, <<m, o>>} \subseteq edges => <<n, o>> \in edges
    /\ \A f \in Fields, v \in Vars :
         <<f, v>> \in bases /\ <<v, o>> \in edges => <<f, o>> \in bases
    /\ \A f, g \in Fields :
         <<f, o>> \in edges /\ (SameLocation(f, g) \/ CopiedInto(f, g)) =>
           <<g, o>> \in edges

\* The escape states are final although edges were added after they were last
\* computed: whatever an escaping node leads to escapes as much, the fields of
\* an object whose content escapes too, and such a field has an unknown value
\* (verify_connection_graph: "escape state was not final").
EscapeFinal ==
  pc = "done" =>
    /\ \A n \in Nodes : \A e \in Edges(n) \ {null_obj} :
         /\ fesc[e] >= fesc[n]
         /\ e \notin Arraycopies => esc[e] >= esc[n]
         /\ n \in Objects /\ e \in Fields => esc[e] >= fesc[n]
    /\ \A f \in Fields : esc[f] >= ArgEscape => <<f, phantom_obj>> \in edges
    /\ does_not_escape = {o \in Allocs : esc[o] < GlobalEscape}

\* Every field of the finished graph has a value, be it unknown or null
\* (verify_connection_graph: "field does not have references").
FieldsInitialized ==
  pc = "done" => \A f \in Fields : Edges(f) \cap Objects # {}

\* The construction ends, with a graph or without.
CGTerminates == <>(pc \in {"done", "nothing", "bailout"})
=============================================================================
