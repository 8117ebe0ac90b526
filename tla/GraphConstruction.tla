-------------------------- MODULE GraphConstruction --------------------------
(***************************************************************************)
(* Step 1 of compute_escape: the ideal nodes of a method become the nodes  *)
(* and simple edges of the connection graph (add_node_to_connection_graph, *)
(* add_final_edges, add_call_node, process_call_arguments).  The module    *)
(* also says what the nodes do when the method runs, so that the finished  *)
(* graph can be compared with every run.                                   *)
(*                                                                         *)
(* A method is a sequence of nodes in the order they execute:              *)
(*   id, op, in     name, operation, inputs (names)                        *)
(*   off            of an AddP                                             *)
(*   how            AddP: "oop", "unsafe", "raw" (of the allocation's      *)
(*                  projection); Allocate: "plain", or "special" for the   *)
(*                  classes known to the VM; calls: what they return       *)
(*   args           a static call: the bytecode analyzer's answers for the *)
(*                  inputs, subsets of {"stack", "local", "returned"}      *)
(***************************************************************************)
EXTENDS ConnectionGraph, SequencesExt, FiniteSetsExt

CONSTANTS
  Methods,        \* methods, sequences of ideal nodes
  Ranks           \* orders in which lists are walked
VARIABLE method      \* the method compiled, <<>> if the graph is given

NoPtn == "none"
Unknowns == {"Parm", "CreateEx", "CastX2P", "LoadKlass"}
Casts == {"CastPP", "CheckCastPP", "EncodeP", "DecodeN", "Proj"}
Merges == {"Phi", "CMoveP"}
Exits == {"Return", "Rethrow"}
LoadStores == {"GetAndSetP", "CompareAndExchangeP"}
Stores == LoadStores \cup {"StoreP", "CompareAndSwapP"}
StubCalls == {"CallLeaf", "ArrayCopy"}
CallOps == StubCalls \cup {"CallDynamicJava", "CallStaticJava"}
NodeOf(mth, id) == CHOOSE n \in ToSet(mth) : n.id = id

-----------------------------------------------------------------------------
\* The graph so far: ptn maps ideal nodes to graph nodes.
Raised(states, p, es) == IF p = null_obj THEN states ELSE [states EXCEPT ![p] = Max({@, es})]
SetEscapeState(c, p, es) == [c EXCEPT !.esc = Raised(@, p, es), !.fesc = Raised(@, p, es)]
SetFieldsEscapeState(c, p, es) == [c EXCEPT !.fesc = Raised(@, p, es)]
PtnodeAdr(c, id) == IF id \in DOMAIN c.ptn THEN c.ptn[id] ELSE NoPtn
MapIdealNode(c, id, p) == [c EXCEPT !.ptn = (id :> p) @@ @]
AddNode(c, id, es) == SetEscapeState(MapIdealNode(c, id, id), id, es)
AddEdgeTo(c, p, q) == [c EXCEPT !.edges = @ \cup {<<p, q>>}]
Delay(c, n) == [c EXCEPT !.delayed = IF Contains(@, n) THEN @ ELSE Append(@, n)]

AddLocalVarAndEdge(c, n, es, to) ==
  LET d == AddNode(c, n.id, es) IN
  IF PtnodeAdr(c, to) = NoPtn THEN Delay(d, n) ELSE AddEdgeTo(d, n.id, PtnodeAdr(c, to))

\* get_addp_base has found the base already: it is the only input.
AddField(c, n) ==
  LET d == AddNode([c EXCEPT !.offset[n.id] = n.off, !.raw = IF n.how = "raw" THEN @ \cup {n.id} ELSE @],
                   n.id, IF n.how = "unsafe" THEN GlobalEscape ELSE NoEscape)
      base == PtnodeAdr(c, n.in[1])
  IN IF base = NoPtn THEN Delay(d, n) ELSE [d EXCEPT !.bases = @ \cup {<<n.id, base>>}]

\* A call that returns a pointer: a new object, one of its arguments, or unknown.
AddCallNode(c, n) ==
  CASE n.op \in StubCalls \/ n.how = "none" -> c
    [] n.how = "allocated" -> AddNode(c, n.id, NoEscape)
    [] n.how \in {"args", "args or unknown"} -> AddNode(c, n.id, ArgEscape)
    [] n.how = "unknown" -> MapIdealNode(c, n.id, phantom_obj)

AddNodeToConnectionGraph(c, n) ==
  IF PtnodeAdr(c, n.id) # NoPtn THEN c
  ELSE CASE n.op = "Allocate" -> AddNode(c, n.id, IF n.how = "special" THEN GlobalEscape ELSE NoEscape)
         [] n.op \in {"Lock", "UncommonTrap"} -> c
         [] n.op \in CallOps -> AddCallNode(Delay(c, n), n)
         [] n.op = "AddP" -> AddField(c, n)
         [] n.op \in Unknowns -> MapIdealNode(c, n.id, phantom_obj)
         [] n.op \in Casts \cup {"LoadP"} -> AddLocalVarAndEdge(c, n, NoEscape, n.in[1])
         [] n.op \in Merges -> Delay(AddNode(c, n.id, NoEscape), n)
         [] n.op = "ConP" -> AddNode(c, n.id, GlobalEscape)
         [] n.op \in Exits -> AddLocalVarAndEdge(c, n, GlobalEscape, n.in[1])
         [] n.op \in LoadStores -> Delay(AddLocalVarAndEdge(c, n, NoEscape, n.in[1]), n)
         [] n.op \in {"StoreP", "CompareAndSwapP", "StoreRaw"} -> Delay(c, n)
         [] n.op = "Intrinsic" -> Delay(AddNode(c, n.id, ArgEscape), n)

-----------------------------------------------------------------------------
(***************************************************************************)
(* process_call_arguments.  A stub call's arguments do not leave the       *)
(* method; neither do those of a copy that is known to be in bounds, which *)
(* gets a node between destination (its second input) and source.          *)
(***************************************************************************)
ProcessStubCall(c, n) ==
  LET es == IF n.op = "ArrayCopy" /\ n.how = "validated" THEN NoEscape ELSE ArgEscape
      Arg(i) == PtnodeAdr(c, n.in[i])
      passed == FoldLeft(LAMBDA d, a : SetEscapeState(d, PtnodeAdr(c, a), es), c, n.in)
  IN IF n.op # "ArrayCopy" \/ Arg(1) = Arg(2) THEN passed
     ELSE [AddNode(passed, n.id, es) EXCEPT !.edges = @ \cup {<<n.id, Arg(1)>>, <<Arg(2), n.id>>},
                         !.src = @ \cup {Arg(1)}, !.dst = @ \cup {Arg(2)}]

\* Faulty variant: what the callee reads from an argument's fields is forgotten.
PassedToJavaShallow(c, p, flags) ==
  IF c.esc[p] = GlobalEscape THEN c
  ELSE SetEscapeState(c, p, IF "stack" \in flags THEN ArgEscape ELSE GlobalEscape)

\* An argument may escape, only what its fields hold may, or neither.
PassedToJava(c, p, flags) ==
  IF c.esc[p] = GlobalEscape THEN c
  ELSE IF "stack" \notin flags THEN SetEscapeState(c, p, GlobalEscape)
  ELSE LET d == SetEscapeState(c, p, ArgEscape)
       IN IF "local" \in flags THEN d ELSE SetFieldsEscapeState(d, p, GlobalEscape)

ProcessStaticCall(c, n) ==
  LET One(d, i) == LET arg == PtnodeAdr(d, n.in[i])
                       e == IF "returned" \in n.args[i] /\ PtnodeAdr(d, n.id) # NoPtn THEN AddEdgeTo(d, n.id, arg) ELSE d
                   IN PassedToJava(e, arg, n.args[i])
      all == FoldLeft(One, c, [i \in DOMAIN n.in |-> i])
  IN IF n.how = "args or unknown" THEN AddEdgeTo(all, n.id, phantom_obj) ELSE all

ProcessCallArguments(c, n) ==
  CASE n.op \in StubCalls -> ProcessStubCall(c, n)
    [] n.op = "CallStaticJava" -> ProcessStaticCall(c, n)
    [] n.op = "CallDynamicJava" ->
         FoldLeft(LAMBDA d, a : SetEscapeState(d, PtnodeAdr(c, a), GlobalEscape), c, n.in)

\* A store points the field to the value; one to an address in no known object
\* makes the value escape as well.
AddFinalEdgesUnsafeAccess(c, n) ==
  LET adr == PtnodeAdr(c, n.in[1])
      val == PtnodeAdr(c, n.in[2])
      d == IF n.op = "StoreRaw" THEN SetEscapeState(c, val, GlobalEscape) ELSE c
      e == IF adr \in Fields THEN AddEdgeTo(d, adr, val) ELSE d
  IN IF n.op \in LoadStores THEN AddEdgeTo(e, n.id, adr) ELSE e

\* A merge leaves out the inputs that lead back to it through casts only.
Uncasts(mth) ==
  LET ids == {n.id : n \in ToSet(mth)}
      f[id \in ids \cup {"null"}] ==
        IF id \in ids /\ NodeOf(mth, id).op \in {"CastPP", "CheckCastPP"} THEN f[NodeOf(mth, id).in[1]] ELSE id
  IN f
AddFinalEdges(c, n) ==
  CASE n.op \in CallOps -> ProcessCallArguments(c, n)
    [] n.op = "AddP" -> [c EXCEPT !.bases = @ \cup {<<n.id, PtnodeAdr(c, n.in[1])>>}]
    [] n.op \in Casts \cup Exits \cup {"LoadP"} -> AddEdgeTo(c, n.id, PtnodeAdr(c, n.in[1]))
    [] n.op \in Merges \cup {"Intrinsic"} ->
         [c EXCEPT !.edges = @ \cup {<<n.id, PtnodeAdr(c, i)>> : i \in {j \in ToSet(n.in) : n.op = "Intrinsic" \/ c.uncast[j] # n.id}}]
    [] n.op \in Stores \cup {"StoreRaw"} -> AddFinalEdgesUnsafeAccess(c, n)

\* Stores into a new object that its Initialize has captured
CapturedIn(mth) ==
  {<<NodeOf(mth, NodeOf(mth, n.in[1]).in[1]).in[1], NodeOf(mth, n.in[1]).off>> :
     n \in {s \in ToSet(mth) : s.op = "StoreP" /\ NodeOf(mth, s.in[1]).how = "raw"}}

\* The nodes are visited in the order given, the delayed ones last in, first out.
Construct(mth, order, rank) ==
  LET empty == [ptn |-> "null" :> null_obj, edges |-> {}, bases |-> {}, src |-> {}, dst |-> {},
                esc |-> [n \in Nodes |-> IF n = phantom_obj THEN GlobalEscape ELSE NoEscape],
                fesc |-> [n \in Nodes |-> IF n = phantom_obj THEN GlobalEscape ELSE NoEscape],
                offset |-> [f \in Fields |-> OffsetBot], raw |-> {}, captured |-> CapturedIn(mth), rank |-> rank,
                delayed |-> <<>>, uncast |-> Uncasts(mth)]
      populated == FoldLeft(AddNodeToConnectionGraph, empty, order)
  IN FoldLeft(AddFinalEdges, populated, Reverse(populated.delayed))

GCInit ==
  \/ method = <<>> /\ CGInit
  \/ /\ method \in Methods
     /\ \E g \in {Construct(method, order, rank) : order \in {method, Reverse(method)}, rank \in Ranks} : CGStart(g)
gcVars == <<cgVars, method>>
GCSpec == GCInit /\ [][CGNext /\ UNCHANGED method]_gcVars /\ WF_gcVars(CGNext /\ UNCHANGED method)

-----------------------------------------------------------------------------
(***************************************************************************)
(* A run of the method.  phantom_obj stands for all objects it did not     *)
(* make.  val: the values so far; heap: the fields of the objects made     *)
(* here; out: those the rest of the program can reach; passed: those       *)
(* passed to a call.  What is reachable may be changed at any time by      *)
(* other threads, so a field of it holds anything reachable.               *)
(***************************************************************************)
Made == Allocs \cup Calls
Offsets == {1, 2}
OffsetsOf(f) == IF f.off = OffsetBot THEN Offsets ELSE {f.off}
World(s) == s.out \cup {phantom_obj, null_obj}
Outside(s, o) == o \notin Made \/ o \in s.out
RECURSIVE ReachableFrom(_, _)
ReachableFrom(heap, S) ==
  LET T == S \cup ({heap[<<o, f>>] : o \in S, f \in Offsets} \cap Made)
  IN IF T = S THEN S ELSE ReachableFrom(heap, T)
Leaked(s, S) == [s EXCEPT !.out = ReachableFrom(s.heap, s.out \cup (S \cap Made))]
Put(s, o, f, v) ==
  IF Outside(s, o) THEN Leaked(s, {v}) ELSE [s EXCEPT !.heap[<<o, f>>] = v]
Got(s, o, f) == IF Outside(s, o) THEN World(s) ELSE {s.heap[<<o, f>>]}
Def(s, id, v) == [s EXCEPT !.val = (id :> v) @@ @]
\* Code that can reach the objects S and no others of the method's has run.
Scribbled(s, S) ==
  LET fields == S \X Offsets
      written == {h \in [fields -> World(s) \cup {s.heap[l] : l \in fields}] :
                    \A l \in fields : h[l] \in World(s) \cup {s.heap[l]}}
  IN {[s EXCEPT !.heap = h @@ @] : h \in written}

\* A null base: the run ends at the null check.
StoreNodeRuns(s, n) ==
  LET f == NodeOf(method, n.in[1])
      base == s.val[f.in[1]]
      New(o) == {Put(t, base, o, s.val[n.in[2]]) :
                   t \in IF n.op \in LoadStores THEN {Def(s, n.id, v) : v \in Got(s, base, o)} ELSE {s}}
  IN IF base = null_obj THEN {} ELSE UNION {New(o) : o \in OffsetsOf(f)} \cup (IF n.op = "CompareAndSwapP" THEN {s} ELSE {})

\* A callee does what the bytecode analyzer says it may do.
StaticCallRuns(s, n) ==
  LET Having(flag) == {s.val[n.in[i]] : i \in {j \in DOMAIN n.in : flag \in n.args[j]}}
      Lacking(flag) == {s.val[n.in[i]] : i \in {j \in DOMAIN n.in : flag \notin n.args[j]}}
      args == {s.val[n.in[i]] : i \in DOMAIN n.in} \cap Made
      held == {s.heap[<<o, f>>] : o \in Lacking("local") \cap Made, f \in Offsets}
      t == [Leaked(s, Lacking("stack") \cup held) EXCEPT !.passed = @ \cup args]
      Returns(u) == CASE n.how = "none" -> {u}
                      [] n.how = "allocated" -> {Def(v, n.id, n.id) : v \in Scribbled(u, {n.id})}
                      [] n.how = "unknown" -> {Def(u, n.id, v) : v \in World(u)}
                      [] n.how = "args" -> {Def(u, n.id, v) : v \in Having("returned")}
                      [] OTHER -> {Def(u, n.id, v) : v \in Having("returned") \cup World(u)}
  IN UNION {Returns(u) : u \in Scribbled(t, args \ t.out)}

CopyRuns(s, n) ==
  LET from == s.val[n.in[1]]  to == s.val[n.in[2]]
      t == IF n.how = "validated" THEN s ELSE [s EXCEPT !.passed = @ \cup ({from, to} \cap Made)]
  IN IF null_obj \in {from, to} THEN {}
     ELSE {t} \cup {Put(t, to, f, v) : f \in Offsets, v \in UNION {Got(t, from, g) : g \in Offsets}}

Runs(s, n) ==
  CASE n.op = "Allocate" -> {LET t == Def(s, n.id, n.id) IN IF n.how = "special" THEN Leaked(t, {n.id}) ELSE t}
    [] n.op \in Casts -> {Def(s, n.id, s.val[n.in[1]])}
    [] n.op \in Unknowns -> {Def(s, n.id, phantom_obj)}
    [] n.op = "ConP" -> {Def(s, n.id, n.id)}
    [] n.op \in Merges -> {Def(s, n.id, s.val[i]) : i \in ToSet(n.in) \cap DOMAIN s.val}
    [] n.op \in {"AddP", "Lock", "UncommonTrap"} -> {s}
    [] n.op = "LoadP" -> LET f == NodeOf(method, n.in[1])  base == s.val[f.in[1]] IN
         IF base = null_obj THEN {} ELSE {Def(s, n.id, v) : v \in UNION {Got(s, base, o) : o \in OffsetsOf(f)}}
    [] n.op \in Stores -> StoreNodeRuns(s, n)
    [] n.op = "StoreRaw" -> LET t == Leaked(s, {s.val[n.in[2]]}) IN
         {t} \cup {Put(t, s.val[NodeOf(method, n.in[1]).in[1]], o, s.val[n.in[2]]) : o \in Offsets}
    [] n.op \in Exits -> {Leaked(Def(s, n.id, s.val[n.in[1]]), {s.val[n.in[1]]})}
    [] n.op \in {"Intrinsic", "CallLeaf"} ->
         {[s EXCEPT !.passed = @ \cup ({s.val[n.in[i]] : i \in DOMAIN n.in} \cap Made)]}
    [] n.op = "ArrayCopy" -> CopyRuns(s, n)
    [] n.op = "CallStaticJava" -> StaticCallRuns(s, n)
    [] n.op = "CallDynamicJava" ->
         LET t == Leaked(s, {s.val[n.in[i]] : i \in DOMAIN n.in})
         IN IF n.how = "none" THEN {t} ELSE {Def(t, n.id, v) : v \in World(t)}

\* The states after every node of every run
RunStates ==
  LET start == [val |-> "null" :> null_obj, heap |-> [l \in Made \X Offsets |-> null_obj], out |-> {}, passed |-> {}]
  IN FoldLeft(LAMBDA acc, n : LET now == UNION {Runs(s, n) : s \in acc.now} IN [now |-> now, all |-> acc.all \cup now],
              [now |-> {start}, all |-> {start}], method).all

\* What node p may hold according to the finished graph
MayHold(p, o) ==
  \/ <<p, o>> \in edges
  \/ /\ <<p, phantom_obj>> \in edges
     /\ o \in Made => esc[o] = GlobalEscape

\* A finished graph is right about every run of the method it was made from, whatever
\* callees and other threads do: what the rest of the program can reach is GlobalEscape, what
\* a call was passed is ArgEscape, and every variable and field points to all it ever holds.
EscapeSound ==
  pc = "done" /\ method # <<>> => \A s \in RunStates :
    /\ \A o \in s.out : esc[o] = GlobalEscape
    /\ \A o \in s.passed : esc[o] >= ArgEscape
    /\ \A v \in Vars \cap DOMAIN s.val : MayHold(v, s.val[v])
    /\ \A f \in Fields, o \in DOMAIN s.heap :
         <<f, o[1]>> \in bases /\ shape.offset[f] \in {o[2], OffsetBot} /\ o[1] \in DOMAIN s.val
           => \/ esc[o[1]] = GlobalEscape
              \/ o \in shape.captured /\ s.heap[o] = null_obj
              \/ MayHold(f, s.heap[o])
=============================================================================
