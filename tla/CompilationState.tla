-------------------------- MODULE CompilationState --------------------------
(***************************************************************************)
(* What one C2 compilation of a method knows about its allocations, shared *)
(* by escape analysis (StackAllocationAnalysis) and macro expansion        *)
(* (MacroExpansion): the finished connection graph, the scalar_replaceable *)
(* flag of its JavaObject nodes and the flags escape analysis leaves on    *)
(* the Allocate nodes for macro expansion to read.                         *)
(*                                                                         *)
(* The compiler numbers ideal nodes; here the objects of                   *)
(* non_escaped_worklist are 1..N (their position on the macro list), the   *)
(* Field nodes 1..F and the LocalVar nodes 1..L.                           *)
(***************************************************************************)
EXTENDS Integers, FiniteSets

CONSTANTS
  N, F, L,                            \* objects, Field nodes, LocalVar nodes
  Graphs,                             \* connection graphs to start from
  DoStackAllocation,                  \* C->do_stack_allocation()
  EliminateAllocations,
  EliminateLocks,
  EliminateNestedLocks,
  UseCompressedOops,
  StackAllocSizeLimit,                \* bytes
  EliminateAllocationArraySizeLimit   \* elements

Obj     == 1..N
NullObj == 0
Fld     == 1..F
Var     == 1..L

NoEscape  == 1
ArgEscape == 2

(***************************************************************************)
(* A finished connection graph, as complete_connection_graph leaves it.    *)
(*   kind, esc, sr    the call node that creates the object, its escape    *)
(*                    state and its initial scalar_replaceable flag        *)
(*   bases, values    the JavaObjects a Field node belongs to and the      *)
(*                    JavaObjects it points to                             *)
(*   lbases           number of LocalVar bases of a Field node             *)
(*   bot              the field's offset is unknown (Type::OffsetBot)      *)
(*   opaque           a LoadStore, a mismatched access or a raw unsafe     *)
(*                    address touches the field                            *)
(*   points           the JavaObjects a LocalVar points to                 *)
(*   result           result_cast(): none, a CheckCastPP, or another node  *)
(*   size, length     constant size in bytes / array length, -1 unknown    *)
(*   encoded, overlap, exact, objArray                                     *)
(*                    the result reaches an EncodeP; a loop phi of the     *)
(*                    object reaches itself (allocation_lifetime_overlap); *)
(*                    the result type is exact; the klass is an obj array  *)
(*   acsrc, acdst     arraycopy_src() and arraycopy_dst()                  *)
(*   copies           <<s, d>>: a validated arraycopy may copy the         *)
(*                    elements of s into d, directly or through others     *)
(*   locks            _has_locks                                           *)
(***************************************************************************)
GraphType ==
  [kind    : [Obj -> {"Allocate", "AllocateArray", "CallStaticJava"}],
   esc     : [Obj -> {NoEscape, ArgEscape}],
   sr      : [Obj -> BOOLEAN],
   bases   : [Fld -> SUBSET (Obj \cup {NullObj})],
   values  : [Fld -> SUBSET (Obj \cup {NullObj})],
   lbases  : [Fld -> Nat],
   bot     : [Fld -> BOOLEAN],
   opaque  : [Fld -> BOOLEAN],
   points  : [Var -> SUBSET (Obj \cup {NullObj})],
   result  : [Obj -> {"none", "cast", "other"}],
   size    : [Obj -> Nat \cup {-1}],
   length  : [Obj -> Nat \cup {-1}],
   encoded : [Obj -> BOOLEAN],
   overlap : [Obj -> BOOLEAN],
   exact   : [Obj -> BOOLEAN],
   objArray: [Obj -> BOOLEAN],
   acsrc   : [Obj -> BOOLEAN],
   acdst   : [Obj -> BOOLEAN],
   copies  : SUBSET (Obj \X Obj),
   locks   : BOOLEAN]

ASSUME SizesAssumption ==
  /\ N \in Nat /\ F \in Nat /\ L \in Nat
  /\ StackAllocSizeLimit \in Nat
  /\ EliminateAllocationArraySizeLimit \in Nat

ASSUME FlagsAssumption ==
  /\ DoStackAllocation \in BOOLEAN /\ EliminateAllocations \in BOOLEAN
  /\ EliminateLocks \in BOOLEAN    /\ EliminateNestedLocks \in BOOLEAN
  /\ UseCompressedOops \in BOOLEAN

ASSUME GraphsAssumption == \A g \in Graphs : g \in GraphType

VARIABLES
  cg,      \* the connection graph; no step of this model changes it
  phase,   \* the part of the compilation being executed
  sr,      \* JavaObjectNode::scalar_replaceable(), the graph's flag
  nonEsc,  \* CallNode::_is_non_escaping
  nodeSR,  \* AllocateNode / CallStaticJavaNode::_is_scalar_replaceable
  sa,      \* AllocateNode::_is_stack_allocateable
  ref      \* AllocateNode::_is_referenced_stack_allocation

\* Steps 3, 4 (its two loops) and 6 of compute_escape; elimination, estimate and
\* expansion of macro nodes; the end. "retry": compiled again without escape
\* analysis. "abandoned": given up during expansion.
Phases == {"adjust", "eligible", "verify", "unique", "retry",
           "eliminate", "estimate", "expand", "expanded", "abandoned"}

flagVars == <<sr, nonEsc, nodeSR, sa, ref>>

IsAllocate(o) == cg.kind[o] \in {"Allocate", "AllocateArray"}

\* Field nodes among the uses of object o, and among its edges.
FieldUses(o)  == {f \in Fld : o \in cg.values[f]}
FieldEdges(o) == {f \in Fld : o \in cg.bases[f]}
LocalUses(o)  == {v \in Var : o \in cg.points[v]}

\* base_count() of a Field node: JavaObject bases and LocalVar bases.
BaseCount(f) == Cardinality(cg.bases[f]) + cg.lbases[f]

\* What the finished graph says: some field of x may point to y.
PointsTo(x, y) == \E f \in Fld : x \in cg.bases[f] /\ y \in cg.values[f]

\* What the compiled method may do: x may hold a reference to y, stored
\* through a field or copied there by an arraycopy from an array that has it.
MayHold(x, y) ==
  \/ PointsTo(x, y)
  \/ \E s \in Obj : <<s, x>> \in cg.copies /\ PointsTo(s, y)
=============================================================================
