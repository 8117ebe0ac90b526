--------------------------- MODULE MCDeoptimization ---------------------------
(***************************************************************************)
(* From compiled code to the interpreter. Each behaviour is one of several *)
(* parts, which share no state:                                            *)
(*   - macro expansion writes objects into the debug inputs of two         *)
(*     safepoints;                                                         *)
(*   - the debug information of a safepoint is emitted, read, and its      *)
(*     frame is deoptimized;                                               *)
(*   - two threads take uncommon traps in the same code;                   *)
(*   - a pass of the back end lays out, schedules or emits a method, or    *)
(*     builds its oop maps.                                                *)
(***************************************************************************)
EXTENDS SafepointObjects, Deoptimization, UncommonTrap, MCBackEnd

VARIABLE part
frameVars == <<spVars, deoptVars, utVars>>
mcVars == <<part, frameVars, backEndVars>>

-----------------------------------------------------------------------------
\* An object a with two fields that may hold b, an array b of one element, an
\* object e without fields, and an object p that is passed to a call.
MCAllocs == {"a", "b", "e", "p"}
MCFields == [a \in MCAllocs |-> CASE a = "a" -> 2 [] a = "b" -> 1 [] a = "e" -> 0 [] a = "p" -> 1]
MCUses   == [a \in MCAllocs |-> IF a = "p" THEN {"argument"} ELSE {"field store"}]
MCHeld   == [a \in MCAllocs |-> IF a = "a" THEN {"b"} ELSE {}]
MCReach  == [a \in MCAllocs |-> CASE a = "a" -> {2} [] a = "b" -> {1, 2} [] OTHER -> {}]

DebugValues == {Val, Res("a"), Res("b"), Res("e"), Res("p")}
MCDebug ==
  {d \in [{1, 2} -> {<<x, y>> : x \in DebugValues, y \in DebugValues}] :
     /\ d[2] \in {<<Res("a"), Res("a")>>, <<Res("e"), Res("a")>>, <<Res("b"), Val>>}
     /\ d[1] \in {<<Res("a"), y>> : y \in DebugValues}}

-----------------------------------------------------------------------------
\* Four safepoints of a method with an inlined call. The first mixes scalar
\* replaced and stack allocated objects that refer to each other in both
\* directions, the second has primitive pairs and arrays, the third stack
\* objects alone, the fourth no objects.

MCKlass ==
  [P  |-> [fields |-> <<"oop", "int">>, elem |-> "none"],
   L  |-> [fields |-> <<"int", "long", "oop">>, elem |-> "none"],
   II |-> [fields |-> <<"int", "int">>, elem |-> "none"],
   A  |-> [fields |-> <<>>, elem |-> "oop"],
   J  |-> [fields |-> <<>>, elem |-> "long"]]

Reg(t, l)    == [k |-> "reg", t |-> t, l |-> l]
Con(t, v)    == [k |-> "con", t |-> t, v |-> v]
Top          == Con("top", 0)
Scalar(id, c, first, n) ==
  [k |-> "sobj", t |-> "oop", id |-> id, klass |-> c, stack |-> FALSE, first |-> first, n |-> n, slot |-> 0]
OnStack(id, c, slot, n) ==
  [k |-> "sobj", t |-> "oop", id |-> id, klass |-> c, stack |-> TRUE, first |-> 0, n |-> n, slot |-> slot]
Scope(l, s, m, c) == [locals |-> l, stack |-> s, monitors |-> m, scalars |-> c]
Mon(o, e) == [obj |-> o, box |-> 50, eliminated |-> e]
Flags(jvmci, ea, sar) ==
  [jvmci |-> jvmci, DoEscapeAnalysis |-> TRUE, EliminateAllocations |-> ea,
   UseStackAllocationRuntime |-> sar, EliminateNestedLocks |-> FALSE, EliminateLocks |-> TRUE]

Contents == [l \in 1..4 |-> CASE l = 1 -> Num(7) [] l = 2 -> Stack(16) [] l = 3 -> Heap("h")
                              [] l = 4 -> Num(9)]

l1 == Scalar(1, "L", 1, 3)
p2 == Scalar(2, "P", 4, 2)
a3 == OnStack(3, "A", 8, 2)
p4 == OnStack(4, "P", 16, 2)
In1 == <<Con("int", 0), Reg("long", 1), p2, Reg("oop", 2), Con("int", 4), a3, p4, l1>>
Mixed ==
  [in |-> In1, contents |-> Contents,
   memory |-> (8 :> <<Stack(8), Stack(16)>> @@ 16 :> <<Stack(8), Num(5)>>),
   scopes |-> <<Scope(<<l1, Reg("long", 1), Top, Reg("oop", 2)>>, <<>>,
                      <<Mon(p4, TRUE), Mon(p4, TRUE)>>, <<>>),
                Scope(<<Reg("oop", 2), p2>>, <<a3, Con("oop", Heap("k"))>>,
                      <<Mon(Reg("oop", 3), FALSE), Mon(l1, TRUE)>>, In1)>>,
   flags |-> Flags(FALSE, TRUE, TRUE), return_oop |-> TRUE, popframe |-> FALSE,
   biased_locking |-> TRUE]

i5 == Scalar(5, "II", 1, 2)
j6 == Scalar(6, "J", 3, 2)
i7 == Scalar(7, "II", 5, 2)
In2 == <<Con("int", 0), Reg("int", 4), Con("long", 3), Reg("long", 1), Con("int", 1), Con("int", 2),
         i5, j6, i7>>
Pairs ==
  [in |-> In2, contents |-> Contents, memory |-> <<>>,
   scopes |-> <<Scope(<<i5, Con("long", 8), Top, i7>>, <<Reg("long", 1), Top, j6>>, <<>>, In2)>>,
   flags |-> Flags(TRUE, TRUE, FALSE), return_oop |-> TRUE, popframe |-> TRUE,
   biased_locking |-> FALSE]

p8 == OnStack(8, "P", 8, 2)
p9 == OnStack(9, "P", 16, 2)
Alone ==
  [in |-> <<p8, p9>>, contents |-> Contents,
   memory |-> (8 :> <<Stack(16), Num(1)>> @@ 16 :> <<Heap("h"), Num(2)>>),
   scopes |-> <<Scope(<<p8, Reg("oop", 2)>>, <<>>, <<Mon(p9, TRUE)>>, <<>>),
                Scope(<<Reg("oop", 3)>>, <<>>, <<>>, <<p8, p9>>)>>,
   flags |-> Flags(FALSE, FALSE, TRUE), return_oop |-> TRUE, popframe |-> FALSE,
   biased_locking |-> FALSE]

None ==
  [in |-> <<>>, contents |-> Contents, memory |-> <<>>,
   scopes |-> <<Scope(<<Reg("oop", 3)>>, <<Reg("int", 4)>>, <<Mon(Reg("oop", 3), FALSE)>>, <<>>)>>,
   flags |-> Flags(FALSE, TRUE, FALSE), return_oop |-> FALSE, popframe |-> FALSE,
   biased_locking |-> TRUE]

MCSafePoints == {Mixed, Pairs, Alone, None}
Write(f, vf, i) == [frame |-> f, vf |-> vf, index |-> i, value |-> Heap(<<f, i>>)]
MCWrites == {Write("f", 1, 0), Write("g", 1, 0), Write("f", 2, 0), [Write("f", 1, 0) EXCEPT !.value = Null]}

-----------------------------------------------------------------------------
SPIdle == SPInit([s \in Safepoints |-> <<>>])
DPIdle == DPInit(None, "deopt", "none")

FrameIdle == SPIdle /\ DPIdle /\ UTInit

MCInit ==
  \/ /\ part = "safepoints" /\ DPIdle /\ UTInit /\ BackEndIdle
     /\ \E d \in MCDebug : SPInit(d)
  \/ /\ part = "deoptimization" /\ SPIdle /\ UTInit /\ BackEndIdle
     /\ \E s \in MCSafePoints : \E mode \in {"deopt", "exception", "uncommon_trap", "reexecute"} :
        \E pending \in {"none", "thrown"} : DPInit(s, mode, pending)
  \/ /\ part = "traps" /\ FrameIdle /\ BackEndIdle
  \/ part = "oop maps" /\ (\E p \in Programs : BOInit(p)) /\ BLIdle /\ EMIdle /\ SCIdle /\ FrameIdle
  \/ part = "layout" /\ BLInputs /\ BOIdle /\ EMIdle /\ SCIdle /\ FrameIdle
  \/ part = "emission" /\ EMInputs /\ BOIdle /\ BLIdle /\ SCIdle /\ FrameIdle
  \/ part = "schedule" /\ SCInputs /\ BOIdle /\ BLIdle /\ EMIdle /\ FrameIdle

MCNext ==
  /\ UNCHANGED part
  /\ \/ part = "safepoints" /\ SPNext /\ UNCHANGED <<deoptVars, utVars, backEndVars>>
     \/ part = "deoptimization" /\ DPNext /\ UNCHANGED <<spVars, utVars, backEndVars>>
     \/ part = "traps" /\ UTNext /\ UNCHANGED <<spVars, deoptVars, backEndVars>>
     \/ part = "oop maps" /\ BONext /\ UNCHANGED <<blVars, emVars, scVars, frameVars>>
     \/ part = "layout" /\ BLNext /\ UNCHANGED <<boVars, emVars, scVars, frameVars>>
     \/ part = "emission" /\ EMNext /\ UNCHANGED <<boVars, blVars, scVars, frameVars>>
     \/ part = "schedule" /\ SCNext /\ UNCHANGED <<boVars, blVars, emVars, frameVars>>

MCSpec == MCInit /\ [][MCNext]_mcVars
=============================================================================
