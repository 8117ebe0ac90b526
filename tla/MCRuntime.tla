------------------------------ MODULE MCRuntime ------------------------------
EXTENDS OopMapWalk, BarrierElimination, G1Barriers

\* Each behaviour is one of a component; the others stay as they are.
VARIABLE part

\* Callee 101..102 with the saved register in 102; caller 103..112 with slots 103,
\* 104 and 105, the objects at 106 (one field) and 108 (two fields), and the type
\* array at 111.
MCStackWords  == 101..112
MCCallerWords == 103..112
MCObjects     == [o \in {106, 108, 111} |-> IF o = 106 THEN {107} ELSE IF o = 108 THEN {109, 110} ELSE {}]
MCCalleeMap   == <<CalleeSaved(102, 1)>>
MCTypeArrays  == {111}
MCForward     == (30 :> 20) @@ (20 :> 10) @@ (10 :> 5) @@ (5 :> 5)

Ptrs == {0, 30, 106, 108}
Words(a, b, r, f, g, h) ==
  [w \in MCStackWords |->
     CASE w = 102 -> r [] w = 103 -> a [] w = 104 -> b
       [] w = 105 -> IF b = 0 THEN 0 ELSE b + 1
       [] w = 107 -> f [] w = 109 -> g [] w = 110 -> h
       [] w = 112 -> 30 [] OTHER -> 1]

Full  == <<Oop(103), Derived(105, 104), Oop(104), Oop(1)>>
Small == <<Derived(103, 103)>>
MapLists ==
  {[i \in 1..Len(l) |-> [pc |-> 2 * i, values |-> l[i]]] :
     l \in {<<Full>>, <<Full, Full>>, <<Full, <<>>, Full>>, <<<<>>, Small, <<>>, Full>>}}
Simple == [i \in 1..1 |-> [pc |-> 2, values |-> Full]]

OWStart(words, ms, i, flag, c) ==
  [mem |-> words, maps |-> ms, pc |-> ms[i].pc, flag |-> flag, code |-> c]
\* Frames with stack objects, and those of a plain method beside a compilation of one
Codes(a, b, r) == IF {a, b, r} \cap {106, 108} = {} THEN {"plain", "stack"} ELSE {"stack"}
MCOWStarts ==
  UNION {{OWStart(Words(a, b, r, f, g, h), ms, i, flag, c) :
            i \in DOMAIN ms, flag \in BOOLEAN, c \in Codes(a, b, r)} :
    <<a, b, r, f, g, h, ms>> \in
      {x \in Ptrs \X Ptrs \X {20, 108} \X {0, 30, 108} \X {30, 106, 108} \X {20, 111} \X MapLists :
         x[7] = Simple \/ (x[1] = 106 /\ x[2] = 30 /\ x[4] = 108 /\ x[3] = 20)}}
OWInputs == \E s \in OWStarts : OWInit(s)
OWIdle == OWInit(OWStart(Words(0, 0, 20, 0, 30, 20), Simple, 1, FALSE, "plain"))

-----------------------------------------------------------------------------
\* Two allocations, and two nodes that may merge or load what they refer to
Phi(ins) == [kind |-> "phi", ins |-> ins]
Load(n)  == [kind |-> "load", ins |-> {n}]
Alloc    == [kind |-> "alloc", ins |-> {}]
Other    == [kind |-> "heap", ins |-> {}]
BEGraphs ==
  {[n \in {"n1", "n2", "n3", "n4"} |-> CASE n = "n3" -> d3 [] n = "n4" -> d4 [] OTHER -> Alloc] :
     d3 \in {Phi({"n1", "n2"}), Phi({"n2", "n4"}), Load("n2"), Load("n4")},
     d4 \in {Other, Phi({"n1", "n3"}), Load("n1"), Load("n3")}}
StoreTo(bases) == [base : bases, val : {"n1", "n2", "n3", "n4"}, null : {FALSE}]
NullStore == [base |-> "n3", val |-> "n4", null |-> TRUE]
MCBEStarts ==
  {s \in [graph : BEGraphs, stores : {<<s1, s2>> : s1 \in StoreTo({"n1", "n2", "n3"}), s2 \in StoreTo({"n3", "n4"}) \cup {NullStore}},
          place : [{"n1", "n2"} -> {"stack", "heap", "scalar"}]] : ScalarsAlone(s) /\ ChainsVerified(s)}
BEInputs == \E s \in BEStarts : BEInit(s)
BEIdle == BEInit([graph |-> <<>>, stores |-> <<>>, place |-> <<>>])

-----------------------------------------------------------------------------
\* The heap is 8..19: region 2 with the old object 8, region 3 with the Reference 12
\* and the old object 14, region 4 with the young object 16; stack objects are at 2
\* and 24.
MCFieldsOf == (8 :> {8}) @@ (12 :> {12, 13}) @@ (14 :> {14}) @@ (16 :> {16, 17})
                @@ (2 :> {2}) @@ (24 :> {24})
MCCard(c, dirty) == IF c \notin 4..9 THEN "foreign" ELSE IF c \in {8, 9} THEN "young"
                    ELSE IF c \in dirty THEN "dirty" ELSE "clean"
G1Start(a, s, w, d, u, ph, n1, n2) ==
  [heap |-> [l \in {8, 12, 13, 14, 16, 17, 2, 24} |->
               CASE l = 8 -> a [] l = 13 -> w [] l \in {2, 24} -> s [] OTHER -> 0],
   card |-> [c \in 0..15 |-> MCCard(c, d)], pending |-> d,
   remset |-> [r \in 2..4 |-> IF r = 3 /\ a = 14 THEN {4} ELSE {}],
   regs |-> [m \in Mutators |-> CASE m = "m1" -> u [] m = "m2" /\ n2 > 0 -> {8} \cup (IF ph = "off" THEN {12} ELSE {}) [] OTHER -> {}],
   phase |-> ph, ops |-> [m \in Mutators |-> IF m = "m1" THEN n1 ELSE n2]]
\* Refinement with two threads that store, and marking with one that moves
\* references from a field to another
MCG1Starts ==
  {G1Start(0, 0, 0, {4}, {8, 12}, "off", 2, 1), G1Start(0, 14, 0, {}, {8, 24}, "off", 1, 1),
   G1Start(14, 0, 0, {}, {8, 12}, "idle", 3, 0), G1Start(0, 14, 0, {}, {8, 2}, "idle", 3, 0),
   G1Start(0, 0, 14, {}, {8, 12}, "idle", 2, 1)}
G1Inputs == \E s \in G1Starts : G1Init(s)
G1Idle == G1Init(G1Start(0, 0, 0, {}, {}, "off", 0, 0))

-----------------------------------------------------------------------------
MCInit ==
  \/ part = "oop map walk" /\ OWInputs /\ BEIdle /\ G1Idle
  \/ part = "barrier elimination" /\ BEInputs /\ OWIdle /\ G1Idle
  \/ part = "barriers" /\ G1Inputs /\ OWIdle /\ BEIdle
MCNext ==
  \/ part = "oop map walk" /\ OWNext /\ UNCHANGED <<beVars, g1Vars, part>>
  \/ part = "barrier elimination" /\ BENext /\ UNCHANGED <<owVars, g1Vars, part>>
  \/ part = "barriers" /\ G1Next /\ UNCHANGED <<owVars, beVars, part>>
MCSpec == MCInit /\ [][MCNext]_<<owVars, beVars, g1Vars, part>>
=============================================================================
