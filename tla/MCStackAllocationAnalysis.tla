--------------------- MODULE MCStackAllocationAnalysis ---------------------
(***************************************************************************)
(* Three allocations, two oop fields and one local variable. Every object  *)
(* takes one of the shapes below, so that an object may be scalar          *)
(* replaceable but too big for the frame, be the result of a call, or      *)
(* escape as an argument.                                                  *)
(***************************************************************************)
EXTENDS StackAllocationAnalysis, MCAllocationUses

\* Each behaviour is one of the analysis, or one of the searches it calls.
VARIABLE part

Small == [kind |-> "Allocate", size |-> 16, length |-> -1, result |-> "cast",
          esc |-> NoEscape, sr |-> TRUE, exact |-> TRUE]
Big   == [Small EXCEPT !.kind = "AllocateArray", !.size = 528, !.length = 64]
Call  == [Small EXCEPT !.kind = "CallStaticJava", !.size = -1, !.sr = FALSE]
Arg   == [Small EXCEPT !.esc = ArgEscape]
Shapes == {Small, Big, Call, Arg}

Graph(sh, bs, vs, bot, pts) ==
  [kind   |-> [o \in Obj |-> sh[o].kind],
   esc    |-> [o \in Obj |-> sh[o].esc],
   sr     |-> [o \in Obj |-> sh[o].sr],
   size   |-> [o \in Obj |-> sh[o].size],
   length |-> [o \in Obj |-> sh[o].length],
   result |-> [o \in Obj |-> sh[o].result],
   exact  |-> [o \in Obj |-> sh[o].exact],
   bases  |-> bs, values |-> vs,
   bot    |-> [f \in Fld |-> bot /\ f = 1],
   lbases |-> [f \in Fld |-> 0],
   opaque |-> [f \in Fld |-> bot /\ f = 2],
   points |-> [v \in Var |-> pts],
   encoded  |-> [o \in Obj |-> FALSE], overlap |-> [o \in Obj |-> o = 3 /\ bot],
   objArray |-> [o \in Obj |-> sh[o].kind = "AllocateArray"],
   acsrc  |-> [o \in Obj |-> FALSE], acdst |-> [o \in Obj |-> FALSE],
   copies |-> {}, locks |-> FALSE]

\* find_non_escaped_objects leaves no argument-escaping object pointing to a
\* non-escaping one.
EscapeClosed(g) ==
  \A f \in Fld : \A b \in g.bases[f] \ {NullObj} : \A o \in g.values[f] \ {NullObj} :
    g.esc[b] = ArgEscape => g.esc[o] = ArgEscape

MCGraphs ==
  {g \in {Graph(sh, <<b1, b2>>, <<v1, v2>>, bot, pts) :
            sh \in [Obj -> Shapes],
            b1 \in {{1}, {1, 2}, {NullObj, 2}}, b2 \in {{2}, {3}},
            v1 \in {{2}, {3}, {NullObj, 3}},    v2 \in {{1}, {3}},
            bot \in BOOLEAN, pts \in {{1, 2}, {3}}} : EscapeClosed(g)}

MCWorklist == [i \in 1..N |-> (i % N) + 1]

\* The other component has nothing to do: three call results, a phi outside loops.
EAIdle ==
  /\ cg = Graph([o \in Obj |-> Call], <<{1}, {2}>>, <<{2}, {3}>>, FALSE, {3}) /\ phase = "eliminate"
  /\ sr = cg.sr /\ next = 1 /\ alloc_worklist = << >>
  /\ nonEsc = [o \in Obj |-> FALSE] /\ nodeSR = nonEsc /\ sa = nonEsc /\ ref = nonEsc
AUIdle ==
  /\ ug = [outs |-> [n \in Node |-> {}], later |-> {}, phis |-> {Start}, encodes |-> {}, loop |-> FALSE]
  /\ OverlapStart
Analysis == part = "analysis" /\ EANext /\ UNCHANGED <<auVars, part>>
Searches == part = "searches" /\ AUNext /\ UNCHANGED <<eaVars, part>>
mcVars == <<eaVars, auVars, part>>
MCInit == \/ part = "analysis" /\ EAInit /\ AUIdle
          \/ part = "searches" /\ AUInit /\ EAIdle
MCSpec == MCInit /\ [][Analysis \/ Searches]_mcVars /\ WF_mcVars(Analysis) /\ WF_mcVars(Searches)

\* compute_escape ends, and so do the searches it makes: neither the restarts of the chain
\* verification nor cycles in the ideal graph keep the compiler thread busy for ever.
AnalysisEnds == (part = "analysis" /\ EATerminates) \/ (part = "searches" /\ SearchEnds)
=============================================================================
