-------------------------- MODULE MCConnectionGraph --------------------------
(***************************************************************************)
(* Two allocations a and b with their projections pa, pb and casts va, vb, *)
(* a call that returns a new object, a variable x that merges or loads,    *)
(* the returned or passed variable r, and two fields f and g that may name *)
(* the same location. The array a may be copied into b.                    *)
(***************************************************************************)
EXTENDS GraphConstruction

Fixed == {<<"pa", "a">>, <<"va", "pa">>, <<"pb", "b">>, <<"vb", "pb">>}

\* Two opposite orders, and one that leaves the order open.
Order == <<"phantom", "null", "a", "b", "c", "pa", "va", "pb", "vb", "x", "y", "r", "k", "l",
           "f", "g", "ac">>
Forward  == [n \in Nodes |-> CHOOSE i \in 1..Len(Order) : Order[i] = n]
Backward == [n \in Nodes |-> Len(Order) - Forward[n]]
Open     == [n \in Nodes |-> 0]

Graph(x, r, rEsc, fBase, fVal, gBase, gVal, gOff, copy, store, rank) ==
  [edges  |-> Fixed \cup ({"x"} \X x) \cup ({"r"} \X r) \cup ({"f"} \X fVal)
              \cup ({"g"} \X gVal)
              \cup (IF copy THEN {<<"ac", "va">>, <<"vb", "ac">>} ELSE {}),
   bases  |-> {<<"f", IF store THEN "pa" ELSE fBase>>, <<"g", gBase>>},
   src    |-> IF copy THEN {"va"} ELSE {},
   dst    |-> IF copy THEN {"vb"} ELSE {},
   esc    |-> [n \in Nodes |-> IF n \in Consts \cup {phantom_obj} THEN GlobalEscape
                               ELSE IF n = "r" THEN rEsc[1] ELSE NoEscape],
   fesc   |-> [n \in Nodes |-> IF n \in Consts \cup {phantom_obj} THEN GlobalEscape
                               ELSE IF n = "r" THEN rEsc[2] ELSE NoEscape],
   offset |-> [h \in Fields |-> IF h = "f" THEN 1 ELSE gOff],
   raw    |-> IF store THEN {"f"} ELSE {},
   captured |-> IF store THEN {<<"a", 1>>} ELSE {},
   rank   |-> rank]

\* Escape states of r: a plain variable, an argument whose fields may escape,
\* a returned value.
States == {<<NoEscape, NoEscape>>, <<ArgEscape, GlobalEscape>>,
           <<GlobalEscape, GlobalEscape>>}

Assignments ==
  {Graph(x, r, e, fb, fv, gb, gv, off, FALSE, st, rank) :
     x \in {{"va", "vb"}, {"g"}, {"c"}, {"g", "va"}}, r \in {{"x"}, {"f"}},
     e \in States, fb \in {"va", "x"}, fv \in {{"vb"}, {"x"}},
     gb \in {"va", "x", "vb"}, gv \in {{}, {"x"}}, off \in {1, OffsetBot},
     st \in BOOLEAN, rank \in {Forward}}

Copying ==
  {Graph(x, r, e, "va", fv, gb, gv, off, TRUE, FALSE, rank) :
     x \in {{"va", "vb"}, {"g"}, {"c"}}, r \in {{"x"}, {"vb"}},
     e \in States, fv \in {{"x"}, {phantom_obj}, {}},
     gb \in {"x", "vb"}, gv \in {{}, {"vb"}}, off \in {1, OffsetBot, 2},
     rank \in {Forward, Backward}}

AnyOrder ==
  {Graph({"g"}, {"x"}, e, "va", {"vb"}, gb, {}, 1, copy, FALSE, Open) :
     e \in {<<ArgEscape, GlobalEscape>>}, gb \in {"va", "vb"}, copy \in BOOLEAN}

\* x is null, and the load of x.g is dead code; or everything is returned.
Boundary ==
  {Graph({null_obj}, {"g"}, e, "va", fv, "x", {}, 1, FALSE, FALSE, Forward) :
     e \in States, fv \in {{"vb"}, {"r"}}}
  \cup
  {Graph({"c"}, {"x", "va", "vb"}, e, "va", {"vb"}, "x", {}, 1, FALSE, FALSE, Forward) :
     e \in States}

\* Graphs of code that may run
MCStarts ==
  {s \in Assignments \cup Copying \cup AnyOrder \cup Boundary : CapturedStoresKnown(s) /\ LiveStores(s)}

MCJavaObjects == <<phantom_obj, "c", "b", "a", null_obj>> \o SelectSeq(<<"k", "l">>, LAMBDA o : o \in Consts)

-----------------------------------------------------------------------------
(***************************************************************************)
(* Methods over the same nodes: a and b are made, then fields, a copy, x,  *)
(* a store, a call or another use, and r, which leaves the method or not.  *)
(***************************************************************************)
Node(id, op, in) == [id |-> id, op |-> op, in |-> in, off |-> 0, how |-> "none", args |-> <<>>]
AddP(id, base, off, how) == [Node(id, "AddP", <<base>>) EXCEPT !.off = off, !.how = how]
Call(id, op, in, how) == [Node(id, op, in) EXCEPT !.how = how]
Static(id, in, args, how) == [Call(id, "CallStaticJava", in, how) EXCEPT !.args = args]
New(o, p, v, how) == <<Call(o, "Allocate", <<>>, how), Node(p, "Proj", <<o>>), Node(v, "CheckCastPP", <<p>>)>>
Before == <<Node("p", "Parm", <<>>), Node("k", "ConP", <<>>)>> \o New("a", "pa", "va", "plain") \o New("b", "pb", "vb", "plain")
            \o <<Static("c", <<>>, <<>>, "allocated")>>
Local == {"stack", "local"}

\* g: a field of a, of b or of a parameter, maybe written; x; then f, a field of a or of x
\* that is written; then an effect; then r.
Xs == {<<Node("x", "Phi", <<"va", "vb">>)>>, <<Node("x", "Phi", <<"va", "y">>)>>, <<Node("x", "CMoveP", <<"null", "vb">>)>>,
       <<Node("x", "LoadP", <<"g">>)>>, <<Node("x", "Proj", <<"c">>)>>, <<Node("x", "CastPP", <<"k">>)>>,
       <<Node("x", "GetAndSetP", <<"g", "vb">>)>>,
       <<Static("x", <<"va", "vb">>, <<Local \cup {"returned"}, Local>>, "args")>>,
       <<Static("x", <<"va", "vb">>, <<{"stack"}, Local \cup {"returned"}>>, "args or unknown")>>}
Effects == {<<>>, <<Node("e", "Lock", <<"va">>), Node("t", "UncommonTrap", <<>>)>>,
            <<Call("e", "CallDynamicJava", <<"va">>, "none")>>,
            <<Static("e", <<"x">>, <<{"stack"}>>, "none")>>, <<Static("e", <<"x", "vb">>, <<Local, {}>>, "none")>>,
            <<Node("e", "CallLeaf", <<"x">>)>>, <<Node("e", "StoreP", <<"g", "x">>)>>,
            <<Node("e", "CompareAndSwapP", <<"g", "va">>)>>}
Ends == {<<Node("y", "LoadP", <<"f">>), Node("r", "Intrinsic", <<"y">>)>>, <<Node("y", "LoadP", <<"g">>), Node("r", "Return", <<"y">>)>>,
         <<Node("y", "CastPP", <<"x">>), Node("r", "CheckCastPP", <<"y">>)>>}
Body(gb, off, x, fb, fv, e, r) ==
  Before \o <<AddP("g", gb, off, "oop")>> \o x \o <<AddP("f", fb, 1, "oop"), Node("w", "StoreP", <<"f", fv>>)>> \o e \o r

\* The array a is copied into b; f is an element of a, g of either.
Copies == {Before \o <<Node("x", "Proj", <<"c">>), AddP("g", gb, off, "oop"), AddP("f", "va", 1, "oop"),
                       Node("w", "StoreP", <<"f", fv>>), Call("ac", "ArrayCopy", <<"va", "vb">>, how)>> \o e
                  \o <<Node("y", "LoadP", <<l>>), Node("r", r, <<"y">>)>> :
             gb \in {"va", "vb"}, off \in {1, OffsetBot}, fv \in {"x", "vb"}, how \in {"validated", "none"},
             e \in {<<>>, <<Node("e", "StoreP", <<"g", "x">>)>>, <<Call("e", "CallDynamicJava", <<"vb">>, "none")>>},
             l \in {"f", "g"}, r \in {"Return", "CheckCastPP"}}

\* Initializing stores, objects known to the VM, unsafe and raw accesses, unknown values
Special ==
  {<<Node("p", u, <<>>), Node("k", "ConP", <<>>)>> \o New("b", "pb", "vb", how) \o New("a", "pa", "va", "plain")
     \o <<Static("c", <<>>, <<>>, "allocated"), f, Node("w", "StoreP", <<"f", fv>>), g, z>> \o x
     \o <<Node("y", "LoadP", <<l>>), Node("r", r, <<"y">>)>> :
     u \in {"CreateEx"}, how \in {"plain", "special"}, f \in {AddP("f", "pa", 1, "raw"), AddP("f", "va", 1, "oop")},
     fv \in {"vb", "p"}, g \in {AddP("g", "va", 1, "oop"), AddP("g", "va", 1, "unsafe"), AddP("g", "va", OffsetBot, "oop"), AddP("g", "p", OffsetBot, "oop")},
     z \in {Node("z", "StoreRaw", <<"g", "vb">>), Node("z", "StoreP", <<"g", "vb">>), Node("z", "UncommonTrap", <<>>)},
     x \in {<<Node("x", "CompareAndExchangeP", <<"g", "vb">>)>>, <<Node("x", "LoadP", <<"g">>)>>,
            <<Call("d", "CallDynamicJava", <<"va">>, "unknown"), Node("x", "Proj", <<"d">>)>>},
     l \in {"g"}, r \in {"Return"}}

Bodies == {Body(gb, 1, x, fb, "vb", e, r) : gb \in {"va", "p"}, x \in Xs, fb \in {"va", "x"}, e \in Effects, r \in Ends}

MCMethods == Bodies \cup Copies \cup Special
MCRanks == {Forward}

\* The elements of a, which are b, are copied into x, one of the constant arrays k and l.
CopyIntoMerge ==
  {Before \o <<Node("l", "ConP", <<>>), Node("x", "Phi", <<"k", "l">>), AddP("g", "vb", 1, "oop"),
                AddP("f", "va", 1, "oop"), Node("w", "StoreP", <<"f", "vb">>),
                Call("ac", "ArrayCopy", <<"va", "x">>, "validated"),
                Node("y", "LoadP", <<"f">>), Node("r", "CheckCastPP", <<"y">>)>>}
=============================================================================
