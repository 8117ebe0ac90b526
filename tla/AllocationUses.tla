--------------------------- MODULE AllocationUses ---------------------------
(***************************************************************************)
(* The two searches over the ideal graph that decide whether the uses of   *)
(* an allocation allow it to live in the frame (opto/escape.cpp):          *)
(*   allocation_lifetime_overlap  does a loop phi of the allocation reach  *)
(*                                itself, so that two instances of the     *)
(*                                object are alive at a time?              *)
(*   oop_may_be_compressed        does the result reach an EncodeP?        *)
(* Their answers are the overlap and encoded fields of the connection      *)
(* graph in CompilationState.                                              *)
(*                                                                         *)
(* Both keep a worklist and a visited set. The code pops the last node     *)
(* pushed; here any node of the worklist may be next, which includes that. *)
(***************************************************************************)
EXTENDS Integers, FiniteSets

CONSTANTS Node,    \* ideal nodes
          Start,   \* the phi, or the result of the allocation
          Uses     \* ideal graphs around the allocation

(***************************************************************************)
(*   outs       the uses of a node                                         *)
(*   later      the uses of Start at raw_out(1), raw_out(2), ...: all but  *)
(*              raw_out(0), which may be among them again                  *)
(*   phis, encodes   the Phi nodes and the EncodeP nodes                   *)
(*   loop       in(0) of Start is a Loop                                   *)
(***************************************************************************)
UsesType ==
  [outs : [Node -> SUBSET Node], later : SUBSET Node,
   phis : SUBSET Node, encodes : SUBSET Node, loop : BOOLEAN]

ASSUME UsesAssumption ==
  /\ Start \in Node
  /\ \A u \in Uses :
       /\ u \in UsesType
       /\ u.later \subseteq u.outs[Start]
       /\ \A m, n \in u.outs[Start] \ u.later : m = n
       /\ u.phis \cap u.encodes = {}

VARIABLES
  ug,        \* the ideal graph; no step changes it
  search,    \* which of the two is running
  worklist, visited,
  answer     \* "none" while the search runs, then "yes" or "no"

auVars == <<ug, search, worklist, visited, answer>>

\* The early return for a phi that is not a loop's, and the first loop.
OverlapStart ==
  /\ search = "overlap" /\ Start \in ug.phis
  /\ answer = IF ug.loop THEN "none" ELSE "no"
  /\ worklist = ug.later /\ visited = {}

CompressedStart ==
  /\ search = "compressed" /\ answer = "none"
  /\ worklist = {Start} /\ visited = {Start}

AUInit ==
  /\ ug \in Uses
  /\ OverlapStart \/ CompressedStart

\* Faulty variant: the search stops at any phi.
OverlapVisitAnyPhi(n) ==
  /\ search = "overlap" /\ answer = "none" /\ n \in worklist
  /\ visited' = visited \cup {n}
  /\ IF n \in visited THEN worklist' = worklist \ {n} /\ UNCHANGED answer
     ELSE IF n \in ug.phis
       THEN answer' = "yes" /\ UNCHANGED worklist
       ELSE worklist' = ug.outs[n] \cup (worklist \ {n}) /\ UNCHANGED answer
  /\ UNCHANGED <<ug, search>>

\* One iteration of the loop of allocation_lifetime_overlap.
OverlapVisit(n) ==
  /\ search = "overlap" /\ answer = "none" /\ n \in worklist
  /\ visited' = visited \cup {n}
  /\ IF n \in visited THEN worklist' = worklist \ {n} /\ UNCHANGED answer
     ELSE IF n = Start
       THEN answer' = "yes" /\ UNCHANGED worklist
       ELSE worklist' = ug.outs[n] \cup (worklist \ {n}) /\ UNCHANGED answer
  /\ UNCHANGED <<ug, search>>

\* Faulty variant: the uses of the phis are not followed.
CompressedVisitOnce(n) ==
  /\ search = "compressed" /\ answer = "none" /\ n \in worklist
  /\ IF ug.outs[n] \cap ug.encodes # {}
       THEN answer' = "yes" /\ UNCHANGED <<worklist, visited>>
       ELSE /\ worklist' = worklist \ {n}
            /\ visited'  = visited \cup (ug.outs[n] \cap ug.phis)
            /\ UNCHANGED answer
  /\ UNCHANGED <<ug, search>>

\* One iteration of the loop of oop_may_be_compressed: only phis are followed.
CompressedVisit(n) ==
  /\ search = "compressed" /\ answer = "none" /\ n \in worklist
  /\ IF ug.outs[n] \cap ug.encodes # {}
       THEN answer' = "yes" /\ UNCHANGED <<worklist, visited>>
       ELSE LET new == (ug.outs[n] \cap ug.phis) \ visited IN
            /\ worklist' = new \cup (worklist \ {n})
            /\ visited'  = visited \cup new
            /\ UNCHANGED answer
  /\ UNCHANGED <<ug, search>>

Exhausted ==
  /\ answer = "none" /\ worklist = {}
  /\ answer' = "no"
  /\ UNCHANGED <<ug, search, worklist, visited>>

AUNext == \/ \E n \in Node : OverlapVisit(n) \/ CompressedVisit(n)
          \/ Exhausted

\* The compiler thread runs the search to its end.
AUSpec == AUInit /\ [][AUNext]_auVars /\ WF_auVars(AUNext)

-----------------------------------------------------------------------------
\* The least set that contains from and what its members lead to, defined by
\* the sets that are closed: n is reached if it is in all of them.
ClosedUnder(S, follow) == \A m \in S : ug.outs[m] \cap follow \subseteq S
Reached(n, from, follow) ==
  \A S \in SUBSET Node : from \subseteq S /\ ClosedUnder(S, follow) => n \in S

\* The search for an EncodeP answers yes exactly if the result, or a phi it
\* reaches through phis, is used by one (oop_may_be_compressed).
CompressedExact ==
  search = "compressed" /\ answer # "none" =>
    (answer = "yes" <=> \E m \in Node : /\ Reached(m, {Start}, ug.phis)
                                        /\ ug.outs[m] \cap ug.encodes # {})

\* What allocation_lifetime_overlap decides: some use of the loop phi other
\* than its first leads back to it.
OverlapFromLater ==
  search = "overlap" /\ ug.loop /\ answer # "none" =>
    (answer = "yes" <=> Reached(Start, ug.later, Node))

\* "We run exhaustive search on all uses of objects allocated in a loop. If any
\* of the uses lead back to the allocate node itself, we reject the allocation"
\* (Stack_Allocation_JEP.md): a loop phi that reaches itself through any use.
OverlapExhaustive ==
  search = "overlap" /\ ug.loop /\ answer = "no" =>
    ~Reached(Start, ug.outs[Start], Node)

\* Both searches end although the graph has cycles.
SearchEnds == <>(answer # "none")
=============================================================================
