----------------------------- MODULE BlockLayout -----------------------------
(***************************************************************************)
(* The order of the basic blocks and the branches at their ends            *)
(* (opto/block.cpp): PhaseCFG::remove_empty_blocks, the frequency based    *)
(* PhaseBlockLayout with its traces, and PhaseCFG::fixup_flow, which       *)
(* removes jumps to the next block, flips branches and inserts gotos.      *)
(*                                                                         *)
(* A block is [code, end, succs, t, neg, edge, uncommon, connector]. Its   *)
(* end is goto, if, noflip (a null check or a Catch), trap (a trap based   *)
(* check), never, ret, or none once its goto is removed. succs[t] is where *)
(* a two-way branch goes on true, or when it traps; after fixup_flow it    *)
(* jumps to succs[1] if the outcome differs from neg and falls into the    *)
(* next block otherwise. Block 1 stands for the root and start blocks.     *)
(***************************************************************************)
EXTENDS Integers, Sequences, SequencesExt, FiniteSets, TLC

VARIABLES
  bl_cfg,      \* block -> its record
  bl_list,     \* _blocks
  bl_pc, bl_i, bl_last,
  freq_layout, \* do_freq_based_layout
  traces,      \* the traces, sequences of blocks
  edges,       \* <<[from, to, freq, state]>>
  bl_orig      \* auxiliary: the graph at the beginning

blVars == <<bl_cfg, bl_list, bl_pc, bl_i, bl_last, freq_layout, traces, edges, bl_orig>>

BLInit(g, order, freq) ==
  /\ bl_cfg = g /\ bl_list = order /\ bl_orig = g /\ freq_layout = freq
  /\ bl_pc = "uncommon" /\ bl_i = 2 /\ bl_last = Len(order) + 1
  /\ traces = {} /\ edges = <<>>

\* num_preds counts input 0 of the block's head too, which is not a predecessor.
NumPreds(g, b) == 1 + Cardinality({p \in DOMAIN g : b \in ToSet(g[p].succs)})
PosOf(list, b) == CHOOSE i \in DOMAIN list : list[i] = b

\* Faulty variant: blocks that only compute the address of a stack object are empty.
IsEmptyBox(g, b) ==
  b # 1 /\ (NumPreds(g, b) <= 1 \/ (g[b].code \in {"none", "box"} /\ g[b].end \in {"goto", "none"}))
\* is_Empty: not the start, and unreachable or without instructions; a BoxLock is one.
IsEmpty(g, b) ==
  b # 1 /\ (NumPreds(g, b) <= 1 \/ (g[b].code = "none" /\ g[b].end \in {"goto", "none"}))

\* non_connector_successor
NonConnector(g, b, j) ==
  LET skip[n \in 0..Cardinality(DOMAIN g)] ==
        IF n = 0 THEN g[b].succs[j]
        ELSE IF g[skip[n - 1]].connector THEN g[skip[n - 1]].succs[1] ELSE skip[n - 1]
  IN  skip[Cardinality(DOMAIN g)]
\* is_uncommon: way-low frequency, code that says so, or every predecessor that is
\* frequent goes here only one time out of GuardFactor (9500 in the code)
GuardFactor == 8
FreqOf(g, b) ==
  LET into == {e \in (DOMAIN g) \X {1, 2} : e[2] \in DOMAIN g[e[1]].succs /\ g[e[1]].succs[e[2]] = b}
  IN  IF b = 1 THEN FoldSeq(+, 0, g[b].edge) ELSE FoldFunction(+, 0, [e \in into |-> g[e[1]].edge[e[2]]])
IsUncommon(g, b) ==
  LET preds == {p \in DOMAIN g : b \in ToSet(g[p].succs)} IN
  /\ b # 1
  /\ \/ FreqOf(g, b) = 0 \/ g[b].uncommon
     \/ preds # {} /\ \A p \in preds : FreqOf(g, p) > 0 => GuardFactor * FreqOf(g, b) < FreqOf(g, p)
NoFlip(b) == bl_cfg[b].end \in {"noflip", "trap"}

\* move_to_end: an empty block loses its goto and becomes a connector.
Ended(g, b) ==
  IF ~IsEmpty(g, b) THEN g
  ELSE [g EXCEPT ![b].connector = TRUE, ![b].end = IF @ = "goto" THEN "none" ELSE @]
MovedToEnd(list, i) == Append(RemoveAt(list, i), list[i])

\* convert_NeverBranch_to_Goto: the other way out loses this predecessor.
NeverBranchToGoto(g, b) ==
  IF g[b].end # "never" THEN g
  ELSE [g EXCEPT ![b].end = "goto", ![b].succs = <<g[b].succs[3 - g[b].t]>>]

-----------------------------------------------------------------------------
\* The first loop of remove_empty_blocks on one block: infinite loops, and without
\* frequencies uncommon blocks go to the end with the block that follows a branch
\* that cannot be flipped.
MoveUncommon ==
  LET b  == bl_list[bl_i]
      g  == NeverBranchToGoto(bl_cfg, b)
      g1 == Ended(g, b)
      l1 == MovedToEnd(bl_list, bl_i)
      n  == l1[bl_i]
  IN  /\ bl_pc = "uncommon" /\ bl_i < bl_last /\ ~bl_cfg[b].connector
      /\ IF ~freq_layout /\ IsUncommon(g, b)
           THEN IF NoFlip(b)
                  THEN /\ bl_cfg' = Ended(g1, n) /\ bl_list' = MovedToEnd(l1, bl_i)
                       /\ bl_last' = bl_last - 2 /\ UNCHANGED bl_i
                  ELSE bl_cfg' = g1 /\ bl_list' = l1 /\ bl_last' = bl_last - 1 /\ UNCHANGED bl_i
           ELSE bl_cfg' = g /\ bl_i' = bl_i + 1 /\ UNCHANGED <<bl_list, bl_last>>
      /\ UNCHANGED <<bl_pc, freq_layout, traces, edges, bl_orig>>

EndUncommon ==
  /\ bl_pc = "uncommon" /\ (bl_i < bl_last => bl_cfg[bl_list[bl_i]].connector)
  /\ bl_pc' = "empty" /\ bl_i' = 2 /\ bl_last' = Len(bl_list) + 1
  /\ UNCHANGED <<bl_cfg, bl_list, freq_layout, traces, edges, bl_orig>>

\* The second loop: empty blocks go to the end.
MoveEmpty ==
  LET b == bl_list[bl_i] IN
  /\ bl_pc = "empty" /\ bl_i < bl_last
  /\ IF IsEmpty(bl_cfg, b)
       THEN /\ bl_cfg' = Ended(bl_cfg, b) /\ bl_list' = MovedToEnd(bl_list, bl_i)
            /\ bl_last' = bl_last - 1 /\ UNCHANGED bl_i
       ELSE bl_i' = bl_i + 1 /\ UNCHANGED <<bl_cfg, bl_list, bl_last>>
  /\ UNCHANGED <<bl_pc, freq_layout, traces, edges, bl_orig>>

EndEmpty ==
  /\ bl_pc = "empty" /\ bl_i >= bl_last
  /\ bl_pc' = IF freq_layout THEN "edges" ELSE "fixup"
  /\ bl_i' = 1 /\ UNCHANGED <<bl_cfg, bl_list, bl_last, freq_layout, traces, edges, bl_orig>>

-----------------------------------------------------------------------------
\* num_fall_throughs and succ_fall_through: a goto, both ways of an if, and one way
\* of the branches that cannot be flipped
FallsThrough(b, j) ==
  \/ bl_cfg[b].end \in {"goto", "if"}
  \/ bl_cfg[b].end \in {"noflip", "trap"} /\ j # bl_cfg[b].t
NumFallThroughs(b) == Cardinality({j \in DOMAIN bl_cfg[b].succs : FallsThrough(b, j)})

\* A block is appended to the one before it if its num_preds is one.
OneToOne(b) ==
  /\ NumFallThroughs(b) = 1 /\ FallsThrough(b, 1)
  /\ NumPreds(bl_cfg, bl_cfg[b].succs[1]) = 1

EdgesOf(b) ==
  LET js == SelectSeq(<<1, 2>>, LAMBDA j : j \in DOMAIN bl_cfg[b].succs /\ FallsThrough(b, j))
  IN  [k \in DOMAIN js |-> [from |-> b, to |-> NonConnector(bl_cfg, b, js[k]),
                            freq |-> bl_cfg[b].edge[js[k]], state |-> "open"]]

\* find_edges: traces of blocks that only follow each other, one trace of all
\* connectors, and an edge for each way a trace can fall through
FindEdges ==
  LET plain == SelectSeq(bl_list, LAMBDA b : ~bl_cfg[b].connector)
      conns == SelectSeq(bl_list, LAMBDA b : bl_cfg[b].connector)
      starts == {i \in DOMAIN plain : i = 1 \/ ~(OneToOne(plain[i - 1])
                                     /\ bl_cfg[plain[i - 1]].succs[1] = plain[i])}
      end(i) == CHOOSE k \in i..Len(plain) :
                  /\ k = Len(plain) \/ k + 1 \in starts
                  /\ \A q \in (i + 1)..k : q \notin starts
      tails == SelectSeq(plain, LAMBDA b : \E i \in starts : plain[end(i)] = b)
  IN  /\ bl_pc = "edges" /\ bl_pc' = "grow" /\ bl_i' = 1
      /\ traces' = {SubSeq(plain, i, end(i)) : i \in starts} \cup ({conns} \ {<<>>})
      /\ edges' = SortSeq(FlattenSeq([k \in DOMAIN tails |-> EdgesOf(tails[k])]),
                    LAMBDA e, f : e.freq > f.freq \/ (e.freq = f.freq /\ e.to - e.from > f.to - f.from))
      /\ UNCHANGED <<bl_cfg, bl_list, bl_last, freq_layout, bl_orig>>

TraceOf(b) == CHOOSE tr \in traces : b \in ToSet(tr)
Replace(old, new) == (traces \ old) \cup {new}

\* backedge: a loop that is a whole trace and ends in a goto is rotated to end in
\* its last conditional branch.
Rotated(tr) ==
  LET twos == {i \in DOMAIN tr : NumFallThroughs(tr[i]) = 2}
      k == CHOOSE i \in twos : \A q \in twos : q <= i
  IN  IF NumFallThroughs(Last(tr)) >= 2 \/ twos = {} THEN tr
      ELSE SubSeq(tr, k + 1, Len(tr)) \o SubSeq(tr, 1, k)

\* grow_traces on one edge; after a rotation the edges are looked at again.
GrowTraces ==
  LET e == edges[bl_i]
      s == TraceOf(e.from)
      d == TraceOf(e.to)
  IN  /\ bl_pc = "grow" /\ bl_i <= Len(edges)
      /\ IF e.state # "open" \/ Last(s) # e.from \/ (s # d /\ Head(d) # e.to)
           THEN bl_i' = bl_i + 1 /\ UNCHANGED <<edges, traces>>
         ELSE IF s = d
           THEN /\ edges' = [edges EXCEPT ![bl_i].state = "interior"]
                /\ traces' = IF Head(d) = e.to THEN Replace({s}, Rotated(s)) ELSE traces
                /\ bl_i' = IF traces' # traces THEN 2 ELSE bl_i + 1
         ELSE /\ edges' = [edges EXCEPT ![bl_i].state = "connected"]
              /\ traces' = Replace({s, d}, s \o d) /\ bl_i' = bl_i + 1
      /\ UNCHANGED <<bl_cfg, bl_list, bl_pc, bl_last, freq_layout, bl_orig>>

\* infrequent: less than a fifth of the source or of the target
Infrequent(e) == 5 * e.freq < FoldSeq(LAMBDA x, y : x + y, 0, bl_cfg[e.from].edge)
EntryTrace == TraceOf(1)

\* merge_traces on one edge, first at fall-throughs only, then anywhere
MergeTraces ==
  LET e == edges[bl_i]
      s == TraceOf(e.from)
      d == TraceOf(e.to)
      tail  == Last(s) = e.from
      start == Head(d) = e.to
      k     == IF start THEN PosOf(s, e.from) ELSE PosOf(d, e.to)
      merged ==
        IF bl_pc = "merge"
          THEN IF Infrequent(e) \/ tail = start THEN {}
               ELSE IF start THEN {SubSeq(s, 1, k) \o d \o SubSeq(s, k + 1, Len(s))}
               ELSE IF s = EntryTrace THEN {}
               ELSE {SubSeq(d, 1, k - 1) \o s \o SubSeq(d, k, Len(d))}
          ELSE IF d = EntryTrace THEN {} ELSE {s \o d}
  IN  /\ bl_pc \in {"merge", "append"} /\ bl_i <= Len(edges) /\ bl_i' = bl_i + 1
      /\ IF e.state # "open" \/ (bl_pc = "merge" /\ Infrequent(e)) THEN UNCHANGED <<edges, traces>>
         ELSE IF s = d THEN edges' = [edges EXCEPT ![bl_i].state = "interior"] /\ UNCHANGED traces
         ELSE IF merged = {} THEN UNCHANGED <<edges, traces>>
         ELSE /\ edges' = [edges EXCEPT ![bl_i].state = "connected"]
              /\ traces' = (traces \ {s, d}) \cup merged
      /\ UNCHANGED <<bl_cfg, bl_list, bl_pc, bl_last, freq_layout, bl_orig>>

NextPass ==
  /\ bl_pc \in {"grow", "merge", "append"} /\ bl_i > Len(edges)
  /\ bl_pc' = CASE bl_pc = "grow" -> "merge" [] bl_pc = "merge" -> "append" [] OTHER -> "reorder"
  /\ bl_i' = 1 /\ UNCHANGED <<bl_cfg, bl_list, bl_last, freq_layout, traces, edges, bl_orig>>

\* fixup_blocks: a two-way branch falls into its second successor.
Flipped(g, b) ==
  [g EXCEPT ![b].succs = <<g[b].succs[2], g[b].succs[1]>>, ![b].t = 3 - g[b].t,
            ![b].edge = <<g[b].edge[2], g[b].edge[1]>>]
FixupBlocks(g, tr) ==
  LET step[i \in 0..Len(tr)] ==
        IF i = 0 THEN g
        ELSE IF /\ i < Len(tr) /\ ~g[tr[i]].connector /\ g[tr[i]].end = "if"
                /\ tr[i + 1] = NonConnector(g, tr[i], 1)
          THEN Flipped(step[i - 1], tr[i]) ELSE step[i - 1]
  IN  step[Len(tr)]

\* reorder_traces: the entry first, then by frequency, and connectors last
Weight(tr) == IF bl_cfg[Head(tr)].connector THEN -1 ELSE FoldSeq(LAMBDA x, y : x + y, 0, bl_cfg[Head(tr)].edge)
ReorderTraces ==
  LET rest == SortSeq(SetToSeq(traces \ {EntryTrace}),
                LAMBDA x, y : Weight(x) > Weight(y) \/ (Weight(x) = Weight(y) /\ Head(x) < Head(y)))
      all == <<EntryTrace>> \o rest
  IN  /\ bl_pc = "reorder" /\ bl_pc' = "fixup" /\ bl_i' = 1
      /\ bl_list' = FlattenSeq(all)
      /\ bl_cfg' = FoldSeq(LAMBDA tr, g : FixupBlocks(g, tr), bl_cfg, all)
      /\ UNCHANGED <<bl_last, freq_layout, traces, edges, bl_orig>>

-----------------------------------------------------------------------------
\* insert_goto_at: a new block after position i on the way to successor j
GotoBlock(to, f) == [code |-> "code", end |-> "goto", succs |-> <<to>>, t |-> 1, neg |-> FALSE,
                     edge |-> <<f>>, uncommon |-> FALSE, connector |-> FALSE]
InsertGoto(g, b, j) ==
  LET new == Cardinality(DOMAIN g) + 1 IN
  [[k \in 1..new |-> IF k = new THEN GotoBlock(g[b].succs[j], g[b].edge[j]) ELSE g[k]]
     EXCEPT ![b].succs[j] = new]

\* move_to_next: a successor that comes later moves here, unless the block before
\* it conditionally falls into it.
CanMove(b, i) ==
  LET p == PosOf(bl_list, b) IN
  p > i /\ LET before == bl_list[p - 1]
           IN  ~(b \in ToSet(bl_cfg[before].succs) /\ Len(bl_cfg[before].succs) # 1)
MovedToNext(b, i) == InsertAt(RemoveAt(bl_list, PosOf(bl_list, b)), i + 1, b)

\* Faulty variant: the branch is not negated when its successors are exchanged.
NegatedNever(g, b) == [g EXCEPT ![b].neg = FALSE]
\* The branch jumps on true to its first successor.
Negated(g, b) == [g EXCEPT ![b].neg = (g[b].t # 1)]

\* The end of a block as fixup_flow leaves it, when next follows: the successors of
\* an if are exchanged if the first one follows, and if none does a goto is needed.
\* A branch that cannot be flipped has to fall through, and a trap based check to
\* the way that is always taken.
FixedEnd(b, next) ==
  LET g == bl_cfg
      s(j) == NonConnector(g, b, j)
      to(h, j) == NonConnector(h, b, j)
      gtrap == IF g[b].t = 1 THEN g ELSE Flipped(g, b)
      gflip == IF s(1) = next THEN Flipped(g, b) ELSE g
  IN  CASE g[b].end = "goto" -> [cfg |-> IF s(1) = next THEN [g EXCEPT ![b].end = "none"] ELSE g, goto |-> FALSE]
        [] g[b].end = "if" -> [cfg |-> Negated(IF to(gflip, 2) = next THEN gflip ELSE InsertGoto(gflip, b, 2), b),
                               goto |-> to(gflip, 2) # next]
        [] g[b].end \in {"noflip", "trap"} ->
             [cfg |-> IF to(gtrap, 2) = next THEN gtrap ELSE InsertGoto(gtrap, b, 2), goto |-> to(gtrap, 2) # next]
        [] OTHER -> [cfg |-> g, goto |-> FALSE]

\* One block of fixup_flow. Without frequencies a successor may be moved here first,
\* the more common one if it can be.
FixupFlow ==
  LET b == bl_list[bl_i]
      e == bl_cfg[b].end
      none == Cardinality(DOMAIN bl_cfg) + 1
      next == IF bl_i < Len(bl_list) THEN bl_list[bl_i + 1] ELSE none
      s(j) == NonConnector(bl_cfg, b, j)
      fall == 3 - bl_cfg[b].t
      want == CASE e = "trap" /\ s(fall) # next -> <<s(fall)>>
                [] e = "if" /\ ~freq_layout /\ next \notin {s(1), s(2)} ->
                     IF bl_cfg[b].edge[2] > bl_cfg[b].edge[1] THEN <<s(2), s(1)>> ELSE <<s(1), s(2)>>
                [] OTHER -> <<>>
      movable == SelectSeq(want, LAMBDA x : CanMove(x, bl_i))
      l == IF movable = <<>> THEN bl_list ELSE MovedToNext(movable[1], bl_i)
      fixed == FixedEnd(b, IF bl_i < Len(l) THEN l[bl_i + 1] ELSE none)
  IN  /\ bl_pc = "fixup" /\ bl_i <= Len(bl_list) /\ bl_i' = bl_i + 1
      /\ IF bl_cfg[b].connector THEN UNCHANGED <<bl_cfg, bl_list>>
         ELSE /\ bl_cfg' = fixed.cfg
              /\ bl_list' = IF fixed.goto THEN InsertAt(l, bl_i + 1, Cardinality(DOMAIN fixed.cfg)) ELSE l
      /\ UNCHANGED <<bl_pc, bl_last, freq_layout, traces, edges, bl_orig>>

EndFixup ==
  /\ bl_pc = "fixup" /\ bl_i > Len(bl_list) /\ bl_pc' = "done"
  /\ UNCHANGED <<bl_cfg, bl_list, bl_i, bl_last, freq_layout, traces, edges, bl_orig>>

BLNext ==
  \/ MoveUncommon \/ EndUncommon \/ MoveEmpty \/ EndEmpty \/ FindEdges \/ GrowTraces
  \/ MergeTraces \/ NextPass \/ ReorderTraces \/ FixupFlow \/ EndFixup

-----------------------------------------------------------------------------
\* Where the program goes from a block, past blocks without instructions
OrigNext(b, taken) ==
  LET g == bl_orig
      to(c) == IF Len(g[c].succs) = 1 THEN g[c].succs[1]
               ELSE IF taken /\ g[c].end # "never" THEN g[c].succs[g[c].t] ELSE g[c].succs[3 - g[c].t]
      skip[n \in 0..Cardinality(DOMAIN g)] ==
        IF n = 0 THEN to(b)
        ELSE IF g[skip[n - 1]].code = "none" /\ g[skip[n - 1]].end \in {"goto", "never"}
          THEN to(skip[n - 1]) ELSE skip[n - 1]
  IN  skip[Cardinality(DOMAIN g)]
\* And where the laid out code goes: a jump, or the next block; a block that was
\* added is only a goto.
CodeNext(b, taken) ==
  LET i == PosOf(bl_list, b)
      r == bl_cfg[b]
      one == IF r.end = "goto" \/ (Len(r.succs) = 2 /\ taken # r.neg) THEN NonConnector(bl_cfg, b, 1)
             ELSE IF i < Len(bl_list) THEN bl_list[i + 1] ELSE 0
  IN  IF one = 0 \/ one \in DOMAIN bl_orig THEN one
      ELSE IF bl_cfg[one].end = "goto" THEN NonConnector(bl_cfg, one, 1) ELSE bl_list[PosOf(bl_list, one) + 1]

\* The code executes the blocks of the program in the order the program does,
\* whatever the branches do, although blocks were dropped, moved, chained to traces
\* and rotated, and branches were negated or followed by gotos.
LayoutKeepsFlow ==
  bl_pc = "done" =>
    \A b \in DOMAIN bl_orig : \A taken \in BOOLEAN :
      (~bl_cfg[b].connector /\ bl_orig[b].succs # <<>>) => CodeNext(b, taken) = OrigNext(b, taken)
=============================================================================
