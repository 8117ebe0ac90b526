--------------------------- MODULE InitializeNode ---------------------------
(***************************************************************************)
(* The initialization of a new object: stores that follow an allocation    *)
(* are captured by its InitializeNode as raw stores ordered by offset, and *)
(* when the allocation is expanded the constants among them are coalesced  *)
(* into tiles, the words no store covers are cleared and the stores are    *)
(* linearized (memnode.cpp).  Loads that reach the initialization are      *)
(* answered from it meanwhile.                                             *)
(*                                                                         *)
(* Memory is a function from byte offsets.  A byte is 0, a constant, a     *)
(* number above 100 that stands for a byte of an unknown value, or Junk.   *)
(***************************************************************************)
EXTENDS Integers, Sequences, FiniteSets, SequencesExt, FiniteSetsExt

CONSTANTS TrackedLimit,      \* TrackedInitializationLimit * HeapWordSize
          ArrayShortSize,    \* InitArrayShortSize
          ComplexityLimit    \* of the values whose inputs are searched

VARIABLES obj,       \* the object: sizes, flags, the value graph
          prog,      \* the operations on it, in program order
          ins,       \* inputs of the InitializeNode from RawStores on
          chains,    \* per alias class: operations that still follow the node
          seen,      \* what the loads that folded were replaced by
          complete,  \* _is_complete
          stage,
          jx,        \* the loops' index
          co,        \* locals of coalesce_subword_stores
          zs,        \* locals of complete_stores
          line,      \* the linearized stores
          cleared    \* bytes the expansion clears before them
inVars == <<obj, prog, ins, chains, seen, complete, stage, jx, co, zs, line, cleared>>

BytesPerInt == 4
BytesPerLong == 8
MaxStore == 8
Junk == -1
HeaderByte == -2
Zmem == [kind |-> "zmem"]
NoNode == [kind |-> "null"]
AlignDown(n, u) == n - (n % u)
AlignUp(n, u) == AlignDown(n + u - 1, u)
Span(off, size) == off .. (off + size - 1)

\* Memory m after a store
Stored(m, st) == [b \in DOMAIN m |-> IF b \in Span(st.off, st.size) THEN st.bytes[b - st.off + 1] ELSE m[b]]
Writes(op) == op.kind \in {"store", "copy"}
InSlice(op, s) == op.kind \in {"call", "copy"} \/ op.slice = s
SlicesOf(p) == {p[k].slice : k \in DOMAIN p}

INInit(o, p) ==
  /\ obj = o /\ prog = p
  /\ ins = <<>>
  /\ chains = [s \in SlicesOf(p) |-> SelectSeq([k \in DOMAIN p |-> k], LAMBDA k : InSlice(p[k], s))]
  /\ seen = [k \in {} |-> <<>>]
  /\ complete = FALSE
  /\ stage = "capture"
  /\ jx = 0
  /\ co = [tiles |-> <<>>, nodes |-> <<>>, inits |-> {}, changed |-> 0]
  /\ zs = [done |-> 0, zeroing |-> FALSE, gaps |-> 0]
  /\ line = <<>> /\ cleared = {}

-----------------------------------------------------------------------------
\* A value's inputs, found breadth first up to the limit: it must not need the
\* initialization, nor be available only under a later control.
InputsOf(v) ==
  LET reach[n \in 0..ComplexityLimit] ==
        IF n = 0 THEN {v} ELSE reach[n - 1] \cup UNION {obj.inputs[x] : x \in reach[n - 1] \cap DOMAIN obj.inputs}
  IN reach[ComplexityLimit]
DetectInitIndependence(v) ==
  /\ InputsOf(v) \cap {"init", "later"} = {}
  /\ Cardinality(InputsOf(v)) <= ComplexityLimit

\* The operations before the k-th one in its memory chain
Before(s, k) == {j \in ToSet(chains[s]) : j < k}
\* The store follows the initialization directly, in memory and in control, and no
\* use of the memory between them may read what it writes.
CanCaptureStore(k) ==
  LET st == prog[k] IN
  /\ \A j \in Before(st.slice, k) : prog[j].kind = "loadOther"
  /\ st.off % st.size = 0
  /\ DetectInitIndependence(st.val)

\* Where in seq the range is or belongs: the index, minus the index, or 0 for FAIL
InsertionPoint(seq, start, size) ==
  LET Stops(i) == /\ seq[i] # Zmem
                  /\ \/ seq[i].off >= start
                     \/ size # 0 /\ start < seq[i].off + MaxStore /\ start < seq[i].off + seq[i].size
      stops == {i \in DOMAIN seq : Stops(i)}
      first == IF stops = {} THEN Len(seq) + 1 ELSE Min(stops)
  IN IF complete \/ start < obj.minHeader \/ start >= TrackedLimit THEN 0
     ELSE IF stops = {} THEN -first
     ELSE IF seq[first].off > start THEN (IF seq[first].off < start + size THEN 0 ELSE -first)
     ELSE IF seq[first].off < start THEN 0
     ELSE IF size # 0 /\ seq[first].size # size THEN 0 ELSE first

\* An edge that was folded away before the place is used again.
Placed(seq, p, st) == IF p > 1 /\ seq[p - 1] = Zmem THEN ReplaceAt(seq, p - 1, st) ELSE InsertAt(seq, p, st)

\* The raw copy swallows an earlier store to the same place, and disappears if it
\* stores zero into the new object.
CaptureStore(s, k) ==
  /\ stage = "capture" /\ obj.reduce
  /\ k \in ToSet(chains[s]) /\ prog[k].kind = "store"
  /\ CanCaptureStore(k)
  /\ LET st  == prog[k]
         i   == InsertionPoint(ins, st.off, st.size)
         new == IF st.zero THEN Zmem ELSE st
     IN /\ i # 0
        /\ ins' = IF i > 0 THEN ReplaceAt(ins, i, new) ELSE Placed(ins, -i, new)
        /\ chains' = [chains EXCEPT ![s] = SelectSeq(@, LAMBDA j : j # k)]
  /\ UNCHANGED <<obj, prog, seen, complete, stage, jx, co, zs, line, cleared>>

\* The captured store of the range, zero memory if nothing is stored there, or nothing
FindCapturedStore(off, size) ==
  LET i == InsertionPoint(ins, off, size)
  IN IF i = 0 THEN NoNode ELSE IF i < 0 THEN Zmem ELSE ins[i]

\* A load steps over the stores to other offsets up to one to its own or to the
\* initialization, and takes its value there if the kind of access is the same.
Independent(ld, st) ==
  st.off # ld.off /\ (st.off >= ld.off + ld.size \/ st.off <= ld.off - MaxStore \/ st.off <= ld.off - st.size)
FoldLoad(s, k) ==
  /\ stage = "capture"
  /\ k \in ToSet(chains[s]) /\ prog[k].kind = "load"
  /\ LET ld    == prog[k]
         Stops(j) == prog[j].kind \in {"call", "copy"} \/ (prog[j].kind = "store" /\ ~Independent(ld, prog[j]))
         stops == {j \in Before(s, k) : Stops(j)}
         from  == IF stops = {} THEN FindCapturedStore(ld.off, ld.size) ELSE prog[Max(stops)]
     IN /\ \/ from = Zmem /\ seen' = (k :> [b \in 1..ld.size |-> 0]) @@ seen
           \/ /\ from.kind = "store" /\ from.off = ld.off /\ from.op = ld.op
              /\ seen' = (k :> from.bytes) @@ seen
        /\ chains' = [chains EXCEPT ![s] = SelectSeq(@, LAMBDA j : j # k)]
  /\ UNCHANGED <<obj, prog, ins, complete, stage, jx, co, zs, line, cleared>>

RemoveExtraZeroes(seq) == SelectSeq(seq, LAMBDA x : x # Zmem)

\* A copy that fills the whole object directly after the allocation makes the zeroing
\* unnecessary, unless stores have been captured.
MaybeSetComplete ==
  /\ stage = "capture" /\ ~complete
  /\ \E k \in DOMAIN prog : prog[k].kind = "copy" /\ \A s \in DOMAIN chains : Head(chains[s]) = k
  /\ ins' = RemoveExtraZeroes(ins)
  /\ complete' = (ins' = <<>>)
  /\ UNCHANGED <<obj, prog, chains, seen, stage, jx, co, zs, line, cleared>>

-----------------------------------------------------------------------------
\* The allocation is expanded: what is known of the size bounds the tiles.
SizeLimit == AlignUp(Min({IF obj.known THEN obj.size ELSE TrackedLimit, TrackedLimit}), BytesPerLong)
Tiles == 0 .. (SizeLimit \div BytesPerLong - 1)

CompleteStores ==
  /\ stage = "capture"
  /\ ins' = RemoveExtraZeroes(ins)
  /\ co' = [tiles |-> [b \in 0..(SizeLimit - 1) |-> 0], nodes |-> [j \in Tiles |-> NoNode],
            inits |-> {}, changed |-> 0]
  /\ zs' = [done |-> obj.header, zeroing |-> ~obj.zeroTLAB /\ (obj.reduce \/ obj.bulk), gaps |-> 0]
  /\ stage' = IF complete THEN "done" ELSE IF obj.reduce \/ obj.bulk THEN "tiles" ELSE "zeroes"
  /\ jx' = 1
  /\ UNCHANGED <<obj, prog, chains, seen, complete, line, cleared>>

Half(t, off) == [i \in 0..(BytesPerInt - 1) |-> t[off + i]]
NoBits == [i \in 0..(BytesPerInt - 1) |-> 0]
\* external: Matcher::isSimpleConstant64 of the tile at off
IsSimpleConstant64(t, off) ==
  \/ obj.simple64 = "always"
  \/ obj.simple64 = "int" /\ Half(t, off + BytesPerInt) = NoBits
WithZeros(t, off, size) == [b \in DOMAIN t |-> IF b \in Span(off, size) THEN 0 ELSE t[b]]
Primitive(st) == st.con \in {"int", "long", "float", "double"}

\* Pass A: a constant store moves into its tile, unless it is best as it is; then the
\* one before it in the tile may be taken back too.
CoalesceStore ==
  /\ stage = "tiles" /\ jx <= Len(ins)
  /\ LET st   == ins[jx]
         j    == st.off \div BytesPerLong
         base == j * BytesPerLong
         t    == Stored(co.tiles, st)
         touched == co.inits \cup Span(st.off, st.size)
         upper == st.con = "int" /\ st.size = BytesPerInt /\ st.off % BytesPerLong = BytesPerInt
         prev == co.nodes[j]
         t0   == WithZeros(t, base + BytesPerInt, BytesPerInt)
         back == Half(t0, base) # NoBits /\ prev # NoNode /\ prev.op = "StoreI"
     IN IF st.off + st.size > SizeLimit THEN jx' = Len(ins) + 1 /\ UNCHANGED <<ins, co>>
        ELSE /\ jx' = jx + 1
             /\ IF ~Primitive(st) \/ (st.con = "long" /\ st.op = "StoreL" /\ IsSimpleConstant64(t, base))
                THEN co' = [co EXCEPT !.inits = touched] /\ UNCHANGED ins
                ELSE IF upper /\ ~IsSimpleConstant64(t, base) /\ st.op = "StoreI"
                THEN /\ ins' = IF back THEN ReplaceAt(ins, jx - 1, prev) ELSE ins
                     /\ co' = [co EXCEPT !.inits = touched,
                                 !.tiles = IF back THEN WithZeros(t0, base, BytesPerInt) ELSE t0,
                                 !.nodes[j] = IF back THEN NoNode ELSE prev,
                                 !.changed = IF back THEN @ - 1 ELSE @]
                ELSE /\ ins' = ReplaceAt(ins, jx, Zmem)
                     /\ co' = [co EXCEPT !.inits = touched, !.tiles = t, !.nodes[j] = st, !.changed = @ + 1]
  /\ UNCHANGED <<obj, prog, chains, seen, complete, stage, zs, line, cleared>>

EndCoalesce ==
  /\ stage = "tiles" /\ jx = Len(ins) + 1
  /\ IF co.changed = 0 THEN stage' = "zeroes" /\ jx' = 1 ELSE stage' = "stores" /\ jx' = 0
  /\ UNCHANGED <<obj, prog, ins, chains, seen, complete, co, zs, line, cleared>>

\* Pass B: a tile is one store, or two where a half is no constant's or the header's;
\* each goes before the other stores that overlap it.
TileStore(op, off, size) ==
  [kind |-> "store", op |-> op, off |-> off, size |-> size, slice |-> "raw", val |-> "con",
   bytes |-> [i \in 1..size |-> co.tiles[off + i - 1]], con |-> IF size = BytesPerLong THEN "long" ELSE "int",
   zero |-> FALSE]
InsertTileAfter(seq, st) ==
  LET i == InsertionPoint(seq, st.off, 0) IN InsertAt(seq, IF i < 0 THEN -i ELSE i + 1, st)
InsertTile(seq, st) ==
  LET i == InsertionPoint(seq, st.off, 0) IN Placed(seq, IF i < 0 THEN -i ELSE i, st)
SplitTile(off) ==
  \/ ~IsSimpleConstant64(co.tiles, off)
  \/ off < obj.header
  \/ Half(co.tiles, off) = NoBits /\ Span(off, BytesPerInt) \subseteq co.inits
  \/ Half(co.tiles, off + BytesPerInt) = NoBits /\ Span(off + BytesPerInt, BytesPerInt) \subseteq co.inits
StoreTile ==
  /\ stage = "stores" /\ jx \in Tiles
  /\ LET lo == jx * BytesPerLong
         hi == lo + BytesPerInt
         upper == IF Half(co.tiles, hi) = NoBits THEN ins ELSE InsertTile(ins, TileStore("StoreI", hi, BytesPerInt))
     IN ins' = IF Half(co.tiles, lo) = NoBits /\ Half(co.tiles, hi) = NoBits THEN ins
               ELSE IF ~SplitTile(lo) THEN InsertTile(ins, TileStore("StoreL", lo, BytesPerLong))
               ELSE IF Half(co.tiles, lo) = NoBits THEN upper
               ELSE InsertTile(upper, TileStore("StoreI", lo, BytesPerInt))
  /\ jx' = jx + 1
  /\ UNCHANGED <<obj, prog, chains, seen, complete, stage, co, zs, line, cleared>>

EndTiles ==
  /\ stage = "stores" /\ jx \notin Tiles
  /\ ins' = RemoveExtraZeroes(ins)
  /\ stage' = "zeroes" /\ jx' = 1
  /\ UNCHANGED <<obj, prog, chains, seen, complete, co, zs, line, cleared>>

-----------------------------------------------------------------------------
\* The first word from in(start) on that the stores cover completely, or -1
FindNextFullwordStore(start) ==
  LET Step(a, st) ==
        LET word == AlignDown(st.off, BytesPerInt)
            map  == (IF word = a.word THEN a.map ELSE {}) \cup Span(st.off - word, st.size)
            next == AlignDown(st.off + st.size, BytesPerInt)
        IN IF a.found >= 0 THEN a
           ELSE IF st.size >= BytesPerInt /\ st.off % BytesPerInt = 0 THEN [a EXCEPT !.found = st.off]
           ELSE IF Span(0, BytesPerInt) \subseteq map THEN [a EXCEPT !.found = word]
           ELSE IF next = word + BytesPerInt
                THEN [a EXCEPT !.word = next, !.map = {b - BytesPerInt : b \in {c \in map : c >= BytesPerInt}}]
           ELSE IF next > word + BytesPerInt THEN [a EXCEPT !.found = word + BytesPerInt]
           ELSE [a EXCEPT !.word = word, !.map = map]
  IN FoldLeft(Step, [found |-> -1, word |-> 0, map |-> {}], SubSeq(ins, start, Len(ins))).found

\* Bytes clear_memory clears: an int at either end if need be, and whole longs
ClearLongs(start, end) ==
  IF start = end THEN {} ELSE Span(start, BytesPerLong * (end \div BytesPerLong - start \div BytesPerLong))
ClearFrom(start, end) ==
  IF start % BytesPerLong = 0 THEN ClearLongs(start, end)
  ELSE Span(start, BytesPerInt) \cup ClearLongs(start + BytesPerInt, end)
ClearMemory(start, end) ==
  LET done == IF end % BytesPerLong = 0 THEN end ELSE end - BytesPerInt
  IN IF start = end THEN {}
     ELSE (IF done > start THEN ClearFrom(start, done) ELSE {}) \cup Span(done, end - done)

\* Zeroes before or under the next store: up to the store, or for part of a word up to
\* the next word that is stored completely.
ZeroesNeeded(st) ==
  LET full == FindNextFullwordStore(jx)
  IN IF st.size >= BytesPerInt THEN st.off
     ELSE IF full < 0 THEN AlignUp(st.off, BytesPerInt) ELSE full
LinearizeStore ==
  /\ stage = "zeroes" /\ jx <= Len(ins)
  /\ LET st   == ins[jx]
         end  == st.off + st.size
         need == IF zs.zeroing /\ zs.done < end THEN ZeroesNeeded(st) ELSE 0
         more == need > zs.done
         done == IF more THEN need ELSE zs.done
         gaps == IF more /\ need - zs.done > ArrayShortSize THEN zs.gaps + 1 ELSE zs.gaps
     IN /\ cleared' = IF more THEN cleared \cup ClearMemory(AlignDown(zs.done, BytesPerInt), need) ELSE cleared
        /\ zs' = [done |-> IF done = st.off THEN end ELSE done, gaps |-> gaps,
                  zeroing |-> zs.zeroing /\ ~(gaps > 2)]
        /\ line' = Append(line, st)
        /\ ins' = ReplaceAt(ins, jx, Zmem)
  /\ jx' = jx + 1
  /\ UNCHANGED <<obj, prog, chains, seen, complete, stage, co>>

\* What remains is cleared, except the unused tail of an instance.
EndComplete ==
  /\ stage = "zeroes" /\ jx > Len(ins)
  /\ LET from == AlignDown(zs.done, BytesPerInt)
         tail == obj.known /\ from + BytesPerLong >= obj.size /\ from = obj.layout
     IN cleared' = IF obj.zeroTLAB \/ tail \/ (obj.known /\ from >= obj.size) THEN cleared
                   ELSE cleared \cup ClearFrom(from, obj.size)
  /\ ins' = RemoveExtraZeroes(ins)
  /\ complete' = TRUE
  /\ stage' = "done"
  /\ UNCHANGED <<obj, prog, chains, seen, jx, co, zs, line>>

INNext ==
  \/ \E s \in DOMAIN chains, k \in DOMAIN prog : CaptureStore(s, k) \/ FoldLoad(s, k)
  \/ MaybeSetComplete \/ CompleteStores
  \/ CoalesceStore \/ EndCoalesce \/ StoreTile \/ EndTiles
  \/ LinearizeStore \/ EndComplete

-----------------------------------------------------------------------------
\* What the program means: the header, zeroes, and its stores in order
Fresh(body) == [b \in 0..(obj.size - 1) |-> IF b < obj.header THEN HeaderByte ELSE body]
Run(m, ops) == FoldLeft(LAMBDA a, st : IF Writes(st) THEN Stored(a, st) ELSE a, m, ops)
Meant(k) == Run(Fresh(0), SubSeq(prog, 1, k))
\* What the expanded code does: clear, the captured stores, the ones that were left.  A
\* value that needs the initialization cannot be computed before it.
Early(st) == IF DetectInitIndependence(st.val) THEN st ELSE [st EXCEPT !.bytes = [i \in 1..st.size |-> Junk]]
Remaining == SelectSeq([k \in DOMAIN prog |-> k], LAMBDA k : \E s \in DOMAIN chains : k \in ToSet(chains[s]))
Done ==
  LET raw == Fresh(IF obj.zeroTLAB THEN 0 ELSE Junk)
      zeroed == [b \in DOMAIN raw |-> IF b \in cleared THEN 0 ELSE raw[b]]
      inits == Run(zeroed, [i \in DOMAIN line |-> Early(line[i])])
  IN Run(inits, [i \in DOMAIN Remaining |-> prog[Remaining[i]]])

\* However its stores were captured, coalesced and ordered and wherever its zeroing was
\* left out, the new object ends up as the program wrote it over zeroes, its header
\* untouched; and every load that was answered from the initialization got the value
\* of its place in the program (InitializeNode::complete_stores).
InitializedAsWritten ==
  /\ stage = "done" => Done = Meant(Len(prog))
  /\ \A k \in DOMAIN seen : \A i \in 1..prog[k].size : seen[k][i] = Meant(k - 1)[prog[k].off + i - 1]
=============================================================================
