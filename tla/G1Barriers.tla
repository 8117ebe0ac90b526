------------------------------ MODULE G1Barriers ------------------------------
(***************************************************************************)
(* The code that G1BarrierSetC2 generates around a reference store, as it  *)
(* runs: the SATB pre barrier, the store, and the post barrier with its    *)
(* filters, the check for stack objects, the StoreLoad barrier and the     *)
(* dirty card queue (g1BarrierSetC2.cpp). Mutators run on a machine with   *)
(* store buffers, beside a refinement thread and a concurrent marker that  *)
(* are modelled from what the barriers assume of them.                     *)
(*                                                                         *)
(* Addresses are numbers below Wrap, 0 is NULL. An object is the address   *)
(* of its first field.                                                     *)
(***************************************************************************)
EXTENDS Integers, Sequences, SequencesExt, FiniteSets

CONSTANTS
  Mutators,
  HeapStart, HeapEnd,      \* _whole_heap, the end excluded
  RegionWords, CardWords,
  Wrap,                    \* addresses are unsigned and wrap around
  FieldsOf,                \* object -> its fields; stack objects are outside the heap
  WeakFields,              \* fields of java.lang.ref.Reference the marker skips
  FreshObject,             \* the object that is allocated while the program runs
  QueueSize,               \* capacity of the thread local queues
  G1Starts                 \* the states of heap, cards and threads in which a run begins

VARIABLES
  heap,        \* location -> value, as memory has it
  card,        \* card -> clean, dirty, young, or foreign outside the table
  store_buf,   \* mutator -> stores not yet in memory
  mut,         \* mutator -> [pc, base, loc, val]
  regs,        \* mutator -> the objects it can use
  chain,       \* mutator -> the memory state the compiler sees: its last stores
  tight,       \* mutator -> allocated, and no branch or safepoint since
  satb, satb_done,   \* SATB queues and completed buffers
  dcq, dcq_done,     \* dirty card queues and completed buffers
  refining,    \* the card the refinement thread has cleaned, or -1
  remset,      \* region -> cards
  phase,       \* idle, marking or remarked; off if no marking will start
  marked, grey,
  snap,        \* auxiliary: the heap when marking began
  ops          \* mutator -> bound on the loads, stores and allocations left

g1Vars == <<heap, card, store_buf, mut, regs, chain, tight, satb, satb_done, dcq, dcq_done,
            refining, remset, phase, marked, grey, snap, ops>>
queueVars  == <<satb, satb_done, dcq, dcq_done>>
markVars   == <<phase, marked, grey, snap>>

Objs == DOMAIN FieldsOf
Region(a) == a \div RegionWords
CardOf(a) == a \div CardWords
InHeap(a) == a >= HeapStart /\ a < HeapEnd
HeapObjs  == {o \in Objs : InHeap(o)}
StackObjs == Objs \ HeapObjs
IdleMut   == [pc |-> "idle", base |-> 0, loc |-> 0, val |-> 0]

CardStates == {"clean", "dirty", "young", "foreign"}
Locations  == UNION {FieldsOf[o] : o \in Objs}

\* A reference in field l of o that the remembered sets are for
CrossRegion(memory, cards, o, l) ==
  /\ cards[CardOf(o)] # "young"
  /\ memory[l] \in HeapObjs /\ Region(memory[l]) # Region(o)

\* A run begins with the cards of the heap, and only those, in the table, with
\* every dirty card queued for refinement, with remembered sets that have all
\* references but those of dirty cards, and with the new object in eden, cleared and
\* not yet known to anyone. Marking is not under way.
IsG1Start(s) ==
  /\ DOMAIN s.heap = Locations /\ \A l \in Locations : s.heap[l] \in {0} \cup (HeapObjs \ {FreshObject})
  /\ \A l \in FieldsOf[FreshObject] : s.heap[l] = 0
  /\ s.regs \in [Mutators -> SUBSET (Objs \ {FreshObject})] /\ s.phase \in {"idle", "off"}
  /\ \A c \in DOMAIN s.card : s.card[c] \in CardStates /\ (s.card[c] = "foreign") = ~InHeap(c * CardWords)
  /\ \A o \in Objs : CardOf(o) \in DOMAIN s.card
  /\ s.card[CardOf(FreshObject)] = "young"
  /\ \A c \in DOMAIN s.card : s.card[c] = "dirty" => c \in s.pending
  /\ \A o \in HeapObjs : Region(o) \in DOMAIN s.remset
  /\ \A o \in HeapObjs : \A l \in FieldsOf[o] :
       CrossRegion(s.heap, s.card, o, l) => s.card[CardOf(o)] = "dirty" \/ CardOf(o) \in s.remset[Region(s.heap[l])]

\* The heap begins and ends with a card, and does not reach the end of the address
\* space. An object has an address, its fields are its own, and none begins right
\* behind the heap: a stack begins with its guard pages.
ASSUME G1Assumption ==
  /\ HeapStart \in Nat /\ HeapEnd \in Nat /\ Wrap \in Nat
  /\ HeapStart < HeapEnd /\ HeapEnd <= Wrap
  /\ CardWords \in Nat \ {0} /\ RegionWords \in Nat \ {0}
  /\ HeapStart % CardWords = 0 /\ HeapEnd % CardWords = 0
  /\ Objs \subseteq (1..(Wrap - 1)) \ {HeapEnd} /\ FreshObject \in HeapObjs
  /\ Locations \subseteq Nat
  /\ \A o, q \in Objs : o # q => FieldsOf[o] \cap FieldsOf[q] = {}
  /\ \A s \in G1Starts : IsG1Start(s)

G1Init(s) ==
  /\ heap = s.heap /\ card = s.card /\ remset = s.remset /\ regs = s.regs
  /\ store_buf = [m \in Mutators |-> <<>>] /\ mut = [m \in Mutators |-> IdleMut]
  /\ chain = [m \in Mutators |-> <<>>] /\ tight = [m \in Mutators |-> FALSE]
  /\ satb = [m \in Mutators |-> <<>>] /\ satb_done = {}
  /\ dcq = [m \in Mutators |-> <<>>] /\ dcq_done = s.pending
  /\ refining = -1 /\ phase = s.phase /\ marked = {} /\ grey = {}
  /\ snap = s.heap /\ ops = s.ops

\* A load sees the thread's own stores first.
Read(m, at, what, memory) ==
  LET own == {i \in DOMAIN store_buf[m] : store_buf[m][i].at = at /\ store_buf[m][i].what = what}
  IN  IF own = {} THEN memory[at]
      ELSE store_buf[m][CHOOSE i \in own : \A j \in own : j <= i].val
Field(m, l) == Read(m, l, "field", heap)
Card(m, c)  == Read(m, c, "card", card)

-----------------------------------------------------------------------------
\* A full queue is handed over and the entry goes into an empty one: index = 0 and
\* write_ref_field_pre_entry or write_ref_field_post_entry.
Enqueue(q, done, e) ==
  IF Len(q) < QueueSize THEN [q |-> Append(q, e), done |-> done]
  ELSE [q |-> <<e>>, done |-> done \cup ToSet(q)]

\* pre_barrier: the marking flag, the previous value, NULL, and the queue
PreBarrier(m, pre) ==
  IF phase = "marking" /\ pre # 0
    THEN /\ satb' = [satb EXCEPT ![m] = Enqueue(@, satb_done, pre).q]
         /\ satb_done' = Enqueue(satb[m], satb_done, pre).done
    ELSE UNCHANGED <<satb, satb_done>>

\* load_at_resolved: a referent that is read is logged as a previous value.
LoadField(m, l) ==
  /\ mut[m].pc = "idle" /\ ops[m] > 0 /\ ops' = [ops EXCEPT ![m] = @ - 1] /\ phase # "remarked"
  /\ \E o \in regs[m] : l \in FieldsOf[o]
  /\ regs' = [regs EXCEPT ![m] = @ \cup ({Field(m, l)} \ {0})]
  /\ IF l \in WeakFields THEN PreBarrier(m, Field(m, l)) ELSE UNCHANGED <<satb, satb_done>>
  /\ tight' = [tight EXCEPT ![m] = @ /\ l \notin WeakFields]
  /\ UNCHANGED <<heap, card, store_buf, mut, chain, dcq, dcq_done, refining, remset, markVars>>

\* The allocation, cleared and in eden. The marker takes new objects as live.
NewObject(m) ==
  /\ mut[m].pc = "idle" /\ ops[m] > 0 /\ ops' = [ops EXCEPT ![m] = @ - 1] /\ phase # "remarked"
  /\ \A k \in Mutators : chain[k] = <<>>
  /\ regs' = [regs EXCEPT ![m] = @ \cup {FreshObject}]
  /\ chain' = [chain EXCEPT ![m] = <<"init">>]
  /\ tight' = [tight EXCEPT ![m] = TRUE]
  /\ marked' = IF phase = "marking" THEN marked \cup {FreshObject} ELSE marked
  /\ UNCHANGED <<heap, card, store_buf, mut, queueVars, refining, remset, phase, grey, snap>>

\* Faulty variant: the base of the store is not compared with the allocation.
CanRemovePreBarrierAnyBase(m, o, l) ==
  chain[m] # <<>> /\ \A i \in 2..Len(chain[m]) : chain[m][i].off # l - o

\* g1_can_remove_pre_barrier: from the last store back to the allocation, past
\* stores at other offsets and to other objects, up to one of the same field
CanRemovePreBarrier(m, o, l) ==
  /\ o = FreshObject /\ chain[m] # <<>>
  /\ \A i \in 2..Len(chain[m]) : chain[m][i].off # l - o
\* g1_can_remove_post_barrier and just_allocated_object: the store's control is
\* the allocation.
CanRemovePostBarrier(m, o) == o = FreshObject /\ tight[m]

\* A store of v to field l of o begins. Nothing of the barrier is at a safepoint.
PreBarrierOfStore(m, o, l, v) ==
  /\ mut[m].pc = "idle" /\ ops[m] > 0 /\ ops' = [ops EXCEPT ![m] = @ - 1] /\ phase # "remarked"
  /\ o \in regs[m] /\ l \in FieldsOf[o] /\ v \in {0} \cup (regs[m] \cap HeapObjs)
  /\ mut' = [mut EXCEPT ![m] = [pc |-> "store", base |-> o, loc |-> l, val |-> v]]
  /\ IF CanRemovePreBarrier(m, o, l)
       THEN UNCHANGED <<satb, satb_done, tight>>
       ELSE PreBarrier(m, Field(m, l)) /\ tight' = [tight EXCEPT ![m] = FALSE]
  /\ UNCHANGED <<heap, card, store_buf, regs, chain, dcq, dcq_done, refining, remset, markVars>>

\* The unsigned comparison of the address with the bounds of the heap
IsHeapAddress(a) == (a - HeapStart) % Wrap <= HeapEnd - HeapStart
\* The filters of post_barrier: same region, stack object, NULL, young card
Passes(m, w) ==
  /\ Region(w.base) # Region(w.val)
  /\ IsHeapAddress(w.base)
  /\ w.val # 0
  /\ Card(m, CardOf(w.base)) # "young"

Waiting(w) == [pc |-> "membar", base |-> w.base, loc |-> w.loc, val |-> w.val]
\* The store itself goes to the store buffer. The filters of the barrier follow,
\* which depend on nothing another thread changes.
StoreField(m) ==
  LET w == mut[m]
      fresh == CanRemovePostBarrier(m, w.base)
  IN  /\ w.pc = "store"
      /\ store_buf' = [store_buf EXCEPT ![m] = Append(@, [what |-> "field", at |-> w.loc, val |-> w.val])]
      /\ chain' = [chain EXCEPT ![m] = IF @ = <<>> THEN @ ELSE Append(@, [base |-> w.base, off |-> w.loc - w.base])]
      /\ mut' = [mut EXCEPT ![m] = IF ~fresh /\ Passes(m, w) THEN Waiting(w) ELSE IdleMut]
      /\ tight' = [tight EXCEPT ![m] = fresh]
      /\ UNCHANGED <<heap, card, regs, queueVars, refining, remset, markVars, ops>>

\* Faulty variant: the card may be loaded before the store is in memory.
MemBarNone(m) == m \in Mutators
\* MemBarVolatile: the store buffer is empty before anything is loaded.
MemBarVolatile(m) == store_buf[m] = <<>>

\* The card is loaded again after the barrier, and g1_mark_card: storeCM and the
\* queue.
MarkCard(m) ==
  LET c == CardOf(mut[m].base)
      e == Enqueue(dcq[m], dcq_done, c)
  IN  /\ mut[m].pc = "membar" /\ MemBarVolatile(m)
      /\ mut' = [mut EXCEPT ![m] = IdleMut]
      /\ IF Card(m, c) = "dirty" THEN UNCHANGED <<store_buf, dcq, dcq_done>>
         ELSE /\ store_buf' = [store_buf EXCEPT ![m] = Append(@, [what |-> "card", at |-> c, val |-> "dirty"])]
              /\ dcq' = [dcq EXCEPT ![m] = e.q] /\ dcq_done' = e.done
      /\ UNCHANGED <<heap, card, regs, chain, tight, satb, satb_done, refining, remset, markVars, ops>>

\* The oldest store of a buffer reaches memory.
DrainStore(m) ==
  LET s == Head(store_buf[m]) IN
  /\ store_buf[m] # <<>> /\ store_buf' = [store_buf EXCEPT ![m] = Tail(@)]
  /\ heap' = IF s.what = "field" THEN [heap EXCEPT ![s.at] = s.val] ELSE heap
  /\ card' = IF s.what = "card" THEN [card EXCEPT ![s.at] = s.val] ELSE card
  /\ UNCHANGED <<mut, regs, chain, tight, queueVars, refining, remset, markVars, ops>>

-----------------------------------------------------------------------------
\* The refinement thread takes a card, cleans it if it is still dirty, and after
\* a fence looks at the objects on it.
CleanCard(c) ==
  /\ refining = -1 /\ c \in dcq_done /\ dcq_done' = dcq_done \ {c}
  /\ IF card[c] = "dirty" THEN card' = [card EXCEPT ![c] = "clean"] /\ refining' = c
     ELSE UNCHANGED <<card, refining>>
  /\ UNCHANGED <<heap, store_buf, mut, regs, chain, tight, satb, satb_done, dcq, remset, markVars, ops>>

\* The cross region references of the objects on a card
CrossRefs(c) ==
  {heap[l] : l \in UNION {FieldsOf[o] : o \in {q \in HeapObjs : CardOf(q) = c}}} \cap HeapObjs
RefineCard ==
  /\ refining # -1 /\ refining' = -1
  /\ remset' = [r \in DOMAIN remset |->
       IF \E v \in CrossRefs(refining) : Region(v) = r THEN remset[r] \cup {refining} ELSE remset[r]]
  /\ UNCHANGED <<heap, card, store_buf, mut, regs, chain, tight, queueVars, markVars, ops>>

AtSafepoint == \A m \in Mutators : mut[m].pc = "idle" /\ store_buf[m] = <<>>
\* What the threads hold, and the fields of their stack objects
Roots(held) == ((UNION {held[m] : m \in Mutators}) \cup {heap[l] : l \in UNION {FieldsOf[o] : o \in StackObjs}})
           \cap HeapObjs

\* The initial mark at a safepoint, after which no store follows an allocation. The
\* references dead are in variables that are no longer live: until now they may have
\* been used, and what dies later only makes the roots of the final mark fewer.
StartMarking(dead) ==
  /\ phase = "idle" /\ AtSafepoint /\ phase' = "marking"
  /\ regs' = [m \in Mutators |-> regs[m] \ dead]
  /\ marked' = Roots(regs') /\ grey' = Roots(regs') /\ snap' = heap
  /\ tight' = [m \in Mutators |-> FALSE]
  /\ UNCHANGED <<heap, card, store_buf, mut, chain, queueVars, refining, remset, ops>>

Strong(memory, o) == {memory[l] : l \in FieldsOf[o] \ WeakFields} \cap HeapObjs
MarkObject(o) ==
  /\ phase = "marking" /\ o \in grey
  /\ marked' = marked \cup Strong(heap, o)
  /\ grey' = (grey \ {o}) \cup (Strong(heap, o) \ marked)
  /\ UNCHANGED <<heap, card, store_buf, mut, regs, chain, tight, queueVars, refining, remset, phase, snap, ops>>

\* What is reached from s: the least set that has it and what its objects refer to
Closed(memory, t) == \A o \in t : Strong(memory, o) \subseteq t
Closure(memory, s) ==
  {o \in HeapObjs : \A t \in SUBSET HeapObjs : s \subseteq t /\ Closed(memory, t) => o \in t}

Logged == satb_done \cup (UNION {ToSet(satb[m]) : m \in Mutators})
\* The final mark at a safepoint: all queues are drained and what they hold is
\* followed.
Remark ==
  /\ phase = "marking" /\ AtSafepoint /\ phase' = "remarked"
  /\ marked' = marked \cup Closure(heap, (grey \cup Logged) \cap HeapObjs)
  /\ grey' = {} /\ satb_done' = {} /\ satb' = [m \in Mutators |-> <<>>]
  /\ UNCHANGED <<heap, card, store_buf, mut, regs, chain, tight, dcq, dcq_done, refining, remset, snap, ops>>

Mutate(m) ==
  \/ \E l \in DOMAIN heap : LoadField(m, l)
  \/ NewObject(m)
  \/ \E o \in Objs : \E l \in FieldsOf[o], v \in {0} \cup HeapObjs : PreBarrierOfStore(m, o, l, v)
  \/ StoreField(m) \/ MarkCard(m) \/ DrainStore(m)

G1Next ==
  \/ \E m \in Mutators : Mutate(m)
  \/ \E c \in DOMAIN card : CleanCard(c)
  \/ RefineCard \/ Remark \/ \E dead \in SUBSET HeapObjs : StartMarking(dead)
  \/ \E o \in HeapObjs : MarkObject(o)

\* Only the thread that has allocated the new object stores to it.
OwnStores == \A m \in Mutators : mut[m].pc # "idle" /\ mut[m].base = FreshObject => chain[m] # <<>>

G1Spec == (\E s \in G1Starts : G1Init(s)) /\ [][G1Next]_g1Vars

-----------------------------------------------------------------------------
\* No reference from an old object into another region is forgotten: its card is in
\* the remembered set of that region, or queued, or in the hands of the refinement
\* thread, or a thread that has stored to the object has not finished its barrier.  And a
\* store to a stack object has not dirtied a card that is not in the table.
RemSetComplete ==
  /\ \A o \in HeapObjs : \A l \in FieldsOf[o] :
       LET c == CardOf(o)
       IN  CrossRegion(heap, card, o, l) =>
             \/ c \in remset[Region(heap[l])] \/ c \in dcq_done \/ c = refining
             \/ \E m \in Mutators : \/ c \in ToSet(dcq[m])
                                    \/ mut[m].base = o /\ mut[m].pc = "membar"
  /\ \A c \in DOMAIN card : (card[c] = "foreign") = ~InHeap(c * CardWords)

\* When marking ends, everything that the threads can still reach is marked, also
\* through fields of stack objects, which have no barriers, and through referents
\* that were read while marking was under way.
MarkingComplete ==
  phase = "remarked" => Closure(heap, Roots(regs)) \subseteq marked
=============================================================================
