--------------------------- MODULE OopMapWalk_proofs ---------------------------
(***************************************************************************)
(* Proof that the walk over a frame with stack objects updates each oop    *)
(* once, for any frame, any objects in it, any oop maps and any number of  *)
(* walks, whenever the runtime part is switched on.                        *)
(***************************************************************************)
EXTENDS OopMapWalk, FiniteSetTheorems, TLAPS

\* The locations of the oop map at the pc
Regs == UpdateRegisterMap(CalleeMap)
Slots == OopLocs(Regs, Recorded)
DerivedValues == ValuesOf(Recorded, "derived")
DerivedAt(i) == LocIn(Regs, Recorded[i].reg)
BaseAt(i) == LocIn(Regs, Recorded[i].content)
DerivedLocs == {DerivedAt(i) : i \in DerivedValues}

\* The oop maps do not change.
MapsInv == \E s \in OWStarts : maps = s.maps /\ pc = s.pc

OWTypeInv ==
  /\ runtime_flag \in BOOLEAN /\ code \in {"plain", "stack"}
  /\ emit \in [{"plain", "stack"} -> {"none", "buffer", "failed", "installed"}]
  /\ mem \in [StackWords -> Int] /\ before \in [StackWords -> Int]
  /\ walk \in {"compiling", "running", "derived", "oops", "update"}
  /\ omv \in Nat /\ walks \in Nat
  /\ fields \in Seq(Fields) /\ stack_oops \subseteq Instances
  /\ table \in Seq([loc : StackWords, offset : Int])

\* No code of a method with stack objects runs before the runtime part is on.
FlagInv ==
  /\ emit["stack"] \in {"buffer", "installed"} => runtime_flag
  /\ walk = "compiling" <=> emit[code] # "installed"
  /\ walk = "compiling" => walks = 0

\* The maps built so far
BuildInv ==
  /\ build.i \in 1..(Len(maps) + 1) /\ build.offset \in Nat
  /\ image.pairs \in Seq([pc : Int, off : Int]) /\ Len(image.pairs) = build.i - 1
  /\ image.data \in Seq([off : Int, values : Seq(MapValues)])
  /\ \A k \in DOMAIN image.pairs :
       /\ image.pairs[k].pc = maps[k].pc
       /\ \E j \in DOMAIN image.data :
            image.data[j].off = image.pairs[k].off /\ image.data[j].values = maps[k].values
  /\ \A j \in DOMAIN image.data : image.data[j].off \in 0..(build.offset - 1)
  /\ \A j, k \in DOMAIN image.data : image.data[j].off = image.data[k].off => j = k
  /\ build.last = NoMap \/ \E j \in DOMAIN image.data : image.data[j] = build.last /\ build.last.values # <<>>
  /\ build.empty = -1 \/ \E j \in DOMAIN image.data : image.data[j] = [off |-> build.empty, values |-> <<>>]
  /\ emit[code] = "installed" => build.i = Len(maps) + 1

\* Between walks the frame is as the oop map says, and during one it was.
FrameInv ==
  /\ walk \in {"compiling", "running"} => IsFrameOf(code, mem, Recorded)
  /\ walk \in {"derived", "oops", "update"} => IsFrameOf(code, before, Recorded) /\ reg_map = Regs

\* A derived pointer whose base may move goes to the table.
Moves(i) == before[BaseAt(i)] # Null /\ before[BaseAt(i)] \notin CallerWords
Tabled == {table[k].loc : k \in DOMAIN table}
TableInv ==
  walk \in {"derived", "oops", "update"} =>
    /\ \A k \in DOMAIN table : \E i \in DerivedValues :
         /\ Moves(i) /\ table[k] = [loc |-> DerivedAt(i), offset |-> before[DerivedAt(i)] - before[BaseAt(i)]]
         /\ mem[DerivedAt(i)] = BaseAt(i)
    /\ \A j, k \in DOMAIN table : table[j].loc = table[k].loc => j = k
    /\ \A i \in DerivedValues : ~Moves(i) => mem[DerivedAt(i)] = before[DerivedAt(i)]
    /\ \A i \in DerivedValues : Moves(i) /\ DerivedAt(i) \notin Tabled =>
         CASE walk = "derived" -> i >= omv /\ mem[DerivedAt(i)] = before[DerivedAt(i)]
           [] walk = "oops" -> FALSE
           [] OTHER -> mem[DerivedAt(i)] = Moved(before[BaseAt(i)]) + (before[DerivedAt(i)] - before[BaseAt(i)])
    /\ walk = "derived" => \A i \in DerivedValues : DerivedAt(i) \in Tabled => i < omv

\* Each element once
Once(s) == \A i, k \in DOMAIN s : s[i] = s[k] => i = k

\* What has been visited: slots and fields of the objects met, but for those still on
\* the stack of fields
FieldsMet == UNION {Objects[o] : o \in stack_oops}
Visited == {LocIn(Regs, Recorded[i].reg) : i \in {k \in ValuesOf(Recorded, "oop") : k < omv}}
             \cup (FieldsMet \ ToSet(fields))
Updated(ls) ==
  /\ \A l \in ls : mem[l] = Moved(before[l])
  /\ \A l \in StackWords \ (ls \cup DerivedLocs) : mem[l] = before[l]
OopsInv ==
  /\ walk = "derived" => omv >= 1 /\ stack_oops = {} /\ fields = <<>> /\ Updated({})
  /\ walk = "oops" =>
       /\ omv >= 1 /\ Updated(Visited)
       /\ ToSet(fields) \subseteq FieldsMet
       /\ Once(fields)
       /\ \A l \in Visited : before[l] \in Instances => before[l] \in stack_oops
       /\ \A o \in stack_oops : \E l \in Reached(before, Slots) : before[l] = o
  /\ walk = "update" => Updated(Reached(before, Slots))
  /\ walk = "running" /\ walks > 0 => reg_map = Regs
  /\ walk \in {"compiling", "running", "update"} => fields = <<>>

OWInv ==
  MapsInv /\ OWTypeInv /\ FlagInv /\ BuildInv /\ FrameInv /\ TableInv /\ OopsInv /\ FrameUpdated

-----------------------------------------------------------------------------
\* A sequence and one more element
LEMMA AppendFacts ==
  ASSUME NEW S, NEW s \in Seq(S), NEW e \in S
  PROVE  /\ Append(s, e) \in Seq(S) /\ Len(Append(s, e)) = Len(s) + 1 /\ Len(s) \in Nat
         /\ DOMAIN s = 1..Len(s) /\ DOMAIN Append(s, e) = 1..(Len(s) + 1)
         /\ \A k \in DOMAIN s : Append(s, e)[k] = s[k] /\ s[k] \in S
         /\ Append(s, e)[Len(s) + 1] = e
OBVIOUS

\* SetToSeq enumerates a finite set.
LEMMA SetToSeqFacts ==
  ASSUME NEW S, IsFiniteSet(S)
  PROVE  /\ SetToSeq(S) \in Seq(S) /\ ToSet(SetToSeq(S)) = S
         /\ Once(SetToSeq(S))
<1> DEFINE n == Cardinality(S)
           f == SetToSeq(S)
<1>1. n \in Nat /\ ExistsBijection(1..n, S)
  BY FS_CardinalityType
<1>2. \E g \in [1..n -> S] : IsInjective(g)
  BY <1>1 DEF ExistsBijection, Bijection, Injection
<1>3. f \in [1..n -> S] /\ IsInjective(f)
  BY <1>2 DEF SetToSeq
<1> HIDE DEF f, n
<1>4. f \in Injection(1..n, S)
  BY <1>3 DEF Injection
<1>5. Cardinality(1..n) = n
  <2>1. Cardinality(1..n) = IF 1 > n THEN 0 ELSE n - 1 + 1
    BY <1>1, FS_Interval
  <2> QED BY <1>1, <2>1
<1>6. f \in Surjection(1..n, S)
  <2>1. Cardinality(1..n) = Cardinality(S)
    BY <1>5 DEF n
  <2> QED BY <1>4, <2>1, FS_Injection
<1>7. \A x \in S : \E i \in 1..n : f[i] = x
  BY <1>6 DEF Surjection
<1>8. f \in Seq(S)
  BY <1>1, <1>3
<1>9. ToSet(f) = S
  BY <1>3, <1>7 DEF ToSet
<1> QED BY <1>3, <1>8, <1>9 DEF f, IsInjective, Once

\* Sequences without repetitions
LEMMA ConcatFacts ==
  ASSUME NEW S, NEW s \in Seq(S), NEW t \in Seq(S), Once(s), Once(t), ToSet(s) \cap ToSet(t) = {}
  PROVE  s \o t \in Seq(S) /\ ToSet(s \o t) = ToSet(s) \cup ToSet(t) /\ Once(s \o t)
<1>1. /\ s \o t \in Seq(S) /\ Len(s) \in Nat /\ Len(t) \in Nat
      /\ DOMAIN s = 1..Len(s) /\ DOMAIN t = 1..Len(t) /\ DOMAIN (s \o t) = 1..(Len(s) + Len(t))
  OBVIOUS
<1>2. \A i \in 1..Len(s) : (s \o t)[i] = s[i] /\ i \in DOMAIN (s \o t)
  BY <1>1
<1>3. \A i \in 1..Len(t) : (s \o t)[Len(s) + i] = t[i] /\ Len(s) + i \in DOMAIN (s \o t)
  BY <1>1
<1>4. \A i \in DOMAIN (s \o t) : i \in 1..Len(s) \/ (i - Len(s) \in 1..Len(t) /\ Len(s) + (i - Len(s)) = i)
  BY <1>1
<1> DEFINE st == s \o t
<1> HIDE DEF st
<1>5. \A i \in DOMAIN st : \/ i \in 1..Len(s) /\ st[i] = s[i] /\ st[i] \in ToSet(s)
                           \/ i - Len(s) \in 1..Len(t) /\ st[i] = t[i - Len(s)] /\ st[i] \in ToSet(t)
  <2> TAKE i \in DOMAIN st
  <2>1. CASE i \in 1..Len(s)
    BY <1>1, <1>2, <2>1 DEF ToSet, st
  <2>2. CASE i - Len(s) \in 1..Len(t) /\ Len(s) + (i - Len(s)) = i
    BY <1>1, <1>3, <2>2 DEF ToSet, st
  <2> QED BY <1>4, <2>1, <2>2 DEF st
<1>6. ToSet(st) = ToSet(s) \cup ToSet(t)
  <2>1. ToSet(st) \subseteq ToSet(s) \cup ToSet(t)
    BY <1>5 DEF ToSet
  <2>2. ToSet(s) \subseteq ToSet(st)
    BY <1>1, <1>2 DEF ToSet, st
  <2>3. ToSet(t) \subseteq ToSet(st)
    BY <1>1, <1>3 DEF ToSet, st
  <2> QED BY <2>1, <2>2, <2>3
<1>7. ASSUME NEW i \in DOMAIN st, NEW k \in DOMAIN st, st[i] = st[k] PROVE i = k
  <2>1. CASE i \in 1..Len(s) /\ k \in 1..Len(s)
    BY <1>1, <1>2, <1>7, <2>1 DEF Once, st
  <2>2. CASE i - Len(s) \in 1..Len(t) /\ k - Len(s) \in 1..Len(t)
    <3>1. st[i] = t[i - Len(s)] /\ st[k] = t[k - Len(s)]
      BY <1>3, <1>4, <2>2, <1>1 DEF st
    <3>2. i - Len(s) = k - Len(s)
      BY <1>1, <1>7, <2>2, <3>1 DEF Once
    <3>3. i \in Int /\ k \in Int
      BY <1>1 DEF st
    <3> QED BY <1>1, <3>2, <3>3
  <2>3. ~(st[i] \in ToSet(s) /\ st[k] \in ToSet(t)) /\ ~(st[k] \in ToSet(s) /\ st[i] \in ToSet(t))
    BY <1>7
  <2> QED BY <1>5, <2>1, <2>2, <2>3
<1> QED BY <1>1, <1>6, <1>7 DEF st, Once

LEMMA TailFacts ==
  ASSUME NEW S, NEW s \in Seq(S), s # <<>>, Once(s)
  PROVE  /\ Tail(s) \in Seq(S) /\ Once(Tail(s)) /\ Head(s) \in ToSet(s)
         /\ ToSet(Tail(s)) = ToSet(s) \ {Head(s)}
<1>1. /\ Len(s) \in Nat /\ Len(s) >= 1 /\ DOMAIN s = 1..Len(s) /\ Tail(s) \in Seq(S)
      /\ DOMAIN Tail(s) = 1..(Len(s) - 1) /\ Head(s) = s[1]
      /\ \A i \in 1..(Len(s) - 1) : Tail(s)[i] = s[i + 1] /\ i + 1 \in DOMAIN s /\ i + 1 # 1
  OBVIOUS
<1> DEFINE r == Tail(s)
<1> HIDE DEF r
<1>2. Once(r)
  <2>1. ASSUME NEW i \in DOMAIN r, NEW k \in DOMAIN r, r[i] = r[k] PROVE i = k
    <3>1. s[i + 1] = s[k + 1] /\ i + 1 \in DOMAIN s /\ k + 1 \in DOMAIN s
      BY <1>1, <2>1 DEF r
    <3>2. i + 1 = k + 1
      BY <3>1 DEF Once
    <3>3. i \in Int /\ k \in Int
      BY <1>1 DEF r
    <3> QED BY <3>2, <3>3
  <2> QED BY <2>1 DEF Once
<1>3. \A i \in DOMAIN r : r[i] \in ToSet(s) \ {Head(s)}
  <2> TAKE i \in DOMAIN r
  <2>1. r[i] = s[i + 1] /\ i + 1 \in DOMAIN s /\ i + 1 # 1 /\ 1 \in DOMAIN s
    BY <1>1 DEF r
  <2> QED BY <1>1, <2>1 DEF ToSet, Once
<1>4. ASSUME NEW k \in DOMAIN s, s[k] # Head(s) PROVE s[k] \in ToSet(r)
  <2>1. k - 1 \in 1..(Len(s) - 1) /\ (k - 1) + 1 = k
    BY <1>1, <1>4
  <2>2. k - 1 \in DOMAIN r /\ r[k - 1] = s[k]
    BY <1>1, <2>1 DEF r
  <2> QED BY <2>2 DEF ToSet
<1>5. Head(s) \in ToSet(s)
  BY <1>1 DEF ToSet
<1> QED BY <1>1, <1>2, <1>3, <1>4, <1>5 DEF r, ToSet

\* Reached is the least closed set of locations that has the slots.
LEMMA ReachedLeast ==
  ASSUME NEW words, NEW ls
  PROVE  /\ ls \subseteq Reached(words, ls) /\ Reached(words, ls) \subseteq ls \cup Fields
         /\ ClosedIn(words, Reached(words, ls))
         /\ \A fs \in SUBSET Fields : ClosedIn(words, ls \cup fs) => Reached(words, ls) \subseteq ls \cup fs
<1>1. ls \subseteq Reached(words, ls) /\ Reached(words, ls) \subseteq ls \cup Fields
  BY DEF Reached
<1>2. \A fs \in SUBSET Fields : ClosedIn(words, ls \cup fs) => Reached(words, ls) \subseteq ls \cup fs
  BY DEF Reached
<1>3. ASSUME NEW l \in Reached(words, ls), words[l] \in Instances, NEW f \in Objects[words[l]]
      PROVE  f \in Reached(words, ls)
  <2>1. f \in Fields
    BY <1>3 DEF Fields
  <2>2. \A fs \in SUBSET Fields : ClosedIn(words, ls \cup fs) => f \in ls \cup fs
    BY <1>2, <1>3 DEF ClosedIn
  <2> QED BY <2>1, <2>2 DEF Reached
<1> QED BY <1>1, <1>2, <1>3 DEF ClosedIn

\* Words that refer to the same stack objects lead to the same locations.
LEMMA ReachedSame ==
  ASSUME NEW v, NEW w, NEW ls,
         \A l \in ls \cup Fields : v[l] \in Instances \/ w[l] \in Instances => v[l] = w[l]
  PROVE  Reached(v, ls) = Reached(w, ls)
<1>1. \A fs \in SUBSET Fields : ClosedIn(v, ls \cup fs) <=> ClosedIn(w, ls \cup fs)
  BY DEF ClosedIn
<1> QED BY <1>1 DEF Reached

\* The oop map at the pc
LEMMA MapFacts ==
  ASSUME MapsInv
  PROVE  /\ maps \in Seq([pc : Int, values : Seq(MapValues)]) /\ pc \in Int
         /\ \A i, k \in DOMAIN maps : i < k => maps[i].pc < maps[k].pc
         /\ \E k \in DOMAIN maps : maps[k].pc = pc /\ Recorded = maps[k].values
         /\ Recorded \in Seq(MapValues)
         /\ DOMAIN maps = 1..Len(maps) /\ Len(maps) \in Nat
         /\ \A i \in DOMAIN maps : maps[i].pc \in Int /\ maps[i].values \in Seq(MapValues)
<1>1. PICK s \in OWStarts : maps = s.maps /\ pc = s.pc
  BY DEF MapsInv
<1>2. IsOWStart(s)
  BY OopMapAssumption
<1>3. maps \in Seq([pc : Int, values : Seq(MapValues)])
  BY <1>1, <1>2 DEF IsOWStart
<1>4. \A i, k \in DOMAIN maps : i < k => maps[i].pc < maps[k].pc
  BY <1>1, <1>2 DEF IsOWStart
<1>5. PICK k \in DOMAIN maps : maps[k].pc = pc
  BY <1>1, <1>2 DEF IsOWStart
<1>6. /\ DOMAIN maps = 1..Len(maps) /\ Len(maps) \in Nat
      /\ \A i \in DOMAIN maps : maps[i].pc \in Int /\ maps[i].values \in Seq(MapValues)
  <2> DEFINE S == [pc : Int, values : Seq(MapValues)]
  <2>1. \A e \in S : e.pc \in Int /\ e.values \in Seq(MapValues)
    OBVIOUS
  <2>2. maps \in Seq(S)
    BY <1>3
  <2> HIDE DEF S
  <2>3. DOMAIN maps = 1..Len(maps) /\ Len(maps) \in Nat /\ \A i \in 1..Len(maps) : maps[i] \in S
    BY <2>2
  <2> QED BY <2>1, <2>3
<1>7. \A i \in DOMAIN maps : maps[i].pc = pc => i = k
  BY <1>4, <1>5, <1>6
<1>8. Recorded = maps[k].values
  BY <1>5, <1>7 DEF Recorded
<1> QED BY <1>3, <1>4, <1>5, <1>6, <1>8, Zenon

\* What a frame is like
LEMMA FrameFacts ==
  ASSUME NEW words, IsFrame(words, Recorded)
  PROVE  /\ Slots \subseteq StackWords \ Fields /\ DerivedLocs \subseteq StackWords \ Fields
         /\ Slots \cap DerivedLocs = {}
         /\ \A i \in DerivedValues : BaseAt(i) \in Slots /\ DerivedAt(i) \in DerivedLocs
         /\ \A i, k \in DerivedValues : DerivedAt(i) = DerivedAt(k) => i = k
         /\ \A i, k \in ValuesOf(Recorded, "oop") :
              LocIn(Regs, Recorded[i].reg) = LocIn(Regs, Recorded[k].reg) => i = k
         /\ \A l \in Reached(words, Slots) : words[l] \in {Null} \cup DOMAIN Forward \cup DOMAIN Objects
<1> DEFINE At(i) == LocIn(Regs, Recorded[i].reg)
           oops == ValuesOf(Recorded, "oop")
<1>1. /\ \A i \in oops \cup DerivedValues : At(i) \in StackWords \ Fields
      /\ \A i, k \in oops \cup DerivedValues : At(i) = At(k) => i = k
      /\ \A i \in DerivedValues : BaseAt(i) \in Slots
      /\ \A l \in Reached(words, Slots) : words[l] \in {Null} \cup DOMAIN Forward \cup DOMAIN Objects
  BY DEF IsFrame, Regs, Slots, DerivedValues, BaseAt
<1>2. Slots = {At(i) : i \in oops} /\ DerivedLocs = {At(i) : i \in DerivedValues}
  BY DEF Slots, OopLocs, DerivedLocs, DerivedAt
<1>3. oops \cap DerivedValues = {}
  BY DEF ValuesOf, DerivedValues
<1>4. \A i \in DerivedValues : DerivedAt(i) = At(i)
  BY DEF DerivedAt
<1> HIDE DEF oops, At
<1>5. Slots \subseteq StackWords \ Fields /\ DerivedLocs \subseteq StackWords \ Fields
  BY <1>1, <1>2
<1>6. Slots \cap DerivedLocs = {}
  BY <1>1, <1>2, <1>3
<1>7. \A i, k \in oops : At(i) = At(k) => i = k
  BY <1>1
<1>8. \A i, k \in DerivedValues : DerivedAt(i) = DerivedAt(k) => i = k
  BY <1>1, <1>4
<1>9. \A i \in DerivedValues : DerivedAt(i) \in DerivedLocs
  BY DEF DerivedLocs
<1> QED BY <1>1, <1>5, <1>6, <1>7, <1>8, <1>9 DEF oops, At

\* find_map_at_offset finds the map that was recorded.
LEMMA FoundRecorded ==
  ASSUME MapsInv, BuildInv, emit[code] = "installed"
  PROVE  FoundMap = Recorded
<1>1. PICK k \in DOMAIN maps : maps[k].pc = pc /\ Recorded = maps[k].values
  BY MapFacts
<1>2. \A i, j \in DOMAIN maps : i < j => maps[i].pc < maps[j].pc
  BY MapFacts
<1>3. /\ DOMAIN maps = 1..Len(maps) /\ Len(maps) \in Nat
      /\ \A i \in DOMAIN maps : maps[i].pc \in Int
  BY MapFacts
<1>4. image.pairs \in Seq([pc : Int, off : Int]) /\ Len(image.pairs) = Len(maps)
  BY <1>3 DEF BuildInv
<1>5. DOMAIN image.pairs = DOMAIN maps
  BY <1>3, <1>4
<1>6. \A i \in DOMAIN maps : image.pairs[i].pc = maps[i].pc
  BY <1>5 DEF BuildInv
<1> DEFINE is == {i \in DOMAIN image.pairs : image.pairs[i].pc >= pc}
<1>7. k \in is /\ \A i \in is : k <= i
  <2>1. k \in is
    BY <1>1, <1>3, <1>5, <1>6
  <2>2. ASSUME NEW i \in is, i < k PROVE FALSE
    <3>1. i \in DOMAIN maps /\ maps[i].pc >= maps[k].pc
      BY <1>1, <1>5, <1>6, <2>2
    <3>2. maps[i].pc < maps[k].pc
      BY <1>2, <2>2, <3>1
    <3> QED BY <1>3, <3>1, <3>2
  <2>3. \A i \in is : i \in Int /\ k \in Int
    BY <1>3, <1>5
  <2> QED BY <2>1, <2>2, <2>3
<1>8. (CHOOSE i \in is : \A j \in is : i <= j) = k
  <2>1. \A i \in is : i \in Int
    BY <1>3, <1>5
  <2>2. \A i \in is : (\A j \in is : i <= j) => i = k
    BY <1>7, <2>1
  <2> HIDE DEF is
  <2> QED BY <1>7, <2>2
<1>9. PICK j \in DOMAIN image.data : image.data[j].off = image.pairs[k].off /\ image.data[j].values = maps[k].values
  BY <1>5 DEF BuildInv
<1>10. (CHOOSE i \in DOMAIN image.data : image.data[i].off = image.pairs[k].off) = j
  <2>1. \A i \in DOMAIN image.data : image.data[i].off = image.pairs[k].off => i = j
    BY <1>9 DEF BuildInv
  <2> QED BY <1>9, <2>1
<1> QED BY <1>1, <1>8, <1>9, <1>10 DEF FoundMap

-----------------------------------------------------------------------------
\* The frame and what the walk has done with it
frameVars == <<maps, pc, code, mem, reg_map, omv, fields, stack_oops, table, before, walks>>
WalkPart == FrameInv /\ TableInv /\ OopsInv /\ FrameUpdated

LEMMA WalkUnchanged ==
  ASSUME WalkPart, UNCHANGED frameVars, walk' = walk
  PROVE  WalkPart'
<1>1. Recorded' = Recorded
  BY DEF frameVars, Recorded
<1>2. /\ Slots' = Slots /\ DerivedValues' = DerivedValues /\ Regs' = Regs
      /\ DerivedLocs' = DerivedLocs
      /\ \A i : DerivedAt(i)' = DerivedAt(i) /\ BaseAt(i)' = BaseAt(i) /\ Moves(i)' = Moves(i)
  BY <1>1 DEF frameVars, Slots, DerivedValues, Regs, DerivedLocs, DerivedAt, BaseAt, Moves
<1>3. FrameInv'
  BY <1>1, <1>2 DEF WalkPart, FrameInv, frameVars
<1>4. Tabled' = Tabled
  BY DEF Tabled, frameVars
<1>5. TableInv'
  BY <1>2, <1>4 DEF WalkPart, TableInv, frameVars
<1>6. Visited' = Visited /\ FieldsMet' = FieldsMet
  BY <1>1, <1>2 DEF Visited, FieldsMet, frameVars
<1>7. \A ls : Updated(ls) => Updated(ls)'
  BY <1>2 DEF Updated, frameVars
<1>8. OopsInv'
  BY <1>2, <1>6, <1>7 DEF WalkPart, OopsInv, frameVars
<1>9. FrameUpdated'
  BY <1>1 DEF WalkPart, FrameUpdated, frameVars, Loc
<1> QED BY <1>3, <1>5, <1>8, <1>9 DEF WalkPart

LEMMA OWInvParts ==
  /\ OWInv <=> MapsInv /\ OWTypeInv /\ FlagInv /\ BuildInv /\ WalkPart
  /\ OWInv' <=> MapsInv' /\ OWTypeInv' /\ FlagInv' /\ BuildInv' /\ WalkPart'
BY DEF OWInv, WalkPart

\* Code is emitted and installed; no frame changes.
LEMMA InitBufferKeeps ==
  ASSUME OWInv, NEW c \in {"plain", "stack"}, InitBuffer(c)
  PROVE  OWInv'
<1> USE DEF InitBuffer
<1>1. MapsInv'
  BY DEF OWInv, MapsInv
<1>2. OWTypeInv'
  BY DEF OWInv, OWTypeInv
<1>3. emit[code] # "installed" => emit'[code'] # "installed"
  BY DEF OWInv, OWTypeInv
<1>4. emit[code] = "installed" => emit'[code'] = "installed"
  BY DEF OWInv, OWTypeInv
<1>5. emit'["stack"] \in {"buffer", "installed"} => runtime_flag'
  <2>1. CASE emit' = [emit EXCEPT ![c] = "buffer"] /\ runtime_flag' = (runtime_flag \/ c = "stack")
    BY <2>1 DEF OWInv, OWTypeInv, FlagInv
  <2>2. CASE emit' = [emit EXCEPT ![c] = "failed"] /\ UNCHANGED runtime_flag
    BY <2>2 DEF OWInv, OWTypeInv, FlagInv
  <2> QED BY <2>1, <2>2
<1>6. FlagInv'
  BY <1>3, <1>4, <1>5 DEF OWInv, FlagInv
<1>7. BuildInv'
  BY <1>3 DEF OWInv, BuildInv
<1>8. WalkPart'
  BY WalkUnchanged, OWInvParts DEF frameVars
<1> QED BY <1>1, <1>2, <1>6, <1>7, <1>8, OWInvParts

LEMMA InstallKeeps ==
  ASSUME OWInv, NEW c \in {"plain", "stack"}, Install(c)
  PROVE  OWInv'
<1> USE DEF Install
<1>1. MapsInv'
  BY DEF OWInv, MapsInv
<1>2. OWTypeInv'
  BY DEF OWInv, OWTypeInv
<1>3. FlagInv'
  <2>1. CASE c # code
    BY <2>1 DEF OWInv, OWTypeInv, FlagInv
  <2>2. CASE c = code
    BY <2>2 DEF OWInv, OWTypeInv, FlagInv
  <2> QED BY <2>1, <2>2
<1>4. BuildInv'
  <2>1. emit'[code'] = "installed" => build.i = Len(maps) + 1
    <3>1. Len(maps) \in Nat
      BY MapFacts DEF OWInv
    <3>2. CASE c # code
      BY <3>2 DEF OWInv, OWTypeInv, BuildInv
    <3>3. CASE c = code
      BY <3>1, <3>3 DEF OWInv, BuildInv
    <3> QED BY <3>2, <3>3
  <2> QED BY <2>1 DEF OWInv, BuildInv
<1>5. WalkPart'
  <2>1. CASE c # code
    BY <2>1, WalkUnchanged, OWInvParts DEF frameVars
  <2>2. CASE c = code
    <3>1. walk = "compiling" /\ walk' = "running" /\ walks = 0 /\ walks' = 0
      BY <2>2 DEF OWInv, OWTypeInv, FlagInv
    <3>2. FrameInv'
      <4>1. IsFrameOf(code, mem, Recorded)
        BY <3>1 DEF OWInv, FrameInv
      <4>2. Recorded' = Recorded /\ mem' = mem
        BY DEF Recorded
      <4> QED BY <3>1, <4>1, <4>2 DEF FrameInv
    <3>3. TableInv' /\ OopsInv' /\ FrameUpdated'
      BY <3>1 DEF OWInv, TableInv, OopsInv, FrameUpdated
    <3> QED BY <3>2, <3>3 DEF WalkPart
  <2> QED BY <2>1, <2>2
<1> QED BY <1>1, <1>2, <1>3, <1>4, <1>5, OWInvParts

\* A map that is built can be found at its offset, shared or not.
LEMMA BuildMapKeeps ==
  ASSUME OWInv, BuildMap
  PROVE  OWInv'
<1> DEFINE m == maps[build.i]
           shared == IF m.values = <<>> THEN build.empty
                     ELSE IF build.last.values = m.values THEN build.last.off ELSE -1
           off == IF shared # -1 THEN shared ELSE build.offset
           new == [off |-> off, values |-> m.values]
           Pair == [pc : Int, off : Int]
           Datum == [off : Int, values : Seq(MapValues)]
<1>1. MapsInv' /\ OWTypeInv' /\ FlagInv'
  BY DEF BuildMap, OWInv, MapsInv, OWTypeInv, FlagInv
<1>2. WalkPart'
  BY WalkUnchanged, OWInvParts DEF frameVars, BuildMap
<1>3. /\ emit[code] = "buffer" /\ build.i <= Len(maps) /\ emit' = emit /\ code' = code /\ maps' = maps
      /\ image' = [pairs |-> Append(image.pairs, [pc |-> m.pc, off |-> off]),
                   data |-> IF shared # -1 THEN image.data ELSE Append(image.data, [off |-> off, values |-> m.values])]
      /\ build' = [i |-> build.i + 1,
                   offset |-> IF shared # -1 THEN build.offset ELSE build.offset + SizeFor(m),
                   last |-> IF m.values = <<>> THEN build.last ELSE [off |-> off, values |-> m.values],
                   empty |-> IF m.values = <<>> THEN off ELSE build.empty]
  BY DEF BuildMap
<1>4. /\ build.i \in DOMAIN maps /\ m.pc \in Int /\ m.values \in Seq(MapValues)
      /\ Len(maps) \in Nat /\ build.i \in Nat
  <2>1. build.i \in 1..(Len(maps) + 1)
    BY DEF OWInv, BuildInv
  <2> QED BY <1>3, <2>1, MapFacts DEF OWInv
<1>5. /\ image.pairs \in Seq(Pair) /\ Len(image.pairs) = build.i - 1 /\ image.data \in Seq(Datum)
      /\ build.offset \in Nat
      /\ \A j \in DOMAIN image.data : image.data[j].off \in 0..(build.offset - 1)
      /\ \A j, k \in DOMAIN image.data : image.data[j].off = image.data[k].off => j = k
      /\ \A k \in DOMAIN image.pairs :
           /\ image.pairs[k].pc = maps[k].pc
           /\ \E j \in DOMAIN image.data :
                image.data[j].off = image.pairs[k].off /\ image.data[j].values = maps[k].values
  BY DEF OWInv, BuildInv
<1>6. shared # -1 => \E j \in DOMAIN image.data : image.data[j].off = shared /\ image.data[j].values = m.values
                                               /\ image.data[j] = [off |-> shared, values |-> m.values]
  <2>1. ASSUME NEW j \in DOMAIN image.data
        PROVE  image.data[j] = [off |-> image.data[j].off, values |-> image.data[j].values]
    <3>1. \A d \in Datum : d = [off |-> d.off, values |-> d.values]
      OBVIOUS
    <3>2. image.data \in Seq(Datum)
      BY <1>5
    <3> HIDE DEF Datum
    <3>3. image.data[j] \in Datum
      BY <3>2
    <3> QED BY <3>1, <3>3
  <2>2. CASE m.values = <<>>
    BY <2>2 DEF OWInv, BuildInv
  <2>3. CASE m.values # <<>> /\ build.last.values = m.values
    <3>1. build.last # NoMap
      BY <2>3 DEF NoMap
    <3>2. PICK j \in DOMAIN image.data : image.data[j] = build.last
      BY <3>1 DEF OWInv, BuildInv
    <3> QED BY <2>1, <2>3, <3>2
  <2>4. CASE m.values # <<>> /\ build.last.values # m.values
    BY <2>4
  <2> QED BY <2>2, <2>3, <2>4
<1> HIDE DEF m
<1>7. /\ off \in Nat
      /\ shared = -1 => off = build.offset
      /\ shared # -1 => off < build.offset
  <2>1. CASE shared = -1
    BY <1>5, <2>1
  <2>2. CASE shared # -1
    <3>1. off = shared /\ shared \in 0..(build.offset - 1)
      BY <1>5, <1>6, <2>2
    <3> QED BY <1>5, <2>2, <3>1
  <2> QED BY <2>1, <2>2
<1>8. /\ image'.pairs = Append(image.pairs, [pc |-> m.pc, off |-> off])
      /\ image'.data = IF shared # -1 THEN image.data ELSE Append(image.data, new)
      /\ build'.i = build.i + 1
      /\ build'.offset = IF shared # -1 THEN build.offset ELSE build.offset + SizeFor(m)
      /\ build'.last = IF m.values = <<>> THEN build.last ELSE new
      /\ build'.empty = IF m.values = <<>> THEN off ELSE build.empty
  BY <1>3
<1> HIDE DEF shared, off
<1>9. /\ image'.pairs \in Seq(Pair) /\ Len(image'.pairs) = build'.i - 1
      /\ DOMAIN image'.pairs = 1..build.i /\ DOMAIN image.pairs = 1..(build.i - 1)
      /\ \A k \in 1..build.i : image'.pairs[k] = IF k < build.i THEN image.pairs[k] ELSE [pc |-> m.pc, off |-> off]
  <2>1. [pc |-> m.pc, off |-> off] \in Pair
    BY <1>4, <1>7
  <2> DEFINE e == [pc |-> m.pc, off |-> off]
  <2>2. image.pairs \in Seq(Pair) /\ image'.pairs = Append(image.pairs, e) /\ Len(image.pairs) = build.i - 1
    BY <1>5, <1>8
  <2> HIDE DEF Pair, e
  <2>3. e \in Pair
    BY <2>1 DEF e
  <2>4. /\ image'.pairs \in Seq(Pair) /\ Len(image'.pairs) = build.i - 1 + 1
        /\ DOMAIN image.pairs = 1..(build.i - 1) /\ DOMAIN image'.pairs = 1..(build.i - 1 + 1)
        /\ \A k \in DOMAIN image.pairs : image'.pairs[k] = image.pairs[k]
        /\ image'.pairs[build.i - 1 + 1] = e
    BY <2>2, <2>3, AppendFacts
  <2>5. build.i - 1 + 1 = build.i /\ \A k \in 1..build.i : k < build.i => k \in 1..(build.i - 1)
    BY <1>4
  <2>6. \A k \in 1..build.i : ~(k < build.i) => k = build.i
    BY <1>4
  <2> QED BY <1>8, <2>4, <2>5, <2>6 DEF e
<1>10. /\ image'.data \in Seq(Datum) /\ DOMAIN image.data \subseteq DOMAIN image'.data
       /\ \A j \in DOMAIN image.data : image'.data[j] = image.data[j]
       /\ \E j \in DOMAIN image'.data : image'.data[j] = new
       /\ \A j \in DOMAIN image'.data : image'.data[j] = new \/ j \in DOMAIN image.data
       /\ shared = -1 => \A j, k \in DOMAIN image'.data : j \notin DOMAIN image.data /\ k \notin DOMAIN image.data => j = k
  <2>1. new \in Datum
    BY <1>4, <1>7
  <2>2. CASE shared # -1
    <3>1. \E j \in DOMAIN image.data : image.data[j] = new
      BY <1>6, <2>2 DEF off
    <3> QED BY <1>5, <1>8, <2>2, <3>1
  <2>3. CASE shared = -1
    <3>1. image'.data = Append(image.data, new)
      BY <1>8, <2>3
    <3>2. image.data \in Seq(Datum)
      BY <1>5
    <3> HIDE DEF Datum, new
    <3>3. /\ image'.data \in Seq(Datum) /\ Len(image.data) \in Nat
          /\ DOMAIN image.data = 1..Len(image.data) /\ DOMAIN image'.data = 1..(Len(image.data) + 1)
          /\ \A j \in DOMAIN image.data : image'.data[j] = image.data[j]
          /\ image'.data[Len(image.data) + 1] = new
      BY <2>1, <3>1, <3>2, AppendFacts
    <3>4. \A j \in DOMAIN image'.data : j \in DOMAIN image.data \/ j = Len(image.data) + 1
      BY <3>3
    <3>5. DOMAIN image.data \subseteq DOMAIN image'.data /\ Len(image.data) + 1 \in DOMAIN image'.data
      BY <3>3
    <3> QED BY <3>3, <3>4, <3>5
  <2> QED BY <2>2, <2>3
<1>11. new.off = off /\ new.values = m.values
  OBVIOUS
<1> HIDE DEF new
<1>12. /\ build'.offset \in Nat /\ build'.offset >= build.offset /\ off < build'.offset
  <2>1. SizeFor(m) \in Nat /\ SizeFor(m) > 0
    BY <1>4 DEF SizeFor
  <2> QED BY <1>5, <1>7, <1>8, <2>1
<1>13. \A j \in DOMAIN image'.data : image'.data[j].off \in 0..(build'.offset - 1)
  <2>1. ASSUME NEW j \in DOMAIN image'.data PROVE image'.data[j].off \in 0..(build'.offset - 1)
    <3>1. CASE image'.data[j] = new
      BY <1>7, <1>11, <1>12, <3>1
    <3>2. CASE j \in DOMAIN image.data
      <4>1. image'.data[j].off \in 0..(build.offset - 1)
        BY <1>5, <1>10, <3>2
      <4> QED BY <1>5, <1>12, <4>1
    <3> QED BY <1>10, <3>1, <3>2
  <2> QED BY <2>1
<1>14. ASSUME NEW j \in DOMAIN image'.data, NEW k \in DOMAIN image'.data, image'.data[j].off = image'.data[k].off
       PROVE  j = k
  <2>1. CASE shared # -1
    BY <1>5, <1>8, <1>14, <2>1
  <2>2. CASE shared = -1
    <3>1. \A i \in DOMAIN image'.data : i \in DOMAIN image.data <=> image'.data[i].off # build.offset
      <4>1. \A i \in DOMAIN image.data : image'.data[i].off \in 0..(build.offset - 1)
        BY <1>5, <1>10
      <4>2. \A i \in DOMAIN image.data : image'.data[i].off # build.offset
        BY <1>5, <4>1
      <4>3. \A i \in DOMAIN image'.data : i \notin DOMAIN image.data => image'.data[i].off = build.offset
        BY <1>7, <1>10, <1>11, <2>2
      <4> QED BY <4>2, <4>3
    <3> QED BY <1>5, <1>10, <1>14, <2>2, <3>1
  <2> QED BY <2>1, <2>2
<1>15. ASSUME NEW k \in DOMAIN image'.pairs
       PROVE  /\ image'.pairs[k].pc = maps[k].pc
              /\ \E j \in DOMAIN image'.data :
                   image'.data[j].off = image'.pairs[k].off /\ image'.data[j].values = maps[k].values
  <2>1. CASE k < build.i
    <3>1. k \in DOMAIN image.pairs /\ image'.pairs[k] = image.pairs[k]
      <4>1. k \in 1..build.i
        BY <1>9
      <4>2. k \in 1..(build.i - 1)
        BY <1>4, <2>1, <4>1
      <4> QED BY <1>9, <2>1, <4>1, <4>2
    <3>2. image'.pairs[k].pc = maps[k].pc
      BY <1>5, <3>1
    <3>3. PICK j \in DOMAIN image.data : image.data[j].off = image.pairs[k].off /\ image.data[j].values = maps[k].values
      BY <1>5, <3>1
    <3>4. j \in DOMAIN image'.data /\ image'.data[j] = image.data[j]
      BY <1>10
    <3> QED BY <3>1, <3>2, <3>3, <3>4
  <2>2. CASE ~(k < build.i)
    <3>1. k = build.i /\ image'.pairs[k] = [pc |-> m.pc, off |-> off]
      BY <1>4, <1>9, <2>2
    <3> QED BY <1>10, <1>11, <3>1 DEF m
  <2> QED BY <2>1, <2>2
<1>16. build'.last = NoMap \/ \E j \in DOMAIN image'.data : image'.data[j] = build'.last /\ build'.last.values # <<>>
  <2>1. CASE m.values = <<>>
    BY <1>8, <1>10, <2>1 DEF OWInv, BuildInv
  <2>2. CASE m.values # <<>>
    BY <1>8, <1>10, <1>11, <2>2
  <2> QED BY <2>1, <2>2
<1>17. build'.empty = -1 \/ \E j \in DOMAIN image'.data : image'.data[j] = [off |-> build'.empty, values |-> <<>>]
  <2>1. CASE m.values = <<>>
    <3>1. new = [off |-> build'.empty, values |-> <<>>]
      BY <1>8, <2>1 DEF new
    <3> QED BY <1>10, <3>1
  <2>2. CASE m.values # <<>>
    BY <1>8, <1>10, <2>2 DEF OWInv, BuildInv
  <2> QED BY <2>1, <2>2
<1>18. build'.i \in 1..(Len(maps) + 1) /\ emit'[code'] # "installed"
  BY <1>3, <1>4, <1>8
<1>19. /\ image'.pairs \in Seq([pc : Int, off : Int])
       /\ image'.data \in Seq([off : Int, values : Seq(MapValues)])
  BY <1>9, <1>10
<1>20. maps' = maps
  BY <1>3
<1> HIDE DEF Pair, Datum
<1>21. BuildInv'
  BY <1>9, <1>12, <1>13, <1>14, <1>15, <1>16, <1>17, <1>18, <1>19, <1>20 DEF BuildInv
<1> QED BY <1>1, <1>2, <1>21, OWInvParts

\* The sets of addresses, and the effect of a collection on each
LEMMA Addresses ==
  /\ StackWords \subseteq Int /\ CallerWords \subseteq StackWords /\ DOMAIN Objects \subseteq CallerWords
  /\ Null \notin StackWords /\ Null \notin DOMAIN Forward /\ Fields \subseteq StackWords
  /\ DOMAIN Forward \cap StackWords = {} /\ DOMAIN Forward \subseteq Int
  /\ \A a \in DOMAIN Forward : Moved(a) \in DOMAIN Forward /\ Moved(a) = Forward[a]
  /\ \A a \in Int : Moved(a) \in Int
  /\ \A a : a \notin DOMAIN Forward => Moved(a) = a
  /\ Instances \subseteq DOMAIN Objects
  /\ \A o \in Instances : IsFiniteSet(Objects[o]) /\ Objects[o] \subseteq Fields
  /\ \A o, p \in Instances : Objects[o] \cap Objects[p] # {} => o = p
<1>1. /\ StackWords \subseteq Int /\ CallerWords \subseteq StackWords /\ DOMAIN Objects \subseteq CallerWords
      /\ Null \notin StackWords /\ Null \notin DOMAIN Forward
      /\ DOMAIN Forward \cap StackWords = {} /\ DOMAIN Forward \subseteq Int
  BY OopMapAssumption
<1>2. Instances \subseteq DOMAIN Objects
  BY DEF Instances
<1>3. \A o \in DOMAIN Objects : IsFiniteSet(Objects[o]) /\ Objects[o] \subseteq StackWords
  BY OopMapAssumption
<1>4. \A o \in Instances : IsFiniteSet(Objects[o]) /\ Objects[o] \subseteq Fields
  BY <1>2, <1>3 DEF Fields
<1>5. Fields \subseteq StackWords
  BY <1>2, <1>3 DEF Fields
<1>6. \A o, p \in Instances : Objects[o] \cap Objects[p] # {} => o = p
  BY <1>2, OopMapAssumption
<1>7. \A a \in DOMAIN Forward : Moved(a) \in DOMAIN Forward /\ Moved(a) = Forward[a]
  BY OopMapAssumption DEF Moved
<1>8. \A a : a \notin DOMAIN Forward => Moved(a) = a
  BY DEF Moved
<1>9. \A a \in Int : Moved(a) \in Int
  BY <1>1, <1>7, <1>8
<1> QED BY <1>1, <1>2, <1>4, <1>5, <1>6, <1>7, <1>8, <1>9

-----------------------------------------------------------------------------
\* The code and its oop maps are as they were, and the walk is under way or begins.
codeVars == <<runtime_flag, emit, maps, image, build, pc, code>>

\* What a walk can rely on: the map found is the one recorded, and an oop is taken for
\* a stack object if it is one. Either the flag is on, or the frame has none.
LEMMA DuringWalk ==
  ASSUME OWInv, walk \in {"derived", "oops", "update"}
  PROVE  /\ FoundMap = Recorded /\ reg_map = Regs
         /\ IsFrame(before, Recorded) /\ IsFrameOf(code, before, Recorded)
         /\ \A l \in Reached(before, Slots) : InFrame(before[l]) <=> before[l] \in CallerWords
         /\ Recorded \in Seq(MapValues) /\ Len(Recorded) \in Nat
         /\ DOMAIN Recorded = 1..Len(Recorded)
<1>1. emit[code] = "installed" /\ (code = "stack" => runtime_flag) /\ code \in {"plain", "stack"}
  BY DEF OWInv, FlagInv, OWTypeInv
<1>2. FoundMap = Recorded
  BY <1>1, FoundRecorded DEF OWInv
<1>3. reg_map = Regs /\ IsFrameOf(code, before, Recorded)
  BY DEF OWInv, FrameInv
<1>4. IsFrame(before, Recorded)
  BY <1>3 DEF IsFrameOf
<1>5. ASSUME NEW l \in Reached(before, Slots) PROVE InFrame(before[l]) <=> before[l] \in CallerWords
  <2>1. CASE code = "stack"
    BY <1>1, <2>1 DEF InFrame
  <2>2. CASE code = "plain"
    <3>1. \A k \in Slots : before[k] \notin DOMAIN Objects
      BY <1>3, <2>2 DEF IsFrameOf, Slots, Regs
    <3>2. Reached(before, Slots) \subseteq Slots
      <4>1. {} \in SUBSET Fields /\ Slots \cup {} = Slots
        OBVIOUS
      <4>2. \A k \in Slots : before[k] \notin Instances
        BY <3>1, Addresses
      <4>3. ClosedIn(before, Slots)
        BY <4>2 DEF ClosedIn
      <4>4. \A fs \in SUBSET Fields : ClosedIn(before, Slots \cup fs) => Reached(before, Slots) \subseteq Slots \cup fs
        BY ReachedLeast
      <4> HIDE DEF Slots, Reached, ClosedIn
      <4> QED BY <4>1, <4>3, <4>4
    <3>3. before[l] \in {Null} \cup DOMAIN Forward
      BY <1>4, <3>1, <3>2, FrameFacts
    <3>4. before[l] \notin CallerWords
      BY <3>3, Addresses
    <3> QED BY <3>4 DEF InFrame
  <2> QED BY <1>1, <2>1, <2>2
<1>6. Recorded \in Seq(MapValues)
  BY MapFacts DEF OWInv
<1>7. Len(Recorded) \in Nat /\ DOMAIN Recorded = 1..Len(Recorded)
  <2> HIDE DEF MapValues
  <2> QED BY <1>6
<1> QED BY <1>2, <1>3, <1>4, <1>5, <1>6, <1>7

LEMMA CodeKept ==
  ASSUME OWInv, UNCHANGED codeVars, walk # "compiling", walk' # "compiling"
  PROVE  /\ MapsInv' /\ FlagInv' /\ BuildInv' /\ Recorded' = Recorded /\ code' = code
         /\ Slots' = Slots /\ DerivedValues' = DerivedValues /\ Regs' = Regs
         /\ DerivedLocs' = DerivedLocs
         /\ \A i : DerivedAt(i)' = DerivedAt(i) /\ BaseAt(i)' = BaseAt(i)
<1>1. Recorded' = Recorded /\ code' = code
  BY DEF codeVars, Recorded
<1>2. MapsInv'
  BY DEF codeVars, OWInv, MapsInv
<1>3. FlagInv'
  BY DEF codeVars, OWInv, FlagInv
<1>4. BuildInv'
  BY DEF codeVars, OWInv, BuildInv
<1>5. /\ Slots' = Slots /\ DerivedValues' = DerivedValues /\ Regs' = Regs
      /\ DerivedLocs' = DerivedLocs
      /\ \A i : DerivedAt(i)' = DerivedAt(i) /\ BaseAt(i)' = BaseAt(i)
  BY <1>1 DEF Slots, DerivedValues, Regs, DerivedLocs, DerivedAt, BaseAt
<1> QED BY <1>1, <1>2, <1>3, <1>4, <1>5

\* Values of the map are at its positions.
LEMMA Positions ==
  ASSUME MapsInv
  PROVE  /\ DerivedValues \subseteq DOMAIN Recorded /\ ValuesOf(Recorded, "oop") \subseteq DOMAIN Recorded
         /\ \A i \in DOMAIN Recorded : i \in Int /\ i >= 1
         /\ DOMAIN Recorded = 1..Len(Recorded) /\ Len(Recorded) \in Nat
<1>1. Recorded \in Seq(MapValues)
  BY MapFacts
<1>2. DOMAIN Recorded = 1..Len(Recorded) /\ Len(Recorded) \in Nat
  <2> HIDE DEF MapValues
  <2> QED BY <1>1
<1>3. \A i \in DOMAIN Recorded : i \in Int /\ i >= 1
  BY <1>2
<1>4. DerivedValues \subseteq DOMAIN Recorded /\ ValuesOf(Recorded, "oop") \subseteq DOMAIN Recorded
  BY DEF DerivedValues, ValuesOf
<1> QED BY <1>2, <1>3, <1>4

\* A walk begins with nothing visited.
LEMMA BeginWalkKeeps ==
  ASSUME OWInv, BeginWalk
  PROVE  OWInv'
<1> USE DEF BeginWalk
<1>1. /\ MapsInv' /\ FlagInv' /\ BuildInv' /\ Recorded' = Recorded /\ code' = code
      /\ Slots' = Slots /\ DerivedValues' = DerivedValues /\ Regs' = Regs /\ DerivedLocs' = DerivedLocs
      /\ \A i : DerivedAt(i)' = DerivedAt(i) /\ BaseAt(i)' = BaseAt(i)
  BY CodeKept DEF codeVars
<1>2. OWTypeInv'
  <2>1. stack_oops' \subseteq Instances /\ table' \in Seq([loc : StackWords, offset : Int])
    OBVIOUS
  <2> QED BY <2>1 DEF OWInv, OWTypeInv
<1>3. FrameInv'
  <2>1. IsFrameOf(code, mem, Recorded) /\ before' = mem /\ reg_map' = Regs
    BY DEF OWInv, FrameInv, Regs
  <2> QED BY <1>1, <2>1 DEF FrameInv
<1>4. TableInv'
  <2>1. DOMAIN table' = {} /\ Tabled' = {}
    BY DEF Tabled
  <2>2. \A i \in DerivedValues : i >= 1
    BY Positions DEF OWInv
  <2> QED BY <1>1, <2>1, <2>2 DEF TableInv
<1>5. OopsInv'
  <2>1. fields' = <<>>
    BY DEF OWInv, OopsInv
  <2> QED BY <2>1 DEF OopsInv, Updated
<1>6. FrameUpdated'
  BY DEF FrameUpdated
<1> QED BY <1>1, <1>2, <1>3, <1>4, <1>5, <1>6, OWInvParts DEF WalkPart

LEMMA EndDerivedKeeps ==
  ASSUME OWInv, EndDerived
  PROVE  OWInv'
<1> USE DEF EndDerived
<1>1. /\ MapsInv' /\ FlagInv' /\ BuildInv' /\ Recorded' = Recorded /\ code' = code
      /\ Slots' = Slots /\ DerivedValues' = DerivedValues /\ Regs' = Regs /\ DerivedLocs' = DerivedLocs
      /\ \A i : DerivedAt(i)' = DerivedAt(i) /\ BaseAt(i)' = BaseAt(i)
  BY CodeKept DEF codeVars
<1>2. OWTypeInv'
  BY DEF OWInv, OWTypeInv
<1>3. FrameInv'
  BY <1>1, DuringWalk DEF FrameInv
<1>4. \A i \in DerivedValues : ~(i >= omv)
  <2>1. omv > Len(Recorded) /\ omv \in Nat
    BY DuringWalk DEF OWInv, OWTypeInv
  <2> QED BY <2>1, Positions DEF OWInv
<1>5. TableInv'
  <2>1. Tabled' = Tabled /\ \A i : Moves(i)' = Moves(i)
    BY <1>1 DEF Tabled, Moves
  <2> QED BY <1>1, <1>4, <2>1 DEF OWInv, TableInv
<1>6. OopsInv'
  <2>1. stack_oops' = {} /\ fields' = <<>> /\ Updated({})
    BY DEF OWInv, OopsInv
  <2>2. Visited' = {}
    <3>1. \A k \in ValuesOf(Recorded, "oop") : ~(k < 1)
      BY Positions DEF OWInv
    <3> QED BY <1>1, <2>1, <3>1 DEF Visited, FieldsMet
  <2>3. Updated({})'
    BY <1>1, <2>1 DEF Updated
  <2>4. Once(fields)' /\ ToSet(fields)' = {}
    BY <2>1 DEF Once, ToSet
  <2> QED BY <2>1, <2>2, <2>3, <2>4 DEF OopsInv
<1>7. FrameUpdated'
  BY DEF FrameUpdated
<1> QED BY <1>1, <1>2, <1>3, <1>5, <1>6, <1>7, OWInvParts DEF WalkPart

\* A derived pointer whose base may move goes to the table, the others stay.
LEMMA DerivedOopKeeps ==
  ASSUME OWInv, DerivedOop
  PROVE  OWInv'
<1>1. /\ walk = "derived" /\ walk' = "derived" /\ omv' = omv + 1
      /\ UNCHANGED <<runtime_flag, emit, maps, image, build, pc, code, reg_map, fields, stack_oops, walks, before>>
  BY DEF DerivedOop
<1>2. /\ MapsInv' /\ FlagInv' /\ BuildInv' /\ Recorded' = Recorded /\ code' = code
      /\ Slots' = Slots /\ DerivedValues' = DerivedValues /\ Regs' = Regs /\ DerivedLocs' = DerivedLocs
      /\ \A i : DerivedAt(i)' = DerivedAt(i) /\ BaseAt(i)' = BaseAt(i)
  BY <1>1, CodeKept DEF codeVars
<1>3. \A i : Moves(i)' = Moves(i)
  BY <1>1, <1>2 DEF Moves
<1>4. /\ FoundMap = Recorded /\ reg_map = Regs
      /\ IsFrame(before, Recorded) /\ IsFrameOf(code, before, Recorded)
      /\ \A l \in Slots : InFrame(before[l]) <=> before[l] \in CallerWords
  BY <1>1, DuringWalk, ReachedLeast
<1>5. /\ Slots \subseteq StackWords \ Fields /\ DerivedLocs \subseteq StackWords \ Fields
      /\ Slots \cap DerivedLocs = {}
      /\ \A i \in DerivedValues : BaseAt(i) \in Slots /\ DerivedAt(i) \in DerivedLocs
      /\ \A i, k \in DerivedValues : DerivedAt(i) = DerivedAt(k) => i = k
  BY <1>4, FrameFacts
<1>6. omv \in Nat /\ omv \in DOMAIN Recorded
      /\ \A i \in DerivedValues : i \in Int
  <2>1. omv \in Nat /\ omv <= Len(Recorded)
    BY <1>4 DEF OWInv, OWTypeInv, DerivedOop
  <2>2. \A i \in DerivedValues : i \in Int
    BY Positions DEF OWInv
  <2>3. omv >= 1
    BY <1>1 DEF OWInv, OopsInv
  <2> QED BY <2>1, <2>2, <2>3, Positions DEF OWInv
<1>7. /\ \A k \in DOMAIN table : \E i \in DerivedValues :
           /\ Moves(i) /\ table[k] = [loc |-> DerivedAt(i), offset |-> before[DerivedAt(i)] - before[BaseAt(i)]]
           /\ mem[DerivedAt(i)] = BaseAt(i)
      /\ \A j, k \in DOMAIN table : table[j].loc = table[k].loc => j = k
      /\ \A i \in DerivedValues : ~Moves(i) => mem[DerivedAt(i)] = before[DerivedAt(i)]
      /\ \A i \in DerivedValues : Moves(i) /\ DerivedAt(i) \notin Tabled => i >= omv /\ mem[DerivedAt(i)] = before[DerivedAt(i)]
      /\ \A i \in DerivedValues : DerivedAt(i) \in Tabled => i < omv
  BY <1>1 DEF OWInv, TableInv
<1>8. stack_oops = {} /\ fields = <<>> /\ \A l \in StackWords \ DerivedLocs : mem[l] = before[l]
  BY <1>1 DEF OWInv, OopsInv, Updated
<1>9. /\ FrameInv' /\ FrameUpdated'
  BY <1>1, <1>2, <1>4 DEF FrameInv, FrameUpdated
<1> DEFINE o == Recorded[omv]
           Taken == o.type = "derived" /\ mem[LocIn(Regs, o.content)] # Null /\ mem[LocIn(Regs, o.content)] \notin CallerWords
<1>10. o.type = "derived" => omv \in DerivedValues /\ LocIn(Regs, o.reg) = DerivedAt(omv) /\ LocIn(Regs, o.content) = BaseAt(omv)
  BY <1>6 DEF DerivedValues, ValuesOf, DerivedAt, BaseAt
<1>11. omv \in DerivedValues => (Moves(omv) <=> Taken)
  <2> SUFFICES ASSUME omv \in DerivedValues PROVE Moves(omv) <=> Taken
    OBVIOUS
  <2>1. o.type = "derived"
    BY DEF DerivedValues, ValuesOf
  <2>2. BaseAt(omv) \in StackWords \ DerivedLocs
    BY <1>5
  <2>3. mem[BaseAt(omv)] = before[BaseAt(omv)]
    BY <1>8, <2>2
  <2> QED BY <1>10, <2>1, <2>3 DEF Moves
<1>12. IF Taken
         THEN /\ table' = Append(table, [loc |-> LocIn(Regs, o.reg), offset |-> mem[LocIn(Regs, o.reg)] - mem[LocIn(Regs, o.content)]])
              /\ mem' = [mem EXCEPT ![LocIn(Regs, o.reg)] = LocIn(Regs, o.content)]
         ELSE UNCHANGED <<table, mem>>
  <2>1. o.type = "derived" => mem[LocIn(Regs, o.content)] = before[LocIn(Regs, o.content)] /\ LocIn(Regs, o.content) \in Slots
    BY <1>5, <1>8, <1>10
  <2>2. o.type = "derived" => (InFrame(mem[LocIn(Regs, o.content)]) <=> mem[LocIn(Regs, o.content)] \in CallerWords)
    BY <1>4, <2>1
  <2> QED BY <1>4, <2>2 DEF DerivedOop, Loc
<1>13. /\ mem \in [StackWords -> Int] /\ before \in [StackWords -> Int]
       /\ table \in Seq([loc : StackWords, offset : Int])
  BY DEF OWInv, OWTypeInv
<1>14. CASE Taken
  <2> DEFINE d == DerivedAt(omv)
             b == BaseAt(omv)
             e == [loc |-> d, offset |-> before[d] - before[b]]
             Entry == [loc : StackWords, offset : Int]
  <2>1. omv \in DerivedValues /\ Moves(omv)
    BY <1>10, <1>11, <1>14
  <2>2. d \notin Tabled
    BY <1>6, <1>7, <2>1
  <2>3. mem[d] = before[d] /\ mem[b] = before[b] /\ d \in StackWords /\ b \in StackWords /\ d \in DerivedLocs
    BY <1>5, <1>7, <1>8, <2>1, <2>2
  <2>4. table' = Append(table, e) /\ mem' = [mem EXCEPT ![d] = b]
    BY <1>10, <1>12, <1>14, <2>3
  <2>5. e \in Entry /\ e.loc = d
    BY <1>13, <2>3
  <2>6. /\ mem' \in [StackWords -> Int] /\ mem'[d] = b
        /\ \A l \in StackWords : l # d => mem'[l] = mem[l]
    BY <1>13, <2>3, <2>4, Addresses
  <2> HIDE DEF d, b, e
  <2>7. table \in Seq(Entry)
    BY <1>13
  <2> HIDE DEF Entry
  <2>8. /\ table' \in Seq(Entry) /\ Len(table) \in Nat
        /\ DOMAIN table = 1..Len(table) /\ DOMAIN table' = 1..(Len(table) + 1)
        /\ \A k \in DOMAIN table : table'[k] = table[k]
        /\ table'[Len(table) + 1] = e
    BY <2>4, <2>5, <2>7, AppendFacts
  <2>9. /\ \A k \in DOMAIN table' : k \in DOMAIN table \/ k = Len(table) + 1
        /\ \A k \in DOMAIN table : k \in DOMAIN table' /\ k # Len(table) + 1
        /\ Len(table) + 1 \in DOMAIN table'
    BY <2>8
  <2>10. Tabled' = Tabled \cup {d}
    BY <2>5, <2>8, <2>9 DEF Tabled
  <2>11. OWTypeInv'
    <3>1. table' \in Seq([loc : StackWords, offset : Int])
      BY <2>8 DEF Entry
    <3>2. omv' \in Nat
      BY <1>1, <1>6
    <3> QED BY <1>1, <2>6, <3>1, <3>2 DEF OWInv, OWTypeInv
  <2>12. ASSUME NEW k \in DOMAIN table'
         PROVE  \E i \in DerivedValues :
                  /\ Moves(i) /\ table'[k] = [loc |-> DerivedAt(i), offset |-> before[DerivedAt(i)] - before[BaseAt(i)]]
                  /\ mem'[DerivedAt(i)] = BaseAt(i)
    <3>1. CASE k \in DOMAIN table
      <4>1. PICK i \in DerivedValues :
                  /\ Moves(i) /\ table[k] = [loc |-> DerivedAt(i), offset |-> before[DerivedAt(i)] - before[BaseAt(i)]]
                  /\ mem[DerivedAt(i)] = BaseAt(i)
        BY <1>7, <3>1
      <4>2. DerivedAt(i) \in Tabled
        BY <3>1, <4>1 DEF Tabled
      <4>3. mem'[DerivedAt(i)] = mem[DerivedAt(i)]
        BY <1>5, <2>2, <2>6, <4>2
      <4> QED BY <2>8, <3>1, <4>1, <4>3
    <3>2. CASE k = Len(table) + 1
      BY <2>1, <2>6, <2>8, <3>2 DEF e, d, b
    <3> QED BY <2>9, <3>1, <3>2
  <2>13. ASSUME NEW j \in DOMAIN table', NEW k \in DOMAIN table', table'[j].loc = table'[k].loc PROVE j = k
    <3>1. \A i \in DOMAIN table : table'[i].loc # d
      BY <2>2, <2>8 DEF Tabled
    <3> QED BY <1>7, <2>5, <2>8, <2>9, <2>13, <3>1
  <2>14. \A i \in DerivedValues : i # omv => mem'[DerivedAt(i)] = mem[DerivedAt(i)]
    BY <1>5, <2>1, <2>6 DEF d
  <2>15. \A i \in DerivedValues : ~Moves(i) => mem'[DerivedAt(i)] = before[DerivedAt(i)]
    BY <1>7, <2>1, <2>14
  <2>16. \A i \in DerivedValues : Moves(i) /\ DerivedAt(i) \notin Tabled' => i >= omv' /\ mem'[DerivedAt(i)] = before[DerivedAt(i)]
    <3> SUFFICES ASSUME NEW i \in DerivedValues, Moves(i), DerivedAt(i) \notin Tabled'
                 PROVE  i >= omv' /\ mem'[DerivedAt(i)] = before[DerivedAt(i)]
      OBVIOUS
    <3>1. i # omv /\ DerivedAt(i) \notin Tabled
      BY <2>10 DEF d
    <3>2. i >= omv /\ mem[DerivedAt(i)] = before[DerivedAt(i)]
      BY <1>7, <3>1
    <3> QED BY <1>1, <1>6, <2>14, <3>1, <3>2
  <2>17. \A i \in DerivedValues : DerivedAt(i) \in Tabled' => i < omv'
    <3> SUFFICES ASSUME NEW i \in DerivedValues, DerivedAt(i) \in Tabled' PROVE i < omv'
      OBVIOUS
    <3>1. i < omv \/ i = omv
      BY <1>5, <1>7, <2>1, <2>10 DEF d
    <3> QED BY <1>1, <1>6, <3>1
  <2>18. TableInv'
    BY <1>1, <1>2, <1>3, <2>12, <2>13, <2>15, <2>16, <2>17 DEF TableInv
  <2>19. \A l \in StackWords \ DerivedLocs : mem'[l] = before[l]
    BY <1>8, <2>3, <2>6
  <2>20. OopsInv'
    BY <1>1, <1>2, <1>6, <1>8, <2>19 DEF OopsInv, Updated
  <2> QED BY <1>2, <1>9, <2>11, <2>18, <2>20, OWInvParts DEF WalkPart
<1>15. CASE ~Taken
  <2>1. table' = table /\ mem' = mem /\ Tabled' = Tabled
    BY <1>12, <1>15 DEF Tabled
  <2>2. OWTypeInv'
    BY <1>1, <1>6, <2>1 DEF OWInv, OWTypeInv
  <2>3. \A i \in DerivedValues : Moves(i) /\ DerivedAt(i) \notin Tabled => i >= omv + 1
    BY <1>6, <1>7, <1>11, <1>15
  <2>4. \A i \in DerivedValues : DerivedAt(i) \in Tabled => i < omv + 1
    BY <1>6, <1>7
  <2> HIDE DEF Taken
  <2>5. TableInv'
    BY <1>1, <1>2, <1>3, <1>7, <2>1, <2>3, <2>4 DEF TableInv
  <2>6. OopsInv'
    BY <1>1, <1>2, <1>6, <1>8, <2>1 DEF OopsInv, Updated
  <2> QED BY <1>2, <1>9, <2>2, <2>5, <2>6, OWInvParts DEF WalkPart
<1> QED BY <1>14, <1>15

\* What a walk over the oops knows
LEMMA DuringOops ==
  ASSUME OWInv, walk = "oops"
  PROVE  /\ mem \in [StackWords -> Int] /\ before \in [StackWords -> Int]
         /\ Slots \subseteq StackWords \ Fields /\ DerivedLocs \subseteq StackWords \ Fields
         /\ Slots \cap DerivedLocs = {} /\ Slots \subseteq Reached(before, Slots)
         /\ FieldsMet \subseteq Reached(before, Slots)
         /\ Reached(before, Slots) \subseteq StackWords \ DerivedLocs
         /\ \A l \in Reached(before, Slots) : before[l] \in {Null} \cup DOMAIN Forward \cup DOMAIN Objects
         /\ stack_oops \subseteq Instances
<1>1. IsFrame(before, Recorded)
  BY DuringWalk
<1>2. /\ Slots \subseteq StackWords \ Fields /\ DerivedLocs \subseteq StackWords \ Fields
      /\ Slots \cap DerivedLocs = {}
      /\ \A l \in Reached(before, Slots) : before[l] \in {Null} \cup DOMAIN Forward \cup DOMAIN Objects
  BY <1>1, FrameFacts
<1>3. /\ Slots \subseteq Reached(before, Slots) /\ Reached(before, Slots) \subseteq Slots \cup Fields
      /\ ClosedIn(before, Reached(before, Slots))
  BY ReachedLeast
<1>4. Reached(before, Slots) \subseteq StackWords \ DerivedLocs
  BY <1>2, <1>3, Addresses
<1>5. stack_oops \subseteq Instances
  BY DEF OWInv, OWTypeInv
<1>6. ASSUME NEW o \in stack_oops PROVE Objects[o] \subseteq Reached(before, Slots)
  <2>1. PICK l \in Reached(before, Slots) : before[l] = o
    BY DEF OWInv, OopsInv
  <2> QED BY <1>3, <1>5, <2>1 DEF ClosedIn
<1>7. FieldsMet \subseteq Reached(before, Slots)
  BY <1>6 DEF FieldsMet
<1> QED BY <1>2, <1>3, <1>4, <1>5, <1>7 DEF OWInv, OWTypeInv

\* A visit updates the location, and remembers a stack object met for the first time.
LEMMA VisitEffect ==
  ASSUME OWInv, walk = "oops", NEW l \in Reached(before, Slots), l \notin Visited,
         NEW rest \in Seq(Fields), Once(rest), ToSet(rest) \subseteq FieldsMet, Visit(l, rest)
  PROVE  /\ mem' \in [StackWords -> Int] /\ mem'[l] = Moved(before[l])
         /\ \A k \in StackWords : k # l => mem'[k] = mem[k]
         /\ fields' \in Seq(Fields) /\ Once(fields)' /\ ToSet(fields') \subseteq FieldsMet'
         /\ FieldsMet' \ ToSet(fields') = FieldsMet \ ToSet(rest)
         /\ stack_oops' \subseteq Instances /\ stack_oops \subseteq stack_oops'
         /\ before[l] \in Instances => before[l] \in stack_oops'
         /\ \A o \in stack_oops' : o \in stack_oops \/ o = before[l]
<1>1. /\ mem \in [StackWords -> Int] /\ before \in [StackWords -> Int]
      /\ l \in StackWords \ DerivedLocs
      /\ before[l] \in {Null} \cup DOMAIN Forward \cup DOMAIN Objects
      /\ stack_oops \subseteq Instances
  BY DuringOops
<1>2. InFrame(before[l]) <=> before[l] \in CallerWords
  BY DuringWalk
<1>3. mem[l] = before[l]
  BY <1>1 DEF OWInv, OopsInv, Updated
<1>4. CASE before[l] \in DOMAIN Objects
  <2> DEFINE o == before[l]
  <2>1. o \in CallerWords /\ o \notin DOMAIN Forward /\ Moved(o) = o
    BY <1>4, Addresses
  <2>2. fields' = StackOopDo(o).push \o rest /\ stack_oops' = StackOopDo(o).seen /\ mem' = mem
    BY <1>2, <1>3, <2>1 DEF Visit
  <2>3. mem'[l] = Moved(before[l])
    BY <1>3, <2>1, <2>2
  <2>4. CASE o \in TypeArrays \/ o \in stack_oops
    <3>1. fields' = <<>> \o rest /\ stack_oops' = stack_oops
      BY <2>2, <2>4 DEF StackOopDo
    <3>2. fields' = rest /\ FieldsMet' = FieldsMet
      BY <3>1 DEF FieldsMet
    <3>3. o \in Instances => o \in stack_oops
      BY <2>4 DEF Instances
    <3> HIDE DEF o
    <3> QED BY <1>1, <2>2, <2>3, <3>1, <3>2, <3>3 DEF o
  <2>5. CASE ~(o \in TypeArrays \/ o \in stack_oops)
    <3> DEFINE s == SetToSeq(Objects[o])
    <3>1. fields' = s \o rest /\ stack_oops' = stack_oops \cup {o}
      BY <2>2, <2>5 DEF StackOopDo
    <3>2. o \in Instances
      BY <1>4, <2>5 DEF Instances
    <3>3. IsFiniteSet(Objects[o]) /\ Objects[o] \subseteq Fields
      BY <3>2, Addresses
    <3>4. s \in Seq(Objects[o]) /\ ToSet(s) = Objects[o] /\ Once(s)
      BY <3>3, SetToSeqFacts
    <3> HIDE DEF s
    <3>5. s \in Seq(Fields)
      BY <3>3, <3>4
    <3>6. FieldsMet \cap Objects[o] = {}
      <4>1. \A p \in stack_oops : Objects[p] \cap Objects[o] = {}
        BY <1>1, <2>5, <3>2, Addresses
      <4> QED BY <4>1 DEF FieldsMet
    <3>7. fields' \in Seq(Fields) /\ ToSet(fields') = Objects[o] \cup ToSet(rest) /\ Once(fields')
      <4>1. ToSet(s) \cap ToSet(rest) = {}
        BY <3>4, <3>6
      <4>2. s \o rest \in Seq(Fields) /\ ToSet(s \o rest) = ToSet(s) \cup ToSet(rest) /\ Once(s \o rest)
        BY <3>4, <3>5, <4>1, ConcatFacts
      <4> QED BY <3>1, <3>4, <4>2
    <3>8. FieldsMet' = FieldsMet \cup Objects[o]
      BY <3>1 DEF FieldsMet
    <3>9. FieldsMet' \ ToSet(fields') = FieldsMet \ ToSet(rest) /\ ToSet(fields') \subseteq FieldsMet'
      BY <3>6, <3>7, <3>8
    <3>10. Once(fields)'
      BY <3>7 DEF Once
    <3> QED BY <1>1, <2>2, <2>3, <3>1, <3>2, <3>7, <3>9, <3>10
  <2> QED BY <2>4, <2>5
<1>5. CASE before[l] \notin DOMAIN Objects
  <2>1. before[l] = Null \/ before[l] \in DOMAIN Forward
    BY <1>1, <1>5
  <2>2. before[l] \notin CallerWords
    BY <2>1, Addresses
  <2>3. mem' = DoOop(mem, l) /\ fields' = rest /\ stack_oops' = stack_oops
    BY <1>2, <1>3, <2>2 DEF Visit
  <2>4. mem' \in [StackWords -> Int] /\ mem'[l] = Moved(before[l]) /\ \A k \in StackWords : k # l => mem'[k] = mem[k]
    <3>1. CASE before[l] = Null
      <4>1. mem' = [mem EXCEPT ![l] = Null] /\ Moved(Null) = Null
        BY <1>1, <1>3, <2>3, <3>1, Addresses DEF DoOop
      <4> QED BY <1>1, <3>1, <4>1 DEF Null
    <3>2. CASE before[l] \in DOMAIN Forward
      <4>1. mem' = [mem EXCEPT ![l] = Forward[before[l]]] /\ Moved(before[l]) = Forward[before[l]] /\ Moved(before[l]) \in Int
        BY <1>1, <1>3, <2>3, <3>2, Addresses DEF DoOop
      <4> QED BY <1>1, <4>1
    <3> QED BY <2>1, <3>1, <3>2
  <2>5. FieldsMet' = FieldsMet /\ before[l] \notin Instances
    BY <1>5, <2>3 DEF FieldsMet, Instances
  <2> QED BY <1>1, <2>3, <2>4, <2>5
<1> QED BY <1>4, <1>5

\* The step of a walk over the oops that visits a location
LEMMA VisitKeeps ==
  ASSUME OWInv, walk = "oops", walk' = "oops", UNCHANGED codeVars,
         UNCHANGED <<reg_map, table, walks, before>>, omv' \in Nat, omv' >= 1,
         NEW l \in Reached(before, Slots), l \notin Visited,
         NEW rest \in Seq(Fields), Once(rest), ToSet(rest) \subseteq FieldsMet, Visit(l, rest),
         Visited' = Visited \cup {l}
  PROVE  OWInv'
<1>1. /\ mem' \in [StackWords -> Int] /\ mem'[l] = Moved(before[l])
      /\ \A k \in StackWords : k # l => mem'[k] = mem[k]
      /\ fields' \in Seq(Fields) /\ Once(fields)' /\ ToSet(fields') \subseteq FieldsMet'
      /\ stack_oops' \subseteq Instances /\ stack_oops \subseteq stack_oops'
      /\ before[l] \in Instances => before[l] \in stack_oops'
      /\ \A o \in stack_oops' : o \in stack_oops \/ o = before[l]
  BY VisitEffect
<1>2. /\ MapsInv' /\ FlagInv' /\ BuildInv' /\ Recorded' = Recorded /\ code' = code
      /\ Slots' = Slots /\ DerivedValues' = DerivedValues /\ Regs' = Regs /\ DerivedLocs' = DerivedLocs
      /\ \A i : DerivedAt(i)' = DerivedAt(i) /\ BaseAt(i)' = BaseAt(i)
  BY CodeKept
<1>3. OWTypeInv'
  BY <1>1 DEF OWInv, OWTypeInv, codeVars
<1>4. FrameInv' /\ FrameUpdated'
  <2>1. IsFrameOf(code, before, Recorded) /\ reg_map = Regs
    BY DuringWalk
  <2> QED BY <1>2, <2>1 DEF FrameInv, FrameUpdated
<1>5. l \in StackWords \ DerivedLocs /\ DerivedLocs \subseteq StackWords
  BY DuringOops
<1>6. TableInv'
  <2>1. Tabled' = Tabled /\ \A i : Moves(i)' = Moves(i)
    BY <1>2 DEF Tabled, Moves
  <2>2. \A i \in DerivedValues : mem'[DerivedAt(i)] = mem[DerivedAt(i)]
    BY <1>1, <1>5 DEF DerivedLocs
  <2> QED BY <1>2, <2>1, <2>2 DEF OWInv, TableInv
<1>7. Updated(Visited)'
  <2>1. /\ \A k \in Visited : mem[k] = Moved(before[k])
        /\ \A k \in StackWords \ (Visited \cup DerivedLocs) : mem[k] = before[k]
    BY DEF OWInv, OopsInv, Updated
  <2>2. Visited \subseteq StackWords
    <3>1. {LocIn(Regs, Recorded[i].reg) : i \in {k \in ValuesOf(Recorded, "oop") : k < omv}} \subseteq Slots
      BY DEF Slots, OopLocs
    <3>2. Slots \subseteq StackWords /\ FieldsMet \subseteq StackWords
      BY DuringOops
    <3> QED BY <3>1, <3>2 DEF Visited
  <2>3. \A k \in Visited \cup {l} : mem'[k] = Moved(before[k])
    BY <1>1, <2>1, <2>2
  <2>4. \A k \in StackWords \ (Visited \cup {l} \cup DerivedLocs) : mem'[k] = before[k]
    BY <1>1, <2>1
  <2> QED BY <1>2, <2>3, <2>4 DEF Updated
<1>8. /\ \A k \in Visited : before[k] \in Instances => before[k] \in stack_oops
      /\ \A o \in stack_oops : \E k \in Reached(before, Slots) : before[k] = o
  BY DEF OWInv, OopsInv
<1>9. \A k \in Visited' : before[k] \in Instances => before[k] \in stack_oops'
  BY <1>1, <1>8
<1>10. \A o \in stack_oops' : \E k \in Reached(before, Slots) : before[k] = o
  BY <1>1, <1>8
<1>11. OopsInv'
  BY <1>1, <1>2, <1>7, <1>9, <1>10 DEF OopsInv
<1> QED BY <1>2, <1>3, <1>4, <1>6, <1>11, OWInvParts DEF WalkPart

\* OopClosureWalker visits each field of a stack object once.
LEMMA WalkElementsKeeps ==
  ASSUME OWInv, WalkElements
  PROVE  OWInv'
<1>1. /\ walk = "oops" /\ walk' = "oops" /\ fields # <<>> /\ Visit(Head(fields), Tail(fields))
      /\ UNCHANGED codeVars /\ UNCHANGED <<reg_map, table, walks, before>> /\ omv' = omv
  BY DEF WalkElements, codeVars
<1>2. fields \in Seq(Fields) /\ Once(fields) /\ ToSet(fields) \subseteq FieldsMet
  BY <1>1 DEF OWInv, OWTypeInv, OopsInv
<1>3. PICK l, rest : l = Head(fields) /\ rest = Tail(fields)
  OBVIOUS
<1>4. rest \in Seq(Fields) /\ Once(rest) /\ l \in ToSet(fields) /\ ToSet(rest) = ToSet(fields) \ {l}
  BY <1>1, <1>2, <1>3, TailFacts
<1>5. l \in Reached(before, Slots) /\ l \in Fields /\ l \notin Slots /\ l \in FieldsMet
  <2>1. FieldsMet \subseteq Fields
    BY <1>1, DuringOops DEF FieldsMet, Fields
  <2> QED BY <1>1, <1>2, <1>4, <2>1, DuringOops
<1>6. {LocIn(Regs, Recorded[i].reg) : i \in {k \in ValuesOf(Recorded, "oop") : k < omv}} \subseteq Slots
  BY DEF Slots, OopLocs
<1>7. l \notin Visited
  BY <1>4, <1>5, <1>6 DEF Visited
<1>8. ToSet(rest) \subseteq FieldsMet /\ Visit(l, rest)
  BY <1>1, <1>2, <1>3, <1>4
<1>9. FieldsMet' \ ToSet(fields') = FieldsMet \ ToSet(rest)
  BY <1>1, <1>4, <1>5, <1>7, <1>8, VisitEffect
<1>10. FieldsMet \ ToSet(rest) = (FieldsMet \ ToSet(fields)) \cup {l}
  BY <1>4, <1>5
<1>11. Recorded' = Recorded /\ Regs' = Regs
  BY <1>1, CodeKept
<1>12. Visited' = Visited \cup {l}
  BY <1>1, <1>9, <1>10, <1>11 DEF Visited
<1>13. omv' \in Nat /\ omv' >= 1
  BY <1>1 DEF OWInv, OWTypeInv, OopsInv
<1> QED BY <1>1, <1>4, <1>5, <1>7, <1>8, <1>12, <1>13, VisitKeeps

\* The second loop visits the oops of the map, one position after the other.
LEMMA OopValueKeeps ==
  ASSUME OWInv, OopValue
  PROVE  OWInv'
<1>1. /\ walk = "oops" /\ walk' = "oops" /\ fields = <<>> /\ omv' = omv + 1 /\ omv \in Nat
      /\ UNCHANGED codeVars /\ UNCHANGED <<reg_map, table, walks, before>>
  BY DEF OopValue, codeVars, OWInv, OWTypeInv
<1>2. FoundMap = Recorded /\ reg_map = Regs /\ IsFrame(before, Recorded) /\ IsFrameOf(code, before, Recorded)
  BY <1>1, DuringWalk
<1>3. omv \in Int /\ omv' \in Nat /\ omv' >= 1 /\ omv <= Len(Recorded) /\ omv >= 1
  BY <1>1, <1>2 DEF OopValue, OWInv, OopsInv
<1>4. omv \in DOMAIN Recorded
  BY <1>1, <1>3, Positions DEF OWInv
<1>5. /\ MapsInv' /\ FlagInv' /\ BuildInv' /\ Recorded' = Recorded /\ code' = code
      /\ Slots' = Slots /\ DerivedValues' = DerivedValues /\ Regs' = Regs /\ DerivedLocs' = DerivedLocs
      /\ \A i : DerivedAt(i)' = DerivedAt(i) /\ BaseAt(i)' = BaseAt(i)
  BY <1>1, CodeKept
<1> DEFINE At(i) == LocIn(Regs, Recorded[i].reg)
           oops == ValuesOf(Recorded, "oop")
           SlotsBefore(n) == {At(i) : i \in {k \in oops : k < n}}
<1>6. Visited = SlotsBefore(omv) \cup FieldsMet /\ Visited' = SlotsBefore(omv + 1) \cup (FieldsMet' \ ToSet(fields'))
  <2>1. ToSet(fields) = {}
    BY <1>1 DEF ToSet
  <2> QED BY <1>1, <1>5, <2>1 DEF Visited
<1>7. \A k \in oops : k \in Int
  BY Positions DEF OWInv
<1>8. omv \in oops <=> Recorded[omv].type = "oop"
  BY <1>4 DEF ValuesOf
<1>9. /\ \A i \in oops : At(i) \in Slots
      /\ \A i, k \in oops : At(i) = At(k) => i = k
  <2>1. \A i \in oops : At(i) \in Slots
    BY DEF Slots, OopLocs
  <2>2. \A i, k \in oops : At(i) = At(k) => i = k
    BY <1>2, FrameFacts
  <2> QED BY <2>1, <2>2
<1> HIDE DEF oops, At
<1>10. omv \in oops => SlotsBefore(omv + 1) = SlotsBefore(omv) \cup {At(omv)}
  <2>1. omv \in oops => {k \in oops : k < omv + 1} = {k \in oops : k < omv} \cup {omv}
    <3>1. \A k \in oops : k < omv + 1 <=> (k < omv \/ k = omv)
      BY <1>3, <1>7
    <3>2. omv \in oops => omv < omv + 1
      BY <1>3
    <3> QED BY <3>1, <3>2
  <2> QED BY <2>1
<1>11. omv \notin oops => SlotsBefore(omv + 1) = SlotsBefore(omv)
  <2>1. omv \notin oops => {k \in oops : k < omv + 1} = {k \in oops : k < omv}
    BY <1>3, <1>7
  <2> QED BY <2>1
<1>12. omv \in oops => At(omv) \in Reached(before, Slots) /\ At(omv) \notin Visited
  <2> SUFFICES ASSUME omv \in oops PROVE At(omv) \in Reached(before, Slots) /\ At(omv) \notin Visited
    OBVIOUS
  <2>1. At(omv) \in Slots
    BY <1>9
  <2>2. FieldsMet \subseteq Fields
    BY <1>1, DuringOops DEF FieldsMet, Fields
  <2>3. At(omv) \notin SlotsBefore(omv)
    <3>1. \A k \in oops : k < omv => At(k) # At(omv)
      BY <1>3, <1>7, <1>9
    <3> QED BY <3>1
  <2> QED BY <1>1, <1>6, <2>1, <2>2, <2>3, DuringOops
<1>13. CASE Recorded[omv].type = "oop" /\ mem[Loc(Recorded[omv].reg)] # Null
  <2>1. PICK l : l = At(omv)
    OBVIOUS
  <2>2. Visit(l, <<>>)
    BY <1>2, <1>13, <2>1 DEF OopValue, Loc, At
  <2>3. <<>> \in Seq(Fields) /\ Once(<<>>) /\ ToSet(<<>>) = {}
    BY DEF Once, ToSet
  <2>4. l \in Reached(before, Slots) /\ l \notin Visited /\ omv \in oops
    BY <1>8, <1>12, <1>13, <2>1
  <2>5. FieldsMet' \ ToSet(fields') = FieldsMet \ ToSet(<<>>)
    BY <1>1, <2>2, <2>3, <2>4, VisitEffect
  <2>6. Visited' = Visited \cup {l}
    BY <1>6, <1>10, <2>1, <2>3, <2>4, <2>5
  <2> QED BY <1>1, <1>3, <2>2, <2>3, <2>4, <2>6, VisitKeeps
<1>14. CASE ~(Recorded[omv].type = "oop" /\ mem[Loc(Recorded[omv].reg)] # Null)
  <2>1. mem' = mem /\ fields' = fields /\ stack_oops' = stack_oops
    BY <1>2, <1>14 DEF OopValue
  <2>2. OWTypeInv'
    BY <1>1, <1>3, <2>1 DEF OWInv, OWTypeInv, codeVars
  <2>3. FrameInv' /\ FrameUpdated'
    BY <1>1, <1>2, <1>5 DEF FrameInv, FrameUpdated
  <2>4. Tabled' = Tabled /\ \A i : Moves(i)' = Moves(i)
    BY <1>1, <1>5 DEF Tabled, Moves
  <2>5. TableInv'
    BY <1>1, <1>5, <2>1, <2>4 DEF OWInv, TableInv
  <2>6. FieldsMet' = FieldsMet /\ ToSet(fields') = {}
    BY <1>1, <2>1 DEF FieldsMet, ToSet
  <2> HIDE DEF SlotsBefore
  <2>7. \A k \in Visited' : k \in Visited \/ (k = At(omv) /\ omv \in oops)
    <3>1. FieldsMet' \ ToSet(fields') = FieldsMet
      BY <2>6
    <3> QED BY <1>6, <1>10, <1>11, <3>1
  <2>8. Visited \subseteq Visited'
    BY <1>6, <1>10, <1>11, <2>6
  <2>9. omv \in oops => At(omv) \in StackWords \ DerivedLocs /\ before[At(omv)] = Null /\ mem[At(omv)] = Null
    <3> SUFFICES ASSUME omv \in oops
                 PROVE  At(omv) \in StackWords \ DerivedLocs /\ before[At(omv)] = Null /\ mem[At(omv)] = Null
      OBVIOUS
    <3>1. mem[At(omv)] = Null
      BY <1>2, <1>8, <1>14 DEF Loc, At
    <3>2. At(omv) \in StackWords \ DerivedLocs
      BY <1>1, <1>12, DuringOops
    <3>3. mem[At(omv)] = before[At(omv)]
      BY <1>1, <1>12, <3>2 DEF OWInv, OopsInv, Updated
    <3> QED BY <3>1, <3>2, <3>3
  <2>10. Moved(Null) = Null /\ Null \notin Instances
    BY Addresses
  <2>11. /\ Updated(Visited) /\ ToSet(fields) \subseteq FieldsMet /\ Once(fields)
         /\ \A l \in Visited : before[l] \in Instances => before[l] \in stack_oops
         /\ \A o \in stack_oops : \E l \in Reached(before, Slots) : before[l] = o
    BY <1>1 DEF OWInv, OopsInv
  <2>12. Updated(Visited)'
    <3>1. \A k \in Visited' : mem[k] = Moved(before[k])
      BY <2>7, <2>9, <2>10, <2>11 DEF Updated
    <3>2. \A k \in StackWords \ (Visited' \cup DerivedLocs) : mem[k] = before[k]
      BY <2>8, <2>11 DEF Updated
    <3> QED BY <1>1, <1>5, <2>1, <3>1, <3>2 DEF Updated
  <2>13. \A l \in Visited' : before[l] \in Instances => before[l] \in stack_oops
    BY <2>7, <2>9, <2>10, <2>11
  <2>14. Once(fields)' /\ ToSet(fields') \subseteq FieldsMet'
    BY <2>1, <2>6, <2>11 DEF Once
  <2>15. OopsInv'
    BY <1>1, <1>3, <1>5, <2>1, <2>11, <2>12, <2>13, <2>14 DEF OopsInv
  <2> QED BY <1>5, <2>2, <2>3, <2>5, <2>15, OWInvParts DEF WalkPart
<1> QED BY <1>13, <1>14

\* When the second loop ends, all that can be reached has been visited.
LEMMA EndOopsKeeps ==
  ASSUME OWInv, EndOops
  PROVE  OWInv'
<1> USE DEF EndOops
<1>1. /\ MapsInv' /\ FlagInv' /\ BuildInv' /\ Recorded' = Recorded /\ code' = code
      /\ Slots' = Slots /\ DerivedValues' = DerivedValues /\ Regs' = Regs /\ DerivedLocs' = DerivedLocs
      /\ \A i : DerivedAt(i)' = DerivedAt(i) /\ BaseAt(i)' = BaseAt(i)
  BY CodeKept DEF codeVars
<1>2. OWTypeInv'
  BY DEF OWInv, OWTypeInv
<1>3. FrameInv' /\ FrameUpdated'
  BY <1>1, DuringWalk DEF FrameInv, FrameUpdated
<1>4. TableInv'
  <2>1. Tabled' = Tabled /\ \A i : Moves(i)' = Moves(i)
    BY <1>1 DEF Tabled, Moves
  <2> QED BY <1>1, <2>1 DEF OWInv, TableInv
<1>5. Visited = Slots \cup FieldsMet
  <2>1. \A k \in ValuesOf(Recorded, "oop") : k < omv
    <3>1. omv > Len(Recorded) /\ omv \in Nat
      BY DuringWalk DEF OWInv, OWTypeInv
    <3> QED BY <3>1, Positions DEF OWInv
  <2>2. ToSet(fields) = {}
    BY DEF ToSet
  <2> QED BY <2>1, <2>2 DEF Visited, Slots, OopLocs
<1>6. /\ Updated(Visited)
      /\ \A l \in Visited : before[l] \in Instances => before[l] \in stack_oops
  BY DEF OWInv, OopsInv
<1>7. Visited = Reached(before, Slots)
  <2>1. Visited \subseteq Reached(before, Slots)
    BY <1>5, DuringOops
  <2>2. ClosedIn(before, Slots \cup FieldsMet)
    <3>1. \A o \in stack_oops : Objects[o] \subseteq FieldsMet
      BY DEF FieldsMet
    <3> QED BY <1>5, <1>6, <3>1 DEF ClosedIn
  <2>3. FieldsMet \in SUBSET Fields
    BY DuringOops DEF FieldsMet, Fields
  <2>4. Reached(before, Slots) \subseteq Slots \cup FieldsMet
    BY <2>2, <2>3, ReachedLeast
  <2> QED BY <1>5, <2>1, <2>4
<1>8. Updated(Reached(before, Slots))'
  BY <1>1, <1>6, <1>7 DEF Updated
<1>9. OopsInv'
  BY <1>8 DEF OopsInv
<1> QED BY <1>1, <1>2, <1>3, <1>4, <1>9, OWInvParts DEF WalkPart

\* What is known once the oops have been updated
LEMMA DuringUpdate ==
  ASSUME OWInv, walk = "update"
  PROVE  /\ mem \in [StackWords -> Int] /\ before \in [StackWords -> Int]
         /\ Slots \subseteq Reached(before, Slots) /\ Reached(before, Slots) \subseteq Slots \cup Fields
         /\ Slots \cup Fields \subseteq StackWords \ DerivedLocs /\ DerivedLocs \subseteq StackWords
         /\ \A l \in Reached(before, Slots) : before[l] \in {Null} \cup DOMAIN Forward \cup DOMAIN Objects
         /\ \A i \in DerivedValues : BaseAt(i) \in Slots /\ DerivedAt(i) \in DerivedLocs
         /\ \A i, k \in DerivedValues : DerivedAt(i) = DerivedAt(k) => i = k
         /\ \A l \in Reached(before, Slots) : mem[l] = Moved(before[l])
         /\ \A l \in StackWords \ (Reached(before, Slots) \cup DerivedLocs) : mem[l] = before[l]
<1>1. IsFrame(before, Recorded)
  BY DuringWalk
<1>2. /\ Slots \subseteq StackWords \ Fields /\ DerivedLocs \subseteq StackWords \ Fields
      /\ Slots \cap DerivedLocs = {}
      /\ \A l \in Reached(before, Slots) : before[l] \in {Null} \cup DOMAIN Forward \cup DOMAIN Objects
      /\ \A i \in DerivedValues : BaseAt(i) \in Slots /\ DerivedAt(i) \in DerivedLocs
      /\ \A i, k \in DerivedValues : DerivedAt(i) = DerivedAt(k) => i = k
  BY <1>1, FrameFacts
<1>3. Slots \cup Fields \subseteq StackWords \ DerivedLocs
  BY <1>2, Addresses
<1>4. Slots \subseteq Reached(before, Slots) /\ Reached(before, Slots) \subseteq Slots \cup Fields
  BY ReachedLeast
<1>5. /\ \A l \in Reached(before, Slots) : mem[l] = Moved(before[l])
      /\ \A l \in StackWords \ (Reached(before, Slots) \cup DerivedLocs) : mem[l] = before[l]
  BY DEF OWInv, OopsInv, Updated
<1>6. mem \in [StackWords -> Int] /\ before \in [StackWords -> Int]
  BY DEF OWInv, OWTypeInv
<1>7. DerivedLocs \subseteq StackWords
  BY <1>2
<1> QED BY <1>2, <1>3, <1>4, <1>5, <1>6, <1>7

\* A sequence without its last element
LEMMA FrontFacts ==
  ASSUME NEW S, NEW s \in Seq(S), s # <<>>
  PROVE  /\ Front(s) \in Seq(S) /\ DOMAIN Front(s) = DOMAIN s \ {Len(s)} /\ Len(s) \in DOMAIN s
         /\ \A k \in DOMAIN Front(s) : Front(s)[k] = s[k]
<1>1. Len(s) \in Nat /\ Len(s) >= 1 /\ DOMAIN s = 1..Len(s)
  OBVIOUS
<1>2. /\ Front(s) \in Seq(S) /\ DOMAIN Front(s) = 1..(Len(s) - 1)
      /\ \A k \in 1..(Len(s) - 1) : Front(s)[k] = s[k]
  BY <1>1 DEF Front
<1>3. 1..(Len(s) - 1) = 1..Len(s) \ {Len(s)}
  BY <1>1
<1> QED BY <1>1, <1>2, <1>3

\* update_pointers puts a derived pointer at its offset from the base that has moved.
LEMMA UpdatePointersKeeps ==
  ASSUME OWInv, UpdatePointers
  PROVE  OWInv'
<1>1. /\ walk = "update" /\ walk' = "update" /\ table # <<>> /\ table' = Front(table)
      /\ UNCHANGED codeVars /\ UNCHANGED <<reg_map, omv, fields, stack_oops, walks, before>>
  BY DEF UpdatePointers, codeVars
<1>2. /\ MapsInv' /\ FlagInv' /\ BuildInv' /\ Recorded' = Recorded /\ code' = code
      /\ Slots' = Slots /\ DerivedValues' = DerivedValues /\ Regs' = Regs /\ DerivedLocs' = DerivedLocs
      /\ \A i : DerivedAt(i)' = DerivedAt(i) /\ BaseAt(i)' = BaseAt(i)
  BY <1>1, CodeKept
<1>3. FrameInv' /\ FrameUpdated'
  BY <1>1, <1>2, DuringWalk DEF FrameInv, FrameUpdated
<1>4. /\ \A k \in DOMAIN table : \E i \in DerivedValues :
           /\ Moves(i) /\ table[k] = [loc |-> DerivedAt(i), offset |-> before[DerivedAt(i)] - before[BaseAt(i)]]
           /\ mem[DerivedAt(i)] = BaseAt(i)
      /\ \A j, k \in DOMAIN table : table[j].loc = table[k].loc => j = k
      /\ \A i \in DerivedValues : ~Moves(i) => mem[DerivedAt(i)] = before[DerivedAt(i)]
      /\ \A i \in DerivedValues : Moves(i) /\ DerivedAt(i) \notin Tabled =>
           mem[DerivedAt(i)] = Moved(before[BaseAt(i)]) + (before[DerivedAt(i)] - before[BaseAt(i)])
  BY <1>1 DEF OWInv, TableInv
<1>5. table \in Seq([loc : StackWords, offset : Int])
  BY DEF OWInv, OWTypeInv
<1>6. /\ table' \in Seq([loc : StackWords, offset : Int])
      /\ DOMAIN table' = DOMAIN table \ {Len(table)} /\ Len(table) \in DOMAIN table
      /\ \A k \in DOMAIN table' : table'[k] = table[k]
  <2> DEFINE Entry == [loc : StackWords, offset : Int]
  <2>1. table \in Seq(Entry)
    BY <1>5
  <2> HIDE DEF Entry
  <2>2. /\ table' \in Seq(Entry)
        /\ DOMAIN table' = DOMAIN table \ {Len(table)} /\ Len(table) \in DOMAIN table
        /\ \A k \in DOMAIN table' : table'[k] = table[k]
    BY <1>1, <2>1, FrontFacts
  <2> QED BY <2>2 DEF Entry
<1>7. PICK n \in DOMAIN table : n = Len(table)
  BY <1>6
<1>8. PICK p \in DerivedValues :
           /\ Moves(p) /\ table[n] = [loc |-> DerivedAt(p), offset |-> before[DerivedAt(p)] - before[BaseAt(p)]]
           /\ mem[DerivedAt(p)] = BaseAt(p)
  BY <1>4
<1>9. PICK d : d = DerivedAt(p)
  OBVIOUS
<1>10. /\ mem \in [StackWords -> Int] /\ before \in [StackWords -> Int]
       /\ Slots \subseteq Reached(before, Slots) /\ Reached(before, Slots) \subseteq StackWords \ DerivedLocs
       /\ \A i \in DerivedValues : BaseAt(i) \in Slots /\ DerivedAt(i) \in DerivedLocs
       /\ \A i, k \in DerivedValues : DerivedAt(i) = DerivedAt(k) => i = k
       /\ \A l \in Reached(before, Slots) : mem[l] = Moved(before[l])
       /\ \A l \in StackWords \ (Reached(before, Slots) \cup DerivedLocs) : mem[l] = before[l]
       /\ DerivedLocs \subseteq StackWords
  BY <1>1, DuringUpdate
<1>11. d \in StackWords /\ d \in DerivedLocs /\ BaseAt(p) \in StackWords /\ mem[BaseAt(p)] = Moved(before[BaseAt(p)])
  BY <1>9, <1>10
<1> DEFINE v == Moved(before[BaseAt(p)]) + (before[DerivedAt(p)] - before[BaseAt(p)])
<1>12. v \in Int
  <2>1. Moved(before[BaseAt(p)]) \in Int /\ before[DerivedAt(p)] \in Int /\ before[BaseAt(p)] \in Int
    BY <1>9, <1>10, <1>11, Addresses
  <2> QED BY <2>1
<1>13. mem' = [mem EXCEPT ![d] = v]
  <2>1. Last(table).loc = d /\ Last(table).offset = before[DerivedAt(p)] - before[BaseAt(p)]
    BY <1>7, <1>8, <1>9 DEF Last
  <2> QED BY <1>8, <1>9, <1>11, <2>1 DEF UpdatePointers
<1>14. /\ mem' \in [StackWords -> Int] /\ mem'[d] = v
       /\ \A l \in StackWords : l # d => mem'[l] = mem[l]
  BY <1>10, <1>11, <1>12, <1>13
<1> HIDE DEF v
<1>15. OWTypeInv'
  BY <1>1, <1>6, <1>14 DEF OWInv, OWTypeInv, codeVars
<1>16. Tabled' = Tabled \ {d}
  <2>1. table[n].loc = d
    BY <1>8, <1>9
  <2>2. \A k \in DOMAIN table' : table'[k] = table[k] /\ k \in DOMAIN table /\ table[k].loc # d
    BY <1>4, <1>6, <1>7, <2>1
  <2>3. \A k \in DOMAIN table : k \in DOMAIN table' \/ table[k].loc = d
    BY <1>6, <1>7, <2>1
  <2> QED BY <2>2, <2>3 DEF Tabled
<1>17. \A i \in DerivedValues : i # p => DerivedAt(i) # d /\ mem'[DerivedAt(i)] = mem[DerivedAt(i)]
  BY <1>9, <1>10, <1>14
<1>18. ASSUME NEW k \in DOMAIN table'
       PROVE  \E i \in DerivedValues :
                /\ Moves(i) /\ table'[k] = [loc |-> DerivedAt(i), offset |-> before[DerivedAt(i)] - before[BaseAt(i)]]
                /\ mem'[DerivedAt(i)] = BaseAt(i)
  <2>1. k \in DOMAIN table /\ k # n /\ table'[k] = table[k]
    BY <1>6, <1>7
  <2>2. PICK i \in DerivedValues :
                /\ Moves(i) /\ table[k] = [loc |-> DerivedAt(i), offset |-> before[DerivedAt(i)] - before[BaseAt(i)]]
                /\ mem[DerivedAt(i)] = BaseAt(i)
    BY <1>4, <2>1
  <2>3. i # p
    <3>1. table[k].loc # table[n].loc
      BY <1>4, <2>1
    <3> QED BY <1>8, <2>2, <3>1
  <2> QED BY <1>17, <2>1, <2>2, <2>3
<1>19. \A j, k \in DOMAIN table' : table'[j].loc = table'[k].loc => j = k
  BY <1>4, <1>6
<1>20. \A i \in DerivedValues : ~Moves(i) => mem'[DerivedAt(i)] = before[DerivedAt(i)]
  BY <1>4, <1>8, <1>17
<1>21. \A i \in DerivedValues : Moves(i) /\ DerivedAt(i) \notin Tabled' =>
         mem'[DerivedAt(i)] = Moved(before[BaseAt(i)]) + (before[DerivedAt(i)] - before[BaseAt(i)])
  <2> SUFFICES ASSUME NEW i \in DerivedValues, Moves(i), DerivedAt(i) \notin Tabled'
               PROVE  mem'[DerivedAt(i)] = Moved(before[BaseAt(i)]) + (before[DerivedAt(i)] - before[BaseAt(i)])
    OBVIOUS
  <2>1. CASE i = p
    BY <1>9, <1>14, <2>1 DEF v
  <2>2. CASE i # p
    <3>1. DerivedAt(i) \notin Tabled
      BY <1>16, <1>17, <2>2
    <3> QED BY <1>4, <1>17, <2>2, <3>1
  <2> QED BY <2>1, <2>2
<1>22. TableInv'
  <2>1. \A i : Moves(i)' = Moves(i)
    BY <1>1, <1>2 DEF Moves
  <2> QED BY <1>1, <1>2, <1>18, <1>19, <1>20, <1>21, <2>1 DEF TableInv
<1>23. Updated(Reached(before, Slots))'
  <2>1. \A l \in Reached(before, Slots) : mem'[l] = Moved(before[l])
    BY <1>10, <1>11, <1>14
  <2>2. \A l \in StackWords \ (Reached(before, Slots) \cup DerivedLocs) : mem'[l] = before[l]
    BY <1>10, <1>11, <1>14
  <2> QED BY <1>1, <1>2, <2>1, <2>2 DEF Updated
<1>24. OopsInv'
  BY <1>1, <1>23 DEF OWInv, OopsInv
<1> QED BY <1>2, <1>3, <1>15, <1>22, <1>24, OWInvParts DEF WalkPart

\* A walk that has ended has updated the frame, which is a frame again.
LEMMA EndWalkKeeps ==
  ASSUME OWInv, EndWalk
  PROVE  OWInv'
<1> USE DEF EndWalk
<1>1. /\ MapsInv' /\ FlagInv' /\ BuildInv' /\ Recorded' = Recorded /\ code' = code
      /\ Slots' = Slots /\ DerivedValues' = DerivedValues /\ Regs' = Regs /\ DerivedLocs' = DerivedLocs
      /\ \A i : DerivedAt(i)' = DerivedAt(i) /\ BaseAt(i)' = BaseAt(i)
  BY CodeKept DEF codeVars
<1>2. OWTypeInv'
  BY DEF OWInv, OWTypeInv
<1>3. TableInv'
  BY DEF TableInv
<1>4. OopsInv'
  <2>1. reg_map = Regs /\ fields = <<>>
    BY DuringWalk DEF OWInv, OopsInv
  <2> QED BY <1>1, <2>1 DEF OopsInv
<1>5. reg_map = Regs /\ IsFrame(before, Recorded) /\ IsFrameOf(code, before, Recorded)
  BY DuringWalk
<1>6. /\ mem \in [StackWords -> Int] /\ before \in [StackWords -> Int]
      /\ Slots \subseteq Reached(before, Slots) /\ Reached(before, Slots) \subseteq Slots \cup Fields
      /\ Slots \cup Fields \subseteq StackWords \ DerivedLocs /\ DerivedLocs \subseteq StackWords
      /\ \A l \in Reached(before, Slots) : before[l] \in {Null} \cup DOMAIN Forward \cup DOMAIN Objects
      /\ \A i \in DerivedValues : BaseAt(i) \in Slots /\ DerivedAt(i) \in DerivedLocs
      /\ \A l \in Reached(before, Slots) : mem[l] = Moved(before[l])
      /\ \A l \in StackWords \ (Reached(before, Slots) \cup DerivedLocs) : mem[l] = before[l]
  BY DuringUpdate
<1>7. Reached(mem, Slots) = Reached(before, Slots)
  <2>1. ASSUME NEW l \in Slots \cup Fields, mem[l] \in Instances \/ before[l] \in Instances
        PROVE  mem[l] = before[l]
    <3>1. CASE l \in Reached(before, Slots)
      <4>1. mem[l] = Moved(before[l])
        BY <1>6, <3>1
      <4>2. before[l] \notin DOMAIN Forward
        BY <2>1, <4>1, Addresses
      <4> QED BY <4>1, <4>2, Addresses
    <3>2. CASE l \notin Reached(before, Slots)
      BY <1>6, <3>2
    <3> QED BY <3>1, <3>2
  <2> QED BY <2>1, ReachedSame
<1>8. FrameInv'
  <2>1. \A l \in Reached(mem, Slots) : mem[l] \in {Null} \cup DOMAIN Forward \cup DOMAIN Objects
    BY <1>6, <1>7, Addresses
  <2>2. IsFrame(mem, Recorded)
    BY <1>5, <2>1 DEF IsFrame, Slots, Regs
  <2>3. code = "plain" => \A l \in Slots : mem[l] \notin DOMAIN Objects
    <3>1. code = "plain" => \A l \in Slots : before[l] \notin DOMAIN Objects
      BY <1>5 DEF IsFrameOf, Slots, Regs
    <3>2. ASSUME NEW l \in Slots PROVE mem[l] = before[l] \/ mem[l] \in DOMAIN Forward
      BY <1>6, Addresses
    <3> QED BY <3>1, <3>2, Addresses
  <2>4. IsFrameOf(code, mem, Recorded)
    BY <2>2, <2>3 DEF IsFrameOf, Slots, Regs
  <2> QED BY <1>1, <2>4 DEF FrameInv
<1>9. ASSUME NEW i \in DerivedValues
      PROVE  mem[DerivedAt(i)] - mem[BaseAt(i)] = before[DerivedAt(i)] - before[BaseAt(i)]
  <2>1. /\ BaseAt(i) \in StackWords /\ DerivedAt(i) \in StackWords
        /\ mem[BaseAt(i)] = Moved(before[BaseAt(i)])
    BY <1>6
  <2>2. before[DerivedAt(i)] \in Int /\ before[BaseAt(i)] \in Int /\ Moved(before[BaseAt(i)]) \in Int
    BY <1>6, <2>1, Addresses
  <2>3. CASE Moves(i)
    <3>1. Tabled = {}
      BY DEF Tabled
    <3>2. mem[DerivedAt(i)] = Moved(before[BaseAt(i)]) + (before[DerivedAt(i)] - before[BaseAt(i)])
      BY <2>3, <3>1 DEF OWInv, TableInv
    <3> QED BY <2>1, <2>2, <3>2
  <2>4. CASE ~Moves(i)
    <3>1. mem[DerivedAt(i)] = before[DerivedAt(i)]
      BY <2>4 DEF OWInv, TableInv
    <3>2. before[BaseAt(i)] \notin DOMAIN Forward
      BY <2>4, Addresses DEF Moves
    <3> QED BY <2>1, <3>1, <3>2, Addresses
  <2> QED BY <2>3, <2>4
<1>10. FrameUpdated'
  <2>1. /\ \A l \in Reached(before, Slots) : mem[l] = Moved(before[l])
        /\ \A l \in StackWords \ Reached(before, Slots) : (\A i \in DerivedValues : DerivedAt(i) # l) => mem[l] = before[l]
    BY <1>6 DEF DerivedLocs
  <2>2. /\ OopLocs(reg_map, Recorded) = Slots /\ ValuesOf(Recorded, "derived") = DerivedValues
        /\ \A i : Loc(Recorded[i].reg) = DerivedAt(i) /\ Loc(Recorded[i].content) = BaseAt(i)
    BY <1>5 DEF Slots, DerivedValues, Loc, DerivedAt, BaseAt
  <2>3. /\ reg_map' = reg_map /\ before' = before /\ mem' = mem
        /\ \A i : Loc(Recorded[i].reg)' = Loc(Recorded[i].reg) /\ Loc(Recorded[i].content)' = Loc(Recorded[i].content)
    BY <1>1 DEF Loc
  <2> QED BY <1>1, <1>9, <2>1, <2>2, <2>3 DEF FrameUpdated
<1> QED BY <1>1, <1>2, <1>3, <1>4, <1>8, <1>10, OWInvParts DEF WalkPart

-----------------------------------------------------------------------------
LEMMA OWInitially ==
  ASSUME NEW s \in OWStarts, OWInit(s)
  PROVE  OWInv
<1> USE DEF OWInit
<1>1. IsOWStart(s)
  BY OopMapAssumption
<1>2. MapsInv
  BY DEF MapsInv
<1>3. OWTypeInv
  <2>1. emit \in [{"plain", "stack"} -> {"none", "buffer", "failed", "installed"}]
    OBVIOUS
  <2>2. fields \in Seq(Fields) /\ table \in Seq([loc : StackWords, offset : Int])
    OBVIOUS
  <2> QED BY <1>1, <2>1, <2>2 DEF OWTypeInv, IsOWStart
<1>4. FlagInv
  BY <1>1 DEF FlagInv, IsOWStart
<1>5. BuildInv
  <2>1. /\ image.pairs = <<>> /\ image.data = <<>> /\ build.i = 1 /\ build.offset = 0
        /\ build.last = NoMap /\ build.empty = -1 /\ emit[code] = "none"
    BY <1>1 DEF IsOWStart
  <2>2. Len(maps) \in Nat
    BY <1>2, MapFacts
  <2> QED BY <2>1, <2>2 DEF BuildInv
<1>6. FrameInv
  <2>1. PICK k \in DOMAIN maps : maps[k].pc = pc /\ IsFrameOf(code, mem, maps[k].values)
    BY <1>1 DEF IsOWStart
  <2>2. PICK i \in DOMAIN maps : maps[i].pc = pc /\ Recorded = maps[i].values
    BY <1>2, MapFacts
  <2>3. i = k
    <3>1. /\ \A x, y \in DOMAIN maps : x < y => maps[x].pc < maps[y].pc
          /\ DOMAIN maps = 1..Len(maps) /\ Len(maps) \in Nat /\ pc \in Int
      BY <1>2, MapFacts
    <3>2. ~(i < k) /\ ~(k < i)
      BY <2>1, <2>2, <3>1
    <3> QED BY <3>1, <3>2
  <2> QED BY <2>1, <2>2, <2>3 DEF FrameInv
<1>7. TableInv /\ OopsInv /\ FrameUpdated
  BY DEF TableInv, OopsInv, FrameUpdated
<1> QED BY <1>2, <1>3, <1>4, <1>5, <1>6, <1>7 DEF OWInv

LEMMA OWStep ==
  ASSUME OWInv, [OWNext]_owVars
  PROVE  OWInv'
<1>1. CASE \E c \in {"plain", "stack"} : InitBuffer(c) \/ Install(c)
  BY <1>1, InitBufferKeeps, InstallKeeps
<1>2. CASE BuildMap
  BY <1>2, BuildMapKeeps
<1>3. CASE BeginWalk
  BY <1>3, BeginWalkKeeps
<1>4. CASE DerivedOop
  BY <1>4, DerivedOopKeeps
<1>5. CASE EndDerived
  BY <1>5, EndDerivedKeeps
<1>6. CASE OopValue
  BY <1>6, OopValueKeeps
<1>7. CASE WalkElements
  BY <1>7, WalkElementsKeeps
<1>8. CASE EndOops
  BY <1>8, EndOopsKeeps
<1>9. CASE UpdatePointers
  BY <1>9, UpdatePointersKeeps
<1>10. CASE EndWalk
  BY <1>10, EndWalkKeeps
<1>11. CASE UNCHANGED owVars
  <2> USE <1>11 DEF owVars
  <2>1. MapsInv' /\ OWTypeInv' /\ FlagInv'
    BY DEF OWInv, MapsInv, OWTypeInv, FlagInv
  <2>2. BuildInv'
    BY DEF OWInv, BuildInv
  <2>3. WalkPart'
    BY WalkUnchanged, OWInvParts DEF frameVars
  <2> QED BY <2>1, <2>2, <2>3, OWInvParts
<1> QED BY <1>1, <1>2, <1>3, <1>4, <1>5, <1>6, <1>7, <1>8, <1>9, <1>10, <1>11 DEF OWNext

\* The invariant of the walk holds from any method and frame in OWStarts.
THEOREM OWInvariant == OWSpec => []OWInv
<1>1. (\E s \in OWStarts : OWInit(s)) => OWInv
  BY OWInitially
<1>2. OWInv /\ [OWNext]_owVars => OWInv'
  BY OWStep
<1> QED BY <1>1, <1>2, PTL DEF OWSpec

\* After each collection the oops of the frame and of the stack objects it leads to
\* have moved once, derived pointers have kept their distance, and nothing else has
\* changed, whatever the layout of the frame, its oop maps and its stack objects, and
\* whenever init_buffer sets UseStackAllocationRuntime (OopMapSet::all_do).
THEOREM FrameIsUpdated == OWSpec => []FrameUpdated
<1>1. OWInv => FrameUpdated
  BY DEF OWInv
<1> QED BY <1>1, OWInvariant, PTL
=============================================================================
