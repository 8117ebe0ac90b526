------------------------------ MODULE OopMapWalk ------------------------------
(***************************************************************************)
(* The walk of the collector over a compiled frame that may hold stack     *)
(* allocated objects: the oop maps of a method from OopMapSet to           *)
(* ImmutableOopMapSet, OopMapSet::all_do with its treatment of stack oops, *)
(* callee saved registers and derived pointers (compiler/oopMap.cpp), the  *)
(* closure that moves objects (PSParallelCompact::adjust_pointer), and the *)
(* flag UseStackAllocationRuntime (PhaseOutput::init_buffer), which a      *)
(* compiler thread may set while a frame is walked that was there before.  *)
(*                                                                         *)
(* An address is a number: 0 is NULL, the words of the stack are in        *)
(* StackWords, everything else is in the heap. The callee's frame holds    *)
(* the register saved for its caller; the caller has the stack objects, if *)
(* it is a method with any.                                                *)
(***************************************************************************)
EXTENDS Integers, Sequences, SequencesExt, FiniteSets

CONSTANTS
  StackWords,  \* all words of the two frames
  CallerWords, \* unextended_sp up to unextended_sp + frame_size of the caller
  Objects,     \* object start -> the oop fields of its klass, {} for type arrays
  TypeArrays,  \* the starts of stack allocated type arrays
  CalleeMap,   \* the oop map of the callee
  Forward,     \* the new address of each heap object
  OWStarts,    \* methods and frames: [mem, maps, pc, flag, code], as in the variables
  MaxWalks

VARIABLES
  runtime_flag,  \* UseStackAllocationRuntime
  emit,          \* stage of each compilation: none, buffer, filled, installed
  maps,          \* the OopMapSet of the caller: <<[pc, values]>>
  image,         \* the ImmutableOopMapSet: pairs, and maps by offset
  build,         \* ImmutableOopMapBuilder: next map, _offset, _last, _empty
  pc,            \* where the caller is stopped
  code,          \* the caller: "stack" if it has stack objects, or "plain"
  mem,           \* the words of the stack
  reg_map,       \* location of each register
  walk,          \* stage of the walk
  omv,           \* position in the oop map
  fields,        \* locations still to be visited in stack objects, a stack
  stack_oops,    \* stack objects whose fields were or are visited
  table,         \* DerivedPointerTable: entries
  walks,
  before         \* auxiliary: the words when the walk began

owVars == <<runtime_flag, emit, maps, image, build, pc, code, mem, reg_map, walk, omv, fields,
            stack_oops, table, walks, before>>

Null == 0
NoMap == [off |-> -1, values |-> <<>>]

\* Values of an oop map: a location, its type, and the base or saved register
Oop(l)          == [reg |-> l, type |-> "oop", content |-> -1]
CalleeSaved(l, r) == [reg |-> l, type |-> "callee_saved", content |-> r]
\* set_derived_oop: a derived pointer that shares storage with its base is an oop
Derived(l, b)   == IF l = b THEN Oop(l) ELSE [reg |-> l, type |-> "derived", content |-> b]

MapValues == [reg : Int, type : {"oop", "callee_saved", "derived"}, content : Int]

\* update_register_map: where a frame has saved the registers of its caller
UpdateRegisterMap(values) ==
  LET saved == {i \in DOMAIN values : values[i].type = "callee_saved"} IN
  [r \in {values[i].content : i \in saved} |->
     values[CHOOSE i \in saved : values[i].content = r].reg]

\* oopmapreg_to_location: a slot, or wherever the register was saved
LocIn(saved, r) == IF r \in DOMAIN saved THEN saved[r] ELSE r

\* What a walk has to reach: the oops of the map, and the fields of the stack objects
\* that can be reached from them.
Instances == DOMAIN Objects \ TypeArrays
Fields == UNION {Objects[o] : o \in Instances}
ValuesOf(values, type) == {i \in DOMAIN values : values[i].type = type}
OopLocs(saved, values) == {LocIn(saved, values[i].reg) : i \in ValuesOf(values, "oop")}
ClosedIn(words, ls) == \A l \in ls : words[l] \in Instances => Objects[words[l]] \subseteq ls
Reached(words, ls) ==
  {l \in ls \cup Fields : \A fs \in SUBSET Fields : ClosedIn(words, ls \cup fs) => l \in ls \cup fs}

\* What register allocation and BuildOopMaps have left in the frame and its oop map:
\* each location once, apart from the stack objects; oops are NULL or point to
\* objects, and each derived pointer has one of them as its base.
IsFrame(words, values) ==
  LET saved == UpdateRegisterMap(CalleeMap)
      At(i) == LocIn(saved, values[i].reg)
      oops == ValuesOf(values, "oop")
      derived == ValuesOf(values, "derived")
  IN  /\ \A i \in oops \cup derived : At(i) \in StackWords \ Fields
      /\ \A i, k \in oops \cup derived : At(i) = At(k) => i = k
      /\ \A i \in derived : LocIn(saved, values[i].content) \in OopLocs(saved, values)
      /\ \A l \in Reached(words, OopLocs(saved, values)) :
           words[l] \in {Null} \cup DOMAIN Forward \cup DOMAIN Objects

\* A method without stack objects has no reference to one.
IsFrameOf(c, words, values) ==
  /\ IsFrame(words, values)
  /\ c = "plain" => \A l \in OopLocs(UpdateRegisterMap(CalleeMap), values) : words[l] \notin DOMAIN Objects

IsOWStart(s) ==
  /\ s.maps \in Seq([pc : Int, values : Seq(MapValues)]) /\ s.flag \in BOOLEAN
  /\ s.code \in {"plain", "stack"}
  /\ s.mem \in [StackWords -> Int]
  /\ \A i, k \in DOMAIN s.maps : i < k => s.maps[i].pc < s.maps[k].pc
  /\ \E i \in DOMAIN s.maps : s.maps[i].pc = s.pc /\ IsFrameOf(s.code, s.mem, s.maps[i].values)

\* Objects of one frame do not overlap, and what a collection moves stays in the heap,
\* where the next one may move it again.
ASSUME OopMapAssumption ==
  /\ StackWords \subseteq Int \ {Null} /\ CallerWords \subseteq StackWords
  /\ DOMAIN Objects \subseteq CallerWords /\ TypeArrays \subseteq DOMAIN Objects
  /\ \A o \in DOMAIN Objects : IsFiniteSet(Objects[o]) /\ Objects[o] \subseteq StackWords
  /\ \A o, p \in DOMAIN Objects : Objects[o] \cap Objects[p] # {} => o = p
  /\ Forward \in [DOMAIN Forward -> DOMAIN Forward]
  /\ DOMAIN Forward \subseteq Int \ (StackWords \cup {Null})
  /\ \A s \in OWStarts : IsOWStart(s)

OWInit(s) ==
  /\ runtime_flag = s.flag /\ emit = [plain |-> "none", stack |-> "none"]
  /\ maps = s.maps /\ image = [pairs |-> <<>>, data |-> <<>>]
  /\ build = [i |-> 1, offset |-> 0, last |-> NoMap, empty |-> -1]
  /\ pc = s.pc /\ code = s.code /\ mem = s.mem /\ reg_map = <<>>
  /\ walk = "compiling" /\ omv = 1 /\ fields = <<>> /\ stack_oops = {} /\ table = <<>>
  /\ walks = 0 /\ before = s.mem

-----------------------------------------------------------------------------
\* init_buffer: the runtime part is switched on before the code exists. The
\* code cache may be full, in which case nothing is emitted.
InitBuffer(c) ==
  /\ emit[c] = "none"
  /\ \/ /\ emit' = [emit EXCEPT ![c] = "buffer"]
        /\ runtime_flag' = (runtime_flag \/ c = "stack")
     \/ emit' = [emit EXCEPT ![c] = "failed"] /\ UNCHANGED runtime_flag
  /\ UNCHANGED <<maps, image, build, pc, code, mem, reg_map, walk, omv, fields, stack_oops,
                 table, walks, before>>

\* size_for: the header of a map and its values
SizeFor(m) == 1 + Len(m.values)

\* One map of the caller's method in ImmutableOopMapBuilder::heap_size and fill: one
\* empty map is kept, and a map equal to the last one that is not empty is shared.
BuildMap ==
  LET m == maps[build.i]
      shared == IF m.values = <<>> THEN build.empty
                ELSE IF build.last.values = m.values THEN build.last.off ELSE -1
      off == IF shared # -1 THEN shared ELSE build.offset
  IN  /\ emit[code] = "buffer" /\ build.i <= Len(maps)
      /\ image' = [pairs |-> Append(image.pairs, [pc |-> m.pc, off |-> off]),
                   data |-> IF shared # -1 THEN image.data
                            ELSE Append(image.data, [off |-> off, values |-> m.values])]
      /\ build' = [i |-> build.i + 1,
                   offset |-> IF shared # -1 THEN build.offset ELSE build.offset + SizeFor(m),
                   last |-> IF m.values = <<>> THEN build.last
                            ELSE [off |-> off, values |-> m.values],
                   empty |-> IF m.values = <<>> THEN off ELSE build.empty]
      /\ UNCHANGED <<runtime_flag, emit, maps, pc, code, mem, reg_map, walk, omv, fields,
                     stack_oops, table, walks, before>>

\* The code is installed, and from now on may be on the stack. The other method is
\* compiled beside it and may be at any stage when the frame is walked.
Install(c) ==
  /\ emit[c] = "buffer" /\ (c = code => build.i > Len(maps))
  /\ emit' = [emit EXCEPT ![c] = "installed"]
  /\ walk' = IF c = code THEN "running" ELSE walk
  /\ UNCHANGED <<runtime_flag, maps, image, build, pc, code, mem, reg_map, omv, fields,
                 stack_oops, table, walks, before>>

-----------------------------------------------------------------------------
\* find_map_at_offset: the first pair at or after the pc
FoundMap ==
  LET is == {i \in DOMAIN image.pairs : image.pairs[i].pc >= pc}
      p  == image.pairs[CHOOSE i \in is : \A k \in is : i <= k]
  IN  image.data[CHOOSE i \in DOMAIN image.data : image.data[i].off = p.off].values

Loc(r) == LocIn(reg_map, r)
InFrame(a) == runtime_flag /\ a \in CallerWords
\* The closure on a location: adjust_pointer. A stack address has no new one.
DoOop(m, l) == [m EXCEPT ![l] = IF @ = Null THEN Null
                                ELSE IF @ \in DOMAIN Forward THEN Forward[@] ELSE -1]

\* A collection walks from the callee to the caller, derived pointers first.
BeginWalk ==
  /\ walk = "running" /\ walks < MaxWalks /\ walks' = walks + 1
  /\ walk' = "derived" /\ omv' = 1 /\ before' = mem
  /\ reg_map' = UpdateRegisterMap(CalleeMap)
  /\ stack_oops' = {} /\ table' = <<>>
  /\ UNCHANGED <<runtime_flag, emit, maps, image, build, pc, code, mem, fields>>

\* The first loop of all_do and DerivedPointerTable::add: the offset goes to the
\* table and the location then points to its base's location. Bases on the stack
\* do not move.
DerivedOop ==
  LET o == FoundMap[omv]
      d == Loc(o.reg)
      b == Loc(o.content)
  IN  /\ walk = "derived" /\ omv <= Len(FoundMap)
      /\ omv' = omv + 1
      /\ IF o.type = "derived" /\ mem[b] # Null /\ ~InFrame(mem[b])
           THEN /\ table' = Append(table, [loc |-> d, offset |-> mem[d] - mem[b]])
                /\ mem' = [mem EXCEPT ![d] = b]
           ELSE UNCHANGED <<table, mem>>
      /\ UNCHANGED <<runtime_flag, emit, maps, image, build, pc, code, reg_map, walk, fields,
                     stack_oops, walks, before>>

EndDerived ==
  /\ walk = "derived" /\ omv > Len(FoundMap)
  /\ walk' = "oops" /\ omv' = 1
  /\ UNCHANGED <<runtime_flag, emit, maps, image, build, pc, code, mem, reg_map, fields,
                 stack_oops, table, walks, before>>

\* Faulty variant: the object is not remembered.
StackOopDoAgain(o) ==
  IF o \in TypeArrays THEN [push |-> <<>>, seen |-> stack_oops]
  ELSE [push |-> SetToSeq(Objects[o]), seen |-> stack_oops]

\* stack_oop_do: the fields of an object met for the first time, none of a type array
StackOopDo(o) ==
  IF o \in TypeArrays \/ o \in stack_oops THEN [push |-> <<>>, seen |-> stack_oops]
  ELSE [push |-> SetToSeq(Objects[o]), seen |-> stack_oops \cup {o}]

\* A location is visited, a slot by all_do or a field by OopClosureWalker.
Visit(l, rest) ==
  IF InFrame(mem[l])
    THEN /\ fields' = StackOopDo(mem[l]).push \o rest
         /\ stack_oops' = StackOopDo(mem[l]).seen /\ UNCHANGED mem
    ELSE /\ mem' = DoOop(mem, l) /\ fields' = rest /\ UNCHANGED stack_oops

\* The second loop of all_do: oops only, and not NULL
OopValue ==
  LET o == FoundMap[omv] IN
  /\ walk = "oops" /\ fields = <<>> /\ omv <= Len(FoundMap)
  /\ omv' = omv + 1
  /\ IF o.type = "oop" /\ mem[Loc(o.reg)] # Null
       THEN Visit(Loc(o.reg), <<>>) ELSE UNCHANGED <<mem, fields, stack_oops>>
  /\ UNCHANGED <<runtime_flag, emit, maps, image, build, pc, code, reg_map, walk, table, walks, before>>

\* OopClosureWalker::do_oop on the next field of a stack object
WalkElements ==
  /\ walk = "oops" /\ fields # <<>>
  /\ Visit(Head(fields), Tail(fields))
  /\ UNCHANGED <<runtime_flag, emit, maps, image, build, pc, code, reg_map, walk, omv, table,
                 walks, before>>

EndOops ==
  /\ walk = "oops" /\ fields = <<>> /\ omv > Len(FoundMap)
  /\ walk' = "update"
  /\ UNCHANGED <<runtime_flag, emit, maps, image, build, pc, code, mem, reg_map, omv, fields,
                 stack_oops, table, walks, before>>

\* update_pointers: each derived location points to its base's location.
UpdatePointers ==
  /\ walk = "update" /\ table # <<>>
  /\ LET e == Last(table) IN mem' = [mem EXCEPT ![e.loc] = mem[mem[e.loc]] + e.offset]
  /\ table' = Front(table)
  /\ UNCHANGED <<runtime_flag, emit, maps, image, build, pc, code, reg_map, walk, omv, fields,
                 stack_oops, walks, before>>

EndWalk ==
  /\ walk = "update" /\ table = <<>> /\ walk' = "running"
  /\ UNCHANGED <<runtime_flag, emit, maps, image, build, pc, code, mem, reg_map, omv, fields,
                 stack_oops, table, walks, before>>

OWNext ==
  \/ \E c \in {"plain", "stack"} : InitBuffer(c) \/ Install(c)
  \/ BuildMap \/ BeginWalk \/ DerivedOop \/ EndDerived \/ OopValue \/ WalkElements
  \/ EndOops \/ UpdatePointers \/ EndWalk

OWSpec == (\E s \in OWStarts : OWInit(s)) /\ [][OWNext]_owVars

-----------------------------------------------------------------------------
Recorded == maps[CHOOSE i \in DOMAIN maps : maps[i].pc = pc].values
Moved(a) == IF a \in DOMAIN Forward THEN Forward[a] ELSE a

\* After a collection each location that holds an oop has the new address of the
\* same object, moved once however often its stack object can be reached; stack
\* oops and words that are not oops are as before, and a derived pointer is as far
\* from its base as it was, whether the base moved, is NULL or is on the stack.
\* Code with stack objects is there only when the flag is on; in the walk of a plain
\* frame another compilation may set it between any two reads of it.
FrameUpdated ==
  walk = "running" /\ walks > 0 =>
    LET reached == Reached(before, OopLocs(reg_map, Recorded))
        derived == ValuesOf(Recorded, "derived")
    IN  /\ \A l \in reached : mem[l] = Moved(before[l])
        /\ \A i \in derived :
             LET d == Loc(Recorded[i].reg)
                 b == Loc(Recorded[i].content)
             IN  mem[d] - mem[b] = before[d] - before[b]
        /\ \A l \in StackWords \ reached :
             (\A i \in derived : Loc(Recorded[i].reg) # l) => mem[l] = before[l]
=============================================================================
