----------------------- MODULE SafepointsAndLocks_proofs -----------------------
(***************************************************************************)
(* Two parts of macro.cpp. The debug information of safepoints stays       *)
(* readable while allocations are removed, for any number of allocations,  *)
(* fields and safepoints; and the code expanded for Lock and Unlock        *)
(* excludes threads from each other, for any number of threads, nested     *)
(* locks and bulk operations.                                              *)
(*                                                                         *)
(* The properties of SafepointObjects speak of the states between two      *)
(* allocations. SPInv says what holds between them (Resting) and how a     *)
(* state in the middle of an allocation relates to it: while fields are    *)
(* added, each safepoint is the saved one, the saved one and some fields,  *)
(* or the saved one and all fields with the object in place of the         *)
(* reference (ReplacingInv); while a stack object is registered, each      *)
(* safepoint is readable as it is, and the map names the object made for   *)
(* it (RegisteringInv).                                                    *)
(*                                                                         *)
(* LockExclusive is not inductive: a thread decides with a mark word and a *)
(* prototype header that it read earlier. ReadsInv says what is still true *)
(* of them when it acts: the prototype cannot change before the thread is  *)
(* at a safepoint, a mark word without bias never gets one again, and a    *)
(* bias that is valid is not taken away from a thread that runs.           *)
(***************************************************************************)
EXTENDS SafepointObjects, LockExpansion, FiniteSetTheorems, SequenceTheorems, TLAPS

Values == {Val} \cup {Res(a) : a \in Allocs}
Input  == Values \cup {Sobj(a, k, stack) : a \in Allocs, k \in Nat, stack \in BOOLEAN}
FieldValues(a) == {Val} \cup {Res(b) : b \in held[a]}
Replacing   == sp_pc \in {"safepoints", "fields"}
Registering == sp_pc \in {"direct", "indirect"}

\* Every variable has its type.
SPTypeOK ==
  /\ input \in [Safepoints -> Seq(Input)] /\ endoff \in [Safepoints -> Nat]
  /\ fate \in [Allocs -> {"macro", "kept", "scalar", "stack"}]
  /\ sp_pc \in {"eliminate", "safepoints", "fields", "expand", "direct", "indirect"}
  /\ alloc \in Allocs /\ j \in Nat
  /\ safepoints \subseteq Safepoints /\ safepoints_done \subseteq Safepoints
  /\ sp_pc = "fields" => sfpt \in Safepoints /\ j <= nfields[alloc]
  /\ temp \subseteq Safepoints \X Nat
  /\ safepoint_map \subseteq Safepoints \X Input
  /\ saved \in [Safepoints -> Seq(Input)] \X [Safepoints -> Nat]

\* The objects among the inputs of a safepoint have their fields there, no two share
\* one, and no two stand for the same allocation.
Readable(ins) ==
  /\ \A i \in 1..Len(ins) : ins[i].kind = "object" =>
       /\ FieldsAt(ins[i]) \subseteq 1..Len(ins)
       /\ ins[i].stack => ins[ins[i].first] = ins[i]
  /\ \A i, k \in 1..Len(ins) :
       ins[i].kind = "object" /\ ins[k].kind = "object" /\ ins[i] # ins[k] =>
         ins[i].alloc # ins[k].alloc /\ FieldsAt(ins[i]) \cap FieldsAt(ins[k]) = {}

\* Objects stand for what was removed, results for what was not.
Current(ins, f) ==
  \A i \in 1..Len(ins) :
    /\ ins[i].kind = "object" => f[ins[i].alloc] \in {"scalar", "stack"}
    /\ ins[i].kind = "result" => f[ins[i].alloc] \in {"macro", "kept"}

\* Between two allocations
Resting(in, end, f) ==
  \A s \in Safepoints : end[s] = Len(in[s]) /\ Readable(in[s]) /\ Current(in[s], f)

\* ins is old and the values of n fields of a, with the object for a.
Extended(old, ins, a, n) ==
  /\ Len(ins) = Len(old) + n
  /\ \A i \in 1..Len(ins) : i > Len(old) => ins[i] \in FieldValues(a)
HasFields(old, ins, a) ==
  /\ Extended(old, ins, a, nfields[a])
  /\ \A i \in 1..Len(old) :
       ins[i] = IF old[i] = Res(a) THEN Sobj(a, Len(old) + 1, FALSE) ELSE old[i]
SomeFields(old, ins, a, n) ==
  Extended(old, ins, a, n) /\ \A i \in 1..Len(old) : ins[i] = old[i]

Refers(ins, a) == \E i \in 1..Len(ins) : ins[i] = Res(a)

ReplacingInv ==
  Replacing =>
    /\ Resting(saved[1], saved[2], fate)
    /\ fate[alloc] \in {"macro", "kept"} /\ CanEliminate(alloc)
    /\ \A s \in Safepoints :
         IF s \in safepoints_done
           THEN HasFields(saved[1][s], input[s], alloc) /\ endoff[s] = Len(input[s])
         ELSE IF sp_pc = "fields" /\ s = sfpt
           THEN SomeFields(saved[1][s], input[s], alloc, j) /\ endoff[s] = saved[2][s]
         ELSE /\ input[s] = saved[1][s] /\ endoff[s] = saved[2][s]
              /\ Refers(input[s], alloc) => s \in safepoints
    /\ safepoints \cap safepoints_done = {}
    /\ sp_pc = "fields" => sfpt \notin safepoints \cup safepoints_done

\* What is held by an object that is not removed is not removed, and there are no
\* stack objects before the expansion.
FatesInv ==
  /\ \A a, b \in Allocs : fate[b] = "scalar" /\ b \in held[a] => fate[a] = "scalar"
  /\ sp_pc = "eliminate" \/ Replacing => \A a \in Allocs : fate[a] # "stack"

RegisteringInv ==
  Registering =>
    /\ fate[alloc] \in {"macro", "kept"}
    /\ \A s \in Safepoints :
         /\ endoff[s] = Len(input[s]) /\ Readable(input[s])
         /\ \A i \in Position(s) :
              /\ input[s][i].kind = "object" =>
                   \/ fate[input[s][i].alloc] \in {"scalar", "stack"}
                   \/ input[s][i].alloc = alloc /\ <<s, input[s][i]>> \in safepoint_map
              /\ input[s][i].kind = "result" => fate[input[s][i].alloc] \in {"macro", "kept"}
         /\ Refers(input[s], alloc) => sp_pc = "direct" /\ \E u \in temp : u[1] = s
    /\ \A m \in safepoint_map :
         /\ \E i \in Position(m[1]) : input[m[1]][i] = m[2]
         /\ \E k \in Nat : m[2] = Sobj(alloc, k, TRUE)
    /\ \A m, n \in safepoint_map : m[1] = n[1] => m = n
    /\ sp_pc = "indirect" => \A s \in reach[alloc] :
         <<s, 0>> \in temp \/ \E m \in safepoint_map : m[1] = s

\* The safepoints that a stack object reaches describe it, always.
DescribedInv ==
  \A a \in Allocs : fate[a] = "stack" =>
    /\ \A s \in reach[a] : \E i \in Position(s) :
         input[s][i].kind = "object" /\ input[s][i].alloc = a /\ input[s][i].stack
    /\ a \in Arrays /\ reach[a] # {} => a \in length_on_entry

SPInv ==
  /\ SPTypeOK /\ FatesInv /\ ReplacingInv /\ RegisteringInv /\ DescribedInv
  /\ AtRest => Resting(input, endoff, fate)
  /\ RollbackExact

-----------------------------------------------------------------------------
\* Facts about debug inputs and sequences of them.
LEMMA Constants ==
  /\ Allocs # {} /\ \A a \in Allocs : nfields[a] \in Nat /\ held[a] \subseteq Allocs
                                      /\ reach[a] \subseteq Safepoints
  /\ Val \in Input /\ \A a \in Allocs : Res(a) \in Input
  /\ \A a \in Allocs, k \in Nat, stack \in BOOLEAN : Sobj(a, k, stack) \in Input
  /\ \A a \in Allocs : FieldValues(a) \subseteq Values /\ Values \subseteq Input
  BY SafepointAssumption DEF Input, Values, FieldValues

LEMMA Kinds ==
  /\ Val.kind = "value"
  /\ \A a : Res(a).kind = "result" /\ Res(a).alloc = a
  /\ \A a, k, stack : LET o == Sobj(a, k, stack) IN
       o.kind = "object" /\ o.alloc = a /\ o.first = k /\ o.n = nfields[a] /\ o.stack = stack
  BY DEF Val, Res, Sobj

LEMMA InputKinds ==
  ASSUME NEW v \in Input
  PROVE  /\ v.kind \in {"value", "result", "object"}
         /\ v.kind = "result" => v.alloc \in Allocs /\ v = Res(v.alloc)
         /\ v.kind = "object" =>
              /\ v.alloc \in Allocs /\ v.first \in Nat /\ v.n = nfields[v.alloc] /\ v.n \in Nat
              /\ v.stack \in BOOLEAN /\ v = Sobj(v.alloc, v.first, v.stack)
<1>1. CASE v = Val
  BY <1>1, Kinds
<1>2. ASSUME NEW a \in Allocs, v = Res(a) PROVE v.kind = "result" /\ v.alloc = a
  BY <1>2, Kinds
<1>3. ASSUME NEW a \in Allocs, NEW k \in Nat, NEW stack \in BOOLEAN, v = Sobj(a, k, stack)
      PROVE  /\ v.kind = "object" /\ v.alloc = a /\ v.first = k /\ v.stack = stack
             /\ v.n = nfields[a] /\ nfields[a] \in Nat
  BY <1>3, Kinds, Constants
<1> QED
  BY <1>1, <1>2, <1>3 DEF Input, Values

LEMMA ValueKinds ==
  ASSUME NEW v \in Values
  PROVE  v.kind # "object" /\ (v.kind = "result" => \E a \in Allocs : v = Res(a))
  BY Kinds DEF Values

\* What replace_edges_in_range leaves.
LEMMA ReplacedProperties ==
  ASSUME NEW ins \in Seq(Input), NEW a \in Allocs, NEW o \in Input
  PROVE  /\ Replaced(ins, a, o) \in Seq(Input) /\ Len(Replaced(ins, a, o)) = Len(ins)
         /\ \A i \in 1..Len(ins) :
              Replaced(ins, a, o)[i] = IF ins[i] = Res(a) THEN o ELSE ins[i]
  BY DEF Replaced

LEMMA ShorterProperties ==
  ASSUME SPTypeOK, NEW s \in Safepoints, NEW n \in 0..Len(input[s])
  PROVE  /\ Shorter(s, n) \in Seq(Input) /\ Len(Shorter(s, n)) = Len(input[s]) - n
         /\ \A i \in 1..(Len(input[s]) - n) : Shorter(s, n)[i] = input[s][i]
  BY DEF SPTypeOK, Shorter

\* Inputs stay readable when an object o with fields of its own is put among them.
LEMMA KeepsReadable ==
  ASSUME NEW ins \in Seq(Input), NEW new \in Seq(Input), NEW o \in Input,
         Readable(ins), Len(ins) <= Len(new), o.kind = "object",
         \A i \in 1..Len(new) : new[i].kind = "object" =>
            new[i] = o \/ (i <= Len(ins) /\ new[i] = ins[i]),
         \A i \in 1..Len(ins) : ins[i].kind = "object" => new[i] = ins[i],
         FieldsAt(o) \subseteq 1..Len(new), o.stack => new[o.first] = o,
         \A i \in 1..Len(ins) : ins[i].kind = "object" /\ ins[i] # o =>
            ins[i].alloc # o.alloc /\ FieldsAt(ins[i]) \cap FieldsAt(o) = {}
  PROVE  Readable(new)
<1>1. ASSUME NEW i \in 1..Len(new), new[i].kind = "object"
      PROVE  /\ FieldsAt(new[i]) \subseteq 1..Len(new)
             /\ new[i].stack => new[new[i].first] = new[i]
  <2>1. CASE new[i] = o
    BY <2>1
  <2>2. CASE i \in 1..Len(ins) /\ new[i] = ins[i]
    <3>1. ins[i].kind = "object" /\ FieldsAt(ins[i]) \subseteq 1..Len(ins)
          /\ (ins[i].stack => ins[ins[i].first] = ins[i])
      BY <1>1, <2>2 DEF Readable
    <3>2. ins[i].stack => ins[i].first \in 1..Len(ins)
      BY <3>1 DEF FieldsAt
    <3> QED
      BY <2>2, <3>1, <3>2
  <2> QED
    BY <1>1, <2>1, <2>2
<1>2. ASSUME NEW i \in 1..Len(new), NEW k \in 1..Len(new),
             new[i].kind = "object", new[k].kind = "object", new[i] # new[k]
      PROVE  new[i].alloc # new[k].alloc /\ FieldsAt(new[i]) \cap FieldsAt(new[k]) = {}
  <2>1. CASE new[i] = o
    BY <1>2, <2>1
  <2>2. CASE new[k] = o
    BY <1>2, <2>2
  <2>3. CASE i \in 1..Len(ins) /\ new[i] = ins[i] /\ k \in 1..Len(ins) /\ new[k] = ins[k]
    BY <1>2, <2>3 DEF Readable
  <2> QED
    BY <1>2, <2>1, <2>2, <2>3
<1> QED
  BY <1>1, <1>2 DEF Readable

\* Fields after all others, and their object in place of the reference
LEMMA HasFieldsReadable ==
  ASSUME NEW old \in Seq(Input), NEW ins \in Seq(Input), NEW a \in Allocs, Readable(old),
         \A i \in 1..Len(old) : old[i].kind = "object" => old[i].alloc # a,
         HasFields(old, ins, a)
  PROVE  Readable(ins)
<1> DEFINE o == Sobj(a, Len(old) + 1, FALSE)
<1>1. /\ o \in Input /\ o.kind = "object" /\ o.alloc = a /\ ~o.stack
      /\ nfields[a] \in Nat /\ FieldsAt(o) = (Len(old) + 1)..(Len(old) + nfields[a])
  <2>1. o \in Input /\ nfields[a] \in Nat
    <3>1. Len(old) + 1 \in Nat
      OBVIOUS
    <3> QED
      BY <3>1, Constants
  <2>2. /\ o.kind = "object" /\ o.alloc = a /\ o.stack = FALSE /\ o.first = Len(old) + 1
        /\ o.n = nfields[a]
    BY DEF Sobj
  <2> HIDE DEF o
  <2>3. FieldsAt(o) = o.first..(o.first + o.n - 1)
    BY <2>2 DEF FieldsAt
  <2> QED
    BY <2>1, <2>2, <2>3
<1>2. /\ Len(ins) = Len(old) + nfields[a]
      /\ \A i \in 1..Len(ins) : i > Len(old) => ins[i].kind # "object"
      /\ \A i \in 1..Len(old) : ins[i] = IF old[i] = Res(a) THEN o ELSE old[i]
  <2>1. \A i \in 1..Len(ins) : i > Len(old) => ins[i] \in Values
    BY Constants DEF HasFields, Extended
  <2> QED
    BY <2>1, ValueKinds DEF HasFields, Extended
<1> HIDE DEF o
<1>3. \A i \in 1..Len(old) : old[i].kind = "object" => ins[i] = old[i]
  BY <1>2, Kinds
<1>4. \A i \in 1..Len(old) : old[i].kind = "object" /\ old[i] # o =>
        old[i].alloc # o.alloc /\ FieldsAt(old[i]) \cap FieldsAt(o) = {}
  <2> SUFFICES ASSUME NEW i \in 1..Len(old), old[i].kind = "object"
               PROVE  FieldsAt(old[i]) \cap FieldsAt(o) = {}
    BY <1>1
  <2>1. FieldsAt(old[i]) \subseteq 1..Len(old)
    BY DEF Readable
  <2> QED
    BY <1>1, <2>1
<1>5. \A i \in 1..Len(ins) : ins[i].kind = "object" => ins[i] = o \/ (i <= Len(old) /\ ins[i] = old[i])
  BY <1>2
<1>6. FieldsAt(o) \subseteq 1..Len(ins) /\ Len(old) <= Len(ins)
  BY <1>1, <1>2
<1> QED
  BY <1>1, <1>3, <1>4, <1>5, <1>6, KeepsReadable

\* The object of a field's owner is recognised by its fields: the rollback finds it
\* and no other.
LEMMA RestoredIsOld ==
  ASSUME SPTypeOK, NEW s \in Safepoints, NEW old \in Seq(Input), Readable(old),
         \A i \in 1..Len(old) : old[i].kind = "object" => old[i].alloc # alloc,
         HasFields(old, input[s], alloc), nfields[alloc] > 0
  PROVE  Restored(s) = old
<1> DEFINE ins == Shorter(s, nfields[alloc])
           o == Sobj(alloc, Len(old) + 1, FALSE)
<1>1. nfields[alloc] \in Nat /\ input[s] \in Seq(Input) /\ Len(input[s]) = Len(old) + nfields[alloc]
  BY Constants DEF SPTypeOK, HasFields, Extended
<1>2. ins \in Seq(Input) /\ Len(ins) = Len(old) /\ \A i \in 1..Len(old) : ins[i] = input[s][i]
  <2>1. nfields[alloc] \in 0..Len(input[s]) /\ Len(input[s]) - nfields[alloc] = Len(old)
    BY <1>1
  <2>2. /\ ins \in Seq(Input) /\ Len(ins) = Len(input[s]) - nfields[alloc]
        /\ \A i \in 1..(Len(input[s]) - nfields[alloc]) : ins[i] = input[s][i]
    BY <2>1, ShorterProperties
  <2> QED
    BY <2>1, <2>2
<1> HIDE DEF ins
<1>3. ASSUME NEW i \in 1..Len(old)
      PROVE  (IF ins[i].kind = "object" /\ ins[i].first = Len(ins) + 1 /\ ins[i].n = nfields[alloc]
                THEN Res(alloc) ELSE ins[i]) = old[i]
  <2>1. CASE old[i] = Res(alloc)
    <3>1. ins[i] = o
      BY <1>2, <2>1 DEF HasFields
    <3>2. ins[i].kind = "object" /\ ins[i].first = Len(old) + 1 /\ ins[i].n = nfields[alloc]
      BY <3>1 DEF Sobj
    <3> QED
      BY <1>2, <2>1, <3>2
  <2>2. CASE old[i] # Res(alloc)
    <3>1. ins[i] = old[i]
      BY <1>2, <2>2 DEF HasFields
    <3>2. CASE old[i].kind = "object"
      <4>1. FieldsAt(old[i]) \subseteq 1..Len(old) /\ old[i].first \in Nat /\ old[i].n \in Nat
            /\ old[i].stack \in BOOLEAN
        <5>1. old[i] \in Input
          OBVIOUS
        <5> QED
          BY <3>2, <5>1, InputKinds DEF Readable
      <4>2. old[i].n = nfields[alloc] => old[i].first \in FieldsAt(old[i])
        BY <1>1, <4>1 DEF FieldsAt
      <4> QED
        BY <1>2, <3>1, <4>1, <4>2
    <3> QED
      BY <3>1, <3>2
  <2> QED
    BY <2>1, <2>2
<1>4. DOMAIN ins = 1..Len(old) /\ DOMAIN old = 1..Len(old)
  BY <1>2
<1>5. Restored(s) = [i \in 1..Len(old) |->
        IF ins[i].kind = "object" /\ ins[i].first = Len(ins) + 1 /\ ins[i].n = nfields[alloc]
          THEN Res(alloc) ELSE ins[i]]
  BY <1>4 DEF Restored, ins
<1>6. Restored(s) = [i \in 1..Len(old) |-> old[i]]
  BY <1>3, <1>5
<1> QED
  BY <1>4, <1>6

-----------------------------------------------------------------------------
\* The fields of an allocation are never the allocation, and not one already removed.
LEMMA FieldsNotRemoved ==
  ASSUME SPInv, Replacing, NEW b \in held[alloc]
  PROVE  b # alloc /\ b \in Allocs /\ fate[b] \in {"macro", "kept"}
  BY Constants DEF SPInv, SPTypeOK, ReplacingInv, CanEliminate, FatesInv

\* The saved inputs of a safepoint have no object for the allocation at work.
LEMMA SavedProperties ==
  ASSUME SPInv, Replacing, NEW s \in Safepoints
  PROVE  /\ saved[1][s] \in Seq(Input) /\ saved[2][s] = Len(saved[1][s])
         /\ Readable(saved[1][s]) /\ Current(saved[1][s], fate)
         /\ \A i \in 1..Len(saved[1][s]) :
              saved[1][s][i].kind = "object" => saved[1][s][i].alloc # alloc
<1>1. Resting(saved[1], saved[2], fate) /\ fate[alloc] \in {"macro", "kept"}
  BY DEF SPInv, ReplacingInv
<1>2. saved[1][s] \in Seq(Input)
  BY DEF SPInv, SPTypeOK
<1> QED
  BY <1>1, <1>2 DEF Resting, Current

\* When the last field of a safepoint is there, the object takes the references' place.
LEMMA EndFieldsStep ==
  ASSUME SPInv, EndFields
  PROVE  /\ sfpt \in Safepoints /\ sfpt \notin safepoints_done
         /\ input' = [input EXCEPT ![sfpt] = input'[sfpt]] /\ input'[sfpt] \in Seq(Input)
         /\ endoff' = [endoff EXCEPT ![sfpt] = Len(input'[sfpt])]
         /\ HasFields(saved[1][sfpt], input'[sfpt], alloc)
<1> DEFINE old == saved[1][sfpt]
           now == input[sfpt]
           o   == Sobj(alloc, Len(now) - j + 1, FALSE)
           ins == Replaced(now, alloc, o)
<1>1. /\ sfpt \in Safepoints /\ now \in Seq(Input) /\ alloc \in Allocs /\ j = nfields[alloc]
      /\ j \in Nat /\ old \in Seq(Input) /\ sp_pc = "fields" /\ Replacing
  BY DEF SPInv, SPTypeOK, EndFields, Replacing
<1>2. sfpt \notin safepoints_done /\ SomeFields(old, now, alloc, j)
  BY <1>1 DEF SPInv, ReplacingInv
<1>3. Len(now) = Len(old) + j
  BY <1>2 DEF SomeFields, Extended
<1>4. o = Sobj(alloc, Len(old) + 1, FALSE) /\ o \in Input
  <2>1. Len(now) - j + 1 = Len(old) + 1 /\ Len(old) + 1 \in Nat
    BY <1>1, <1>3
  <2> QED
    BY <2>1, <1>1, Constants
<1> HIDE DEF o
<1>5. /\ ins \in Seq(Input) /\ Len(ins) = Len(now)
      /\ \A i \in 1..Len(now) : ins[i] = IF now[i] = Res(alloc) THEN o ELSE now[i]
  BY <1>1, <1>4, ReplacedProperties
<1>6. /\ input' = [input EXCEPT ![sfpt] = ins] /\ endoff' = [endoff EXCEPT ![sfpt] = Len(now)]
  BY DEF EndFields, o
<1>7. input'[sfpt] = ins
  BY <1>1, <1>6 DEF SPInv, SPTypeOK
<1> HIDE DEF ins
<1>8. \A i \in 1..Len(ins) : i > Len(old) => ins[i] \in FieldValues(alloc)
  <2> SUFFICES ASSUME NEW i \in 1..Len(ins), i > Len(old) PROVE ins[i] \in FieldValues(alloc)
    OBVIOUS
  <2>1. now[i] \in FieldValues(alloc)
    BY <1>2, <1>5 DEF SomeFields, Extended
  <2>2. now[i] # Res(alloc)
    BY <1>1, <2>1, FieldsNotRemoved, Kinds DEF FieldValues
  <2> QED
    BY <1>5, <2>1, <2>2
<1>9. HasFields(old, ins, alloc)
  <2>1. \A i \in 1..Len(old) : now[i] = old[i] /\ i \in 1..Len(now)
    BY <1>1, <1>2, <1>3 DEF SomeFields
  <2> QED
    BY <1>1, <1>3, <1>4, <1>5, <1>8, <2>1 DEF HasFields, Extended
<1> QED
  BY <1>1, <1>2, <1>5, <1>6, <1>7, <1>9

\* The rollback restores the inputs and the ends of all safepoints.
LEMMA NoFieldValueStep ==
  ASSUME SPInv, NoFieldValue
  PROVE  input' = saved[1] /\ endoff' = saved[2]
<1>1. /\ Replacing /\ sp_pc = "fields" /\ sfpt \in Safepoints /\ j \in Nat /\ j < nfields[alloc]
      /\ saved[1] \in [Safepoints -> Seq(Input)] /\ saved[2] \in [Safepoints -> Nat] /\ alloc \in Allocs
      /\ nfields[alloc] \in Nat
  BY Constants DEF SPInv, SPTypeOK, NoFieldValue, Replacing
<1>2. ASSUME NEW s \in Safepoints
      PROVE  /\ s \in safepoints_done => Restored(s) = saved[1][s]
                                         /\ Len(input[s]) - nfields[alloc] = saved[2][s]
             /\ s = sfpt => Shorter(s, j) = saved[1][s]
             /\ s \notin safepoints_done => endoff[s] = saved[2][s]
             /\ s \notin safepoints_done /\ s # sfpt => input[s] = saved[1][s]
             /\ s = sfpt => s \notin safepoints_done
  <2>1. ReplacingInv /\ SPTypeOK
    BY DEF SPInv
  <2>2. CASE s \in safepoints_done
    <3>1. HasFields(saved[1][s], input[s], alloc)
      BY <1>1, <2>1, <2>2 DEF ReplacingInv
    <3>2. Restored(s) = saved[1][s]
      <4>1. /\ saved[1][s] \in Seq(Input) /\ Readable(saved[1][s]) /\ nfields[alloc] > 0
            /\ \A i \in 1..Len(saved[1][s]) :
                 saved[1][s][i].kind = "object" => saved[1][s][i].alloc # alloc
        BY <1>1, SavedProperties
      <4> QED
        BY <2>1, <3>1, <4>1, RestoredIsOld
    <3>3. Len(input[s]) - nfields[alloc] = Len(saved[1][s])
      <4>1. Len(input[s]) = Len(saved[1][s]) + nfields[alloc] /\ saved[1][s] \in Seq(Input)
        BY <1>1, <3>1 DEF HasFields, Extended
      <4> QED
        BY <1>1, <4>1
    <3> QED
      BY <1>1, <2>1, <2>2, <3>2, <3>3, SavedProperties DEF ReplacingInv
  <2>3. CASE s = sfpt
    <3>1. SomeFields(saved[1][s], input[s], alloc, j) /\ s \notin safepoints_done /\ endoff[s] = saved[2][s]
      BY <1>1, <2>1, <2>3 DEF ReplacingInv
    <3>2. Len(input[s]) = Len(saved[1][s]) + j /\ saved[1][s] \in Seq(Input) /\ input[s] \in Seq(Input)
      BY <1>1, <2>1, <3>1 DEF SomeFields, Extended, SPTypeOK
    <3>3. /\ Shorter(s, j) \in Seq(Input) /\ Len(Shorter(s, j)) = Len(saved[1][s])
          /\ \A i \in 1..Len(saved[1][s]) : Shorter(s, j)[i] = input[s][i]
      <4>1. j \in 0..Len(input[s]) /\ Len(input[s]) - j = Len(saved[1][s])
        BY <1>1, <3>2
      <4> QED
        BY <2>1, <4>1, ShorterProperties
    <3>4. Shorter(s, j) = saved[1][s]
      BY <3>1, <3>2, <3>3, SeqEqual DEF SomeFields
    <3> QED
      BY <2>3, <3>1, <3>4
  <2>4. CASE s \notin safepoints_done /\ s # sfpt
    BY <1>1, <2>1, <2>4 DEF ReplacingInv
  <2> QED
    BY <2>2, <2>3, <2>4
<1>3. input' = [s \in Safepoints |-> saved[1][s]]
  BY <1>2 DEF NoFieldValue
<1>4. endoff' = [s \in Safepoints |-> saved[2][s]]
  BY <1>2 DEF NoFieldValue
<1> QED
  BY <1>1, <1>3, <1>4

\* A safepoint found by the walk has one object for the stack object, the one that the
\* map names, and no reference to it once the result's uses were looked at.
LEMMA HandleSafepointStep ==
  ASSUME SPInv, NEW u \in temp, HandleSafepoint(u)
  PROVE  \E o \in Input, s \in Safepoints, k \in Nat :
           /\ s = u[1] /\ o = Sobj(alloc, k, TRUE)
           /\ input' = [input EXCEPT ![s] = input'[s]] /\ input'[s] \in Seq(Input)
           /\ endoff' = [endoff EXCEPT ![s] = Len(input'[s])]
           /\ safepoint_map' = safepoint_map \cup {<<s, o>>}
           /\ \A m \in safepoint_map : m[1] = s => m = <<s, o>>
           /\ Len(input[s]) <= Len(input'[s]) /\ Readable(input'[s])
           /\ \A i \in 1..Len(input'[s]) :
                input'[s][i] = o \/ (i <= Len(input[s]) /\ input'[s][i] = input[s][i])
           /\ \E i \in 1..Len(input'[s]) : input'[s][i] = o
           /\ \A i \in 1..Len(input[s]) : input[s][i].kind = "object" => input'[s][i] = input[s][i]
           /\ sp_pc = "direct" => ~Refers(input'[s], alloc)
<1>0. PICK s \in Safepoints : s = u[1]
  BY DEF SPInv, SPTypeOK
<1> DEFINE known == {m \in safepoint_map : m[1] = s}
           o == IF known # {} THEN (CHOOSE m \in known : TRUE)[2]
                ELSE Sobj(alloc, Len(input[s]) + 1, TRUE)
           ins == IF known # {} THEN input[s] ELSE Append(input[s], o)
           new == IF sp_pc = "direct" THEN Replaced(ins, alloc, o) ELSE ins
<1>1. /\ input[s] \in Seq(Input) /\ alloc \in Allocs /\ Registering
      /\ Readable(input[s]) /\ input \in [Safepoints -> Seq(Input)]
  BY DEF HandleSafepoint, Registering, SPInv, SPTypeOK, RegisteringInv
<1>2. /\ input' = [input EXCEPT ![s] = new] /\ endoff' = [endoff EXCEPT ![s] = Len(ins)]
      /\ safepoint_map' = safepoint_map \cup {<<s, o>>}
  BY <1>0 DEF HandleSafepoint
<1>3. PICK k \in Nat :
        /\ o = Sobj(alloc, k, TRUE)
        /\ known = {} => k = Len(input[s]) + 1
        /\ known # {} => known = {<<s, o>>} /\ \E i \in 1..Len(input[s]) : input[s][i] = o
  <2>1. CASE known # {}
    <3> DEFINE m == CHOOSE n \in known : TRUE
    <3>1. m \in known /\ o = m[2] /\ m \in safepoint_map /\ m[1] = s
      BY <2>1
    <3> HIDE DEF m, o
    <3>2. m = <<s, o>>
      BY <3>1 DEF SPInv, SPTypeOK
    <3>3. \A n \in known : n = m
      BY <1>1, <3>1 DEF SPInv, RegisteringInv
    <3>4. known = {<<s, o>>}
      BY <3>1, <3>2, <3>3
    <3>5. /\ \E i \in Position(m[1]) : input[m[1]][i] = m[2]
          /\ \E k \in Nat : m[2] = Sobj(alloc, k, TRUE)
      BY <1>1, <3>1 DEF SPInv, RegisteringInv
    <3> QED
      BY <2>1, <3>1, <3>4, <3>5 DEF Position
  <2>2. CASE known = {}
    <3>1. o = Sobj(alloc, Len(input[s]) + 1, TRUE)
      BY <2>2
    <3>2. Len(input[s]) + 1 \in Nat
      BY <1>1
    <3> HIDE DEF o, known
    <3> QED
      BY <2>2, <3>1, <3>2
  <2> QED
    BY <2>1, <2>2
<1> HIDE DEF o
<1>4. /\ o \in Input /\ o.kind = "object" /\ o.alloc = alloc /\ o.stack = TRUE /\ o.first = k
      /\ FieldsAt(o) = {k} /\ o # Res(alloc)
  <2>1. o \in Input
    BY <1>1, <1>3, Constants
  <2>2. o.kind = "object" /\ o.alloc = alloc /\ o.stack = TRUE /\ o.first = k
    BY <1>3 DEF Sobj
  <2> QED
    BY <2>1, <2>2, Kinds DEF FieldsAt
<1>5. \A m \in safepoint_map : m[1] = s => m = <<s, o>>
  BY <1>3
<1>6. /\ ins \in Seq(Input) /\ Len(input[s]) <= Len(ins)
      /\ \A i \in 1..Len(input[s]) : ins[i] = input[s][i]
      /\ \A i \in 1..Len(ins) : i > Len(input[s]) => ins[i] = o
      /\ k \in 1..Len(ins) /\ ins[k] = o
  <2>1. CASE known = {}
    <3>1. ins = Append(input[s], o) /\ k = Len(input[s]) + 1
      BY <1>3, <2>1
    <3> HIDE DEF ins, known
    <3> QED
      BY <1>1, <1>4, <3>1
  <2>2. CASE known # {}
    <3>1. PICK i \in 1..Len(input[s]) : input[s][i] = o
      BY <1>3, <2>2
    <3>2. FieldsAt(input[s][i]) \subseteq 1..Len(input[s]) /\ input[s][input[s][i].first] = input[s][i]
      BY <1>1, <1>4, <3>1 DEF Readable
    <3>3. ins = input[s]
      BY <2>2
    <3> HIDE DEF ins, known
    <3>4. k \in 1..Len(input[s]) /\ input[s][k] = o
      BY <1>4, <3>1, <3>2
    <3> QED
      BY <1>1, <3>3, <3>4
  <2> QED
    BY <2>1, <2>2
<1> HIDE DEF ins
<1>7. \A i \in 1..Len(input[s]) : input[s][i].kind = "object" /\ input[s][i] # o =>
        input[s][i].alloc # o.alloc /\ FieldsAt(input[s][i]) \cap FieldsAt(o) = {}
  <2> SUFFICES ASSUME NEW i \in 1..Len(input[s]), input[s][i].kind = "object", input[s][i] # o
               PROVE  input[s][i].alloc # o.alloc /\ FieldsAt(input[s][i]) \cap FieldsAt(o) = {}
    OBVIOUS
  <2>1. CASE known # {}
    <3>1. PICK n \in 1..Len(input[s]) : input[s][n] = o
      BY <1>3, <2>1
    <3> QED
      BY <1>1, <1>4, <3>1 DEF Readable
  <2>2. CASE known = {}
    <3>1. FieldsAt(input[s][i]) \subseteq 1..Len(input[s])
      BY <1>1 DEF Readable
    <3>2. k \notin 1..Len(input[s])
      BY <1>1, <1>3, <2>2
    <3>3. input[s][i].alloc # alloc
      <4>1. \/ fate[input[s][i].alloc] \in {"scalar", "stack"}
            \/ <<s, input[s][i]>> \in safepoint_map
        BY <1>1 DEF SPInv, RegisteringInv, Position
      <4>2. <<s, input[s][i]>> \notin safepoint_map
        BY <2>2
      <4>3. fate[alloc] \in {"macro", "kept"}
        BY <1>1 DEF SPInv, RegisteringInv
      <4> QED
        BY <4>1, <4>2, <4>3
    <3> QED
      BY <1>4, <3>1, <3>2, <3>3
  <2> QED
    BY <2>1, <2>2
<1>8. /\ new \in Seq(Input) /\ Len(new) = Len(ins)
      /\ \A i \in 1..Len(ins) : new[i] = ins[i] \/ (ins[i] = Res(alloc) /\ new[i] = o)
      /\ sp_pc = "direct" => \A i \in 1..Len(ins) : new[i] # Res(alloc)
  <2>1. CASE sp_pc = "direct"
    <3>1. new = Replaced(ins, alloc, o)
      BY <2>1
    <3> HIDE DEF new, known
    <3>2. ins \in Seq(Input) /\ o \in Input /\ alloc \in Allocs
      BY <1>1, <1>4, <1>6
    <3>3. /\ new \in Seq(Input) /\ Len(new) = Len(ins)
          /\ \A i \in 1..Len(ins) : new[i] = IF ins[i] = Res(alloc) THEN o ELSE ins[i]
      BY <3>1, <3>2, ReplacedProperties
    <3> QED
      BY <1>4, <3>3
  <2>2. CASE sp_pc # "direct"
    BY <1>6, <2>2
  <2> QED
    BY <2>1, <2>2
<1> HIDE DEF new
<1>9. /\ \A i \in 1..Len(new) : new[i] = o \/ (i <= Len(input[s]) /\ new[i] = input[s][i])
      /\ \A i \in 1..Len(input[s]) : input[s][i].kind = "object" => new[i] = input[s][i]
      /\ new[k] = o /\ k \in 1..Len(new) /\ Len(input[s]) <= Len(new)
  <2>1. \A i \in 1..Len(input[s]) : i \in 1..Len(ins) /\ input[s][i] \in Input
    BY <1>1, <1>6
  <2>2. \A i \in 1..Len(input[s]) : input[s][i].kind = "object" => input[s][i] # Res(alloc)
    BY Kinds
  <2> QED
    BY <1>1, <1>4, <1>6, <1>8, <2>1, <2>2
<1>10. Readable(new)
  <2>1. FieldsAt(o) \subseteq 1..Len(new) /\ (o.stack => new[o.first] = o)
    BY <1>4, <1>9
  <2> QED
    BY <1>1, <1>4, <1>7, <1>8, <1>9, <2>1, KeepsReadable
<1>11. input'[s] = new
  BY <1>1, <1>2
<1>12. sp_pc = "direct" => ~Refers(new, alloc)
  BY <1>8 DEF Refers
<1>13. endoff' = [endoff EXCEPT ![s] = Len(new)]
  BY <1>2, <1>8
<1>14. input' = [input EXCEPT ![s] = input'[s]]
  BY <1>2, <1>11
<1>15. \E i \in 1..Len(new) : new[i] = o
  BY <1>9
<1> HIDE DEF known
<1>16. o \in Input
  BY <1>4
<1>17. \A m \in safepoint_map : m[1] = s => m = <<s, o>>
  BY <1>5
<1>18. safepoint_map' = safepoint_map \cup {<<s, o>>}
  BY <1>2
<1>19. /\ input'[s] \in Seq(Input) /\ endoff' = [endoff EXCEPT ![s] = Len(input'[s])]
       /\ Len(input[s]) <= Len(input'[s]) /\ Readable(input'[s])
       /\ \A i \in 1..Len(input'[s]) :
            input'[s][i] = o \/ (i <= Len(input[s]) /\ input'[s][i] = input[s][i])
       /\ \E i \in 1..Len(input'[s]) : input'[s][i] = o
       /\ \A i \in 1..Len(input[s]) : input[s][i].kind = "object" => input'[s][i] = input[s][i]
       /\ sp_pc = "direct" => ~Refers(input'[s], alloc)
  BY <1>8, <1>9, <1>10, <1>11, <1>12, <1>13, <1>15
<1> WITNESS o \in Input, s \in Safepoints, k \in Nat
<1> QED
  BY <1>0, <1>3, <1>14, <1>17, <1>18, <1>19

-----------------------------------------------------------------------------
LEMMA SPTypeInductive == SPInv /\ SPNext => SPTypeOK'
<1> SUFFICES ASSUME SPInv, SPNext PROVE SPTypeOK'
  OBVIOUS
<1>0. SPTypeOK
  BY DEF SPInv
<1>1. ASSUME NEW a \in Allocs, ScalarReplacement(a) PROVE SPTypeOK'
  BY <1>0, <1>1 DEF SPTypeOK, ScalarReplacement, UsesOf
<1>2. ASSUME NEW s \in Safepoints, PopSafepoint(s) PROVE SPTypeOK'
  <2>1. nfields[alloc] \in Nat
    BY <1>0, Constants DEF SPTypeOK
  <2>2. /\ sfpt' = s /\ j' = 0 /\ sp_pc' = "fields" /\ safepoints' = safepoints \ {s}
        /\ UNCHANGED <<input, endoff, fate, alloc, safepoints_done, temp,
                       safepoint_map, length_on_entry, saved>>
    BY <1>2 DEF PopSafepoint
  <2>3. sfpt' \in Safepoints /\ j' \in Nat /\ j' <= nfields[alloc]'
    BY <1>0, <2>1, <2>2 DEF SPTypeOK
  <2> QED
    BY <1>0, <2>2, <2>3 DEF SPTypeOK
<1>3. ASSUME NEW v \in FieldValues(alloc), AddField(v) PROVE SPTypeOK'
  <2>1. v \in Input /\ nfields[alloc] \in Nat
    BY <1>0, Constants DEF SPTypeOK
  <2> QED
    BY <1>0, <1>3, <2>1 DEF SPTypeOK, AddField
<1>4. CASE EndFields
  <2>0. /\ sfpt \in Safepoints /\ input'[sfpt] \in Seq(Input) /\ Len(input'[sfpt]) \in Nat
        /\ input' = [input EXCEPT ![sfpt] = input'[sfpt]]
        /\ endoff' = [endoff EXCEPT ![sfpt] = Len(input'[sfpt])]
    BY <1>4, EndFieldsStep
  <2>1. input' \in [Safepoints -> Seq(Input)] /\ endoff' \in [Safepoints -> Nat]
    BY <1>0, <2>0 DEF SPTypeOK
  <2> QED
    BY <1>0, <1>4, <2>0, <2>1 DEF SPTypeOK, EndFields
<1>5. CASE NoFieldValue
  BY <1>0, <1>5, NoFieldValueStep DEF SPTypeOK, NoFieldValue
<1>6. CASE ProcessUsers
  BY <1>0, <1>6 DEF SPTypeOK, ProcessUsers
<1>7. CASE EndEliminate
  BY <1>0, <1>7 DEF SPTypeOK, EndEliminate
<1>8. ASSUME NEW a \in Allocs, StackAllocation(a) PROVE SPTypeOK'
  BY <1>0, <1>8 DEF SPTypeOK, StackAllocation, Position
<1>9. ASSUME NEW u \in temp, HandleSafepoint(u) PROVE SPTypeOK'
  <2>1. PICK o \in Input, s \in Safepoints :
          /\ input' = [input EXCEPT ![s] = input'[s]] /\ input'[s] \in Seq(Input)
          /\ endoff' = [endoff EXCEPT ![s] = Len(input'[s])]
          /\ safepoint_map' = safepoint_map \cup {<<s, o>>}
    BY <1>9, HandleSafepointStep
  <2>2. Len(input'[s]) \in Nat
    BY <2>1
  <2>3. input' \in [Safepoints -> Seq(Input)] /\ endoff' \in [Safepoints -> Nat]
    BY <1>0, <2>1, <2>2 DEF SPTypeOK
  <2>4. /\ temp' = temp \ {u} /\ sp_pc \in {"direct", "indirect"}
        /\ UNCHANGED <<fate, sp_pc, alloc, sfpt, j, safepoints, safepoints_done, saved>>
    BY <1>9 DEF HandleSafepoint
  <2>5. safepoint_map' \subseteq Safepoints \X Input
    BY <1>0, <2>1 DEF SPTypeOK
  <2> QED
    BY <1>0, <2>3, <2>4, <2>5 DEF SPTypeOK
<1>10. CASE WalkOn
  BY <1>0, <1>10, Constants DEF SPTypeOK, WalkOn
<1>11. CASE EndStackAllocation
  BY <1>0, <1>11 DEF SPTypeOK, EndStackAllocation
<1> QED
  BY <1>1, <1>2, <1>3, <1>4, <1>5, <1>6, <1>7, <1>8, <1>9, <1>10, <1>11 DEF SPNext, FieldValues

\* Steps that leave the safepoints alone leave what is said about them alone.
LEMMA EliminateSteps ==
  ASSUME SPInv, SPTypeOK',
         \/ \E a \in Allocs : ScalarReplacement(a)
         \/ \E s \in Safepoints : PopSafepoint(s)
         \/ \E v \in FieldValues(alloc) : AddField(v)
         \/ EndFields \/ NoFieldValue \/ ProcessUsers \/ EndEliminate
  PROVE  SPInv'
<1>0. /\ SPTypeOK /\ FatesInv /\ ReplacingInv /\ DescribedInv
      /\ AtRest => Resting(input, endoff, fate)
      /\ RollbackExact
  BY DEF SPInv
<1>1. ASSUME NEW a \in Allocs, ScalarReplacement(a) PROVE SPInv'
  <2>1. /\ sp_pc = "eliminate" /\ AtRest /\ ~Registering /\ fate[a] \in {"macro", "kept"}
        /\ CanEliminate(a) /\ alloc' = a /\ sp_pc' = "safepoints"
        /\ safepoints' = UsesOf(a) /\ safepoints_done' = {} /\ saved' = <<input, endoff>>
        /\ UNCHANGED <<input, endoff, fate, length_on_entry>>
    BY <1>1 DEF ScalarReplacement, AtRest, Registering
  <2>2. FatesInv'
    BY <1>0, <2>1 DEF FatesInv, Replacing
  <2>3. DescribedInv'
    BY <1>0, <2>1 DEF DescribedInv, Position
  <2>4. ReplacingInv'
    BY <1>0, <2>1 DEF ReplacingInv, Replacing, Resting, CanEliminate, UsesOf, Position, Refers
  <2>5. RegisteringInv' /\ (AtRest => Resting(input, endoff, fate))' /\ RollbackExact'
    BY <2>1 DEF RegisteringInv, Registering, AtRest, RollbackExact
  <2> QED
    BY <2>2, <2>3, <2>4, <2>5 DEF SPInv
<1>2. ASSUME NEW s \in Safepoints, PopSafepoint(s) PROVE SPInv'
  <2>1. /\ sp_pc = "safepoints" /\ s \in safepoints /\ sfpt' = s /\ sp_pc' = "fields" /\ j' = 0
        /\ safepoints' = safepoints \ {s}
        /\ UNCHANGED <<input, endoff, fate, alloc, safepoints_done, saved, length_on_entry>>
    BY <1>2 DEF PopSafepoint
  <2>2. FatesInv'
    BY <1>0, <2>1 DEF FatesInv, Replacing
  <2>3. DescribedInv'
    BY <1>0, <2>1 DEF DescribedInv, Position
  <2>4. ReplacingInv'
    <3>1. /\ Resting(saved[1], saved[2], fate)' /\ fate'[alloc'] \in {"macro", "kept"}
          /\ CanEliminate(alloc)' /\ safepoints' \cap safepoints_done' = {}
          /\ s \notin safepoints' \cup safepoints_done'
      BY <1>0, <2>1 DEF ReplacingInv, Replacing, Resting, CanEliminate
    <3>2. SomeFields(saved[1][s], input[s], alloc, 0) /\ endoff[s] = saved[2][s]
      <4>1. input[s] = saved[1][s] /\ endoff[s] = saved[2][s]
        BY <1>0, <2>1 DEF ReplacingInv, Replacing
      <4>2. input[s] \in Seq(Input)
        BY <1>0 DEF SPTypeOK
      <4> QED
        BY <4>1, <4>2 DEF SomeFields, Extended
    <3> QED
      BY <1>0, <2>1, <3>1, <3>2 DEF ReplacingInv, Replacing
  <2>5. RegisteringInv' /\ (AtRest => Resting(input, endoff, fate))' /\ RollbackExact'
    BY <2>1 DEF RegisteringInv, Registering, AtRest, RollbackExact
  <2> QED
    BY <2>2, <2>3, <2>4, <2>5 DEF SPInv
<1>3. ASSUME NEW v \in FieldValues(alloc), AddField(v) PROVE SPInv'
  <2>1. /\ sp_pc = "fields" /\ Replacing /\ Replacing' /\ input' = [input EXCEPT ![sfpt] = Append(@, v)]
        /\ j' = j + 1
        /\ UNCHANGED <<endoff, fate, sp_pc, alloc, sfpt, safepoints, safepoints_done, saved, length_on_entry>>
    BY <1>3 DEF AddField, Replacing
  <2>2. FatesInv' /\ DescribedInv'
    BY <1>0, <2>1 DEF FatesInv, Replacing, DescribedInv
  <2>3. /\ sfpt \in Safepoints /\ sfpt \notin safepoints_done /\ input \in [Safepoints -> Seq(Input)]
        /\ j \in Nat /\ saved[1][sfpt] \in Seq(Input)
        /\ SomeFields(saved[1][sfpt], input[sfpt], alloc, j) /\ endoff[sfpt] = saved[2][sfpt]
    BY <1>0, <2>1 DEF SPTypeOK, ReplacingInv
  <2>4. SomeFields(saved[1][sfpt], input'[sfpt], alloc, j + 1)
    <3> DEFINE old == saved[1][sfpt]
               now == input[sfpt]
    <3>1. input'[sfpt] = Append(now, v)
      BY <2>1, <2>3
    <3>2. /\ now \in Seq(Input) /\ old \in Seq(Input) /\ Len(now) = Len(old) + j
          /\ \A i \in 1..Len(now) : i > Len(old) => now[i] \in FieldValues(alloc)
          /\ \A i \in 1..Len(old) : now[i] = old[i]
      BY <2>3 DEF SomeFields, Extended
    <3> HIDE DEF old, now
    <3>3. /\ Len(Append(now, v)) = Len(old) + (j + 1)
          /\ \A i \in 1..Len(Append(now, v)) : i > Len(old) => Append(now, v)[i] \in FieldValues(alloc)
          /\ \A i \in 1..Len(old) : Append(now, v)[i] = old[i]
      BY <2>3, <3>2
    <3> QED
      BY <3>1, <3>3 DEF SomeFields, Extended, old
  <2>5. \A s \in Safepoints \ {sfpt} : input'[s] = input[s]
    BY <2>1, <2>3
  <2>6. ReplacingInv'
    <3>1. /\ Resting(saved[1], saved[2], fate)' /\ fate'[alloc'] \in {"macro", "kept"}
          /\ CanEliminate(alloc)' /\ safepoints' \cap safepoints_done' = {}
          /\ sfpt' \notin safepoints' \cup safepoints_done'
      BY <1>0, <2>1 DEF ReplacingInv, Resting, CanEliminate
    <3>2. ASSUME NEW s \in Safepoints, s # sfpt
          PROVE  IF s \in safepoints_done
                   THEN HasFields(saved[1][s], input'[s], alloc) /\ endoff[s] = Len(input'[s])
                 ELSE /\ input'[s] = saved[1][s] /\ endoff[s] = saved[2][s]
                      /\ Refers(input'[s], alloc) => s \in safepoints
      BY <1>0, <2>1, <2>5, <3>2 DEF ReplacingInv
    <3> QED
      BY <2>1, <2>3, <2>4, <3>1, <3>2 DEF ReplacingInv
  <2>7. RegisteringInv' /\ (AtRest => Resting(input, endoff, fate))' /\ RollbackExact'
    BY <2>1 DEF RegisteringInv, Registering, AtRest, RollbackExact
  <2> QED
    BY <2>2, <2>6, <2>7 DEF SPInv
<1>4. CASE EndFields
  <2>1. /\ sp_pc = "fields" /\ Replacing /\ Replacing' /\ sp_pc' = "safepoints"
        /\ safepoints_done' = safepoints_done \cup {sfpt}
        /\ UNCHANGED <<fate, alloc, sfpt, safepoints, saved, length_on_entry>>
    BY <1>4 DEF EndFields, Replacing
  <2>2. FatesInv' /\ DescribedInv'
    BY <1>0, <2>1 DEF FatesInv, Replacing, DescribedInv
  <2>3. /\ sfpt \in Safepoints /\ endoff'[sfpt] = Len(input'[sfpt])
        /\ HasFields(saved[1][sfpt], input'[sfpt], alloc)
        /\ \A s \in Safepoints \ {sfpt} : input'[s] = input[s] /\ endoff'[s] = endoff[s]
    BY <1>0, <1>4, EndFieldsStep DEF SPTypeOK
  <2>4. ReplacingInv'
    <3>1. /\ Resting(saved[1], saved[2], fate)' /\ fate'[alloc'] \in {"macro", "kept"}
          /\ CanEliminate(alloc)' /\ safepoints' \cap safepoints_done' = {}
      BY <1>0, <2>1 DEF ReplacingInv, Resting, CanEliminate
    <3>2. ASSUME NEW s \in Safepoints, s # sfpt
          PROVE  IF s \in safepoints_done
                   THEN HasFields(saved[1][s], input'[s], alloc) /\ endoff'[s] = Len(input'[s])
                 ELSE /\ input'[s] = saved[1][s] /\ endoff'[s] = saved[2][s]
                      /\ Refers(input'[s], alloc) => s \in safepoints
      BY <1>0, <2>1, <2>3, <3>2 DEF ReplacingInv
    <3> QED
      BY <2>1, <2>3, <3>1, <3>2 DEF ReplacingInv
  <2>5. RegisteringInv' /\ (AtRest => Resting(input, endoff, fate))' /\ RollbackExact'
    BY <2>1 DEF RegisteringInv, Registering, AtRest, RollbackExact
  <2> QED
    BY <2>2, <2>4, <2>5 DEF SPInv
<1>5. CASE NoFieldValue
  <2>1. /\ sp_pc = "fields" /\ Replacing /\ sp_pc' = "eliminate" /\ input' = saved[1] /\ endoff' = saved[2]
        /\ fate' = [fate EXCEPT ![alloc] = "kept"] /\ UNCHANGED <<alloc, saved, length_on_entry>>
    BY <1>5, NoFieldValueStep DEF NoFieldValue, Replacing
  <2>2. fate[alloc] \in {"macro", "kept"} /\ Resting(saved[1], saved[2], fate)
    BY <1>0, <2>1 DEF ReplacingInv
  <2>3. FatesInv' /\ DescribedInv'
    BY <1>0, <2>1, <2>2 DEF FatesInv, DescribedInv, SPTypeOK, Replacing
  <2>4. Resting(saved[1], saved[2], fate')
    <3> SUFFICES ASSUME NEW s \in Safepoints, NEW i \in 1..Len(saved[1][s])
                 PROVE  LET v == saved[1][s][i] IN
                        /\ v.kind = "object" => fate'[v.alloc] \in {"scalar", "stack"}
                        /\ v.kind = "result" => fate'[v.alloc] \in {"macro", "kept"}
      BY <2>2 DEF Resting, Current
    <3>1. saved[1][s][i] \in Input
      BY <1>0 DEF SPTypeOK
    <3> DEFINE v == saved[1][s][i]
    <3>2. /\ v.kind = "object" => fate[v.alloc] \in {"scalar", "stack"} /\ v.alloc \in Allocs
          /\ v.kind = "result" => fate[v.alloc] \in {"macro", "kept"} /\ v.alloc \in Allocs
      BY <2>2, <3>1, InputKinds DEF Resting, Current
    <3> HIDE DEF v
    <3>3. /\ v.kind = "object" => fate'[v.alloc] \in {"scalar", "stack"}
          /\ v.kind = "result" => fate'[v.alloc] \in {"macro", "kept"}
      BY <1>0, <2>1, <2>2, <3>2 DEF SPTypeOK
    <3> QED
      BY <3>3 DEF v
  <2>5. (AtRest => Resting(input, endoff, fate))'
    BY <2>1, <2>4 DEF Resting
  <2>6. RollbackExact'
    <3>1. saved = <<saved[1], saved[2]>>
      BY <1>0 DEF SPTypeOK
    <3> QED
      BY <2>1, <3>1 DEF RollbackExact
  <2>7. RegisteringInv' /\ ReplacingInv'
    BY <2>1 DEF RegisteringInv, Registering, ReplacingInv, Replacing
  <2> QED
    BY <2>3, <2>5, <2>6, <2>7 DEF SPInv
<1>6. CASE ProcessUsers
  <2>1. /\ sp_pc = "safepoints" /\ Replacing /\ sp_pc' = "eliminate" /\ safepoints = {}
        /\ fate' = [fate EXCEPT ![alloc] = "scalar"]
        /\ UNCHANGED <<input, endoff, alloc, saved, length_on_entry>>
    BY <1>6 DEF ProcessUsers, Replacing
  <2>2. alloc \in Allocs /\ fate[alloc] \in {"macro", "kept"} /\ CanEliminate(alloc)
    BY <1>0, <2>1 DEF ReplacingInv, SPTypeOK
  <2>3. FatesInv' /\ DescribedInv'
    <3>1. \A a \in Allocs : fate'[a] = IF a = alloc THEN "scalar" ELSE fate[a]
      BY <1>0, <2>1 DEF SPTypeOK
    <3>2. \A a \in Allocs : fate'[a] # "stack"
      BY <1>0, <2>1, <3>1 DEF FatesInv
    <3>3. \A a, b \in Allocs : fate'[b] = "scalar" /\ b \in held[a] => fate'[a] = "scalar"
      BY <1>0, <2>2, <3>1 DEF FatesInv, CanEliminate
    <3> QED
      BY <3>2, <3>3 DEF FatesInv, DescribedInv
  <2>4. ASSUME NEW s \in Safepoints
        PROVE  endoff[s] = Len(input[s]) /\ Readable(input[s]) /\ Current(input[s], fate')
    <3> DEFINE old == saved[1][s]
    <3>1. /\ old \in Seq(Input) /\ saved[2][s] = Len(old) /\ Readable(old) /\ Current(old, fate)
          /\ \A i \in 1..Len(old) : old[i].kind = "object" => old[i].alloc # alloc
          /\ input[s] \in Seq(Input)
      BY <1>0, <2>1, SavedProperties DEF SPTypeOK
    <3> HIDE DEF old
    <3>2. \A v \in Input : v # Res(alloc) =>
            /\ v.kind = "object" => (fate[v.alloc] \in {"scalar", "stack"} => fate'[v.alloc] \in {"scalar", "stack"})
            /\ v.kind = "result" => (fate[v.alloc] \in {"macro", "kept"} => fate'[v.alloc] \in {"macro", "kept"})
      BY <1>0, <2>1, <2>2, InputKinds DEF SPTypeOK
    <3>3. CASE s \in safepoints_done
      <4>1. HasFields(old, input[s], alloc) /\ endoff[s] = Len(input[s])
        BY <1>0, <2>1, <3>3 DEF ReplacingInv, old
      <4>2. Readable(input[s])
        BY <2>2, <3>1, <4>1, HasFieldsReadable
      <4>3. ASSUME NEW i \in 1..Len(input[s])
            PROVE  /\ input[s][i].kind = "object" => fate'[input[s][i].alloc] \in {"scalar", "stack"}
                   /\ input[s][i].kind = "result" => fate'[input[s][i].alloc] \in {"macro", "kept"}
        <5>1. CASE i > Len(old)
          <6>1. input[s][i] \in FieldValues(alloc)
            BY <4>1, <5>1 DEF HasFields, Extended
          <6>2. \/ input[s][i] = Val
                \/ \E b \in held[alloc] : input[s][i] = Res(b) /\ b # alloc /\ b \in Allocs
                                          /\ fate[b] \in {"macro", "kept"}
            BY <2>1, <6>1, FieldsNotRemoved DEF FieldValues
          <6> QED
            BY <1>0, <2>1, <2>2, <6>2, Kinds DEF SPTypeOK
        <5>2. CASE i \in 1..Len(old) /\ old[i] = Res(alloc)
          <6>1. input[s][i] = Sobj(alloc, Len(old) + 1, FALSE)
            BY <4>1, <5>2 DEF HasFields
          <6>2. input[s][i].kind = "object" /\ input[s][i].alloc = alloc
            BY <6>1 DEF Sobj
          <6> QED
            BY <1>0, <2>1, <2>2, <6>2 DEF SPTypeOK
        <5>3. CASE i \in 1..Len(old) /\ old[i] # Res(alloc)
          <6>1. input[s][i] = old[i]
            BY <4>1, <5>3 DEF HasFields
          <6>2. input[s][i] \in Input
            BY <3>1
          <6> QED
            BY <3>1, <3>2, <5>3, <6>1, <6>2 DEF Current
        <5> QED
          BY <3>1, <5>1, <5>2, <5>3
      <4> QED
        BY <4>1, <4>2, <4>3 DEF Current
    <3>4. CASE s \notin safepoints_done
      <4>1. input[s] = old /\ endoff[s] = saved[2][s] /\ ~Refers(input[s], alloc)
        BY <1>0, <2>1, <3>4 DEF ReplacingInv, old
      <4>2. \A i \in 1..Len(old) : old[i] # Res(alloc) /\ old[i] \in Input
        BY <3>1, <4>1 DEF Refers
      <4> QED
        BY <3>1, <3>2, <4>1, <4>2 DEF Current
    <3> QED
      BY <3>3, <3>4
  <2>5. (AtRest => Resting(input, endoff, fate))'
    BY <2>1, <2>4 DEF Resting
  <2>6. RollbackExact' /\ RegisteringInv' /\ ReplacingInv'
    BY <1>0, <2>1, <2>2 DEF SPTypeOK, RollbackExact, RegisteringInv, Registering, ReplacingInv, Replacing
  <2> QED
    BY <2>3, <2>5, <2>6 DEF SPInv
<1>7. CASE EndEliminate
  <2>1. /\ sp_pc = "eliminate" /\ AtRest /\ AtRest' /\ sp_pc' = "expand"
        /\ UNCHANGED <<input, endoff, fate, alloc, saved, length_on_entry>>
    BY <1>7 DEF EndEliminate, AtRest
  <2>2. FatesInv' /\ DescribedInv' /\ ReplacingInv' /\ RegisteringInv'
    BY <1>0, <2>1 DEF FatesInv, DescribedInv, Position, Replacing, ReplacingInv, RegisteringInv, Registering
  <2>3. (AtRest => Resting(input, endoff, fate))' /\ RollbackExact'
    BY <1>0, <2>1 DEF Resting, RollbackExact
  <2> QED
    BY <2>2, <2>3 DEF SPInv
<1> QED
  BY <1>1, <1>2, <1>3, <1>4, <1>5, <1>6, <1>7

LEMMA ExpandSteps ==
  ASSUME SPInv, SPTypeOK',
         \/ \E a \in Allocs : StackAllocation(a)
         \/ \E u \in temp : HandleSafepoint(u)
         \/ WalkOn \/ EndStackAllocation
  PROVE  SPInv'
<1>0. /\ SPTypeOK /\ FatesInv /\ RegisteringInv /\ DescribedInv
      /\ AtRest => Resting(input, endoff, fate)
  BY DEF SPInv
<1>1. ASSUME NEW a \in Allocs, StackAllocation(a) PROVE SPInv'
  <2>1. /\ sp_pc = "expand" /\ AtRest /\ fate[a] \in {"macro", "kept"} /\ alloc' = a /\ sp_pc' = "direct"
        /\ safepoint_map' = {}
        /\ UNCHANGED <<input, endoff, fate, length_on_entry>>
    BY <1>1 DEF StackAllocation, AtRest
  <2>2. \A s \in Safepoints : Refers(input[s], a) => \E u \in temp' : u[1] = s
    <3> SUFFICES ASSUME NEW s \in Safepoints, NEW i \in 1..Len(input[s]), input[s][i] = Res(a)
                 PROVE  <<s, i>> \in temp'
      BY DEF Refers
    <3>1. <<s, i>> \in {<<s, n>> : n \in {k \in Position(s) : input[s][k] = Res(a)}}
      BY DEF Position
    <3> QED
      BY <1>1, <3>1 DEF StackAllocation
  <2>3. FatesInv' /\ DescribedInv' /\ ReplacingInv'
    BY <1>0, <2>1 DEF FatesInv, DescribedInv, Position, ReplacingInv, Replacing
  <2>4. RegisteringInv'
    BY <1>0, <2>1, <2>2 DEF RegisteringInv, Resting, Current, Position
  <2>5. (AtRest => Resting(input, endoff, fate))' /\ RollbackExact'
    BY <2>1 DEF AtRest, RollbackExact
  <2> QED
    BY <2>3, <2>4, <2>5 DEF SPInv
<1>2. ASSUME NEW u \in temp, HandleSafepoint(u) PROVE SPInv'
  <2>1. PICK o \in Input, s \in Safepoints, k \in Nat :
           /\ s = u[1] /\ o = Sobj(alloc, k, TRUE)
           /\ input' = [input EXCEPT ![s] = input'[s]] /\ input'[s] \in Seq(Input)
           /\ endoff' = [endoff EXCEPT ![s] = Len(input'[s])]
           /\ safepoint_map' = safepoint_map \cup {<<s, o>>}
           /\ \A m \in safepoint_map : m[1] = s => m = <<s, o>>
           /\ Len(input[s]) <= Len(input'[s]) /\ Readable(input'[s])
           /\ \A i \in 1..Len(input'[s]) :
                input'[s][i] = o \/ (i <= Len(input[s]) /\ input'[s][i] = input[s][i])
           /\ \E i \in 1..Len(input'[s]) : input'[s][i] = o
           /\ \A i \in 1..Len(input[s]) : input[s][i].kind = "object" => input'[s][i] = input[s][i]
           /\ sp_pc = "direct" => ~Refers(input'[s], alloc)
    BY <1>2, HandleSafepointStep
  <2>2. /\ sp_pc \in {"direct", "indirect"} /\ Registering /\ temp' = temp \ {u}
        /\ UNCHANGED <<fate, sp_pc, alloc, length_on_entry>>
    BY <1>2 DEF HandleSafepoint, Registering
  <2>3. /\ input'[s] \in Seq(Input) /\ endoff'[s] = Len(input'[s])
        /\ \A t \in Safepoints \ {s} : input'[t] = input[t] /\ endoff'[t] = endoff[t]
    BY <1>0, <2>1 DEF SPTypeOK
  <2>4. o.kind = "object" /\ o.alloc = alloc /\ o.stack = TRUE /\ o # Res(alloc)
    <3>1. o.kind = "object" /\ o.alloc = alloc /\ o.stack = TRUE
      BY <2>1 DEF Sobj
    <3> QED
      BY <3>1, Kinds
  <2>5. FatesInv' /\ ReplacingInv'
    BY <1>0, <2>2 DEF FatesInv, ReplacingInv, Replacing
  <2>6. DescribedInv'
    <3> SUFFICES ASSUME NEW a \in Allocs, fate[a] = "stack", NEW t \in reach[a]
                 PROVE  \E i \in 1..Len(input'[t]) :
                          input'[t][i].kind = "object" /\ input'[t][i].alloc = a /\ input'[t][i].stack
      BY <1>0, <2>2 DEF DescribedInv, Position
    <3>1. PICK i \in 1..Len(input[t]) :
            input[t][i].kind = "object" /\ input[t][i].alloc = a /\ input[t][i].stack
      BY <1>0 DEF DescribedInv, Position
    <3>2. t \in Safepoints /\ Len(input[t]) \in Nat
      <4>1. t \in Safepoints
        BY Constants
      <4>2. input[t] \in Seq(Input)
        BY <1>0, <4>1 DEF SPTypeOK
      <4> QED
        BY <4>1, <4>2
    <3>3. CASE t = s
      <4>1. input'[s][i] = input[s][i] /\ Len(input[s]) <= Len(input'[s]) /\ Len(input'[s]) \in Nat
        BY <2>1, <3>1, <3>3
      <4>2. i \in 1..Len(input'[s])
        BY <3>2, <3>3, <4>1
      <4> QED
        BY <3>1, <3>3, <4>1, <4>2
    <3>4. CASE t # s
      BY <2>3, <3>1, <3>2, <3>4
    <3> QED
      BY <3>3, <3>4
  <2>7. RegisteringInv'
    <3>0. /\ fate[alloc] \in {"macro", "kept"} /\ Registering' /\ Safepoints' = Safepoints
          /\ sp_pc' = sp_pc /\ fate' = fate /\ alloc' = alloc
      BY <1>0, <2>2 DEF RegisteringInv, Registering
    <3>a. s = u[1] /\ safepoint_map' = safepoint_map \cup {<<s, o>>}
      BY <2>1
    <3>b. \A i \in 1..Len(input'[s]) :
            input'[s][i] = o \/ (i \in 1..Len(input[s]) /\ input'[s][i] = input[s][i])
      <4>1. input[s] \in Seq(Input) /\ Len(input[s]) \in Nat
        BY <1>0 DEF SPTypeOK
      <4>2. \A i \in 1..Len(input'[s]) :
              input'[s][i] = o \/ (i <= Len(input[s]) /\ input'[s][i] = input[s][i])
        BY <2>1, Zenon
      <4>3. input'[s] \in Seq(Input)
        BY <2>3
      <4>4. \A i \in 1..Len(input'[s]) : i <= Len(input[s]) => i \in 1..Len(input[s])
        BY <4>1, <4>3
      <4> QED
        BY <4>2, <4>4, Zenon
    <3>1. ASSUME NEW t \in Safepoints
          PROVE  endoff'[t] = Len(input'[t]) /\ Readable(input'[t])
      BY <1>0, <2>1, <2>2, <2>3 DEF RegisteringInv
    <3>2. ASSUME NEW t \in Safepoints, NEW i \in 1..Len(input'[t])
          PROVE  /\ input'[t][i].kind = "object" =>
                      \/ fate[input'[t][i].alloc] \in {"scalar", "stack"}
                      \/ input'[t][i].alloc = alloc /\ <<t, input'[t][i]>> \in safepoint_map'
                 /\ input'[t][i].kind = "result" => fate[input'[t][i].alloc] \in {"macro", "kept"}
      <4>1. CASE t = s /\ input'[t][i] = o
        BY <2>1, <2>4, <4>1
      <4>2. CASE i \in 1..Len(input[t]) /\ input'[t][i] = input[t][i]
        <5>1. /\ input[t][i].kind = "object" =>
                   \/ fate[input[t][i].alloc] \in {"scalar", "stack"}
                   \/ input[t][i].alloc = alloc /\ <<t, input[t][i]>> \in safepoint_map
              /\ input[t][i].kind = "result" => fate[input[t][i].alloc] \in {"macro", "kept"}
          BY <1>0, <2>2, <4>2 DEF RegisteringInv, Position
        <5> QED
          BY <3>a, <4>2, <5>1
      <4>3. t = s => input'[t][i] = o \/ (i \in 1..Len(input[t]) /\ input'[t][i] = input[t][i])
        BY <3>b
      <4> QED
        BY <2>3, <4>1, <4>2, <4>3
    <3>3. ASSUME NEW t \in Safepoints, Refers(input'[t], alloc)
          PROVE  sp_pc = "direct" /\ \E w \in temp' : w[1] = t
      <4>1. t # s
        <5>1. CASE sp_pc = "direct"
          BY <2>1, <3>3, <5>1
        <5>2. CASE sp_pc = "indirect"
          <6>1. ~Refers(input[s], alloc)
            BY <1>0, <2>2, <5>2 DEF RegisteringInv
          <6>2. ~Refers(input'[s], alloc)
            BY <2>4, <3>b, <6>1 DEF Refers
          <6> QED
            BY <3>3, <6>2
        <5> QED
          BY <2>2, <5>1, <5>2
      <4>2. sp_pc = "direct" /\ \E w \in temp : w[1] = t
        BY <1>0, <2>2, <2>3, <3>3, <4>1 DEF RegisteringInv
      <4> QED
        BY <2>1, <2>2, <4>1, <4>2
    <3>4. ASSUME NEW m \in safepoint_map'
          PROVE  /\ \E i \in 1..Len(input'[m[1]]) : input'[m[1]][i] = m[2]
                 /\ \E n \in Nat : m[2] = Sobj(alloc, n, TRUE)
      <4>1. CASE m = <<s, o>>
        BY <2>1, <4>1
      <4>2. CASE m \in safepoint_map /\ m[1] # s
        <5>1. m[1] \in Safepoints
          BY <1>0, <4>2 DEF SPTypeOK
        <5>2. /\ \E i \in 1..Len(input[m[1]]) : input[m[1]][i] = m[2]
              /\ \E n \in Nat : m[2] = Sobj(alloc, n, TRUE)
          BY <1>0, <2>2, <4>2 DEF RegisteringInv, Position
        <5>3. input'[m[1]] = input[m[1]]
          BY <2>3, <4>2, <5>1
        <5> QED
          BY <5>2, <5>3
      <4> QED
        BY <2>1, <4>1, <4>2
    <3>5. \A m, n \in safepoint_map' : m[1] = n[1] => m = n
      <4>1. \A m \in safepoint_map' : m[1] = s => m = <<s, o>>
        BY <2>1
      <4>2. \A m \in safepoint_map' : m[1] # s => m \in safepoint_map
        BY <3>a
      <4> QED
        BY <1>0, <2>2, <4>1, <4>2 DEF RegisteringInv
    <3>6. ASSUME sp_pc = "indirect", NEW t \in reach[alloc]
          PROVE  <<t, 0>> \in temp' \/ \E m \in safepoint_map' : m[1] = t
      <4>1. <<t, 0>> \in temp \/ \E m \in safepoint_map : m[1] = t
        BY <1>0, <2>2, <3>6 DEF RegisteringInv
      <4>2. CASE u = <<t, 0>>
        <5>1. s = t
          BY <3>a, <4>2
        <5>2. <<s, o>> \in safepoint_map' /\ <<s, o>>[1] = s
          BY <3>a
        <5> QED
          BY <5>1, <5>2, Zenon
      <4> QED
        BY <2>2, <3>a, <4>1, <4>2
    <3>7. \A t \in Safepoints :
            /\ endoff'[t] = Len(input'[t]) /\ Readable(input'[t])
            /\ \A i \in 1..Len(input'[t]) :
                 /\ input'[t][i].kind = "object" =>
                      \/ fate[input'[t][i].alloc] \in {"scalar", "stack"}
                      \/ input'[t][i].alloc = alloc /\ <<t, input'[t][i]>> \in safepoint_map'
                 /\ input'[t][i].kind = "result" => fate[input'[t][i].alloc] \in {"macro", "kept"}
            /\ Refers(input'[t], alloc) => sp_pc = "direct" /\ \E w \in temp' : w[1] = t
      BY <3>1, <3>2, <3>3
    <3> QED
      BY <3>0, <3>4, <3>5, <3>6, <3>7 DEF RegisteringInv, Position
  <2>8. (AtRest => Resting(input, endoff, fate))' /\ RollbackExact'
    BY <2>2 DEF AtRest, RollbackExact
  <2> QED
    BY <2>5, <2>6, <2>7, <2>8 DEF SPInv
<1>3. CASE WalkOn
  <2>1. /\ sp_pc = "direct" /\ Registering /\ temp = {} /\ sp_pc' = "indirect"
        /\ temp' = {<<s, 0>> : s \in reach[alloc]}
        /\ UNCHANGED <<input, endoff, fate, alloc, safepoint_map, length_on_entry>>
    BY <1>3 DEF WalkOn, Registering
  <2>2. FatesInv' /\ DescribedInv' /\ ReplacingInv'
    BY <1>0, <2>1 DEF FatesInv, DescribedInv, Position, ReplacingInv, Replacing
  <2>3. RegisteringInv'
    BY <1>0, <2>1 DEF RegisteringInv, Position
  <2>4. (AtRest => Resting(input, endoff, fate))' /\ RollbackExact'
    BY <2>1 DEF AtRest, RollbackExact
  <2> QED
    BY <2>2, <2>3, <2>4 DEF SPInv
<1>4. CASE EndStackAllocation
  <2>1. /\ sp_pc = "indirect" /\ Registering /\ temp = {} /\ sp_pc' = "expand"
        /\ fate' = [fate EXCEPT ![alloc] = "stack"]
        /\ length_on_entry' = length_on_entry \cup IF reach[alloc] # {} THEN {alloc} \cap Arrays ELSE {}
        /\ UNCHANGED <<input, endoff, alloc, safepoint_map>>
    BY <1>4 DEF EndStackAllocation, Registering
  <2>2. alloc \in Allocs /\ \A a \in Allocs : fate'[a] = IF a = alloc THEN "stack" ELSE fate[a]
    BY <1>0, <2>1 DEF SPTypeOK
  <2>3. fate[alloc] \in {"macro", "kept"}
    BY <1>0, <2>1 DEF RegisteringInv
  <2>4. FatesInv' /\ ReplacingInv'
    BY <1>0, <2>1, <2>2, <2>3 DEF FatesInv, ReplacingInv, Replacing
  <2>5. DescribedInv'
    <3>1. ASSUME NEW s \in reach[alloc]
          PROVE  \E i \in Position(s) :
                   input[s][i].kind = "object" /\ input[s][i].alloc = alloc /\ input[s][i].stack
      <4>1. PICK m \in safepoint_map : m[1] = s
        BY <1>0, <2>1 DEF RegisteringInv
      <4>2. PICK i \in Position(m[1]) : input[m[1]][i] = m[2]
        BY <1>0, <2>1 DEF RegisteringInv
      <4>3. PICK k \in Nat : m[2] = Sobj(alloc, k, TRUE)
        BY <1>0, <2>1 DEF RegisteringInv
      <4>4. input[s][i].kind = "object" /\ input[s][i].alloc = alloc /\ input[s][i].stack
        BY <4>1, <4>2, <4>3 DEF Sobj
      <4> QED
        BY <4>1, <4>4
    <3> QED
      BY <1>0, <2>1, <2>2, <3>1 DEF DescribedInv, Position
  <2>6. Resting(input, endoff, fate')
    <3> SUFFICES ASSUME NEW s \in Safepoints, NEW i \in 1..Len(input[s])
                 PROVE  /\ input[s][i].kind = "object" => fate'[input[s][i].alloc] \in {"scalar", "stack"}
                        /\ input[s][i].kind = "result" => fate'[input[s][i].alloc] \in {"macro", "kept"}
      BY <1>0, <2>1 DEF RegisteringInv, Resting, Current
    <3>1. input[s][i] \in Input /\ input[s][i] # Res(alloc)
      BY <1>0, <2>1 DEF SPTypeOK, RegisteringInv, Refers
    <3>2. /\ input[s][i].kind = "object" => input[s][i].alloc \in Allocs
          /\ input[s][i].kind = "result" => input[s][i].alloc \in Allocs \ {alloc}
      BY <3>1, InputKinds
    <3>3. /\ input[s][i].kind = "object" =>
               fate[input[s][i].alloc] \in {"scalar", "stack"} \/ input[s][i].alloc = alloc
          /\ input[s][i].kind = "result" => fate[input[s][i].alloc] \in {"macro", "kept"}
      BY <1>0, <2>1 DEF RegisteringInv, Position
    <3> QED
      BY <2>2, <3>2, <3>3
  <2>7. (AtRest => Resting(input, endoff, fate))'
    BY <2>1, <2>6 DEF Resting
  <2>8. RollbackExact' /\ RegisteringInv'
    BY <2>1, <2>2 DEF RollbackExact, RegisteringInv, Registering
  <2> QED
    BY <2>4, <2>5, <2>7, <2>8 DEF SPInv
<1> QED
  BY <1>1, <1>2, <1>3, <1>4

-----------------------------------------------------------------------------
LEMMA SPInvInit ==
  ASSUME NEW debug \in DebugInputs, SPInit(debug)
  PROVE  SPInv
<1>1. /\ input = debug /\ endoff = [s \in Safepoints |-> Len(input[s])]
      /\ fate = [a \in Allocs |-> "macro"] /\ sp_pc = "eliminate" /\ j = 0
      /\ alloc = (CHOOSE a \in Allocs : TRUE)
      /\ safepoints = {} /\ safepoints_done = {} /\ temp = {} /\ safepoint_map = {}
      /\ saved = <<input, endoff>>
  BY DEF SPInit
<1>2. /\ input \in [Safepoints -> Seq(Values)] /\ Values \subseteq Input
      /\ \A s \in Safepoints : input[s] \in Seq(Values) /\ input[s] \in Seq(Input)
  <2>1. input \in [Safepoints -> Seq(Values)]
    BY <1>1 DEF DebugInputs, Values
  <2>2. Values \subseteq Input
    BY DEF Input
  <2> QED
    BY <2>1, <2>2
<1>3. alloc \in Allocs
  BY <1>1, Constants
<1>4. SPTypeOK
  <2>1. input \in [Safepoints -> Seq(Input)]
    BY <1>2
  <2>2. endoff \in [Safepoints -> Nat]
    BY <1>1, <1>2
  <2> QED
    BY <1>1, <1>3, <2>1, <2>2 DEF SPTypeOK
<1>5. ASSUME NEW s \in Safepoints, NEW i \in 1..Len(input[s])
      PROVE  /\ input[s][i].kind # "object"
             /\ input[s][i].kind = "result" => fate[input[s][i].alloc] = "macro"
  <2>1. input[s][i] \in Values
    BY <1>2
  <2>2. CASE input[s][i] = Val
    BY <2>2, Kinds
  <2>3. ASSUME NEW a \in Allocs, input[s][i] = Res(a)
        PROVE  input[s][i].kind = "result" /\ fate[input[s][i].alloc] = "macro"
    BY <1>1, <2>3, Kinds
  <2> QED
    BY <2>1, <2>2, <2>3 DEF Values
<1>6. Resting(input, endoff, fate)
  BY <1>1, <1>5 DEF Resting, Readable, Current
<1>7. FatesInv /\ ReplacingInv /\ RegisteringInv /\ DescribedInv /\ RollbackExact
  BY <1>1, <1>3 DEF FatesInv, ReplacingInv, Replacing, RegisteringInv, Registering, DescribedInv, RollbackExact
<1> QED
  BY <1>4, <1>6, <1>7 DEF SPInv

LEMMA SPInvNext ==
  ASSUME SPInv, [SPNext]_spVars
  PROVE  SPInv'
<1>1. CASE SPNext
  <2>1. SPTypeOK'
    BY <1>1, SPTypeInductive
  <2> QED
    BY <1>1, <2>1, EliminateSteps, ExpandSteps DEF SPNext, FieldValues
<1>2. CASE UNCHANGED spVars
  <2>1. /\ SPTypeOK' /\ FatesInv' /\ ReplacingInv'
    BY <1>2 DEF spVars, SPInv, SPTypeOK, FatesInv, ReplacingInv, Replacing, CanEliminate
  <2>0. /\ UNCHANGED input /\ UNCHANGED endoff /\ UNCHANGED fate /\ UNCHANGED sp_pc
        /\ UNCHANGED alloc /\ UNCHANGED temp /\ UNCHANGED safepoint_map
        /\ UNCHANGED length_on_entry /\ RegisteringInv /\ DescribedInv
    BY <1>2 DEF spVars, SPInv
  <2>2. RegisteringInv'
    BY <2>0, Zenon DEF RegisteringInv, Registering, Position
  <2>4. DescribedInv'
    BY <2>0, Zenon DEF DescribedInv, Position
  <2>3. (AtRest => Resting(input, endoff, fate))' /\ RollbackExact'
    BY <1>2 DEF spVars, SPInv, RollbackExact, AtRest
  <2> QED
    BY <2>1, <2>2, <2>3, <2>4 DEF SPInv
<1> QED
  BY <1>1, <1>2

\* Along every run of the elimination and the expansion, the inductive invariant holds.
THEOREM SPInvariant == SPSpec => []SPInv
<1>1. (\E debug \in DebugInputs : SPInit(debug)) => SPInv
  BY SPInvInit
<1>2. SPInv /\ [SPNext]_spVars => SPInv'
  BY SPInvNext
<1> QED
  BY <1>1, <1>2, PTL DEF SPSpec

\* For every set of allocations and safepoints: an allocation whose fields could not all
\* be found leaves the safepoints as scalar_replacement met them.
THEOREM RollbackIsExact == SPSpec => []RollbackExact
<1>1. SPInv => RollbackExact
  BY DEF SPInv
<1> QED
  BY <1>1, SPInvariant, PTL

LEMMA FieldsDisjointHolds ==
  ASSUME SPInv
  PROVE  FieldsDisjoint
<1> SUFFICES ASSUME AtRest, NEW s \in Safepoints
             PROVE  /\ endoff[s] = Len(input[s])
                    /\ \A o \in ObjectsAt(s) : FieldsAt(o) \subseteq Position(s)
                    /\ \A o, p \in ObjectsAt(s) : o # p => FieldsAt(o) \cap FieldsAt(p) = {}
                    /\ \A o \in ObjectsAt(s) : o.stack => input[s][o.first] = o
  BY DEF FieldsDisjoint
<1>1. endoff[s] = Len(input[s]) /\ Readable(input[s])
  BY DEF SPInv, Resting
<1>2. \A o \in ObjectsAt(s) : \E i \in 1..Len(input[s]) : input[s][i] = o /\ o.kind = "object"
  BY DEF ObjectsAt, Position
<1>3. \A o \in ObjectsAt(s) : FieldsAt(o) \subseteq Position(s) /\ (o.stack => input[s][o.first] = o)
  BY <1>1, <1>2 DEF Readable, Position
<1>4. \A o, p \in ObjectsAt(s) : o # p => FieldsAt(o) \cap FieldsAt(p) = {}
  BY <1>1, <1>2 DEF Readable
<1> QED
  BY <1>1, <1>3, <1>4

\* For every set of allocations and safepoints: between two allocations of
\* expand_macro_nodes the debug information of each safepoint can be read.
THEOREM FieldsAreDisjoint == SPSpec => []FieldsDisjoint
BY SPInvariant, FieldsDisjointHolds, PTL

LEMMA ReplacedEverywhereHolds ==
  ASSUME SPInv
  PROVE  ReplacedEverywhere
<1> SUFFICES ASSUME AtRest, NEW a \in Allocs
             PROVE  /\ fate[a] \in {"scalar", "stack"} => UsesOf(a) = {}
                    /\ \A s \in Safepoints : Cardinality({o \in ObjectsAt(s) : o.alloc = a}) <= 1
  BY DEF ReplacedEverywhere
<1>0. \A s \in Safepoints : Readable(input[s]) /\ Current(input[s], fate)
  BY DEF SPInv, Resting
<1>1. ASSUME fate[a] \in {"scalar", "stack"} PROVE UsesOf(a) = {}
  <2> SUFFICES ASSUME NEW s \in Safepoints, NEW i \in 1..Len(input[s]), input[s][i] = Res(a)
               PROVE  FALSE
    BY DEF UsesOf, Position
  <2>1. input[s][i].kind = "result" /\ input[s][i].alloc = a
    BY Kinds
  <2> QED
    BY <1>0, <1>1, <2>1 DEF Current
<1>2. ASSUME NEW s \in Safepoints
      PROVE  Cardinality({o \in ObjectsAt(s) : o.alloc = a}) <= 1
  <2> DEFINE T == {o \in ObjectsAt(s) : o.alloc = a}
  <2>1. \A o, p \in T : o = p
    <3>1. \A o \in ObjectsAt(s) : \E i \in 1..Len(input[s]) : input[s][i] = o /\ o.kind = "object"
      BY DEF ObjectsAt, Position
    <3> QED
      BY <1>0, <3>1 DEF Readable
  <2> HIDE DEF T
  <2>2. CASE T = {}
    BY <2>2, FS_EmptySet DEF T
  <2>3. CASE T # {}
    <3>1. PICK o \in T : T = {o}
      BY <2>1, <2>3
    <3>2. Cardinality(T) = 1
      BY <3>1, FS_Singleton
    <3> QED
      BY <3>2 DEF T
  <2> QED
    BY <2>2, <2>3
<1> QED
  BY <1>1, <1>2

\* For every set of allocations and safepoints: no safepoint refers to a removed
\* allocation, and each describes it by at most one object.
THEOREM ReplacedIsGone == SPSpec => []ReplacedEverywhere
BY SPInvariant, ReplacedEverywhereHolds, PTL

\* For every set of allocations and safepoints: each safepoint that the walk of
\* register_stack_allocated_object_with_safepoints reaches describes the stack object,
\* and the arrays among them have their length from method entry on.
THEOREM StackObjectsAreDescribed == SPSpec => []StackObjectsDescribed
<1>1. SPInv => StackObjectsDescribed
  <2> SUFFICES ASSUME SPInv, NEW a \in Allocs, fate[a] = "stack"
               PROVE  /\ \A s \in reach[a] : \E o \in ObjectsAt(s) : o.alloc = a /\ o.stack
                      /\ a \in Arrays /\ reach[a] # {} => a \in length_on_entry
    BY DEF StackObjectsDescribed
  <2>1. /\ \A s \in reach[a] : \E i \in Position(s) :
             input[s][i].kind = "object" /\ input[s][i].alloc = a /\ input[s][i].stack
        /\ a \in Arrays /\ reach[a] # {} => a \in length_on_entry
    BY DEF SPInv, DescribedInv
  <2> QED
    BY <2>1 DEF ObjectsAt
<1> QED
  BY <1>1, SPInvariant, PTL

-----------------------------------------------------------------------------
MarkWord == [kind : {"biased", "free", "locked"}, owner : Threads \cup {Nobody}, epoch : Nat]

\* The variables have the types of the code's.
BLTypeOK ==
  /\ inlining \in BOOLEAN /\ markWord \in MarkWord
  /\ prototype \in [biased : BOOLEAN, epoch : Nat]
  /\ bl_pc \in [Threads -> {"out", "slow", "test", "reset", "rebias", "fast", "unlock"}]
  /\ readMark \in [Threads -> MarkWord] /\ depth \in [Threads -> Nat]

\* What a thread between two accesses knows from the mark word it read.
ReadsInv ==
  \A t \in Threads :
    /\ bl_pc[t] = "test" /\ readMark[t].kind # "biased" => markWord.kind # "biased"
    /\ bl_pc[t] = "fast" => markWord.kind # "biased"
    /\ bl_pc[t] = "test" /\ OwnBias(t) => markWord = readMark[t]
    /\ bl_pc[t] = "test" /\ readMark[t].kind = "biased" /\ ~prototype.biased =>
         markWord = readMark[t] \/ markWord.kind # "biased"
    /\ bl_pc[t] = "reset" => /\ ~prototype.biased /\ readMark[t].kind = "biased"
                             /\ markWord = readMark[t] \/ markWord.kind # "biased"
    /\ bl_pc[t] = "rebias" => prototype.biased /\ readMark[t].kind = "biased"
    /\ bl_pc[t] = "unlock" => /\ depth[t] > 0
                              /\ readMark[t].kind = "biased" <=> markWord.kind = "biased"

\* Without UseOptoBiasInlining nothing is ever biased.
NoBiasInv == ~inlining => markWord.kind # "biased" /\ ~prototype.biased

BLInv == BLTypeOK /\ ReadsInv /\ NoBiasInv /\ LockExclusive

-----------------------------------------------------------------------------
\* Every kind of mark word is a mark word, and no two kinds are equal.
LEMMA MarkWords ==
  ASSUME NEW t \in Threads \cup {Nobody}, NEW e \in Nat
  PROVE  /\ Biased(t, e) \in MarkWord /\ Unlocked \in MarkWord /\ LockedBy(t) \in MarkWord
         /\ Biased(t, e).kind = "biased" /\ Biased(t, e).owner = t /\ Biased(t, e).epoch = e
         /\ Unlocked.kind = "free" /\ LockedBy(t).kind = "locked" /\ LockedBy(t).owner = t
  BY DEF MarkWord, Biased, Unlocked, LockedBy, Nobody

\* The ways a thread gets through a step that may take the lock.
LEMMA LockSteps ==
  ASSUME NEW t \in Threads, TestBias(t) \/ Rebias(t) \/ FastLock(t) \/ SlowLock(t)
  PROVE  /\ \/ \E pc \in {"fast", "reset", "rebias", "slow"} : Fails(t, pc)
            \/ Acquired(t, markWord) \/ Acquired(t, Biased(t, prototype.epoch))
            \/ Acquired(t, LockedBy(t))
         /\ UNCHANGED <<inlining, prototype, readMark>>
  BY DEF TestBias, Rebias, FastLock, SlowLock

LEMMA BLTypeInductive == BLTypeOK /\ ReadsInv /\ BLNext => BLTypeOK'
<1> SUFFICES ASSUME BLTypeOK, ReadsInv, BLNext PROVE BLTypeOK'
  OBVIOUS
<1>0. markWord.owner \in Threads \cup {Nobody} /\ prototype.epoch \in Nat /\ Threads \subseteq Threads \cup {Nobody}
  BY DEF BLTypeOK, MarkWord
<1> USE MarkWords, <1>0 DEF BLTypeOK
<1>1. ASSUME NEW t \in Threads, LoadMark(t) PROVE BLTypeOK'
  BY <1>1 DEF LoadMark, Loads, Goto
<1>2. ASSUME NEW t \in Threads, TestBias(t) \/ Rebias(t) \/ FastLock(t) \/ SlowLock(t)
      PROVE  BLTypeOK'
  <2>1. UNCHANGED <<inlining, prototype, readMark>>
    BY <1>2, LockSteps
  <2>2. ASSUME NEW pc \in {"fast", "reset", "rebias", "slow"}, Fails(t, pc) PROVE BLTypeOK'
    BY <2>1, <2>2 DEF Fails, Goto
  <2>3. ASSUME NEW m \in MarkWord, Acquired(t, m) PROVE BLTypeOK'
    BY <2>1, <2>3 DEF Acquired, Goto
  <2> QED
    BY <1>2, <2>2, <2>3, LockSteps
<1>3. ASSUME NEW t \in Threads, ResetMark(t) PROVE BLTypeOK'
  BY <1>3 DEF ResetMark, Goto
<1>6. ASSUME NEW t \in Threads, SlowRevoke(t) PROVE BLTypeOK'
  BY <1>6 DEF SlowRevoke, Revoked, Safe
<1>8. ASSUME NEW t \in Threads, LoadMarkUnlock(t) PROVE BLTypeOK'
  BY <1>8 DEF LoadMarkUnlock, Loads, Goto
<1>9. ASSUME NEW t \in Threads, Unlock(t) PROVE BLTypeOK'
  BY <1>9 DEF Unlock, Goto, ReadsInv
<1>10. CASE BulkRebias
  BY <1>10 DEF BulkRebias, InUse
<1>11. CASE BulkRevoke
  BY <1>11 DEF BulkRevoke, InUse
<1> QED
  BY <1>1, <1>2, <1>3, <1>6, <1>8, <1>9, <1>10, <1>11 DEF BLNext

-----------------------------------------------------------------------------
StepInv == ReadsInv /\ NoBiasInv /\ LockExclusive

\* A thread that only goes on has to bring what is known at its new place.
LEMMA GoesOn ==
  ASSUME BLInv, NEW t \in Threads, NEW pc \in {"fast", "reset", "rebias", "slow"}, Fails(t, pc),
         UNCHANGED <<inlining, prototype, readMark>>,
         pc = "fast" => markWord.kind # "biased",
         pc = "reset" => /\ ~prototype.biased /\ readMark[t].kind = "biased"
                         /\ markWord = readMark[t] \/ markWord.kind # "biased",
         pc = "rebias" => prototype.biased /\ readMark[t].kind = "biased"
  PROVE  StepInv'
<1> USE DEF BLInv, BLTypeOK, Fails, Goto
<1>1. ReadsInv'
  BY DEF ReadsInv, OwnBias
<1>2. (NoBiasInv /\ LockExclusive)'
  BY DEF NoBiasInv, LockExclusive
<1> QED
  BY <1>1, <1>2 DEF StepInv

\* A thread may take the lock when no other holds it, by a bias that is valid already, by
\* a new bias instead of one that is not valid, or from a mark word without bias.
LEMMA TakesLock ==
  ASSUME BLInv, NEW t \in Threads, NEW m \in MarkWord, Acquired(t, m),
         UNCHANGED <<inlining, prototype, readMark>>, bl_pc[t] # "unlock",
         \A u \in Threads \ {t} : depth[u] = 0,
         \/ m = LockedBy(t) /\ markWord.kind # "biased"
         \/ prototype.biased /\ m = Biased(t, prototype.epoch) /\ markWord = m
         \/ /\ prototype.biased /\ m = Biased(t, prototype.epoch) /\ markWord.kind = "biased"
            /\ \A u \in Threads : markWord # Biased(u, prototype.epoch)
  PROVE  StepInv'
<1>0. prototype.epoch \in Nat /\ LockedBy(t).kind = "locked" /\ Biased(t, prototype.epoch).kind = "biased"
  BY MarkWords DEF BLInv, BLTypeOK
<1> USE <1>0 DEF BLInv, BLTypeOK, Acquired, Goto
<1>1. ReadsInv'
  <2> SUFFICES ASSUME NEW u \in Threads PROVE ReadsInv!(u)'
    BY DEF ReadsInv
  <2>1. CASE u = t
    BY <2>1
  <2>2. CASE u # t
    <3>1. bl_pc'[u] = bl_pc[u] /\ depth[u] = 0
      BY <2>2
    <3>2. ReadsInv!(u)
      BY DEF ReadsInv
    <3>3. CASE markWord' = markWord
      BY <3>1, <3>2, <3>3 DEF OwnBias
    <3>4. CASE m = LockedBy(t) /\ markWord.kind # "biased"
      BY <3>1, <3>2, <3>4, MarkWords DEF OwnBias
    <3>5. CASE /\ prototype.biased /\ m = Biased(t, prototype.epoch) /\ markWord.kind = "biased"
               /\ markWord # Biased(u, prototype.epoch)
      BY <3>1, <3>2, <3>5 DEF OwnBias
    <3> QED
      BY <3>3, <3>4, <3>5
  <2> QED
    BY <2>1, <2>2
<1>2. NoBiasInv'
  BY DEF NoBiasInv
<1>3. LockExclusive'
  BY DEF LockExclusive
<1> QED
  BY <1>1, <1>2, <1>3 DEF StepInv

LEMMA BLInvInductive == BLInv /\ BLNext => BLInv'
<1> SUFFICES ASSUME BLInv, BLNext PROVE StepInv'
  BY BLTypeInductive DEF BLInv, StepInv
<1>0. /\ markWord \in MarkWord /\ prototype.epoch \in Nat /\ Nobody \notin Threads
      /\ markWord.owner \in Threads \cup {Nobody}
  BY ThreadsAssumption DEF BLInv, BLTypeOK, MarkWord, Nobody
<1> DEFINE Valid(t) == Biased(t, prototype.epoch)
<1>T. ASSUME NEW t \in Threads
      PROVE  /\ Valid(t) \in MarkWord /\ LockedBy(t) \in MarkWord /\ Unlocked \in MarkWord
             /\ Valid(t).kind = "biased" /\ Valid(t).owner = t /\ Valid(t).epoch = prototype.epoch
             /\ LockedBy(t).kind = "locked" /\ LockedBy(t).owner = t /\ Unlocked.kind = "free"
  BY <1>0, MarkWords
<1>H. \A t \in Threads : depth[t] > 0 =>
        /\ \A u \in Threads \ {t} : depth[u] = 0
        /\ markWord = LockedBy(t) \/ (prototype.biased /\ markWord = Valid(t))
  BY DEF BLInv, LockExclusive
<1>D. \A t \in Threads : depth[t] \in Nat
  BY DEF BLInv, BLTypeOK
<1> HIDE DEF Valid
<1>1. ASSUME NEW t \in Threads, LoadMark(t) PROVE StepInv'
  BY <1>1 DEF LoadMark, Loads, Goto, BLInv, BLTypeOK, StepInv, ReadsInv, NoBiasInv, LockExclusive, OwnBias
<1>2. ASSUME NEW t \in Threads, TestBias(t) PROVE StepInv'
  <2>1. /\ bl_pc[t] = "test" /\ UNCHANGED <<inlining, prototype, readMark>>
        /\ \/ readMark[t].kind # "biased" /\ Fails(t, "fast")
           \/ OwnBias(t) /\ Acquired(t, markWord)
           \/ readMark[t].kind = "biased" /\ ~prototype.biased /\ Fails(t, "reset")
           \/ readMark[t].kind = "biased" /\ prototype.biased /\ Fails(t, "rebias")
    BY <1>2 DEF TestBias, OwnBias
  <2>2. ReadsInv!(t)
    BY DEF BLInv, ReadsInv
  <2>3. CASE OwnBias(t) /\ Acquired(t, markWord)
    <3>1. prototype.biased /\ markWord = Valid(t)
      BY <2>1, <2>2, <2>3 DEF OwnBias, Valid
    <3>2. \A u \in Threads \ {t} : depth[u] = 0
      BY <3>1, <1>D, <1>H, <1>T
    <3> QED
      BY <2>1, <2>3, <3>1, <3>2, <1>0, TakesLock DEF Valid
  <2> QED
    <3>1. CASE readMark[t].kind # "biased" /\ Fails(t, "fast")
      BY <2>1, <2>2, <3>1, GoesOn
    <3>2. CASE readMark[t].kind = "biased" /\ ~prototype.biased /\ Fails(t, "reset")
      BY <2>1, <2>2, <3>2, GoesOn
    <3>3. CASE readMark[t].kind = "biased" /\ prototype.biased /\ Fails(t, "rebias")
      BY <2>1, <3>3, GoesOn
    <3> QED
      BY <2>1, <2>3, <3>1, <3>2, <3>3
<1>3. ASSUME NEW t \in Threads, ResetMark(t) PROVE StepInv'
  <2>1. /\ bl_pc[t] = "reset" /\ ~prototype.biased /\ readMark[t].kind = "biased"
        /\ (markWord = readMark[t] \/ markWord.kind # "biased")
    BY <1>3 DEF BLInv, ReadsInv, ResetMark
  <2>2. markWord'.kind # "biased" /\ (markWord.kind # "biased" => markWord'.kind = markWord.kind)
    BY <1>3, <2>1, <1>T DEF ResetMark
  <2>3. \A u \in Threads : depth[u] > 0 => markWord' = markWord
    BY <1>3, <2>1, <1>D, <1>H, <1>T DEF ResetMark
  <2>4. bl_pc' = [bl_pc EXCEPT ![t] = "fast"] /\ UNCHANGED <<inlining, prototype, readMark, depth>>
    BY <1>3 DEF ResetMark, Goto
  <2>5. ReadsInv'
    BY <2>1, <2>2, <2>3, <2>4 DEF BLInv, BLTypeOK, ReadsInv, OwnBias
  <2>6. (NoBiasInv /\ LockExclusive)'
    BY <2>2, <2>3, <2>4 DEF BLInv, NoBiasInv, LockExclusive
  <2> QED
    BY <2>5, <2>6 DEF StepInv
<1>4. ASSUME NEW t \in Threads, Rebias(t) PROVE StepInv'
  <2>1. /\ bl_pc[t] = "rebias" /\ prototype.biased /\ readMark[t].kind = "biased"
        /\ UNCHANGED <<inlining, prototype, readMark>>
    BY <1>4 DEF Rebias, BLInv, ReadsInv
  <2>2. CASE Fails(t, "slow")
    BY <2>1, <2>2, GoesOn
  <2>3. CASE Acquired(t, Valid(t)) /\ markWord.kind = "biased" /\ \A u \in Threads : markWord # Valid(u)
    <3>1. \A u \in Threads : depth[u] = 0
      BY <1>D, <1>H, <1>T, <2>3
    <3> QED
      BY <2>1, <2>3, <3>1, <1>T, TakesLock DEF Valid
  <2> QED
    <3> DEFINE m == readMark[t]
               old == IF m.epoch # prototype.epoch THEN m ELSE Biased(Nobody, m.epoch)
    <3>1. old.kind = "biased" /\ (old.epoch # prototype.epoch \/ old.owner = Nobody)
      BY <2>1, <1>0 DEF Biased
    <3>2. \A u \in Threads : old # Valid(u)
      BY <3>1, <1>0, <1>T
    <3>3. IF markWord = old THEN Acquired(t, Valid(t)) ELSE Fails(t, "slow")
      BY <1>4 DEF Rebias, Valid
    <3> QED
      BY <3>1, <3>2, <3>3, <2>2, <2>3
<1>5. ASSUME NEW t \in Threads, FastLock(t) PROVE StepInv'
  <2>1. bl_pc[t] = "fast" /\ markWord.kind # "biased" /\ UNCHANGED <<inlining, prototype, readMark>>
    BY <1>5 DEF FastLock, BLInv, ReadsInv
  <2>2. CASE Fails(t, "slow")
    BY <2>1, <2>2, GoesOn
  <2>3. CASE Acquired(t, LockedBy(t)) /\ (markWord.kind # "locked" \/ markWord.owner = t)
    <3>1. \A u \in Threads \ {t} : depth[u] = 0
      BY <1>D, <1>H, <1>T, <2>1, <2>3
    <3> QED
      BY <2>1, <2>3, <3>1, <1>T, TakesLock
  <2> QED
    BY <1>5, <2>2, <2>3 DEF FastLock
<1>6. ASSUME NEW t \in Threads, SlowRevoke(t) PROVE StepInv'
  <2>1. /\ markWord.kind = "biased" /\ markWord' = Revoked(markWord.owner)
        /\ markWord.owner # Nobody => bl_pc[markWord.owner] \in {"out", "slow"}
        /\ UNCHANGED <<inlining, prototype, bl_pc, readMark, depth>>
    BY <1>6 DEF SlowRevoke, Safe
  <2>2. markWord'.kind # "biased"
    BY <2>1, <1>0, <1>T DEF Revoked
  <2>3. ASSUME NEW u \in Threads, depth[u] > 0 PROVE markWord = Valid(u) /\ markWord' = LockedBy(u)
    BY <2>1, <2>3, <1>0, <1>H, <1>T DEF Revoked
  <2>4. ReadsInv'
    <3> SUFFICES ASSUME NEW u \in Threads PROVE ReadsInv!(u)'
      BY DEF ReadsInv
    <3>1. ReadsInv!(u)
      BY DEF BLInv, ReadsInv
    <3>2. bl_pc[u] = "unlock" => FALSE
      BY <2>1, <2>3, <3>1, <1>0, <1>T
    <3>3. ~(bl_pc[u] = "test" /\ OwnBias(u))
      BY <2>1, <3>1, <1>0, <1>T DEF OwnBias, Valid
    <3> QED
      BY <2>1, <2>2, <3>1, <3>2, <3>3 DEF OwnBias
  <2>5. NoBiasInv'
    BY <2>1, <2>2 DEF NoBiasInv, BLInv
  <2>6. LockExclusive'
    BY <2>1, <2>3, <1>H DEF LockExclusive
  <2> QED
    BY <2>4, <2>5, <2>6 DEF StepInv
<1>7. ASSUME NEW t \in Threads, SlowLock(t) PROVE StepInv'
  <2>1. bl_pc[t] = "slow" /\ markWord.kind # "biased" /\ UNCHANGED <<inlining, prototype, readMark>>
    BY <1>7, <1>T DEF SlowLock
  <2>2. \A u \in Threads \ {t} : depth[u] = 0
    BY <1>7, <1>D, <1>H, <1>T, <2>1 DEF SlowLock
  <2> QED
    BY <1>7, <2>1, <2>2, <1>T, TakesLock DEF SlowLock
<1>8. ASSUME NEW t \in Threads, LoadMarkUnlock(t) PROVE StepInv'
  BY <1>8 DEF LoadMarkUnlock, Loads, Goto, BLInv, BLTypeOK, StepInv, ReadsInv, NoBiasInv, LockExclusive, OwnBias
<1>9. ASSUME NEW t \in Threads, Unlock(t) PROVE StepInv'
  <2>1. /\ bl_pc[t] = "unlock" /\ depth[t] > 0 /\ depth[t] \in Nat
        /\ readMark[t].kind = "biased" <=> markWord.kind = "biased"
    BY <1>9, <1>D DEF Unlock, BLInv, ReadsInv
  <2>2. /\ bl_pc' = [bl_pc EXCEPT ![t] = "out"] /\ depth' = [depth EXCEPT ![t] = @ - 1]
        /\ UNCHANGED <<inlining, prototype, readMark>>
    BY <1>9 DEF Unlock, Goto
  <2>3. \/ markWord' = markWord
        \/ markWord.kind # "biased" /\ markWord' = Unlocked /\ depth[t] = 1
    BY <1>9, <2>1 DEF Unlock, BLInv, NoBiasInv
  <2>4. \A u \in Threads \ {t} : depth'[u] = depth[u] /\ depth[u] = 0 /\ bl_pc'[u] = bl_pc[u]
    BY <2>1, <2>2, <1>H DEF BLInv, BLTypeOK
  <2>5. ReadsInv'
    <3> SUFFICES ASSUME NEW u \in Threads, u # t PROVE ReadsInv!(u)'
      BY <2>2 DEF ReadsInv, BLInv, BLTypeOK
    <3>1. ReadsInv!(u)
      BY DEF BLInv, ReadsInv
    <3>2. OwnBias(u)' = OwnBias(u) /\ (OwnBias(u) => readMark[u].kind = "biased")
      BY <2>2, <1>T DEF OwnBias, Valid
    <3> QED
      BY <2>2, <2>3, <2>4, <3>1, <3>2, <1>T
  <2>6. NoBiasInv'
    BY <2>2, <2>3, <1>T DEF BLInv, NoBiasInv
  <2>7. LockExclusive'
    <3>1. depth'[t] = depth[t] - 1
      BY <2>2 DEF BLInv, BLTypeOK
    <3> QED
      BY <2>1, <2>2, <2>3, <2>4, <3>1, <1>H DEF LockExclusive, Valid
  <2> QED
    BY <2>5, <2>6, <2>7 DEF StepInv
<1>10. CASE BulkRebias
  <2>1. /\ \A t \in Threads : bl_pc[t] \in {"out", "slow"}
        /\ prototype.biased /\ prototype'.biased /\ prototype'.epoch = prototype.epoch + 1
        /\ UNCHANGED <<inlining, bl_pc, readMark, depth>>
    BY <1>10 DEF BulkRebias, Safe, BLInv, BLTypeOK
  <2>2. \A t \in Threads : depth[t] > 0 => \/ markWord' = LockedBy(t)
                                           \/ markWord' = Biased(t, prototype'.epoch)
    BY <1>10, <1>0, <1>H, <1>T, <2>1 DEF BulkRebias, InUse
  <2>3. ReadsInv'
    BY <2>1 DEF ReadsInv
  <2>4. NoBiasInv' /\ LockExclusive'
    BY <2>1, <2>2, <1>H DEF LockExclusive, NoBiasInv, BLInv
  <2> QED
    BY <2>3, <2>4 DEF StepInv
<1>11. CASE BulkRevoke
  <2>1. /\ \A t \in Threads : bl_pc[t] \in {"out", "slow"}
        /\ prototype.biased /\ UNCHANGED <<inlining, bl_pc, readMark, depth>>
    BY <1>11 DEF BulkRevoke, Safe
  <2>2. \A t \in Threads : depth[t] > 0 => markWord' = LockedBy(t)
    BY <1>11, <1>0, <1>H, <1>T, <2>1 DEF BulkRevoke, InUse
  <2>3. ReadsInv'
    BY <2>1 DEF ReadsInv
  <2>4. NoBiasInv' /\ LockExclusive'
    BY <2>1, <2>2, <1>H DEF LockExclusive, NoBiasInv, BLInv
  <2> QED
    BY <2>3, <2>4 DEF StepInv
<1> QED
  BY <1>1, <1>2, <1>3, <1>4, <1>5, <1>6, <1>7, <1>8, <1>9, <1>10, <1>11 DEF BLNext

LEMMA BLInvInit == (\E inlined \in BOOLEAN : BLInit(inlined)) => BLInv
  BY MarkWords DEF BLInit, BLInv, BLTypeOK, ReadsInv, NoBiasInv, LockExclusive, Nobody

\* At most one thread holds the object's lock, and as long as it does the mark word is locked
\* by it or biased to it in the current epoch, however the threads' accesses to the mark
\* word, revocations and bulk operations interleave (the code that expand_lock_node and
\* expand_unlock_node emit).
THEOREM LockIsExclusive == BLSpec => []LockExclusive
<1>1. BLInv /\ [BLNext]_blVars => BLInv'
  <2>1. BLInv /\ UNCHANGED blVars => BLInv'
    BY DEF BLInv, BLTypeOK, ReadsInv, NoBiasInv, LockExclusive, OwnBias, blVars
  <2> QED
    BY <2>1, BLInvInductive
<1>2. BLInv => LockExclusive
  BY DEF BLInv
<1> QED
  BY <1>1, <1>2, BLInvInit, PTL DEF BLSpec
=============================================================================
