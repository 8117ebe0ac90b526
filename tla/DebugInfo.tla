------------------------------ MODULE DebugInfo ------------------------------
(***************************************************************************)
(* The description of the objects of a safepoint on its way from C2 to the *)
(* runtime: Process_OopMap_Node and FillLocArray (opto/output.cpp) turn    *)
(* the debug inputs of a safepoint into scope values and one pool of       *)
(* objects, ScopeValue::write_on and read_from (code/debugInfo.cpp) write  *)
(* them to the stream of the nmethod and read them back.                   *)
(*                                                                         *)
(* A token of the stream is a code or a whole datum; the layout is LP64.   *)
(***************************************************************************)
EXTENDS Integers, Sequences, SequencesExt

\* Scope values. A reference to an ObjectValue is its id.
ConstantInt(v)  == [k |-> "int", v |-> v]
ConstantLong(v) == [k |-> "long", v |-> v]
ConstantOop(v)  == [k |-> "oop", v |-> v]
LocationValue(l, t) == [k |-> "loc", l |-> l, t |-> t]
IllegalValue    == [k |-> "illegal"]
Code(c)         == [k |-> c]
ObjectRef(id)   == [k |-> "object", id |-> id]
\* ObjectValue, and StackObjectValue with its location and number of fields
ObjectValue(id, klass) ==
  [id |-> id, klass |-> klass, stack |-> FALSE, slot |-> 0, length |-> 0, fields |-> <<>>]
StackObjectValue(id, klass, slot, length) ==
  [id |-> id, klass |-> klass, stack |-> TRUE, slot |-> slot, length |-> length, fields |-> <<>>]

VARIABLES
  sfn,          \* the safepoint being emitted
  depth,        \* the scope being emitted, 1 is the oldest
  objs,         \* the object pool of the safepoint
  scopes_data,  \* the stream
  pc_desc,      \* decode offsets: the pool, and the values of each scope
  recorded,     \* auxiliary: the values each scope was described with
  decoded       \* what the runtime has read: the pool, and the values per scope

diVars == <<sfn, depth, objs, scopes_data, pc_desc, recorded, decoded>>

NoDesc    == [pool |-> 0, scopes |-> <<>>]
NotRead   == [pool |-> <<>>, scopes |-> <<>>]

DIInit(s) ==
  /\ sfn = s /\ depth = 1
  /\ objs = <<>> /\ scopes_data = <<>> /\ pc_desc = NoDesc
  /\ recorded = <<>> /\ decoded = NotRead

-----------------------------------------------------------------------------
\* Emission

\* sv_for_node_id
Known(pool, id) == \E i \in DOMAIN pool : pool[i].id = id
IndexOf(pool, id) == CHOOSE i \in DOMAIN pool : pool[i].id = id

\* A value in a register or a frame slot. Doubles and longs take two entries.
RegisterValues(n) ==
  CASE n.t = "long" -> <<ConstantInt(0), LocationValue(n.l, "lng")>>
    [] n.t = "int"  -> <<LocationValue(n.l, "int_in_long")>>
    [] n.t = "oop"  -> <<LocationValue(n.l, "oop")>>

\* A value without a register is a constant, or unused.
ConstantValues(n) ==
  CASE n.t = "long" -> <<ConstantInt(0), ConstantLong(n.v)>>
    [] n.t = "int"  -> <<ConstantInt(n.v)>>
    [] n.t = "oop"  -> <<ConstantOop(n.v)>>
    [] n.t = "top"  -> <<IllegalValue>>

RECURSIVE FillLocArray(_, _, _)
RECURSIVE FillFields(_, _, _)

\* The inputs that hold the fields of a scalar replaced object.
FillFields(node, i, acc) ==
  IF i = node.n THEN acc
  ELSE FillFields(node, i + 1,
                  FillLocArray(Len(acc.array), sfn.in[node.first + i], acc))

\* Faulty variant: an object that is met again is described again.
AddObjectAnew(node, pool) ==
  IF node.stack
    THEN Append(pool, StackObjectValue(node.id, node.klass, node.slot, node.n))
    ELSE LET filled == FillFields(node, 0,
                         [array |-> <<>>, objs |-> Append(pool, ObjectValue(node.id, node.klass))])
         IN  [filled.objs EXCEPT ![Len(pool) + 1].fields = filled.array]

\* The object of a SafePointScalarObject is added to the pool once, before its
\* fields, which may add others.
AddObject(node, pool) ==
  IF Known(pool, node.id) THEN pool
  ELSE IF node.stack
    THEN Append(pool, StackObjectValue(node.id, node.klass, node.slot, node.n))
    ELSE LET filled == FillFields(node, 0,
                         [array |-> <<>>, objs |-> Append(pool, ObjectValue(node.id, node.klass))])
         IN  [filled.objs EXCEPT ![Len(pool) + 1].fields = filled.array]

\* An entry that the second half of a long or double has taken already is
\* skipped; only top may come there.
FillLocArray(idx, node, acc) ==
  LET array == IF Len(acc.array) = idx THEN acc.array ELSE Front(acc.array)
  IN  CASE Len(acc.array) # idx /\ node.k = "con" /\ node.t = "top" -> acc
        [] node.k = "sobj" -> [array |-> Append(array, ObjectRef(node.id)),
                               objs  |-> AddObject(node, acc.objs)]
        [] node.k = "reg"  -> [acc EXCEPT !.array = array \o RegisterValues(node)]
        [] node.k = "con"  -> [acc EXCEPT !.array = array \o ConstantValues(node)]

RECURSIVE FillAll(_, _, _)
FillAll(nodes, i, acc) ==
  IF i > Len(nodes) THEN acc
  ELSE FillAll(nodes, i + 1, FillLocArray(i - 1, nodes[i], acc))

\* The owners of the monitors; the objects among them join the pool.
Owner(m) ==
  CASE m.obj.k = "sobj" -> ObjectRef(m.obj.id)
    [] m.obj.k = "reg"  -> LocationValue(m.obj.l, "oop")
    [] m.obj.k = "con"  -> ConstantOop(m.obj.v)
MonitorValue(m) == [owner |-> Owner(m), lock |-> m.box, eliminated |-> m.eliminated]
AddOwners(monitors, pool) ==
  FoldSeq(LAMBDA m, p : IF m.obj.k = "sobj" THEN AddObject(m.obj, p) ELSE p, pool, monitors)

\* Stack objects that no debug value of the scope is: they are described in
\* the scalar inputs, among the fields of scalar replaced objects.
AddScalars(scalars, pool) ==
  FoldSeq(LAMBDA n, p : IF n.k = "sobj" /\ n.stack THEN AddObject(n, p) ELSE p, pool, scalars)

-----------------------------------------------------------------------------
\* The stream

\* write_on: the tokens of a value and the objects written so far (_visited).
RECURSIVE WriteOn(_, _, _)
RECURSIVE WriteAll(_, _, _)
WriteAll(values, pool, acc) ==
  FoldLeft(LAMBDA a, v : LET w == WriteOn(v, pool, a.visited)
                         IN  [tokens |-> a.tokens \o w.tokens, visited |-> w.visited],
           acc, values)

\* What a StackObjectValue writes after the fields.
StackPart(o) == IF o.stack THEN <<o.slot, ConstantInt(o.length)>> ELSE <<>>

\* ObjectValue::write_on and StackObjectValue::write_on, first visit
WriteObject(o, pool, visited) ==
  LET code == Code(IF o.stack THEN "STACK_OBJECT_CODE" ELSE "OBJECT_CODE")
      inner == WriteAll(o.fields, pool, [tokens |-> <<>>, visited |-> visited \cup {o.id}])
  IN  [tokens |-> <<code, o.id, o.klass, Len(o.fields)>> \o inner.tokens \o StackPart(o),
       visited |-> inner.visited]

WriteOn(v, pool, visited) ==
  IF v.k # "object" THEN [tokens |-> <<v>>, visited |-> visited]
  ELSE IF v.id \in visited
    THEN [tokens |-> <<Code("OBJECT_ID_CODE"), v.id>>, visited |-> visited]
    ELSE WriteObject(pool[IndexOf(pool, v.id)], pool, visited)

\* A list: its length, then its values. MonitorValue::write_on puts the lock first.
WriteList(values, pool, visited) ==
  LET w == WriteAll(values, pool, [tokens |-> <<>>, visited |-> visited])
  IN  <<Len(values)>> \o w.tokens
WriteMonitors(monitors, pool, visited) ==
  <<Len(monitors)>> \o
  FlattenSeq([i \in DOMAIN monitors |->
     <<monitors[i].lock>> \o WriteOn(monitors[i].owner, pool, visited).tokens
                          \o <<monitors[i].eliminated>>])

\* read_from: the value at pos, the position after it and the objects read.
RECURSIVE ReadFrom(_, _)
RECURSIVE ReadFields(_, _, _)
ReadFields(n, index, st) ==   \* n values into the fields of pool[index]
  IF n = 0 THEN st
  ELSE LET r == ReadFrom(st.pos, st.pool)
       IN  ReadFields(n - 1, index,
             [pos |-> r.pos, pool |-> [r.pool EXCEPT ![index].fields = Append(@, r.value)]])

\* read_object_value: the object enters the pool before its fields are read.
ReadObject(code, pos, pool) ==
  LET id    == scopes_data[pos + 1]
      klass == scopes_data[pos + 2]
      stack == code = Code("STACK_OBJECT_CODE")
      index == Len(pool) + 1
      st    == ReadFields(scopes_data[pos + 3], index,
                 [pos |-> pos + 4, pool |-> Append(pool, [ObjectValue(id, klass) EXCEPT !.stack = stack])])
      tail  == IF stack
                 THEN [pos |-> st.pos + 2,
                       pool |-> [st.pool EXCEPT ![index].slot = scopes_data[st.pos],
                                                ![index].length = scopes_data[st.pos + 1].v]]
                 ELSE st
  IN  [value |-> ObjectRef(id), pos |-> tail.pos, pool |-> tail.pool]

ReadFrom(pos, pool) ==
  LET code == scopes_data[pos] IN
  CASE code.k \in {"OBJECT_CODE", "STACK_OBJECT_CODE"} -> ReadObject(code, pos, pool)
    [] code.k = "OBJECT_ID_CODE" ->   \* get_cached_object
         [value |-> ObjectRef(pool[IndexOf(pool, scopes_data[pos + 1])].id),
          pos |-> pos + 2, pool |-> pool]
    [] OTHER -> [value |-> code, pos |-> pos + 1, pool |-> pool]

RECURSIVE ReadValues(_, _, _, _)
ReadValues(n, pos, pool, values) ==
  IF n = 0 THEN [values |-> values, pos |-> pos, pool |-> pool]
  ELSE LET r == ReadFrom(pos, pool) IN ReadValues(n - 1, r.pos, r.pool, Append(values, r.value))
ReadList(pos, pool) == ReadValues(scopes_data[pos], pos + 1, pool, <<>>)

RECURSIVE ReadMonitors(_, _, _, _)
ReadMonitors(n, pos, pool, monitors) ==
  IF n = 0 THEN monitors
  ELSE LET r == ReadFrom(pos + 1, pool)
       IN  ReadMonitors(n - 1, r.pos + 1, r.pool,
             Append(monitors, [owner |-> r.value, lock |-> scopes_data[pos],
                               eliminated |-> scopes_data[r.pos]]))

-----------------------------------------------------------------------------
\* One scope of Process_OopMap_Node, from the oldest to the youngest. The pool
\* is dumped with every scope; the last dump is the one deoptimization reads.
DescribeScope ==
  LET scope  == sfn.scopes[depth]
      locals == FillAll(scope.locals, 1, [array |-> <<>>, objs |-> objs])
      stack  == FillAll(scope.stack, 1, [array |-> <<>>, objs |-> locals.objs])
      pool   == AddScalars(scope.scalars, AddOwners(scope.monitors, stack.objs))
      monitors == [i \in DOMAIN scope.monitors |-> MonitorValue(scope.monitors[i])]
      ids    == {pool[i].id : i \in DOMAIN pool}
      dump   == WriteList([i \in DOMAIN pool |-> ObjectRef(pool[i].id)], pool, {})
      parts  == <<dump, WriteList(locals.array, pool, ids), WriteList(stack.array, pool, ids),
                  WriteMonitors(monitors, pool, ids)>>
      start(i) == Len(scopes_data) + 1 + Len(FlattenSeq(SubSeq(parts, 1, i - 1)))
  IN  /\ depth <= Len(sfn.scopes)
      /\ objs' = pool
      /\ scopes_data' = scopes_data \o FlattenSeq(parts)
      /\ pc_desc' = [pool |-> start(1),
                     scopes |-> Append(pc_desc.scopes,
                       [locals |-> start(2), stack |-> start(3), monitors |-> start(4)])]
      /\ recorded' = Append(recorded, [locals |-> locals.array, stack |-> stack.array,
                                       monitors |-> monitors])
      /\ depth' = depth + 1
      /\ UNCHANGED <<sfn, decoded>>

\* The runtime reads the pool, then the values of all scopes.
ReadScopes ==
  LET pool == ReadList(pc_desc.pool, <<>>).pool
      read(d) == [locals   |-> ReadList(d.locals, pool).values,
                  stack    |-> ReadList(d.stack, pool).values,
                  monitors |-> ReadMonitors(scopes_data[d.monitors], d.monitors + 1, pool, <<>>)]
  IN  /\ depth = Len(sfn.scopes) + 1 /\ decoded = NotRead
      /\ decoded' = [pool |-> pool,
                     scopes |-> [i \in DOMAIN pc_desc.scopes |-> read(pc_desc.scopes[i])]]
      /\ UNCHANGED <<sfn, depth, objs, scopes_data, pc_desc, recorded>>

DINext == DescribeScope \/ ReadScopes

-----------------------------------------------------------------------------
\* What the runtime reads is what the compiler described: each object once, with
\* its fields, and the values of every scope, although the pool is written again
\* with every scope and objects are written inside the first object that holds
\* them.
DecodedAsRecorded ==
  decoded # NotRead =>
    /\ decoded.scopes = recorded
    /\ Len(decoded.pool) = Len(objs)
    /\ {decoded.pool[i] : i \in DOMAIN decoded.pool} = {objs[i] : i \in DOMAIN objs}
=============================================================================
