---------------------------- MODULE CodeEmission ----------------------------
(***************************************************************************)
(* PhaseOutput::Output (opto/output.cpp): prolog, epilogs and unverified   *)
(* entry are inserted, shorten_branches sizes the blocks pessimistically   *)
(* and replaces long branches while that makes progress, scheduling may    *)
(* rearrange a block, and fill_buffer emits the code with the padding that *)
(* is really needed, gives backward branches a second chance, and records  *)
(* where implicit null checks and calls are for the exception tables.      *)
(*                                                                         *)
(* A block is [insts, succs, align]; succs[1] is where its branch goes, or *)
(* where its implicit check traps; a catch lists its handlers. An          *)
(* instruction is [op, size, align, abb]: op is op, mem, call, leaf, poll, *)
(* jump (long, with a short form), short, null, trap, catch, ret or entry; *)
(* abb says that it must not follow, nor be followed by, another of these. *)
(***************************************************************************)
EXTENDS Integers, Sequences, SequencesExt, FiniteSets

CONSTANTS
  ShortRange,         \* a short branch reaches -ShortRange .. ShortRange - 1 from its end
  LongSize, ShortSize, NopSize,
  LoopAlignment, \* OptoLoopAlignment
  MaxLoopPad,
  LoopInstrs     \* NumberOfLoopInstrToAlign

ASSUME SizesAssumption ==
  /\ {ShortRange, LongSize, ShortSize, NopSize, LoopAlignment, MaxLoopPad, LoopInstrs} \subseteq Nat
  /\ NopSize > 0 /\ LongSize - ShortSize >= NopSize

VARIABLES
  em_blocks, em_pc, em_i,
  short_abb,      \* the short branches of this machine avoid each other
  blk_starts,     \* block -> offset; one more for the end
  jmp_offset, jmp_size, worst_pad,
  last_call, last_abb, last_short, \* last_call_adr, last_avoid_back_to_back_adr, last_may_be_short_branch_adr
  adjust, progress, candidate,
  em_code,        \* what was emitted: <<[b, j, op, at, size]>>
  em_offset, previous,
  blk_offset,     \* block -> where its label is bound
  inct_starts, call_returns,
  inc_table, handler_table,
  em_grown        \* the guarantee "shouldn't increase block size" failed

sizeVars == <<blk_starts, jmp_offset, jmp_size, worst_pad, last_call, last_abb, last_short, adjust, progress, candidate>>
fillVars == <<em_code, em_offset, previous, blk_offset, inct_starts, call_returns, inc_table, handler_table, em_grown>>
emVars   == <<em_blocks, em_pc, em_i, short_abb, sizeVars, fillVars>>

NoAddress == 100000   \* max_juint
NBlocks   == Len(em_blocks)
Inst(op, size) == [op |-> op, size |-> size, align |-> 1, abb |-> FALSE]
ShortBranch    == [Inst("short", ShortSize) EXCEPT !.abb = short_abb]
IsShortOffset(size, offset) == offset - size \in (-ShortRange)..(ShortRange - 1)
EndsIn(b, op)  == b.insts # <<>> /\ Last(b.insts).op = op

EMInit(blocks, abb) ==
  /\ em_blocks = blocks /\ em_pc = "entry" /\ em_i = 1 /\ short_abb = abb
  /\ blk_starts = [i \in 1..(Len(blocks) + 1) |-> 0]
  /\ jmp_offset = [i \in DOMAIN blocks |-> 0] /\ jmp_size = jmp_offset /\ worst_pad = jmp_offset
  /\ last_call = NoAddress /\ last_abb = NoAddress /\ last_short = NoAddress
  /\ adjust = 0 /\ progress = FALSE /\ candidate = FALSE
  /\ em_code = <<>> /\ em_offset = 0 /\ previous = 0 /\ blk_offset = <<>>
  /\ inct_starts = <<>> /\ call_returns = [i \in DOMAIN blocks |-> -1]
  /\ inc_table = {} /\ handler_table = {} /\ em_grown = FALSE

-----------------------------------------------------------------------------
\* The beginning of Output: the unverified entry point in the root's block, the
\* prolog in the entry block, an epilog before each return
Epilog(b) ==
  IF EndsIn(b, "ret") THEN [b EXCEPT !.insts = Front(@) \o <<Inst("op", 2), Last(@)>>] ELSE b
InsertEntries ==
  /\ em_pc = "entry" /\ em_pc' = "size" /\ em_i' = 1
  /\ em_blocks' = [i \in DOMAIN em_blocks |->
       LET b == Epilog(em_blocks[i]) IN
       IF i <= 2 THEN [b EXCEPT !.insts = <<Inst("entry", IF i = 1 THEN 3 ELSE 2)>> \o @] ELSE b]
  /\ UNCHANGED <<short_abb, sizeVars, fillVars>>

\* Step one of shorten_branches on an instruction, with the worst padding
Sized(acc, x) ==
  LET before == acc.size + (x.align - 1)
                 + (IF x.op = "poll" /\ acc.call >= acc.start THEN NopSize ELSE 0)
                 + (IF x.abb /\ acc.abb >= acc.start THEN NopSize ELSE 0)
      after  == before + x.size
  IN  [acc EXCEPT !.size = after,
                  !.jump = IF x.op = "jump" THEN <<before, x.size>> ELSE @,
                  !.call = IF x.op = "call" THEN acc.start + after ELSE @,
                  !.abb  = IF x.abb THEN acc.start + after ELSE @]

\* Faulty variant: the padding in front of an aligned block is not counted.
LoopPadNone(i) == 0
\* The padding the next block may need
LoopPad(i) == IF i < NBlocks THEN em_blocks[i + 1].align - 1 ELSE 0

SizeBlock ==
  LET i    == em_i
      s    == FoldLeft(Sized, [start |-> blk_starts[i], size |-> 0, jump |-> <<0, 0>>,
                               call |-> last_call, abb |-> last_abb], em_blocks[i].insts)
      end  == s.start + s.size
      pad  == LoopPad(i)
  IN  /\ em_pc = "size" /\ i <= NBlocks /\ em_i' = i + 1
      /\ jmp_offset' = [jmp_offset EXCEPT ![i] = s.jump[1]]
      /\ jmp_size'   = [jmp_size EXCEPT ![i] = s.jump[2]]
      /\ candidate'  = (candidate \/ s.jump[2] > 0)
      /\ worst_pad'  = IF pad > 0 THEN [worst_pad EXCEPT ![i + 1] = pad] ELSE worst_pad
      /\ last_call'  = IF s.call = end THEN end + pad ELSE s.call
      /\ last_abb'   = IF s.abb = end THEN end + pad ELSE s.abb
      /\ blk_starts' = [blk_starts EXCEPT ![i + 1] = end + pad]
      /\ UNCHANGED <<em_blocks, em_pc, short_abb, last_short, adjust, progress, fillVars>>

\* Another round of step two is made while branches are still long and, after the
\* first round, something was replaced.
AnotherRound == candidate /\ (em_pc = "size" \/ progress)
StartRound ==
  /\ em_pc \in {"size", "shorten"} /\ em_i > NBlocks /\ AnotherRound
  /\ em_pc' = "shorten" /\ em_i' = 1 /\ adjust' = 0 /\ progress' = FALSE /\ candidate' = FALSE
  /\ UNCHANGED <<em_blocks, short_abb, blk_starts, jmp_offset, jmp_size, worst_pad, last_call,
                 last_abb, last_short, fillVars>>

\* The distance of a branch of block i at offset: following blocks still move up.
Distance(to, i, offset) == blk_starts[to] - offset - (IF to > i THEN adjust ELSE 0)

\* A branch as step two leaves it: short if its distance, with the nop that may go
\* before it, is small enough
ShortenBlock ==
  LET i    == em_i
      b    == em_blocks[i]
      long == jmp_size[i] > 0 /\ EndsIn(b, "jump")
      offs == blk_starts[i] + jmp_offset[i]
      to   == b.succs[1]
      pads == offs - worst_pad[i] = last_short
      dist == Distance(to, i, offs)
      dist1 == IF pads /\ dist <= 0 THEN dist - NopSize ELSE dist
      won  == long /\ IsShortOffset(jmp_size[i], dist1)
      nop  == IF pads /\ short_abb THEN NopSize ELSE 0
      gain == IF won THEN jmp_size[i] - ShortSize - nop ELSE 0
  IN  /\ em_pc = "shorten" /\ i <= NBlocks /\ em_i' = i + 1
      /\ em_blocks' = IF won THEN [em_blocks EXCEPT ![i].insts = Front(@) \o <<ShortBranch>>] ELSE em_blocks
      /\ jmp_offset' = IF won THEN [jmp_offset EXCEPT ![i] = @ + nop] ELSE jmp_offset
      /\ jmp_size'   = IF won THEN [jmp_size EXCEPT ![i] = ShortSize] ELSE jmp_size
      /\ adjust'     = adjust + gain
      /\ progress'   = (progress \/ won)
      /\ candidate'  = (candidate \/ (long /\ ~won))
      /\ last_short' = IF (long /\ ~won) \/ (jmp_size[i] > 0 /\ (won \/ EndsIn(b, "short")) /\ short_abb)
                         THEN blk_starts[i] + jmp_offset'[i] + jmp_size'[i] ELSE last_short
      /\ blk_starts' = [blk_starts EXCEPT ![i + 1] = @ - adjust']
      /\ UNCHANGED <<em_pc, short_abb, worst_pad, last_call, last_abb, fillVars>>

\* ScheduleAndBundle: two instructions of a block change places; the end of a block
\* and the memory operation of a null check stay (module Scheduling).
Movable(b) == Len(b.insts) - (IF EndsIn(b, "null") \/ EndsIn(b, "catch") THEN 2 ELSE IF EndsIn(b, "op") THEN 0 ELSE 1)
Rearrange(i, j) ==
  /\ em_pc \in {"size", "shorten"} /\ em_i > NBlocks /\ ~AnotherRound
  /\ j + 1 <= Movable(em_blocks[i]) /\ em_blocks[i].insts[j].op # "entry"
  /\ em_blocks' = [em_blocks EXCEPT ![i].insts =
                     [@ EXCEPT ![j] = em_blocks[i].insts[j + 1], ![j + 1] = em_blocks[i].insts[j]]]
  /\ em_pc' = "schedule"
  /\ UNCHANGED <<em_i, short_abb, sizeVars, fillVars>>
\* Or nothing is to be gained.
KeepOrder ==
  /\ em_pc \in {"size", "shorten"} /\ em_i > NBlocks /\ ~AnotherRound
  /\ em_pc' = "schedule" /\ UNCHANGED <<em_blocks, em_i, short_abb, sizeVars, fillVars>>

\* init_buffer: the buffer, or no room in the code cache
InitCodeBuffer ==
  /\ em_pc = "schedule" /\ em_pc' \in {"fill", "failed"} /\ em_i' = 1
  /\ last_call' = -1 /\ last_abb' = -1
  /\ UNCHANGED <<em_blocks, short_abb, blk_starts, jmp_offset, jmp_size, worst_pad, last_short, adjust,
                 progress, candidate, fillVars>>

-----------------------------------------------------------------------------
\* compute_loop_first_inst_sizes: the first instructions of a loop that fit, from
\* its head and the blocks that follow it up to the next loop or its back edge
FirstInstSize(i) ==
  LET ends == {k \in i..NBlocks : k = NBlocks \/ em_blocks[k + 1].align > 1 \/ i \in ToSet(em_blocks[k].succs)}
      last == CHOOSE k \in ends : \A q \in ends : k <= q
      all  == SelectSeq(FlattenSeq([k \in 1..(last - i + 1) |-> em_blocks[i + k - 1].insts]), LAMBDA x : x.size > 0)
      sum[n \in 0..Len(all)] == IF n = 0 THEN 0 ELSE sum[n - 1] + all[n].size
      fit  == {n \in 0..Len(all) : n <= LoopInstrs /\ sum[n] <= LoopAlignment}
  IN  IF MaxLoopPad >= LoopAlignment - 1 THEN NoAddress
      ELSE sum[CHOOSE n \in fit : \A k \in fit : k <= n]

\* alignment_padding of the block after i
AlignPad(i, at) ==
  LET a == em_blocks[i].align
      p == (a - (at % a)) % a
  IN  IF p > MaxLoopPad /\ FirstInstSize(i) <= p THEN 0 ELSE p

\* Faulty variant: a poll may directly follow a call.
PaddingForAlignment(x, acc) ==
  LET p == (x.align - (acc.at % x.align)) % x.align
  IN  IF p = 0 /\ x.abb /\ acc.at = acc.abb THEN NopSize ELSE p
\* The nops before an instruction: its alignment; a poll is not at the return
\* address of a call; and some instructions are kept apart.
PaddingFor(x, acc) ==
  LET p == (x.align - (acc.at % x.align)) % x.align
  IN  IF p = 0 /\ \/ x.op = "poll" /\ acc.at = acc.call
                  \/ x.abb /\ acc.at = acc.abb THEN NopSize ELSE p

\* The distance of a branch when it is emitted: this and following blocks are still
\* at the offsets shorten_branches gave them.
SecondDistance(acc, to) ==
  blk_starts[to] - acc.at - (IF to >= em_i THEN blk_starts[em_i] - acc.start ELSE 0)

\* fill_buffer on one instruction
Emit(acc, j) ==
  LET b    == em_blocks[em_i]
      x    == b.insts[j]
      a1   == [acc EXCEPT !.at = @ + PaddingFor(x, acc)]
      pads == a1.at = acc.abb
      d    == SecondDistance(a1, b.succs[1])
      won  == x.op = "jump" /\ IsShortOffset(x.size, IF pads /\ d <= 0 THEN d - NopSize ELSE d)
      y    == IF won THEN ShortBranch ELSE x
      at   == a1.at + (IF won /\ pads /\ short_abb THEN NopSize ELSE 0)
  IN  [acc EXCEPT
         !.code = Append(@, [b |-> em_i, j |-> j, op |-> y.op, at |-> at, size |-> y.size]),
         !.at   = at + y.size,
         !.prev = IF x.op \in {"op", "mem", "ret", "entry"} THEN at ELSE @,
         !.ret  = IF x.op \in {"call", "leaf"} THEN at + x.size ELSE @,
         !.inct = IF x.op = "null" THEN Append(@, acc.prev)
                  ELSE IF x.op = "trap" THEN Append(@, at) ELSE @,
         !.call = IF x.op = "call" THEN at + y.size ELSE @,
         !.abb  = IF y.abb THEN at + y.size ELSE @]

EmitBlock ==
  LET i == em_i
      s == FoldLeft(Emit, [start |-> em_offset, at |-> em_offset, code |-> em_code, prev |-> previous,
                           ret |-> call_returns[i], inct |-> inct_starts, call |-> last_call, abb |-> last_abb],
                    [j \in DOMAIN em_blocks[i].insts |-> j])
      end == s.at + (IF i < NBlocks THEN AlignPad(i + 1, s.at) ELSE 0)
  IN  /\ em_pc = "fill" /\ i <= NBlocks /\ em_i' = i + 1
      /\ em_code' = s.code /\ em_offset' = end /\ previous' = s.prev /\ inct_starts' = s.inct
      /\ call_returns' = [call_returns EXCEPT ![i] = s.ret] /\ last_call' = s.call /\ last_abb' = s.abb
      /\ blk_offset' = Append(blk_offset, em_offset)
      /\ em_grown' = (em_grown \/ blk_starts[i + 1] - blk_starts[i] < end - em_offset)
      /\ blk_starts' = [blk_starts EXCEPT ![i] = em_offset]
      /\ UNCHANGED <<em_blocks, em_pc, short_abb, jmp_offset, jmp_size, worst_pad, last_short, adjust,
                     progress, candidate, inc_table, handler_table>>

\* CodeBuffer::expand fails, or compilation is stopped: the method is given up.
CodeCacheFull ==
  /\ em_pc = "fill" /\ em_i <= NBlocks /\ em_pc' = "failed"
  /\ UNCHANGED <<em_blocks, em_i, short_abb, sizeVars, fillVars>>

\* FillExceptionTables: the n-th implicit check belongs to the n-th block that ends
\* in one; a catch belongs to the last call of its block.
FillExceptionTables ==
  LET checks  == SelectSeq([k \in 1..NBlocks |-> k],
                   LAMBDA k : EndsIn(em_blocks[k], "null") \/ EndsIn(em_blocks[k], "trap"))
      catches == {k \in 1..NBlocks : EndsIn(em_blocks[k], "catch")}
  IN  /\ em_pc = "fill" /\ em_i > NBlocks /\ em_pc' = "done"
      /\ inc_table' = {<<inct_starts[k], blk_offset[em_blocks[checks[k]].succs[1]]>> : k \in DOMAIN checks}
      /\ handler_table' = {<<call_returns[k], {blk_offset[h] : h \in ToSet(em_blocks[k].succs)}>> : k \in catches}
      /\ UNCHANGED <<em_blocks, em_i, short_abb, sizeVars, em_code, em_offset, previous, blk_offset,
                     inct_starts, call_returns, em_grown>>

EMNext ==
  \/ InsertEntries \/ SizeBlock \/ StartRound \/ ShortenBlock \/ KeepOrder
  \/ \E i \in DOMAIN em_blocks : \E j \in DOMAIN em_blocks[i].insts : Rearrange(i, j)
  \/ InitCodeBuffer \/ EmitBlock \/ CodeCacheFull \/ FillExceptionTables

-----------------------------------------------------------------------------
\* No block grows when it is emitted, whatever padding it needed and although
\* scheduling has rearranged it, and every short branch reaches its target.
BranchesReach ==
  /\ ~em_grown
  /\ em_pc = "done" => \A k \in DOMAIN em_code :
       LET e == em_code[k] IN
       e.op = "short" => blk_offset[em_blocks[e.b].succs[1]] - (e.at + e.size) \in (-ShortRange)..(ShortRange - 1)

\* The tables the runtime looks a pc up in: a poll and the return address of a call
\* are never the same pc, a fault of a checked access goes to the block its check
\* names, and an exception of a call to its handlers.
TablesMatch ==
  em_pc = "done" =>
    LET E == ToSet(em_code)
        of(e) == em_blocks[e.b]
        accesses == {e \in E : (e.op = "trap") \/ (e.op = "mem" /\ EndsIn(of(e), "null") /\ e.j = Len(of(e).insts) - 1)}
        calls == {e \in E : e.op \in {"call", "leaf"} /\ EndsIn(of(e), "catch") /\ e.j = Len(of(e).insts) - 1}
    IN  /\ \A p \in E, c \in E : p.op = "poll" /\ c.op = "call" => p.at # c.at + c.size
        /\ inc_table = {<<e.at, blk_offset[of(e).succs[1]]>> : e \in accesses}
        /\ handler_table = {<<e.at + e.size, {blk_offset[h] : h \in ToSet(of(e).succs)}>> : e \in calls}
=============================================================================
