----------------------------- MODULE UncommonTrap -----------------------------
(***************************************************************************)
(* What uncommon traps do to compiled code and to the trap history of a    *)
(* method (uncommon_trap_inner and query_update_method_data in             *)
(* runtime/deoptimization.cpp). Several threads run the same compiled code *)
(* and trap in it; the trap state of a bytecode is read and written        *)
(* without a lock; only one thread can make the code not entrant, and the  *)
(* compiler may install new code at once.                                  *)
(***************************************************************************)
EXTENDS Integers, FiniteSets

CONSTANTS
  Threads,
  Sites,                            \* bytecodes of the method that may trap
  HasData,                          \* sites with profile data in the MethodData
  Reasons, PerBytecode,             \* reasons, those recorded per bytecode
  Actions,
  PerBytecodeTrapLimit, PerMethodTrapLimit, PerBytecodeRecompilationCutoff,
  MaxTrap,                          \* where trap_count saturates
  MaxCompiles                       \* bound on the number of compilations

ASSUME TrapAssumption ==
  /\ PerBytecode \subseteq Reasons /\ HasData \subseteq Sites
  /\ IsFiniteSet(Threads) /\ IsFiniteSet(Sites) /\ IsFiniteSet(Reasons)
  /\ "none" \notin Reasons /\ "many" \notin Reasons
  /\ {PerBytecodeTrapLimit, PerMethodTrapLimit, PerBytecodeRecompilationCutoff,
      MaxTrap, MaxCompiles} \subseteq Nat
  /\ MaxTrap > 0

VARIABLES
  code,                       \* the entrant nmethod, 0 if there is none
  compiles,
  not_compilable,
  trap_count,                 \* per reason
  trap_state,                 \* per site: reason lattice and recompiled bit
  decompile_count, overflow_recompile_count,
  ut_pc, trap                 \* per thread: where it is, and its local variables

utVars == <<code, compiles, not_compilable, trap_count, trap_state, decompile_count,
            overflow_recompile_count, ut_pc, trap>>

NoTrap == [nm |-> 0]

UTInit ==
  /\ code = 1 /\ compiles = 1 /\ not_compilable = FALSE
  /\ trap_count = [r \in Reasons |-> 0]
  /\ trap_state = [s \in HasData |-> [reason |-> "none", recompiled |-> FALSE]]
  /\ decompile_count = 0 /\ overflow_recompile_count = 0
  /\ ut_pc = [t \in Threads |-> "java"] /\ trap = [t \in Threads |-> NoTrap]

-----------------------------------------------------------------------------
\* trap_state_has_reason and trap_state_add_reason: none, one reason, many
HasReason(ts, r) == ts.reason \in {r, "many"}
AddReason(ts, r) ==
  [ts EXCEPT !.reason = IF @ \in {r, "many"} THEN @ ELSE IF @ = "none" THEN r ELSE "many"]

\* What the action of the trap request asks for
Flushes(action) == action \in {"reinterpret", "make_not_entrant", "make_not_compilable"}

\* A thread traps. Action_none leaves all history alone.
UncommonTrap(t, site, reason, action) ==
  /\ ut_pc[t] = "java" /\ code # 0
  /\ trap' = [trap EXCEPT ![t] =
       [nm |-> code, site |-> site, reason |-> reason, action |-> action,
        count |-> 0, prior_trap |-> FALSE, prior_recompile |-> FALSE,
        tstate |-> [reason |-> "none", recompiled |-> FALSE], flush |-> Flushes(action),
        inc |-> FALSE]]
  /\ ut_pc' = [ut_pc EXCEPT ![t] = IF action = "none" THEN "flush" ELSE "query"]
  /\ UNCHANGED <<code, compiles, not_compilable, trap_count, trap_state, decompile_count,
                 overflow_recompile_count>>

\* query_update_method_data, first half: the counts, and the state of the site
QueryMethodData(t) ==
  LET r == trap[t]
      n == IF trap_count[r.reason] < MaxTrap THEN trap_count[r.reason] + 1 ELSE MaxTrap
      known == r.reason \in PerBytecode /\ r.site \in HasData
      ts == IF known THEN trap_state[r.site] ELSE r.tstate
  IN  /\ ut_pc[t] = "query" /\ ut_pc' = [ut_pc EXCEPT ![t] = "update"]
      /\ trap_count' = [trap_count EXCEPT ![r.reason] = n]
      /\ trap' = [trap EXCEPT ![t] = [r EXCEPT
           !.count = n,
           !.tstate = ts,
           !.prior_trap = trap_count[r.reason] # 0 /\ (known => HasReason(ts, r.reason)),
           !.prior_recompile = decompile_count # 0 /\ (known => ts.recompiled)]]
      /\ UNCHANGED <<code, compiles, not_compilable, trap_state, decompile_count,
                     overflow_recompile_count>>

\* What the history adds to the action: a flush, and whether it is counted
Decide(r) ==
  LET perbc == r.reason \in PerBytecode
      byBci == perbc /\ r.prior_trap /\ r.count >= PerBytecodeTrapLimit
  IN  [r EXCEPT !.flush = @ \/ byBci \/ ~perbc \/ r.count >= PerMethodTrapLimit,
                !.inc = perbc /\ (r.flush \/ byBci) /\ r.prior_recompile /\ r.prior_trap]

\* query_update_method_data, second half: the reason is stored over whatever the
\* state has become, when it is new.
UpdateMethodData(t) ==
  LET r == trap[t]
      known == r.reason \in PerBytecode /\ r.site \in HasData
      ts == AddReason(r.tstate, r.reason)
  IN  /\ ut_pc[t] = "update" /\ ut_pc' = [ut_pc EXCEPT ![t] = "flush"]
      /\ trap_state' = IF known /\ ts # r.tstate THEN [trap_state EXCEPT ![r.site] = ts]
                       ELSE trap_state
      /\ trap' = [trap EXCEPT ![t] = Decide(r)]
      /\ UNCHANGED <<code, compiles, not_compilable, trap_count, decompile_count,
                     overflow_recompile_count>>

\* make_not_entrant: the thread that changes the state goes on, others return.
MakeNotEntrant(t) ==
  LET r == trap[t]
      changed == r.flush /\ code = r.nm
  IN  /\ ut_pc[t] = "flush"
      /\ IF changed THEN code' = 0 /\ decompile_count' = decompile_count + 1
                    ELSE UNCHANGED <<code, decompile_count>>
      /\ ut_pc' = [ut_pc EXCEPT ![t] = IF changed THEN "recompiled" ELSE "java"]
      /\ trap' = [trap EXCEPT ![t] = IF changed
                    THEN [r EXCEPT !.tstate = IF r.site \in HasData THEN trap_state[r.site] ELSE @]
                    ELSE NoTrap]
      /\ UNCHANGED <<compiles, not_compilable, trap_count, trap_state, overflow_recompile_count>>

\* Faulty variant: the site does not remember that it was recompiled.
ForgetRecompiled(t) ==
  LET r == trap[t] IN
  /\ ut_pc[t] = "recompiled" /\ ut_pc' = [ut_pc EXCEPT ![t] = "count"]
  /\ UNCHANGED <<code, compiles, not_compilable, trap_count, trap_state, decompile_count,
                 overflow_recompile_count, trap>>

\* The recompiled bit is added to the state that was read.
SetRecompiled(t) ==
  LET r == trap[t]
      known == r.reason \in PerBytecode /\ r.site \in HasData /\ r.action # "none"
  IN  /\ ut_pc[t] = "recompiled" /\ ut_pc' = [ut_pc EXCEPT ![t] = "count"]
      /\ trap_state' = IF known /\ ~r.tstate.recompiled
                         THEN [trap_state EXCEPT ![r.site] = [r.tstate EXCEPT !.recompiled = TRUE]]
                         ELSE trap_state
      /\ UNCHANGED <<code, compiles, not_compilable, trap_count, decompile_count,
                     overflow_recompile_count, trap>>

\* Too many recompilations for one bytecode: the method is abandoned.
CountRecompile(t) ==
  LET r == trap[t]
      n == IF r.inc THEN overflow_recompile_count + 1 ELSE overflow_recompile_count
  IN  /\ ut_pc[t] = "count" /\ ut_pc' = [ut_pc EXCEPT ![t] = "java"]
      /\ overflow_recompile_count' = n
      /\ not_compilable' = (\/ not_compilable \/ r.action = "make_not_compilable"
                            \/ r.inc /\ n > PerBytecodeRecompilationCutoff)
      /\ trap' = [trap EXCEPT ![t] = NoTrap]
      /\ UNCHANGED <<code, compiles, trap_count, trap_state, decompile_count>>

\* The compilation policy (external) compiles the method again.
Recompile ==
  /\ code = 0 /\ ~not_compilable /\ compiles < MaxCompiles
  /\ compiles' = compiles + 1 /\ code' = compiles + 1
  /\ UNCHANGED <<not_compilable, trap_count, trap_state, decompile_count,
                 overflow_recompile_count, ut_pc, trap>>

UTNext ==
  \/ \E t \in Threads :
       \/ \E s \in Sites, r \in Reasons, a \in Actions : UncommonTrap(t, s, r, a)
       \/ QueryMethodData(t) \/ UpdateMethodData(t) \/ MakeNotEntrant(t)
       \/ SetRecompiled(t) \/ CountRecompile(t)
  \/ Recompile

UTSpec == UTInit /\ [][UTNext]_utVars

-----------------------------------------------------------------------------
\* The cycle of traps and recompilations at a bytecode ends: although the trap
\* states are updated without a lock, so that a reason or the recompiled bit can
\* be lost, the method is abandoned or its code stays before MaxCompiles
\* compilations, which the model does not reach (measures 1 and 2 of the comment
\* in uncommon_trap_inner; reasons not recorded per bytecode are limited
\* elsewhere).
RecompilationEnds == compiles < MaxCompiles
=============================================================================
