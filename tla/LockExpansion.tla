---------------------------- MODULE LockExpansion ----------------------------
(***************************************************************************)
(* The code that expand_lock_node and expand_unlock_node put in place of a *)
(* Lock and an Unlock (macro.cpp), run by several threads on one object:   *)
(* the inlined test for biased locking, the compare-and-swap operations,   *)
(* FastLock and the slow call.  A thread may be interrupted between any    *)
(* two of its accesses to the mark word; a safepoint or a handshake stops  *)
(* it only outside this code or in the slow call.                          *)
(*                                                                         *)
(* External: FastLock and FastUnlock, the runtime's revocation of a bias   *)
(* and its bulk operations.                                                *)
(***************************************************************************)
EXTENDS Integers, FiniteSets

CONSTANTS Threads,       \* positive numbers
          MaxDepth,      \* how often a thread locks the object again
          MaxEpoch       \* bound on bulk rebias operations

ASSUME ThreadsAssumption == Threads \subseteq Nat \ {0}

VARIABLES
  inlining,   \* UseOptoBiasInlining
  markWord,   \* of the object: kind "biased", "free" or "locked"
  prototype,  \* the prototype header of the object's class
  bl_pc, readMark, depth \* each thread's pc, the mark word it read, how often it holds the lock
blVars == <<inlining, markWord, prototype, bl_pc, readMark, depth>>

Nobody == 0
Biased(t, e) == [kind |-> "biased", owner |-> t, epoch |-> e]
Unlocked == [kind |-> "free", owner |-> Nobody, epoch |-> 0]
LockedBy(t) == [kind |-> "locked", owner |-> t, epoch |-> 0]

BLInit(inlined) ==
  /\ inlining = inlined /\ markWord = IF inlined THEN Biased(Nobody, 0) ELSE Unlocked
  /\ prototype = [biased |-> inlined, epoch |-> 0]
  /\ bl_pc = [t \in Threads |-> "out"] /\ readMark = [t \in Threads |-> Unlocked]
  /\ depth = [t \in Threads |-> 0]
Safe(t) == bl_pc[t] \in {"out", "slow"}
Goto(t, pc) == bl_pc' = [bl_pc EXCEPT ![t] = pc]
\* The thread goes on without the lock.
Fails(t, pc) == Goto(t, pc) /\ UNCHANGED <<markWord, depth>>
\* The lock is taken and the mark word becomes m.
Acquired(t, m) == Goto(t, "out") /\ markWord' = m /\ depth' = [depth EXCEPT ![t] = @ + 1]
\* The thread reads the mark word.
Loads(t, pc) ==
  /\ Goto(t, pc) /\ readMark' = [readMark EXCEPT ![t] = markWord]
  /\ UNCHANGED <<inlining, markWord, prototype, depth>>

\* The mark word is loaded.
LoadMark(t) ==
  /\ bl_pc[t] = "out" /\ depth[t] < MaxDepth
  /\ Loads(t, IF inlining THEN "test" ELSE "fast")

\* mutant: the epoch does not matter.
OwnBiasAnyEpoch(t) == readMark[t].kind = "biased" /\ prototype.biased /\ readMark[t].owner = t
\* thread | prototype equals the mark word but for the age bits.
OwnBias(t) == prototype.biased /\ readMark[t] = Biased(t, prototype.epoch)
\* The tests on the mark word and the prototype header
TestBias(t) ==
  /\ bl_pc[t] = "test"
  /\ CASE readMark[t].kind # "biased" -> Fails(t, "fast")
       [] OwnBias(t) -> Acquired(t, markWord)
       [] readMark[t].kind = "biased" /\ ~prototype.biased -> Fails(t, "reset")
       [] OTHER -> Fails(t, "rebias")
  /\ UNCHANGED <<inlining, prototype, readMark>>
\* The class is no longer biased: the mark becomes the prototype, if nobody was faster.
ResetMark(t) ==
  /\ bl_pc[t] = "reset" /\ Goto(t, "fast")
  /\ markWord' = IF markWord = readMark[t] THEN Unlocked ELSE markWord
  /\ UNCHANGED <<inlining, prototype, readMark, depth>>
\* Towards the current thread: from any owner if the epoch is over, else from none
Rebias(t) ==
  /\ bl_pc[t] = "rebias"
  /\ LET m == readMark[t]
         old == IF m.epoch # prototype.epoch THEN m ELSE Biased(Nobody, m.epoch)
     IN IF markWord = old THEN Acquired(t, Biased(t, prototype.epoch)) ELSE Fails(t, "slow")
  /\ UNCHANGED <<inlining, prototype, readMark>>
\* external: FastLock does not look at the bias.
FastLock(t) ==
  /\ bl_pc[t] = "fast"
  /\ IF markWord.kind # "locked" \/ markWord.owner = t THEN Acquired(t, LockedBy(t)) ELSE Fails(t, "slow")
  /\ UNCHANGED <<inlining, prototype, readMark>>

\* external: complete_monitor_locking_Java revokes a bias, for which its owner has to be
\* at a safepoint, and waits for the lock.
Revoked(t) == IF t # Nobody /\ depth[t] > 0 THEN LockedBy(t) ELSE Unlocked
SlowRevoke(t) ==
  /\ bl_pc[t] = "slow" /\ markWord.kind = "biased"
  /\ markWord.owner # Nobody => Safe(markWord.owner)
  /\ markWord' = Revoked(markWord.owner)
  /\ UNCHANGED <<inlining, prototype, bl_pc, readMark, depth>>
SlowLock(t) ==
  /\ bl_pc[t] = "slow"
  /\ markWord = Unlocked \/ markWord = LockedBy(t)
  /\ Acquired(t, LockedBy(t))
  /\ UNCHANGED <<inlining, prototype, readMark>>
\* A thread that holds the lock by its bias
InUse(o) == markWord.kind = "biased" /\ o # Nobody /\ depth[o] > 0
\* external: bulk operations at a safepoint
BulkRebias ==
  /\ \A t \in Threads : Safe(t)
  /\ prototype.biased /\ prototype.epoch < MaxEpoch
  /\ LET e == prototype.epoch + 1
         o == markWord.owner
     IN /\ prototype' = [prototype EXCEPT !.epoch = e]
        /\ markWord' = IF InUse(o) /\ markWord.epoch = prototype.epoch THEN Biased(o, e) ELSE markWord
  /\ UNCHANGED <<inlining, bl_pc, readMark, depth>>
BulkRevoke ==
  /\ \A t \in Threads : Safe(t)
  /\ prototype.biased /\ prototype' = [prototype EXCEPT !.biased = FALSE]
  /\ markWord' = IF InUse(markWord.owner) THEN LockedBy(markWord.owner) ELSE markWord
  /\ UNCHANGED <<inlining, bl_pc, readMark, depth>>

\* expand_unlock_node: nothing to do for a biased object, else FastUnlock.
LoadMarkUnlock(t) ==
  /\ bl_pc[t] = "out" /\ depth[t] > 0
  /\ Loads(t, "unlock")
Unlock(t) ==
  /\ bl_pc[t] = "unlock" /\ Goto(t, "out") /\ depth' = [depth EXCEPT ![t] = @ - 1]
  /\ LET noop == inlining /\ readMark[t].kind = "biased"
     IN markWord' = IF ~noop /\ depth[t] = 1 THEN Unlocked ELSE markWord
  /\ UNCHANGED <<inlining, prototype, readMark>>

BLNext ==
  \/ \E t \in Threads : \/ LoadMark(t) \/ TestBias(t) \/ ResetMark(t) \/ Rebias(t) \/ FastLock(t)
                        \/ SlowRevoke(t) \/ SlowLock(t) \/ LoadMarkUnlock(t) \/ Unlock(t)
  \/ BulkRebias \/ BulkRevoke

BLSpec == (\E inlined \in BOOLEAN : BLInit(inlined)) /\ [][BLNext]_blVars

-----------------------------------------------------------------------------
\* At most one thread holds the lock, and then the mark word says so: locked by it, or
\* biased to it in an epoch that is not over, so that nobody takes it without asking
\* (expand_lock_node, expand_unlock_node).
LockExclusive ==
  \A t \in Threads : depth[t] > 0 =>
    /\ \A u \in Threads \ {t} : depth[u] = 0
    /\ markWord = LockedBy(t) \/ (prototype.biased /\ markWord = Biased(t, prototype.epoch))
=============================================================================
