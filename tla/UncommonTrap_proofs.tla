------------------------ MODULE UncommonTrap_proofs ------------------------
(***************************************************************************)
(* The method is compiled a bounded number of times, whatever threads trap *)
(* where, although the trap states are updated without a lock.             *)
(*                                                                         *)
(* Every recompilation is paid for. One that is counted is limited by      *)
(* PerBytecodeRecompilationCutoff. One that is not was decided by a thread *)
(* that found its reason or the recompiled bit missing. A thread that      *)
(* writes a trap state writes one step above what it has read, which may   *)
(* be far below what the state has become; but a thread can read a low     *)
(* state only while the state is low, so each pair of a thread and a site  *)
(* holds tokens (Share), more the lower the state that the thread has read *)
(* or could read, and a write costs enough of them to give every pair what *)
(* it may need in the lower state.                                         *)
(***************************************************************************)
EXTENDS UncommonTrap, FiniteSetTheorems, TLAPS

StateType == [reason : Reasons \cup {"none", "many"}, recompiled : BOOLEAN]
TrapType ==
  [nm : Nat \ {0}, site : Sites, reason : Reasons, action : Actions, count : Nat, prior_trap : BOOLEAN,
   prior_recompile : BOOLEAN, tstate : StateType, flush : BOOLEAN, inc : BOOLEAN]
UTTypeOK ==
  /\ code \in Nat /\ compiles \in Nat \ {0} /\ not_compilable \in BOOLEAN
  /\ trap_count \in [Reasons -> Nat] /\ trap_state \in [HasData -> StateType]
  /\ decompile_count \in Nat /\ overflow_recompile_count \in Nat
  /\ ut_pc \in [Threads -> {"java", "query", "update", "flush", "recompiled", "count"}]
  /\ trap \in [Threads -> TrapType \cup {NoTrap}]
  /\ \A t \in Threads : ut_pc[t] # "java" => trap[t] \in TrapType

-----------------------------------------------------------------------------
\* How high a trap state is: it rises with each reason and with the bit.
Rank(v) == (IF v.reason = "none" THEN 0 ELSE IF v.reason = "many" THEN 2 ELSE 1)
           + (IF v.recompiled THEN 1 ELSE 0)

Pairs == Threads \X HasData
\* What a thread that has read a state may still cost
Price2 == (Cardinality(Pairs) + 1) * 2
Price1 == (Cardinality(Pairs) + 1) * (Price2 + 2)
Price0 == (Cardinality(Pairs) + 1) * (Price1 + 2)
Price(k) == CASE k = 0 -> Price0 [] k = 1 -> Price1 [] k = 2 -> Price2 [] OTHER -> 0
Lower(a, b) == IF a < b THEN a ELSE b

\* A thread is between the read of the trap state and the end of its trap.
InTrap(t) == ut_pc[t] \in {"update", "flush"} /\ trap[t].action # "none"
Holds(t, s) == InTrap(t) /\ trap[t].site = s
New(t) == ~HasReason(trap[t].tstate, trap[t].reason)
\* It may write, or decide to flush, by what it has read.
Stale(t, s) ==
  /\ Holds(t, s)
  /\ IF ut_pc[t] = "update" THEN New(t) \/ ~trap[t].tstate.recompiled
                            ELSE ~New(t) /\ ~trap[t].tstate.recompiled
\* It has made the code not entrant and is to set the bit.
SetsBit(t, s) ==
  ut_pc[t] = "recompiled" /\ trap[t].site = s /\ ~trap[t].tstate.recompiled
\* It may flush on account of a write that is over, its own or another's.
Credit(t, s) ==
  /\ Holds(t, s)
  /\ (ut_pc[t] = "flush" /\ New(t)) \/ (~trap[t].tstate.recompiled /\ trap_state[s] # trap[t].tstate)

Worth(t, s) ==
  IF Stale(t, s) \/ SetsBit(t, s) THEN Price(Lower(Rank(trap[t].tstate), Rank(trap_state[s])))
                                  ELSE Price(Rank(trap_state[s]))
Share(t, s) ==
  Worth(t, s) - (IF SetsBit(t, s) THEN 1 ELSE 0) + (IF Credit(t, s) THEN 1 ELSE 0)
Shares == [x \in Pairs |-> Share(x[1], x[2])]
Tokens(S, M, f) == {y \in S \X (1..M) : y[2] <= f[y[1]]}

\* Reasons that no trap was counted for, and threads that were the first
Fresh == {r \in Reasons : trap_count[r] = 0}
FirstOfReason ==
  {t \in Threads : InTrap(t) /\ ~trap[t].prior_trap /\ (trap[t].site \in HasData => ~New(t))}
\* Threads that may flush because nothing was recompiled yet, at sites without data
Early ==
  IF decompile_count = 0 THEN Threads
  ELSE {t \in Threads : InTrap(t) /\ trap[t].site \notin HasData /\ ~trap[t].prior_recompile}
\* Recompilations that will be counted
Counted == {t \in Threads : ut_pc[t] \in {"recompiled", "count"} /\ trap[t].inc}

Purse == Cardinality(Tokens(Pairs, Price0 + 1, Shares))
Left == Purse + Cardinality(Fresh)
        + Cardinality(FirstOfReason) + Cardinality(Early)
Stock == Cardinality(Pairs) * (Price0 + 1) + Cardinality(Reasons) + Cardinality(Threads)
RecompilationBound == Stock + PerBytecodeRecompilationCutoff + Cardinality(Threads) + 1

-----------------------------------------------------------------------------
CodeInv ==
  /\ compiles = decompile_count + (IF code = 0 THEN 0 ELSE 1)
  /\ overflow_recompile_count > PerBytecodeRecompilationCutoff => not_compilable
  /\ compiles <= RecompilationBound

ThreadInv ==
  \A t \in Threads :
    /\ ut_pc[t] \in {"query", "update", "recompiled", "count"} => trap[t].action # "none"
    /\ ut_pc[t] = "flush" /\ trap[t].action = "none" => ~trap[t].flush
    /\ InTrap(t) /\ trap[t].site \in HasData /\ ~trap[t].prior_recompile => ~trap[t].tstate.recompiled
    /\ InTrap(t) /\ ut_pc[t] = "flush" /\ trap[t].flush /\ ~trap[t].inc
         => ~trap[t].prior_trap \/ ~trap[t].prior_recompile

FirstInv ==
  decompile_count = 0 =>
    /\ \A s \in HasData : ~trap_state[s].recompiled
    /\ \A t \in Threads : /\ ut_pc[t] \notin {"recompiled", "count"}
                          /\ InTrap(t) /\ trap[t].site \in HasData => ~trap[t].tstate.recompiled

BudgetInv == decompile_count + Left <= Stock + overflow_recompile_count + Cardinality(Counted)

UTInv == UTTypeOK /\ CodeInv /\ ThreadInv /\ FirstInv /\ BudgetInv

-----------------------------------------------------------------------------
\* The tokens of one element are as many as its share.
LEMMA TokensOfOne ==
  ASSUME NEW x, NEW n \in Nat
  PROVE  IsFiniteSet({x} \X (1..n)) /\ Cardinality({x} \X (1..n)) = n
<1>1. IsFiniteSet({x}) /\ Cardinality({x}) = 1
  BY FS_Singleton
<1>2. IsFiniteSet(1..n) /\ Cardinality(1..n) = n
  BY FS_Interval
<1>3. /\ IsFiniteSet({x} \X (1..n))
      /\ Cardinality({x} \X (1..n)) = Cardinality({x}) * Cardinality(1..n)
  BY <1>1, <1>2, FS_Product, Zenon
<1>4. Cardinality({x}) * Cardinality(1..n) = n
  BY <1>1, <1>2
<1> QED
  BY <1>3, <1>4

LEMMA UnionBound ==
  ASSUME NEW P, NEW Q, IsFiniteSet(P), IsFiniteSet(Q)
  PROVE  /\ IsFiniteSet(P \cup Q) /\ Cardinality(P) \in Nat /\ Cardinality(Q) \in Nat
         /\ Cardinality(P \cup Q) \in Nat /\ Cardinality(P \cup Q) <= Cardinality(P) + Cardinality(Q)
<1>1. Cardinality(P) \in Nat /\ Cardinality(Q) \in Nat
  BY FS_CardinalityType
<1>2. /\ IsFiniteSet(P \cup Q)
      /\ Cardinality(P \cup Q) = Cardinality(P) + Cardinality(Q) - Cardinality(P \cap Q)
  BY FS_Union, Zenon
<1>3. Cardinality(P \cap Q) \in Nat
  BY FS_Intersection, FS_CardinalityType
<1>4. Cardinality(P \cup Q) \in Nat
  BY <1>2, FS_CardinalityType
<1> QED
  BY <1>1, <1>2, <1>3, <1>4

LEMMA TokensFinite ==
  ASSUME NEW S, IsFiniteSet(S), NEW M \in Nat, NEW f \in [S -> 0..M]
  PROVE  /\ IsFiniteSet(Tokens(S, M, f)) /\ Cardinality(Tokens(S, M, f)) \in Nat
         /\ Cardinality(Tokens(S, M, f)) <= Cardinality(S) * M
<1>1. IsFiniteSet(1..M) /\ Cardinality(1..M) = M
  BY FS_Interval
<1>2. IsFiniteSet(S \X (1..M)) /\ Cardinality(S \X (1..M)) = Cardinality(S) * M
  BY <1>1, FS_Product
<1>3. Tokens(S, M, f) \subseteq S \X (1..M)
  BY DEF Tokens
<1>4. IsFiniteSet(Tokens(S, M, f)) /\ Cardinality(Tokens(S, M, f)) <= Cardinality(S \X (1..M))
  BY <1>2, <1>3, FS_Subset
<1> QED
  BY <1>2, <1>4, FS_CardinalityType

\* If one share goes down by enough to give every other one up to c more, and k on top,
\* there are k tokens fewer.
LEMMA Spend ==
  ASSUME NEW S, IsFiniteSet(S), NEW M \in Nat, NEW f \in [S -> 0..M], NEW g \in [S -> 0..M],
         NEW x \in S, NEW c \in Nat, NEW k \in Nat,
         \A y \in S \ {x} : g[y] <= f[y] + c,
         g[x] + Cardinality(S) * c + k <= f[x]
  PROVE  Cardinality(Tokens(S, M, g)) + k <= Cardinality(Tokens(S, M, f))
<1> DEFINE A == Tokens(S, M, f)
           B == Tokens(S, M, g)
           X == {x} \X (1..f[x])
           G == {x} \X (1..g[x])
           E == {y \in B : y[1] # x /\ y[2] > f[y[1]]}
<1>1. /\ IsFiniteSet(A) /\ Cardinality(A) \in Nat /\ IsFiniteSet(B) /\ Cardinality(B) \in Nat
  BY TokensFinite
<1>2. f[x] \in 0..M /\ g[x] \in 0..M
  OBVIOUS
<1>a. f[x] \in Nat /\ g[x] \in Nat
  BY <1>2
<1>3. IsFiniteSet(X) /\ Cardinality(X) = f[x] /\ IsFiniteSet(G) /\ Cardinality(G) = g[x]
  BY <1>a, TokensOfOne, Zenon
<1>4. IsFiniteSet(A \ X) /\ Cardinality(A \ X) = Cardinality(A) - f[x]
  <2>1. X \subseteq A
    BY <1>2 DEF Tokens
  <2>2. A \cap X = X
    BY <2>1
  <2> HIDE DEF A, X
  <2>3. IsFiniteSet(A \ X) /\ Cardinality(A \ X) = Cardinality(A) - Cardinality(A \cap X)
    BY <1>1, FS_Difference, Zenon
  <2> QED
    BY <1>3, <2>2, <2>3
<1>5. IsFiniteSet(E) /\ Cardinality(E) <= Cardinality(S) * c
  <2> DEFINE h == [y \in E |-> <<y[1], y[2] - f[y[1]]>>]
  <2>1. IsFiniteSet(1..c) /\ Cardinality(1..c) = c
    BY FS_Interval
  <2>2. IsFiniteSet(S \X (1..c)) /\ Cardinality(S \X (1..c)) = Cardinality(S) * c
    BY <2>1, FS_Product
  <2>3. ASSUME NEW y \in E
        PROVE  y \in S \X (1..M) /\ y[1] \in S \ {x} /\ y[2] \in Nat /\ f[y[1]] \in Nat
               /\ y[2] > f[y[1]] /\ y[2] <= g[y[1]] /\ g[y[1]] \in Nat
    BY DEF Tokens
  <2>4. ASSUME NEW y \in E PROVE h[y] \in S \X (1..c)
    <3>1. y[2] - f[y[1]] \in 1..c
      BY <2>3
    <3> QED
      BY <2>3, <3>1
  <2>5. ASSUME NEW y \in E, NEW z \in E, h[y] = h[z] PROVE y = z
    <3>1. y[1] = z[1] /\ y[2] - f[y[1]] = z[2] - f[z[1]]
      BY <2>5
    <3>2. y[2] = z[2]
      BY <2>3, <3>1
    <3>3. y = <<y[1], y[2]>> /\ z = <<z[1], z[2]>>
      BY <2>3
    <3> QED
      BY <3>1, <3>2, <3>3
  <2>6. h \in Injection(E, S \X (1..c))
    BY <2>4, <2>5 DEF Injection, IsInjective
  <2> QED
    BY <2>2, <2>6, FS_Injection
<1>6. B \subseteq ((A \ X) \cup G) \cup E
  <2> SUFFICES ASSUME NEW y \in B, y \notin E, y \notin G PROVE y \in A \ X
    OBVIOUS
  <2>1. y \in S \X (1..M) /\ y[1] \in S /\ y[2] \in 1..M /\ y[2] <= g[y[1]] /\ y = <<y[1], y[2]>>
    BY DEF Tokens
  <2>2. y[1] # x
    BY <1>2, <2>1
  <2>3. f[y[1]] \in 0..M /\ y[2] <= f[y[1]]
    BY <2>1, <2>2
  <2> QED
    BY <2>1, <2>2, <2>3 DEF Tokens
<1> DEFINE D == A \ X
<1> HIDE DEF A, B, X, G, E, D
<1>b. IsFiniteSet(D) /\ Cardinality(D) = Cardinality(A) - f[x]
  BY <1>4 DEF D
<1>7. /\ IsFiniteSet(D \cup G) /\ Cardinality(D \cup G) \in Nat /\ Cardinality(D) \in Nat
      /\ Cardinality(G) \in Nat /\ Cardinality(D \cup G) <= Cardinality(D) + Cardinality(G)
  BY <1>3, <1>b, UnionBound, Zenon
<1>8. /\ IsFiniteSet((D \cup G) \cup E) /\ Cardinality(E) \in Nat /\ Cardinality((D \cup G) \cup E) \in Nat
      /\ Cardinality((D \cup G) \cup E) <= Cardinality(D \cup G) + Cardinality(E)
  BY <1>5, <1>7, UnionBound, Zenon
<1>9. Cardinality(B) <= Cardinality((D \cup G) \cup E)
  <2>1. B \subseteq (D \cup G) \cup E
    BY <1>6 DEF D
  <2> QED
    BY <1>8, <2>1, FS_Subset
<1>10. Cardinality(S) * c \in Nat
  BY FS_CardinalityType
<1>11. Cardinality(B) + k <= Cardinality(A)
  BY <1>1, <1>a, <1>3, <1>b, <1>5, <1>7, <1>8, <1>9, <1>10
<1> QED
  BY <1>11 DEF A, B

-----------------------------------------------------------------------------
LEMMA PairsFinite ==
  /\ IsFiniteSet(Pairs) /\ Cardinality(Pairs) \in Nat
  /\ IsFiniteSet(Threads) /\ Cardinality(Threads) \in Nat
  /\ IsFiniteSet(Reasons) /\ Cardinality(Reasons) \in Nat
<1>1. IsFiniteSet(HasData)
  BY TrapAssumption, FS_Subset
<1>2. IsFiniteSet(Pairs)
  BY <1>1, TrapAssumption, FS_Product DEF Pairs
<1> QED
  BY <1>2, TrapAssumption, FS_CardinalityType

\* A price is enough to raise every share to the next price, with one token more, and to
\* pay that price and two tokens.
LEMMA Prices ==
  /\ Price0 \in Nat
  /\ \A k \in 0..3 : Price(k) \in 0..Price0
  /\ \A j, k \in 0..3 : j <= k => Price(k) <= Price(j)
  /\ \A k \in 0..2 : Price(k + 1) + 2 + Cardinality(Pairs) * (Price(k + 1) + 1) <= Price(k)
<1> DEFINE N == Cardinality(Pairs)
<1>1. N \in Nat
  BY PairsFinite
<1>2. ASSUME NEW n \in Nat, NEW q \in Nat
      PROVE  (n + 1) * (q + 2) \in Nat /\ q + 2 + n * (q + 1) <= (n + 1) * (q + 2)
             /\ n * (q + 1) \in Nat
  <2>1. (n + 1) * (q + 2) = n * (q + 1) + n + q + 2
    OBVIOUS
  <2>2. n * (q + 1) \in Nat
    OBVIOUS
  <2> QED
    BY <2>1, <2>2
<1> HIDE DEF N
<1>3. Price2 \in Nat /\ 0 + 2 + N * (0 + 1) <= Price2 /\ N * (0 + 1) \in Nat
  <2>1. (N + 1) * (0 + 2) \in Nat /\ 0 + 2 + N * (0 + 1) <= (N + 1) * (0 + 2) /\ N * (0 + 1) \in Nat
    BY <1>1, <1>2
  <2> QED
    BY <2>1 DEF Price2, N
<1>4. Price1 \in Nat /\ Price2 + 2 + N * (Price2 + 1) <= Price1 /\ N * (Price2 + 1) \in Nat
  BY <1>1, <1>2, <1>3 DEF Price1, N
<1>5. Price0 \in Nat /\ Price1 + 2 + N * (Price1 + 1) <= Price0 /\ N * (Price1 + 1) \in Nat
  BY <1>1, <1>2, <1>4 DEF Price0, N
<1>6. Price(0) = Price0 /\ Price(1) = Price1 /\ Price(2) = Price2 /\ Price(3) = 0
  BY DEF Price
<1>7. Price2 >= 0 /\ Price1 >= Price2 /\ Price0 >= Price1
  BY <1>3, <1>4, <1>5
<1>8. ASSUME NEW k \in 0..3 PROVE Price(k) \in 0..Price0
  BY <1>3, <1>4, <1>5, <1>6, <1>7
<1>9. ASSUME NEW j \in 0..3, NEW k \in 0..3, j <= k PROVE Price(k) <= Price(j)
  <2>1. j \in {0, 1, 2, 3} /\ k \in {0, 1, 2, 3}
    OBVIOUS
  <2> QED
    BY <1>3, <1>4, <1>5, <1>6, <1>7, <1>9, <2>1
<1>10. ASSUME NEW k \in 0..2 PROVE Price(k + 1) + 2 + N * (Price(k + 1) + 1) <= Price(k)
  <2>1. CASE k = 0
    BY <1>5, <1>6, <2>1
  <2>2. CASE k = 1
    BY <1>4, <1>6, <2>2
  <2>3. CASE k = 2
    BY <1>3, <1>6, <2>3
  <2> QED
    BY <2>1, <2>2, <2>3
<1> QED
  BY <1>5, <1>8, <1>9, <1>10 DEF N

LEMMA Ranks ==
  ASSUME NEW v \in StateType
  PROVE  /\ Rank(v) \in 0..3 /\ v.recompiled \in BOOLEAN
         /\ ~v.recompiled => Rank(v) \in 0..2
         /\ \A r \in Reasons : ~HasReason(v, r) => Rank(v) \in 0..2
BY DEF Rank, StateType, HasReason

\* A write adds a reason or the bit: it is one step above what was read.
LEMMA RankOfWrite ==
  ASSUME NEW v \in StateType
  PROVE  /\ \A r \in Reasons : ~HasReason(v, r) =>
              AddReason(v, r) \in StateType /\ Rank(AddReason(v, r)) = Rank(v) + 1
              /\ AddReason(v, r) # v /\ AddReason(v, r).recompiled = v.recompiled
         /\ \A r \in Reasons : HasReason(v, r) => AddReason(v, r) = v
         /\ ~v.recompiled =>
              [v EXCEPT !.recompiled = TRUE] \in StateType
              /\ Rank([v EXCEPT !.recompiled = TRUE]) = Rank(v) + 1
<1>1. /\ v = [reason |-> v.reason, recompiled |-> v.recompiled]
      /\ v.reason \in Reasons \cup {"none", "many"} /\ v.recompiled \in BOOLEAN
  BY DEF StateType
<1>2. ASSUME NEW r \in Reasons, ~HasReason(v, r)
      PROVE  /\ AddReason(v, r) = [reason |-> IF v.reason = "none" THEN r ELSE "many", recompiled |-> v.recompiled]
             /\ v.reason # "many" /\ v.reason # r
  BY <1>1, <1>2 DEF AddReason, HasReason
<1>3. ASSUME NEW r \in Reasons, ~HasReason(v, r)
      PROVE  /\ AddReason(v, r) \in StateType /\ Rank(AddReason(v, r)) = Rank(v) + 1
             /\ AddReason(v, r) # v /\ AddReason(v, r).recompiled = v.recompiled
  <2>1. AddReason(v, r) \in StateType
    BY <1>1, <1>2, <1>3 DEF StateType
  <2>2. AddReason(v, r).recompiled = v.recompiled
    BY <1>2, <1>3
  <2>3. Rank(AddReason(v, r)) = Rank(v) + 1
    BY <1>1, <1>2, <1>3, TrapAssumption DEF Rank
  <2>4. AddReason(v, r) # v
    BY <1>1, <1>2, <1>3, TrapAssumption
  <2> QED
    BY <2>1, <2>2, <2>3, <2>4
<1>4. ASSUME NEW r \in Reasons, HasReason(v, r) PROVE AddReason(v, r) = v
  BY <1>1, <1>4 DEF AddReason, HasReason
<1>5. ASSUME ~v.recompiled
      PROVE  [v EXCEPT !.recompiled = TRUE] \in StateType
             /\ Rank([v EXCEPT !.recompiled = TRUE]) = Rank(v) + 1
  <2> DEFINE w == [v EXCEPT !.recompiled = TRUE]
  <2>1. w.reason = v.reason /\ w.recompiled
    BY DEF StateType
  <2>2. w \in StateType
    BY DEF StateType
  <2> HIDE DEF w
  <2>3. Rank(w) = Rank(v) + 1
    BY <1>1, <1>5, <2>1 DEF Rank
  <2> QED
    BY <2>2, <2>3 DEF w
<1> QED
  BY <1>3, <1>4, <1>5

-----------------------------------------------------------------------------
\* The share of a thread that is not in a trap at the site, and what a share is at least
LEMMA Holding ==
  ASSUME UTTypeOK, NEW t \in Threads
  PROVE  /\ ut_pc[t] \in {"update", "flush", "recompiled", "count", "query"} =>
              trap[t] \in TrapType /\ trap[t].tstate \in StateType /\ trap[t].reason \in Reasons
BY DEF UTTypeOK, TrapType

LEMMA ShareRange ==
  ASSUME UTTypeOK, NEW t \in Threads, NEW s \in HasData
  PROVE  /\ Worth(t, s) \in 0..Price0 /\ Share(t, s) \in 0..(Price0 + 1)
         /\ Price(Rank(trap_state[s])) \in 0..Price0
         /\ Worth(t, s) >= Price(Rank(trap_state[s]))
         /\ SetsBit(t, s) => Worth(t, s) >= 1
<1> DEFINE v == trap[t].tstate
           w == trap_state[s]
<1>1. w \in StateType /\ Rank(w) \in 0..3 /\ Price(Rank(w)) \in 0..Price0
  BY Ranks, Prices DEF UTTypeOK
<1>2. ASSUME Stale(t, s) \/ SetsBit(t, s)
      PROVE  /\ Rank(v) \in 0..3 /\ Lower(Rank(v), Rank(w)) \in 0..3 /\ Lower(Rank(v), Rank(w)) <= Rank(w)
             /\ SetsBit(t, s) => Lower(Rank(v), Rank(w)) \in 0..2
  <2>1. v \in StateType
    BY <1>2, Holding DEF Stale, SetsBit, Holds, InTrap
  <2>2. Rank(v) \in 0..3 /\ (SetsBit(t, s) => Rank(v) \in 0..2)
    BY <2>1, Ranks DEF SetsBit
  <2> QED
    BY <1>1, <2>2 DEF Lower
<1>3. CASE Stale(t, s) \/ SetsBit(t, s)
  <2> DEFINE k == Lower(Rank(v), Rank(w))
  <2>1. Worth(t, s) = Price(k)
    BY <1>3 DEF Worth
  <2>2. k \in 0..3 /\ k <= Rank(w) /\ (SetsBit(t, s) => k \in 0..2)
    BY <1>2, <1>3
  <2> HIDE DEF k
  <2>3. Price(k) \in 0..Price0 /\ Price(Rank(w)) <= Price(k)
    BY <1>1, <2>2, Prices
  <2>4. SetsBit(t, s) => Price(k) >= 1
    <3>1. ASSUME k \in 0..2 PROVE Price(k) >= 1
      <4>1. k + 1 \in 0..3
        BY <3>1
      <4>2. Price(k + 1) \in Nat /\ Price(k) \in Nat /\ Price0 \in Nat
        BY <2>3, <4>1, Prices
      <4>3. Cardinality(Pairs) * (Price(k + 1) + 1) \in Nat
        BY <4>2, PairsFinite
      <4>4. Price(k + 1) + 2 + Cardinality(Pairs) * (Price(k + 1) + 1) <= Price(k)
        BY <3>1, Prices
      <4> QED
        BY <4>2, <4>3, <4>4
    <3> QED
      BY <2>2, <3>1
  <2> QED
    BY <1>1, <2>1, <2>3, <2>4, Prices DEF Share
<1>4. CASE ~(Stale(t, s) \/ SetsBit(t, s))
  <2>1. Worth(t, s) = Price(Rank(w))
    BY <1>4 DEF Worth
  <2> QED
    BY <1>1, <1>4, <2>1, Prices DEF Share
<1> QED
  BY <1>3, <1>4

SharesOK ==
  /\ Shares \in [Pairs -> 0..(Price0 + 1)]
  /\ \A t \in Threads, s \in HasData :
       Worth(t, s) \in 0..Price0 /\ <<t, s>> \in Pairs /\ Shares[<<t, s>>] = Share(t, s)
LEMMA SharesTyped == UTTypeOK => SharesOK
<1> SUFFICES ASSUME UTTypeOK PROVE SharesOK
  OBVIOUS
<1>1. ASSUME NEW x \in Pairs PROVE Share(x[1], x[2]) \in 0..(Price0 + 1)
  BY ShareRange DEF Pairs
<1>2. Shares \in [Pairs -> 0..(Price0 + 1)]
  BY <1>1 DEF Shares
<1>3. ASSUME NEW t \in Threads, NEW s \in HasData
      PROVE  Worth(t, s) \in 0..Price0 /\ <<t, s>> \in Pairs /\ Shares[<<t, s>>] = Share(t, s)
  BY ShareRange DEF Pairs, Shares
<1> QED
  BY <1>2, <1>3 DEF SharesOK
LEMMA SharesTypedNext == UTTypeOK' => SharesOK'
BY SharesTyped, PTL

LEMMA ShareIdle ==
  ASSUME NEW t, NEW s, ~Holds(t, s), ~SetsBit(t, s)
  PROVE  Share(t, s) = Price(Rank(trap_state[s])) - 0 + 0
BY DEF Share, Worth, Stale, Credit

\* What another thread does leaves a share alone, unless it writes.
LEMMA ShareKept ==
  ASSUME NEW t, NEW s, trap'[t] = trap[t], ut_pc'[t] = ut_pc[t], trap_state'[s] = trap_state[s]
  PROVE  Share(t, s)' = Share(t, s)
BY DEF Share, Worth, Stale, SetsBit, Credit, Holds, InTrap, New

\* A write raises a share by the price of what is written and a credit, at most.
LEMMA ShareAfterWrite ==
  ASSUME UTTypeOK, UTTypeOK', NEW t \in Threads, NEW s \in HasData,
         trap'[t] = trap[t], ut_pc'[t] = ut_pc[t]
  PROVE  Share(t, s)' <= Share(t, s) + (Price(Rank(trap_state'[s])) + 1)
<1> DEFINE v == trap[t].tstate
           w == trap_state[s]
           z == trap_state'[s]
<1>1. /\ w \in StateType /\ Rank(w) \in 0..3 /\ Price(Rank(w)) \in 0..Price0
      /\ z \in StateType /\ Rank(z) \in 0..3 /\ Price(Rank(z)) \in 0..Price0 /\ Price0 \in Nat
  BY Ranks, Prices DEF UTTypeOK
<1>2. /\ Stale(t, s)' = Stale(t, s) /\ SetsBit(t, s)' = SetsBit(t, s)
  BY DEF Stale, SetsBit, Holds, InTrap, New
<1>3. Worth(t, s)' <= Worth(t, s) + Price(Rank(z))
  <2>1. CASE Stale(t, s) \/ SetsBit(t, s)
    <3>1. v \in StateType
      BY <2>1, Holding DEF Stale, SetsBit, Holds, InTrap
    <3>2. Rank(v) \in 0..3
      BY <3>1, Ranks
    <3>3. Worth(t, s)' = Price(Lower(Rank(v), Rank(z))) /\ Worth(t, s) = Price(Lower(Rank(v), Rank(w)))
      BY <1>2, <2>1 DEF Worth
    <3>4. Lower(Rank(v), Rank(w)) \in 0..3 /\ Lower(Rank(v), Rank(w)) <= Rank(v)
      BY <1>1, <3>2 DEF Lower
    <3>5. Price(Rank(v)) <= Price(Lower(Rank(v), Rank(w))) /\ Price(Rank(v)) \in 0..Price0
          /\ Price(Lower(Rank(v), Rank(w))) \in 0..Price0
      BY <3>2, <3>4, Prices
    <3>6. Lower(Rank(v), Rank(z)) = Rank(v) \/ Lower(Rank(v), Rank(z)) = Rank(z)
      BY DEF Lower
    <3>7. CASE Lower(Rank(v), Rank(z)) = Rank(v)
      BY <1>1, <3>3, <3>5, <3>7
    <3>8. CASE Lower(Rank(v), Rank(z)) = Rank(z)
      BY <1>1, <3>3, <3>5, <3>8
    <3> QED
      BY <3>6, <3>7, <3>8
  <2>2. CASE ~(Stale(t, s) \/ SetsBit(t, s))
    <3>1. Worth(t, s)' = Price(Rank(z)) /\ Worth(t, s) = Price(Rank(w))
      BY <1>2, <2>2 DEF Worth
    <3> QED
      BY <1>1, <3>1
  <2> QED
    BY <2>1, <2>2
<1>4. Worth(t, s) \in Nat
  BY <1>1, ShareRange
<1>5. Worth(t, s)' \in Nat
  <2>1. SharesOK'
    BY SharesTypedNext
  <2>2. Worth(t, s)' \in 0..Price0
    BY <2>1 DEF SharesOK
  <2> QED
    BY <1>1, <2>2
<1> QED
  BY <1>1, <1>2, <1>3, <1>4, <1>5 DEF Share

-----------------------------------------------------------------------------
LEMMA PurseType == UTTypeOK => Purse \in Nat /\ Purse <= Cardinality(Pairs) * (Price0 + 1)
<1> SUFFICES ASSUME UTTypeOK PROVE Purse \in Nat /\ Purse <= Cardinality(Pairs) * (Price0 + 1)
  OBVIOUS
<1>1. Shares \in [Pairs -> 0..(Price0 + 1)] /\ Price0 + 1 \in Nat /\ IsFiniteSet(Pairs)
  BY SharesTyped, Prices, PairsFinite DEF SharesOK
<1> QED
  BY <1>1, TokensFinite, Zenon DEF Purse
PurseOK == Purse \in Nat
LEMMA PurseNat == UTTypeOK => PurseOK
BY PurseType DEF PurseOK
LEMMA PurseNatNext == UTTypeOK' => PurseOK'
BY PurseNat, PTL

\* One share pays: what all others get, and k.
LEMMA PursePays ==
  ASSUME UTTypeOK, UTTypeOK', NEW t \in Threads, NEW s \in HasData, NEW c \in Nat, NEW k \in Nat,
         \A u \in Threads, h \in HasData : <<u, h>> # <<t, s>> => Share(u, h)' <= Share(u, h) + c,
         Share(t, s)' + Cardinality(Pairs) * c + k <= Share(t, s)
  PROVE  Purse' + k <= Purse
<1>1. SharesOK /\ SharesOK'
  BY SharesTyped, SharesTypedNext
<1>2. /\ Shares \in [Pairs -> 0..(Price0 + 1)] /\ Shares' \in [Pairs -> 0..(Price0 + 1)]
      /\ Price0 + 1 \in Nat /\ IsFiniteSet(Pairs)
  BY <1>1, Prices, PairsFinite DEF SharesOK
<1>3. <<t, s>> \in Pairs /\ Shares[<<t, s>>] = Share(t, s) /\ Shares'[<<t, s>>] = Share(t, s)'
  BY <1>1 DEF SharesOK
<1>4. ASSUME NEW y \in Pairs \ {<<t, s>>} PROVE Shares'[y] <= Shares[y] + c
  <2>1. PICK u \in Threads, h \in HasData : y = <<u, h>>
    BY DEF Pairs
  <2>2. Shares[<<u, h>>] = Share(u, h) /\ Shares'[<<u, h>>] = Share(u, h)'
    BY <1>1 DEF SharesOK
  <2> QED
    BY <2>1, <2>2
<1>5. Shares'[<<t, s>>] + Cardinality(Pairs) * c + k <= Shares[<<t, s>>]
  BY <1>3
<1> HIDE DEF Pairs
<1>6. Cardinality(Tokens(Pairs, Price0 + 1, Shares')) + k <= Cardinality(Tokens(Pairs, Price0 + 1, Shares))
  BY <1>2, <1>3, <1>4, <1>5, Spend
<1> QED
  BY <1>6 DEF Purse

\* If no share rises the purse does not.
LEMMA PurseKept ==
  ASSUME UTTypeOK, UTTypeOK', \A u \in Threads, h \in HasData : Share(u, h)' <= Share(u, h)
  PROVE  Purse' <= Purse
<1>1. SharesOK /\ SharesOK'
  BY SharesTyped, SharesTypedNext
<1>2. /\ Shares \in [Pairs -> 0..(Price0 + 1)] /\ Shares' \in [Pairs -> 0..(Price0 + 1)]
      /\ Price0 + 1 \in Nat /\ IsFiniteSet(Pairs)
  BY <1>1, Prices, PairsFinite DEF SharesOK
<1>3. ASSUME NEW y \in Pairs PROVE Shares'[y] <= Shares[y]
  <2>1. PICK u \in Threads, h \in HasData : y = <<u, h>>
    BY DEF Pairs
  <2>2. Shares[<<u, h>>] = Share(u, h) /\ Shares'[<<u, h>>] = Share(u, h)'
    BY <1>1 DEF SharesOK
  <2> QED
    BY <2>1, <2>2
<1> DEFINE T == Tokens(Pairs, Price0 + 1, Shares)
           U == Tokens(Pairs, Price0 + 1, Shares')
<1>4. U \subseteq T
  <2> SUFFICES ASSUME NEW y \in U PROVE y \in T
    OBVIOUS
  <2>1. y \in Pairs \X (1..(Price0 + 1)) /\ y[1] \in Pairs /\ y[2] \in Nat /\ y[2] <= Shares'[y[1]]
    BY <1>2 DEF Tokens
  <2>2. Shares'[y[1]] \in Nat /\ Shares[y[1]] \in Nat
    BY <1>2, <2>1
  <2>3. y[2] <= Shares[y[1]]
    BY <1>3, <2>1, <2>2
  <2> QED
    BY <2>1, <2>3 DEF Tokens
<1>5. IsFiniteSet(T)
  BY <1>2, TokensFinite, Zenon
<1> QED
  BY <1>4, <1>5, FS_Subset DEF Purse

-----------------------------------------------------------------------------
LEMMA Cards ==
  ASSUME NEW U, IsFiniteSet(U), NEW A \in SUBSET U, NEW B \in SUBSET U
  PROVE  /\ Cardinality(A) \in Nat /\ Cardinality(B) \in Nat /\ Cardinality(A) <= Cardinality(U)
         /\ A \subseteq B => Cardinality(A) <= Cardinality(B)
         /\ \A t \in B : A \subseteq B \ {t} => Cardinality(A) + 1 <= Cardinality(B)
         /\ \A t : A \subseteq B \cup {t} => Cardinality(A) <= Cardinality(B) + 1
<1>1. IsFiniteSet(A) /\ IsFiniteSet(B) /\ Cardinality(A) <= Cardinality(U)
  BY FS_Subset
<1>2. Cardinality(A) \in Nat /\ Cardinality(B) \in Nat
  BY <1>1, FS_CardinalityType
<1>3. ASSUME A \subseteq B PROVE Cardinality(A) <= Cardinality(B)
  BY <1>1, <1>3, FS_Subset
<1>4. ASSUME NEW t \in B, A \subseteq B \ {t} PROVE Cardinality(A) + 1 <= Cardinality(B)
  <2>1. IsFiniteSet(B \ {t}) /\ Cardinality(B \ {t}) = Cardinality(B) - 1
    BY <1>1, FS_RemoveElement
  <2>2. Cardinality(A) <= Cardinality(B \ {t})
    BY <1>4, <2>1, FS_Subset
  <2> QED
    BY <1>2, <2>1, <2>2
<1>5. ASSUME NEW t, A \subseteq B \cup {t} PROVE Cardinality(A) <= Cardinality(B) + 1
  <2>1. IsFiniteSet(B \cup {t}) /\ Cardinality(B \cup {t}) <= Cardinality(B) + 1
    BY <1>1, <1>2, FS_AddElement
  <2>2. Cardinality(A) <= Cardinality(B \cup {t})
    BY <1>5, <2>1, FS_Subset
  <2>3. Cardinality(B \cup {t}) \in Nat
    BY <2>1, FS_CardinalityType
  <2> QED
    BY <1>2, <2>1, <2>2, <2>3
<1> QED
  BY <1>1, <1>2, <1>3, <1>4, <1>5

LEMMA SetsSmall ==
  /\ Fresh \in SUBSET Reasons /\ Fresh' \in SUBSET Reasons
  /\ FirstOfReason \in SUBSET Threads /\ FirstOfReason' \in SUBSET Threads
  /\ Early \in SUBSET Threads /\ Early' \in SUBSET Threads
  /\ Counted \in SUBSET Threads /\ Counted' \in SUBSET Threads
  /\ Cardinality(Fresh) \in Nat /\ Cardinality(Fresh') \in Nat
  /\ Cardinality(FirstOfReason) \in Nat /\ Cardinality(FirstOfReason') \in Nat
  /\ Cardinality(Early) \in Nat /\ Cardinality(Early') \in Nat
  /\ Cardinality(Counted) \in Nat /\ Cardinality(Counted') \in Nat
<1>1. /\ Fresh \in SUBSET Reasons /\ Fresh' \in SUBSET Reasons
      /\ FirstOfReason \in SUBSET Threads /\ FirstOfReason' \in SUBSET Threads
      /\ Early \in SUBSET Threads /\ Early' \in SUBSET Threads
      /\ Counted \in SUBSET Threads /\ Counted' \in SUBSET Threads
  BY DEF Fresh, FirstOfReason, Early, Counted
<1>2. \A A \in SUBSET Threads : Cardinality(A) \in Nat
  BY PairsFinite, Cards
<1>3. \A A \in SUBSET Reasons : Cardinality(A) \in Nat
  BY PairsFinite, Cards
<1> QED
  BY <1>1, <1>2, <1>3

LEMMA StockNat == Stock \in Nat /\ RecompilationBound \in Nat /\ Cardinality(Pairs) * (Price0 + 1) \in Nat
<1>1. Cardinality(Pairs) * (Price0 + 1) \in Nat
  BY PairsFinite, Prices
<1> QED
  BY <1>1, PairsFinite, TrapAssumption DEF Stock, RecompilationBound

\* A step that recompiles nothing and counts nothing
LEMMA BudgetKept ==
  ASSUME UTTypeOK, UTTypeOK', BudgetInv, UNCHANGED <<decompile_count, overflow_recompile_count>>,
         Purse' <= Purse,
         Cardinality(Fresh') + Cardinality(FirstOfReason') <= Cardinality(Fresh) + Cardinality(FirstOfReason),
         Early' \subseteq Early, Counted' = Counted
  PROVE  BudgetInv'
<1>1. Purse \in Nat /\ Purse' \in Nat
  BY PurseNat, PurseNatNext DEF PurseOK
<1>2. Cardinality(Early') <= Cardinality(Early)
  BY SetsSmall, PairsFinite, Cards
<1>3. Left \in Nat /\ Left' \in Nat /\ Left' <= Left
  BY <1>1, <1>2, SetsSmall DEF Left
<1>4. Cardinality(Counted)' = Cardinality(Counted)
  OBVIOUS
<1>5. decompile_count' + Left' <= Stock + overflow_recompile_count' + Cardinality(Counted')
  BY <1>3, SetsSmall, StockNat DEF BudgetInv, UTTypeOK
<1> QED
  BY <1>5 DEF BudgetInv, Stock

\* A thread that is in no trap, before or after, has nothing at stake.
LEMMA NothingAtStake ==
  ASSUME UTTypeOK, UTTypeOK', BudgetInv, NEW t \in Threads,
         UNCHANGED <<decompile_count, overflow_recompile_count, trap_count, trap_state>>,
         \A u \in Threads \ {t} : trap'[u] = trap[u] /\ ut_pc'[u] = ut_pc[u],
         ~InTrap(t), ~InTrap(t)', ut_pc[t] \notin {"recompiled", "count"},
         ut_pc'[t] \notin {"recompiled", "count"}
  PROVE  BudgetInv'
<1>1. ASSUME NEW u \in Threads, NEW s \in HasData PROVE Share(u, s)' <= Share(u, s)
  <2>0. Share(u, s) \in Int
    BY ShareRange, Prices
  <2>1. CASE u = t
    <3>1. ~Holds(t, s) /\ ~SetsBit(t, s) /\ ~Holds(t, s)' /\ ~SetsBit(t, s)'
      BY DEF Holds, SetsBit
    <3>2. Share(t, s)' = Share(t, s)
      BY <3>1 DEF Share, Worth, Stale, Credit
    <3> QED
      BY <2>0, <2>1, <3>2
  <2>2. CASE u # t
    <3>1. Share(u, s)' = Share(u, s)
      BY <2>2, ShareKept
    <3> QED
      BY <2>0, <3>1
  <2> QED
    BY <2>1, <2>2
<1>2. Purse' <= Purse
  BY <1>1, PurseKept
<1>3. Fresh' = Fresh /\ FirstOfReason' = FirstOfReason /\ Early' = Early /\ Counted' = Counted
  <2>1. \A u \in Threads : InTrap(u)' <=> InTrap(u)
    BY DEF InTrap
  <2>2. \A u \in Threads : InTrap(u) => u # t
    OBVIOUS
  <2>3. Fresh' = Fresh
    BY DEF Fresh
  <2>4. FirstOfReason' = FirstOfReason
    BY <2>1, <2>2 DEF FirstOfReason, New
  <2>5. Early' = Early
    BY <2>1, <2>2 DEF Early
  <2>6. Counted' = Counted
    BY DEF Counted
  <2> QED
    BY <2>3, <2>4, <2>5, <2>6
<1> QED
  BY <1>2, <1>3, SetsSmall, BudgetKept

-----------------------------------------------------------------------------
LEMMA UncommonTrapStep ==
  ASSUME UTInv, NEW t \in Threads, NEW site \in Sites, NEW reason \in Reasons, NEW action \in Actions,
         UncommonTrap(t, site, reason, action)
  PROVE  UTInv'
<1> DEFINE r == [nm |-> code, site |-> site, reason |-> reason, action |-> action,
                 count |-> 0, prior_trap |-> FALSE, prior_recompile |-> FALSE,
                 tstate |-> [reason |-> "none", recompiled |-> FALSE], flush |-> Flushes(action),
                 inc |-> FALSE]
<1>1. /\ trap' = [trap EXCEPT ![t] = r] /\ ut_pc[t] = "java" /\ code # 0
      /\ ut_pc' = [ut_pc EXCEPT ![t] = IF action = "none" THEN "flush" ELSE "query"]
      /\ UNCHANGED <<code, compiles, not_compilable, trap_count, trap_state, decompile_count,
                     overflow_recompile_count>>
  BY DEF UncommonTrap
<1>2. r \in TrapType /\ r.action = action /\ (action = "none" => ~r.flush)
  <2>1. [reason |-> "none", recompiled |-> FALSE] \in StateType
    BY DEF StateType
  <2>2. code \in Nat \ {0}
    BY <1>1 DEF UTInv, UTTypeOK
  <2>3. Flushes(action) \in BOOLEAN /\ (action = "none" => ~Flushes(action))
    BY DEF Flushes
  <2>4. r.action = action /\ r.flush = Flushes(action)
    OBVIOUS
  <2>5. r \in TrapType
    BY <2>1, <2>2, <2>3 DEF TrapType
  <2> QED
    BY <2>3, <2>4, <2>5
<1> HIDE DEF r
<1>3. /\ trap'[t] = r /\ ut_pc'[t] = (IF action = "none" THEN "flush" ELSE "query")
      /\ \A u \in Threads \ {t} : trap'[u] = trap[u] /\ ut_pc'[u] = ut_pc[u]
  BY <1>1 DEF UTInv, UTTypeOK
<1>4. UTTypeOK'
  BY <1>1, <1>2, <1>3 DEF UTInv, UTTypeOK
<1>5. ~InTrap(t) /\ ~InTrap(t)' /\ \A u \in Threads \ {t} : InTrap(u)' <=> InTrap(u)
  BY <1>1, <1>2, <1>3 DEF InTrap
<1>6. CodeInv'
  BY <1>1 DEF UTInv, CodeInv, RecompilationBound, Stock
<1>7. ThreadInv'
  <2> SUFFICES ASSUME NEW u \in Threads
               PROVE  (/\ ut_pc[u] \in {"query", "update", "recompiled", "count"} => trap[u].action # "none"
                       /\ ut_pc[u] = "flush" /\ trap[u].action = "none" => ~trap[u].flush
                       /\ InTrap(u) /\ trap[u].site \in HasData /\ ~trap[u].prior_recompile
                            => ~trap[u].tstate.recompiled
                       /\ InTrap(u) /\ ut_pc[u] = "flush" /\ trap[u].flush /\ ~trap[u].inc
                            => ~trap[u].prior_trap \/ ~trap[u].prior_recompile)'
    BY DEF ThreadInv
  <2>1. CASE u = t
    BY <1>2, <1>3, <1>5, <2>1
  <2>2. CASE u # t
    BY <1>3, <1>5, <2>2 DEF UTInv, ThreadInv
  <2> QED
    BY <2>1, <2>2
<1>8. FirstInv'
  BY <1>1, <1>3, <1>5 DEF UTInv, FirstInv
<1>9. BudgetInv'
  BY <1>1, <1>3, <1>4, <1>5, NothingAtStake DEF UTInv
<1> QED
  BY <1>4, <1>6, <1>7, <1>8, <1>9 DEF UTInv

LEMMA RecompileStep ==
  ASSUME UTInv, Recompile
  PROVE  UTInv'
<1>1. /\ code = 0 /\ ~not_compilable /\ compiles' = compiles + 1 /\ code' = compiles + 1
      /\ UNCHANGED <<not_compilable, trap_count, trap_state, decompile_count,
                     overflow_recompile_count, ut_pc, trap>>
  BY DEF Recompile
<1>2. UTTypeOK'
  BY <1>1 DEF UTInv, UTTypeOK
<1>3. BudgetInv'
  <2>1. Left' = Left /\ Counted' = Counted
    BY <1>1 DEF Left, Purse, Shares, Share, Worth, Stale, SetsBit, Credit, Holds, InTrap, New, Fresh,
                FirstOfReason, Early, Counted
  <2> QED
    BY <1>1, <2>1 DEF UTInv, BudgetInv, Stock
<1>4. CodeInv'
  <2>1. compiles = decompile_count /\ overflow_recompile_count <= PerBytecodeRecompilationCutoff
    BY <1>1, TrapAssumption DEF UTInv, CodeInv, UTTypeOK
  <2>2. Cardinality(Counted) <= Cardinality(Threads)
    BY SetsSmall, PairsFinite, Cards
  <2>3. Left \in Nat
    BY PurseNat, SetsSmall DEF UTInv, Left, PurseOK
  <2>4. decompile_count <= Stock + PerBytecodeRecompilationCutoff + Cardinality(Threads)
    BY <2>1, <2>2, <2>3, SetsSmall, PairsFinite, StockNat, TrapAssumption DEF UTInv, BudgetInv, UTTypeOK
  <2>5. compiles' <= RecompilationBound
    BY <1>1, <2>1, <2>4, PairsFinite, StockNat, TrapAssumption DEF UTInv, UTTypeOK, RecompilationBound
  <2>6. RecompilationBound' = RecompilationBound
    BY DEF RecompilationBound, Stock
  <2>7. compiles' = decompile_count' + (IF code' = 0 THEN 0 ELSE 1)
    BY <1>1, <2>1 DEF UTInv, UTTypeOK
  <2> QED
    BY <1>1, <2>5, <2>6, <2>7 DEF UTInv, CodeInv
<1>5. ThreadInv' /\ FirstInv'
  BY <1>1 DEF UTInv, ThreadInv, FirstInv, InTrap
<1> QED
  BY <1>2, <1>3, <1>4, <1>5 DEF UTInv

\* What a thread knows after the first half of query_update_method_data
LEMMA QueryEffect ==
  ASSUME UTInv, Reasons \subseteq PerBytecode, NEW t \in Threads, QueryMethodData(t)
  PROVE  /\ ut_pc[t] = "query" /\ ut_pc'[t] = "update" /\ trap[t] \in TrapType /\ trap'[t] \in TrapType
         /\ \A u \in Threads \ {t} : trap'[u] = trap[u] /\ ut_pc'[u] = ut_pc[u]
         /\ UNCHANGED <<code, compiles, not_compilable, trap_state, decompile_count, overflow_recompile_count>>
         /\ trap'[t].site = trap[t].site /\ trap'[t].reason = trap[t].reason
         /\ trap'[t].action = trap[t].action
         /\ trap[t].site \in HasData => trap'[t].tstate = trap_state[trap[t].site]
         /\ trap'[t].prior_trap <=> /\ trap_count[trap[t].reason] # 0
                                    /\ trap[t].site \in HasData => HasReason(trap'[t].tstate, trap[t].reason)
         /\ trap'[t].prior_recompile <=> /\ decompile_count # 0
                                         /\ trap[t].site \in HasData => trap'[t].tstate.recompiled
         /\ UTTypeOK'
         /\ \A r \in Reasons : trap_count'[r] = 0 => trap_count[r] = 0 /\ r # trap[t].reason
<1> DEFINE r == trap[t]
           n == IF trap_count[r.reason] < MaxTrap THEN trap_count[r.reason] + 1 ELSE MaxTrap
           known == r.reason \in PerBytecode /\ r.site \in HasData
           ts == IF known THEN trap_state[r.site] ELSE r.tstate
           pt == trap_count[r.reason] # 0 /\ (known => HasReason(ts, r.reason))
           pr == decompile_count # 0 /\ (known => ts.recompiled)
           q == [r EXCEPT !.count = n, !.tstate = ts, !.prior_trap = pt, !.prior_recompile = pr]
<1>1. /\ ut_pc[t] = "query" /\ ut_pc' = [ut_pc EXCEPT ![t] = "update"]
      /\ trap_count' = [trap_count EXCEPT ![r.reason] = n]
      /\ trap' = [trap EXCEPT ![t] = q]
      /\ UNCHANGED <<code, compiles, not_compilable, trap_state, decompile_count, overflow_recompile_count>>
  BY DEF QueryMethodData
<1>2. r \in TrapType /\ r.tstate \in StateType /\ r.reason \in Reasons /\ r.site \in Sites
  BY <1>1 DEF UTInv, UTTypeOK, TrapType
<1>3. known <=> r.site \in HasData
  BY <1>2
<1>4. ts \in StateType
  BY <1>2, <1>3 DEF UTInv, UTTypeOK
<1>5. n \in Nat /\ n # 0
  BY <1>2, TrapAssumption DEF UTInv, UTTypeOK
<1>6. pt \in BOOLEAN /\ pr \in BOOLEAN
  BY <1>4 DEF StateType
<1> HIDE DEF n, ts, pt, pr, known
<1>7. /\ q.site = r.site /\ q.reason = r.reason /\ q.action = r.action /\ q.tstate = ts
      /\ q.prior_trap = pt /\ q.prior_recompile = pr
  BY <1>2 DEF TrapType
<1>8. q \in TrapType
  BY <1>2, <1>4, <1>5, <1>6 DEF TrapType
<1> HIDE DEF q
<1>9. /\ trap'[t] = q /\ ut_pc'[t] = "update"
      /\ \A u \in Threads \ {t} : trap'[u] = trap[u] /\ ut_pc'[u] = ut_pc[u]
  BY <1>1 DEF UTInv, UTTypeOK
<1>10. trap_count' \in [Reasons -> Nat]
       /\ \A k \in Reasons : trap_count'[k] = 0 => trap_count[k] = 0 /\ k # r.reason
  BY <1>1, <1>2, <1>5 DEF UTInv, UTTypeOK
<1>11. UTTypeOK'
  BY <1>1, <1>8, <1>9, <1>10 DEF UTInv, UTTypeOK
<1>12. pt <=> trap_count[r.reason] # 0 /\ (r.site \in HasData => HasReason(ts, r.reason))
  BY <1>3 DEF pt
<1>13. pr <=> decompile_count # 0 /\ (r.site \in HasData => ts.recompiled)
  BY <1>3 DEF pr
<1>14. r.site \in HasData => ts = trap_state[r.site]
  BY <1>3 DEF ts
<1> QED
  BY <1>1, <1>2, <1>7, <1>8, <1>9, <1>10, <1>11, <1>12, <1>13, <1>14

LEMMA QueryStep ==
  ASSUME UTInv, Reasons \subseteq PerBytecode, NEW t \in Threads, QueryMethodData(t)
  PROVE  UTInv'
<1> DEFINE r == trap[t]
           q == trap'[t]
<1>1. /\ ut_pc[t] = "query" /\ ut_pc'[t] = "update" /\ r \in TrapType /\ q \in TrapType
      /\ \A u \in Threads \ {t} : trap'[u] = trap[u] /\ ut_pc'[u] = ut_pc[u]
      /\ UNCHANGED <<code, compiles, not_compilable, trap_state, decompile_count, overflow_recompile_count>>
      /\ q.site = r.site /\ q.reason = r.reason /\ q.action = r.action
      /\ r.site \in HasData => q.tstate = trap_state[r.site]
      /\ UTTypeOK'
  BY QueryEffect
<1>2. q.prior_trap <=> trap_count[r.reason] # 0 /\ (r.site \in HasData => HasReason(q.tstate, r.reason))
  BY QueryEffect
<1>3. q.prior_recompile <=> decompile_count # 0 /\ (r.site \in HasData => q.tstate.recompiled)
  BY QueryEffect
<1>4. \A k \in Reasons : trap_count'[k] = 0 => trap_count[k] = 0 /\ k # r.reason
  BY QueryEffect
<1>5. r.action # "none" /\ r.reason \in Reasons
  BY <1>1 DEF UTInv, ThreadInv, TrapType
<1>6. ~InTrap(t) /\ InTrap(t)' /\ \A u \in Threads \ {t} : InTrap(u)' <=> InTrap(u)
  BY <1>1, <1>5 DEF InTrap
<1>7. New(t)' <=> ~HasReason(q.tstate, r.reason)
  BY <1>1 DEF New
<1>8. CodeInv'
  BY <1>1 DEF UTInv, CodeInv, RecompilationBound, Stock
<1>9. ThreadInv'
  <2>1. /\ q.action # "none"
        /\ q.site \in HasData /\ ~q.prior_recompile => ~q.tstate.recompiled
    BY <1>1, <1>3, <1>5 DEF UTInv, FirstInv
  <2> SUFFICES ASSUME NEW u \in Threads
               PROVE  (/\ ut_pc[u] \in {"query", "update", "recompiled", "count"} => trap[u].action # "none"
                       /\ ut_pc[u] = "flush" /\ trap[u].action = "none" => ~trap[u].flush
                       /\ InTrap(u) /\ trap[u].site \in HasData /\ ~trap[u].prior_recompile
                            => ~trap[u].tstate.recompiled
                       /\ InTrap(u) /\ ut_pc[u] = "flush" /\ trap[u].flush /\ ~trap[u].inc
                            => ~trap[u].prior_trap \/ ~trap[u].prior_recompile)'
    BY DEF ThreadInv
  <2>2. CASE u = t
    BY <1>1, <1>6, <2>1, <2>2
  <2>3. CASE u # t
    BY <1>1, <1>6, <2>3 DEF UTInv, ThreadInv
  <2> QED
    BY <2>2, <2>3
<1>10. FirstInv'
  BY <1>1, <1>6 DEF UTInv, FirstInv
<1>11. ASSUME NEW u \in Threads, NEW s \in HasData PROVE Share(u, s)' <= Share(u, s)
  <2>0. Share(u, s) \in Int
    BY ShareRange, Prices DEF UTInv
  <2>1. CASE u = t
    <3>1. ~Holds(t, s) /\ ~SetsBit(t, s) /\ ~SetsBit(t, s)' /\ ~Stale(t, s) /\ ~Credit(t, s)
      BY <1>1, <1>6 DEF Holds, SetsBit, Stale, Credit
    <3>2. ~Credit(t, s)'
      BY <1>1 DEF Credit, Holds
    <3>3. Stale(t, s)' => q.tstate = trap_state[s]
      BY <1>1 DEF Stale, Holds
    <3>4. Worth(t, s)' = Worth(t, s)
      BY <1>1, <3>1, <3>3 DEF Worth, Lower
    <3>5. Share(t, s)' = Share(t, s)
      BY <3>1, <3>2, <3>4 DEF Share
    <3> QED
      BY <2>0, <2>1, <3>5
  <2>2. CASE u # t
    <3>1. Share(u, s)' = Share(u, s)
      BY <1>1, <2>2, ShareKept
    <3> QED
      BY <2>0, <3>1
  <2> QED
    BY <2>1, <2>2
<1>12. Purse' <= Purse
  BY <1>1, <1>11, PurseKept DEF UTInv
<1>13. Cardinality(Fresh') + Cardinality(FirstOfReason') <= Cardinality(Fresh) + Cardinality(FirstOfReason)
  <2>0. FirstOfReason' \subseteq FirstOfReason \cup {t}
    BY <1>1, <1>6 DEF FirstOfReason, New
  <2>1. CASE trap_count[r.reason] = 0
    <3>1. r.reason \in Fresh /\ Fresh' \subseteq Fresh \ {r.reason}
      BY <1>4, <1>5, <2>1 DEF Fresh
    <3>2. Cardinality(Fresh') + 1 <= Cardinality(Fresh)
      BY <3>1, SetsSmall, PairsFinite, Cards
    <3>3. Cardinality(FirstOfReason') <= Cardinality(FirstOfReason) + 1
      BY <2>0, SetsSmall, PairsFinite, Cards
    <3> QED
      BY <3>2, <3>3, SetsSmall
  <2>2. CASE trap_count[r.reason] # 0
    <3>1. t \notin FirstOfReason'
      BY <1>1, <1>2, <1>7, <2>2 DEF FirstOfReason
    <3>2. Fresh' \subseteq Fresh
      BY <1>4 DEF Fresh
    <3>3. FirstOfReason' \subseteq FirstOfReason
      BY <2>0, <3>1
    <3>4. Cardinality(Fresh') <= Cardinality(Fresh) /\ Cardinality(FirstOfReason') <= Cardinality(FirstOfReason)
      BY <3>2, <3>3, SetsSmall, PairsFinite, Cards
    <3> QED
      BY <3>4, SetsSmall
  <2> QED
    BY <2>1, <2>2
<1>14. Early' \subseteq Early /\ Counted' = Counted
  <2>1. Early' \subseteq Early
    BY <1>1, <1>3, <1>6 DEF Early
  <2>2. Counted' = Counted
    BY <1>1 DEF Counted
  <2> QED
    BY <2>1, <2>2
<1>15. BudgetInv'
  BY <1>1, <1>12, <1>13, <1>14, BudgetKept DEF UTInv
<1> QED
  BY <1>1, <1>8, <1>9, <1>10, <1>15 DEF UTInv

-----------------------------------------------------------------------------
\* What the second half of query_update_method_data decides and writes
LEMMA UpdateEffect ==
  ASSUME UTInv, Reasons \subseteq PerBytecode, PerBytecodeTrapLimit <= PerMethodTrapLimit,
         NEW t \in Threads, UpdateMethodData(t)
  PROVE  /\ ut_pc[t] = "update" /\ ut_pc'[t] = "flush" /\ trap[t] \in TrapType /\ trap'[t] \in TrapType
         /\ \A u \in Threads \ {t} : trap'[u] = trap[u] /\ ut_pc'[u] = ut_pc[u]
         /\ UNCHANGED <<code, compiles, not_compilable, trap_count, decompile_count, overflow_recompile_count>>
         /\ trap'[t].site = trap[t].site /\ trap'[t].reason = trap[t].reason
         /\ trap'[t].action = trap[t].action /\ trap'[t].tstate = trap[t].tstate
         /\ trap'[t].prior_trap = trap[t].prior_trap /\ trap'[t].prior_recompile = trap[t].prior_recompile
         /\ trap'[t].flush /\ ~trap'[t].inc => ~trap[t].prior_trap \/ ~trap[t].prior_recompile
         /\ UTTypeOK'
         /\ trap[t].site \in HasData /\ New(t) =>
              trap_state' = [trap_state EXCEPT ![trap[t].site] = AddReason(trap[t].tstate, trap[t].reason)]
         /\ ~(trap[t].site \in HasData /\ New(t)) => trap_state' = trap_state
<1> DEFINE r == trap[t]
           known == r.reason \in PerBytecode /\ r.site \in HasData
           ts == AddReason(r.tstate, r.reason)
           byBci == r.reason \in PerBytecode /\ r.prior_trap /\ r.count >= PerBytecodeTrapLimit
           fl == r.flush \/ byBci \/ ~(r.reason \in PerBytecode) \/ r.count >= PerMethodTrapLimit
           in == r.reason \in PerBytecode /\ (r.flush \/ byBci) /\ r.prior_recompile /\ r.prior_trap
           q == Decide(r)
<1>1. /\ ut_pc[t] = "update" /\ ut_pc' = [ut_pc EXCEPT ![t] = "flush"]
      /\ trap_state' = IF known /\ ts # r.tstate THEN [trap_state EXCEPT ![r.site] = ts] ELSE trap_state
      /\ trap' = [trap EXCEPT ![t] = q]
      /\ UNCHANGED <<code, compiles, not_compilable, trap_count, decompile_count, overflow_recompile_count>>
  BY DEF UpdateMethodData
<1>2. /\ r \in TrapType /\ r.tstate \in StateType /\ r.reason \in Reasons /\ r.site \in Sites
      /\ r.prior_trap \in BOOLEAN /\ r.prior_recompile \in BOOLEAN /\ r.flush \in BOOLEAN /\ r.count \in Nat
  BY <1>1 DEF UTInv, UTTypeOK, TrapType
<1>3. q = [r EXCEPT !.flush = fl, !.inc = in]
  BY <1>2 DEF Decide, TrapType
<1>4. fl \in BOOLEAN /\ in \in BOOLEAN
  OBVIOUS
<1>5. fl /\ ~in => ~r.prior_trap \/ ~r.prior_recompile
  BY <1>2, TrapAssumption
<1> HIDE DEF fl, in, q
<1>6. /\ q.site = r.site /\ q.reason = r.reason /\ q.action = r.action /\ q.tstate = r.tstate
      /\ q.prior_trap = r.prior_trap /\ q.prior_recompile = r.prior_recompile
      /\ q.flush = fl /\ q.inc = in
  BY <1>2, <1>3 DEF TrapType
<1>7. q \in TrapType
  BY <1>2, <1>3, <1>4 DEF TrapType
<1>8. /\ trap'[t] = q /\ ut_pc'[t] = "flush"
      /\ \A u \in Threads \ {t} : trap'[u] = trap[u] /\ ut_pc'[u] = ut_pc[u]
  BY <1>1 DEF UTInv, UTTypeOK
<1>9. known <=> r.site \in HasData
  BY <1>2
<1>10. /\ New(t) => ts \in StateType /\ ts # r.tstate
       /\ ~New(t) => ts = r.tstate
  BY <1>2, RankOfWrite DEF New
<1> HIDE DEF ts, known
<1>11. /\ r.site \in HasData /\ New(t) => trap_state' = [trap_state EXCEPT ![r.site] = ts]
       /\ ~(r.site \in HasData /\ New(t)) => trap_state' = trap_state
  BY <1>1, <1>9, <1>10
<1>12. trap_state' \in [HasData -> StateType]
  BY <1>10, <1>11 DEF UTInv, UTTypeOK
<1>13. UTTypeOK'
  BY <1>1, <1>7, <1>8, <1>12 DEF UTInv, UTTypeOK
<1>14. trap'[t].flush /\ ~trap'[t].inc => ~trap[t].prior_trap \/ ~trap[t].prior_recompile
  BY <1>5, <1>6, <1>8
<1> QED
  BY <1>1, <1>2, <1>6, <1>7, <1>8, <1>11, <1>13, <1>14 DEF ts

\* A thread that writes pays for what all others may do with the state it wrote.
LEMMA WritePaid ==
  ASSUME UTTypeOK, UTTypeOK', NEW t \in Threads, NEW s \in HasData, NEW v \in StateType, NEW w \in StateType,
         \A u \in Threads \ {t} : trap'[u] = trap[u] /\ ut_pc'[u] = ut_pc[u],
         trap_state' = [trap_state EXCEPT ![s] = w], Rank(v) \in 0..2, Rank(w) = Rank(v) + 1,
         \A h \in HasData \ {s} : Share(t, h)' = Share(t, h),
         Price(Rank(v)) <= Share(t, s) + 1, Share(t, s)' <= Price(Rank(w)) + 1
  PROVE  Purse' <= Purse
<1> DEFINE c == Price(Rank(w)) + 1
<1>1. /\ Price(Rank(w)) \in Nat /\ Price(Rank(v)) \in Nat /\ Price0 \in Nat
      /\ Price(Rank(w)) + 2 + Cardinality(Pairs) * (Price(Rank(w)) + 1) <= Price(Rank(v))
  BY Prices
<1>2. c \in Nat /\ Cardinality(Pairs) * c \in Nat
  BY <1>1, PairsFinite
<1>3. Share(t, s) \in Nat
  BY <1>1, ShareRange
<1>4. Share(t, s)' \in Nat
  <2>1. SharesOK'
    BY SharesTypedNext
  <2>2. <<t, s>> \in Pairs /\ Shares'[<<t, s>>] = Share(t, s)' /\ Shares' \in [Pairs -> 0..(Price0 + 1)]
    BY <2>1 DEF SharesOK
  <2> QED
    BY <1>1, <2>2
<1>5. trap_state'[s] = w /\ \A h \in HasData \ {s} : trap_state'[h] = trap_state[h]
  BY DEF UTTypeOK
<1>6. ASSUME NEW u \in Threads, NEW h \in HasData, <<u, h>> # <<t, s>>
      PROVE  Share(u, h)' <= Share(u, h) + c
  <2>0. Share(u, h) \in Nat
    BY <1>1, ShareRange
  <2>1. CASE u = t
    <3>1. Share(u, h)' = Share(u, h)
      BY <1>6, <2>1
    <3> QED
      BY <1>2, <2>0, <3>1
  <2>2. CASE u # t /\ h = s
    BY <1>5, <2>2, ShareAfterWrite
  <2>3. CASE u # t /\ h # s
    <3>1. Share(u, h)' = Share(u, h)
      BY <1>5, <2>3, ShareKept
    <3> QED
      BY <1>2, <2>0, <3>1
  <2> QED
    BY <2>1, <2>2, <2>3
<1>7. Share(t, s)' + Cardinality(Pairs) * c + 0 <= Share(t, s)
  BY <1>1, <1>2, <1>3, <1>4
<1> HIDE DEF c
<1>8. Purse' + 0 <= Purse
  BY <1>2, <1>6, <1>7, PursePays
<1> QED
  BY <1>8, PurseNat, PurseNatNext DEF PurseOK

LEMMA UpdateStep ==
  ASSUME UTInv, Reasons \subseteq PerBytecode, PerBytecodeTrapLimit <= PerMethodTrapLimit,
         NEW t \in Threads, UpdateMethodData(t)
  PROVE  UTInv'
<1> DEFINE r == trap[t]
           q == trap'[t]
           w == AddReason(r.tstate, r.reason)
<1>1. /\ ut_pc[t] = "update" /\ ut_pc'[t] = "flush" /\ r \in TrapType /\ q \in TrapType
      /\ \A u \in Threads \ {t} : trap'[u] = trap[u] /\ ut_pc'[u] = ut_pc[u]
      /\ UNCHANGED <<code, compiles, not_compilable, trap_count, decompile_count, overflow_recompile_count>>
      /\ q.site = r.site /\ q.reason = r.reason /\ q.action = r.action /\ q.tstate = r.tstate
      /\ q.prior_trap = r.prior_trap /\ q.prior_recompile = r.prior_recompile
      /\ UTTypeOK'
  BY UpdateEffect
<1>2. q.flush /\ ~q.inc => ~r.prior_trap \/ ~r.prior_recompile
  BY UpdateEffect
<1>3. /\ r.site \in HasData /\ New(t) => trap_state' = [trap_state EXCEPT ![r.site] = w]
      /\ ~(r.site \in HasData /\ New(t)) => trap_state' = trap_state
  BY UpdateEffect
<1>4. r.action # "none" /\ r.reason \in Reasons /\ r.tstate \in StateType
  BY <1>1 DEF UTInv, ThreadInv, TrapType
<1>5. New(t) => w \in StateType /\ Rank(w) = Rank(r.tstate) + 1 /\ w.recompiled = r.tstate.recompiled
                /\ Rank(r.tstate) \in 0..2
  BY <1>4, RankOfWrite, Ranks DEF New
<1> HIDE DEF w
<1>6. InTrap(t) /\ InTrap(t)' /\ \A u \in Threads \ {t} : InTrap(u)' <=> InTrap(u)
  BY <1>1, <1>4 DEF InTrap
<1>7. New(t)' <=> New(t)
  BY <1>1 DEF New
<1>8. CodeInv'
  BY <1>1 DEF UTInv, CodeInv, RecompilationBound, Stock
<1>9. ThreadInv'
  <2> SUFFICES ASSUME NEW u \in Threads
               PROVE  (/\ ut_pc[u] \in {"query", "update", "recompiled", "count"} => trap[u].action # "none"
                       /\ ut_pc[u] = "flush" /\ trap[u].action = "none" => ~trap[u].flush
                       /\ InTrap(u) /\ trap[u].site \in HasData /\ ~trap[u].prior_recompile
                            => ~trap[u].tstate.recompiled
                       /\ InTrap(u) /\ ut_pc[u] = "flush" /\ trap[u].flush /\ ~trap[u].inc
                            => ~trap[u].prior_trap \/ ~trap[u].prior_recompile)'
    BY DEF ThreadInv
  <2>1. CASE u = t
    BY <1>1, <1>2, <1>4, <1>6, <2>1 DEF UTInv, ThreadInv
  <2>2. CASE u # t
    BY <1>1, <1>6, <2>2 DEF UTInv, ThreadInv
  <2> QED
    BY <2>1, <2>2
<1>10. FirstInv'
  <2> SUFFICES ASSUME decompile_count = 0
               PROVE  /\ \A s \in HasData : ~trap_state'[s].recompiled
                      /\ \A u \in Threads : /\ ut_pc'[u] \notin {"recompiled", "count"}
                                            /\ InTrap(u)' /\ trap'[u].site \in HasData
                                                 => ~trap'[u].tstate.recompiled
    BY <1>1 DEF FirstInv
  <2>1. r.site \in HasData => ~r.tstate.recompiled
    BY <1>6 DEF UTInv, FirstInv
  <2>2. ASSUME NEW s \in HasData PROVE ~trap_state'[s].recompiled
    <3>1. ~trap_state[s].recompiled /\ trap_state \in [HasData -> StateType]
      BY DEF UTInv, FirstInv, UTTypeOK
    <3>2. trap_state'[s] = trap_state[s] \/ (r.site \in HasData /\ New(t) /\ trap_state'[s] = w)
      BY <1>3, <3>1
    <3> QED
      BY <1>5, <2>1, <3>1, <3>2
  <2>3. ASSUME NEW u \in Threads
        PROVE  /\ ut_pc'[u] \notin {"recompiled", "count"}
               /\ InTrap(u)' /\ trap'[u].site \in HasData => ~trap'[u].tstate.recompiled
    BY <1>1, <1>6, <2>1 DEF UTInv, FirstInv
  <2> QED
    BY <2>2, <2>3
<1>11. Purse' <= Purse
  <2>1. CASE r.site \in HasData /\ New(t)
    <3>a. PICK s \in HasData, v \in StateType, z \in StateType : s = r.site /\ v = r.tstate /\ z = w
      BY <1>4, <1>5, <2>1
    <3>b. trap_state' = [trap_state EXCEPT ![s] = z] /\ Rank(v) \in 0..2 /\ Rank(z) = Rank(v) + 1
      BY <1>3, <1>5, <2>1, <3>a
    <3>c. trap_state'[s] = z /\ \A h \in HasData \ {s} : trap_state'[h] = trap_state[h]
      BY <3>b DEF UTInv, UTTypeOK
    <3>1. /\ Holds(t, s) /\ Stale(t, s) /\ ~SetsBit(t, s) /\ Holds(t, s)' /\ ~Stale(t, s)' /\ ~SetsBit(t, s)'
      BY <1>1, <1>6, <1>7, <2>1, <3>a DEF Holds, Stale, SetsBit
    <3>2. Price(Rank(v)) <= Share(t, s) + 1
      <4>1. Rank(trap_state[s]) \in 0..3 /\ Rank(v) \in 0..3
        BY <3>b, Ranks DEF UTInv, UTTypeOK
      <4>2. Lower(Rank(v), Rank(trap_state[s])) \in 0..3
            /\ Lower(Rank(v), Rank(trap_state[s])) <= Rank(v)
        BY <4>1 DEF Lower
      <4>3. Worth(t, s) = Price(Lower(Rank(v), Rank(trap_state[s])))
        BY <3>1, <3>a DEF Worth
      <4>4. Price(Rank(v)) <= Worth(t, s) /\ Worth(t, s) \in Nat /\ Price(Rank(v)) \in Nat
        BY <4>1, <4>2, <4>3, Prices
      <4> QED
        BY <3>1, <4>4 DEF Share
    <3>3. Share(t, s)' <= Price(Rank(z)) + 1
      <4>1. Worth(t, s)' = Price(Rank(z))
        BY <3>1, <3>c DEF Worth
      <4>2. Price(Rank(z)) \in Nat
        BY <3>b, Prices
      <4> QED
        BY <3>1, <4>1, <4>2 DEF Share
    <3>4. ASSUME NEW h \in HasData \ {s} PROVE Share(t, h)' = Share(t, h)
      <4>1. ~Holds(t, h) /\ ~SetsBit(t, h) /\ ~Holds(t, h)' /\ ~SetsBit(t, h)'
        BY <1>1, <3>a DEF Holds, SetsBit
      <4> QED
        BY <3>c, <4>1 DEF Share, Worth, Stale, Credit
    <3>5. UTTypeOK /\ UTTypeOK' /\ \A u \in Threads \ {t} : trap'[u] = trap[u] /\ ut_pc'[u] = ut_pc[u]
      BY <1>1 DEF UTInv
    <3> QED
      BY <3>b, <3>2, <3>3, <3>4, <3>5, WritePaid
  <2>2. CASE ~(r.site \in HasData /\ New(t))
    <3>1. trap_state' = trap_state
      BY <1>3, <2>2
    <3>2. ASSUME NEW u \in Threads, NEW s \in HasData PROVE Share(u, s)' <= Share(u, s)
      <4>0. Share(u, s) \in Int
        BY ShareRange, Prices DEF UTInv
      <4>1. CASE u = t
        <5>1. Holds(t, s)' <=> Holds(t, s)
          BY <1>1, <1>6 DEF Holds
        <5>2. Holds(t, s) => ~New(t)
          BY <2>2 DEF Holds
        <5>3. /\ Stale(t, s)' <=> Stale(t, s)
              /\ Credit(t, s)' <=> Credit(t, s)
              /\ ~SetsBit(t, s) /\ ~SetsBit(t, s)'
          BY <1>1, <1>7, <3>1, <5>1, <5>2 DEF Stale, Credit, SetsBit
        <5>4. Worth(t, s)' = Worth(t, s)
          BY <1>1, <3>1, <5>3 DEF Worth
        <5>5. Share(t, s)' = Share(t, s)
          BY <5>3, <5>4 DEF Share
        <5> QED
          BY <4>0, <4>1, <5>5
      <4>2. CASE u # t
        <5>1. Share(u, s)' = Share(u, s)
          BY <1>1, <3>1, <4>2, ShareKept
        <5> QED
          BY <4>0, <5>1
      <4> QED
        BY <4>1, <4>2
    <3> QED
      BY <1>1, <3>2, PurseKept DEF UTInv
  <2> QED
    BY <2>1, <2>2
<1>12. Fresh' = Fresh /\ FirstOfReason' = FirstOfReason /\ Early' = Early /\ Counted' = Counted
  <2>1. Fresh' = Fresh
    BY <1>1 DEF Fresh
  <2>2. \A u \in Threads : New(u)' <=> New(u)
    BY <1>1, <1>7 DEF New
  <2>3. FirstOfReason' = FirstOfReason
    BY <1>1, <1>6, <2>2 DEF FirstOfReason
  <2>4. Early' = Early
    BY <1>1, <1>6 DEF Early
  <2>5. Counted' = Counted
    BY <1>1 DEF Counted
  <2> QED
    BY <2>1, <2>3, <2>4, <2>5
<1>13. BudgetInv'
  BY <1>1, <1>11, <1>12, SetsSmall, BudgetKept DEF UTInv
<1> QED
  BY <1>1, <1>8, <1>9, <1>10, <1>13 DEF UTInv

-----------------------------------------------------------------------------
LEMMA MakeNotEntrantEffect ==
  ASSUME UTInv, NEW t \in Threads, MakeNotEntrant(t)
  PROVE  /\ ut_pc[t] = "flush" /\ trap[t] \in TrapType
         /\ \A u \in Threads \ {t} : trap'[u] = trap[u] /\ ut_pc'[u] = ut_pc[u]
         /\ UNCHANGED <<compiles, not_compilable, trap_count, trap_state, overflow_recompile_count>>
         /\ trap[t].flush /\ code = trap[t].nm =>
              /\ code # 0 /\ code' = 0 /\ decompile_count' = decompile_count + 1
              /\ ut_pc'[t] = "recompiled" /\ trap'[t] \in TrapType
              /\ trap'[t].site = trap[t].site /\ trap'[t].action = trap[t].action
              /\ trap'[t].inc = trap[t].inc
              /\ trap[t].site \in HasData => trap'[t].tstate = trap_state[trap[t].site]
         /\ ~(trap[t].flush /\ code = trap[t].nm) =>
              UNCHANGED <<code, decompile_count>> /\ ut_pc'[t] = "java"
         /\ UTTypeOK'
<1> DEFINE r == trap[t]
           ts == IF r.site \in HasData THEN trap_state[r.site] ELSE r.tstate
           q == [r EXCEPT !.tstate = ts]
           changed == r.flush /\ code = r.nm
<1>1. /\ ut_pc[t] = "flush"
      /\ changed => code' = 0 /\ decompile_count' = decompile_count + 1
      /\ ~changed => UNCHANGED <<code, decompile_count>>
      /\ ut_pc' = [ut_pc EXCEPT ![t] = IF changed THEN "recompiled" ELSE "java"]
      /\ UNCHANGED <<compiles, not_compilable, trap_count, trap_state, overflow_recompile_count>>
  BY DEF MakeNotEntrant
<1>2. r \in TrapType /\ r.tstate \in StateType /\ r.site \in Sites /\ r.nm \in Nat \ {0}
  BY <1>1 DEF UTInv, UTTypeOK, TrapType
<1>3. ts \in StateType
  BY <1>2 DEF UTInv, UTTypeOK
<1>4. trap' = [trap EXCEPT ![t] = IF changed THEN q ELSE NoTrap]
  BY <1>2 DEF MakeNotEntrant, TrapType
<1> HIDE DEF ts
<1>5. q \in TrapType /\ q.site = r.site /\ q.action = r.action /\ q.inc = r.inc /\ q.tstate = ts
  BY <1>2, <1>3 DEF TrapType
<1> HIDE DEF q, changed
<1>6. /\ changed => trap'[t] = q /\ ut_pc'[t] = "recompiled"
      /\ ~changed => trap'[t] = NoTrap /\ ut_pc'[t] = "java"
      /\ \A u \in Threads \ {t} : trap'[u] = trap[u] /\ ut_pc'[u] = ut_pc[u]
  BY <1>1, <1>4 DEF UTInv, UTTypeOK
<1>7. trap' \in [Threads -> TrapType \cup {NoTrap}]
  BY <1>4, <1>5 DEF UTInv, UTTypeOK
<1>8. code' \in Nat /\ decompile_count' \in Nat
  BY <1>1 DEF UTInv, UTTypeOK
<1>9. ut_pc' \in [Threads -> {"java", "query", "update", "flush", "recompiled", "count"}]
  BY <1>1 DEF UTInv, UTTypeOK
<1>10. \A u \in Threads : ut_pc'[u] # "java" => trap'[u] \in TrapType
  BY <1>5, <1>6 DEF UTInv, UTTypeOK
<1>11. UTTypeOK'
  BY <1>1, <1>7, <1>8, <1>9, <1>10 DEF UTInv, UTTypeOK
<1>12. r.site \in HasData => ts = trap_state[r.site]
  BY DEF ts
<1>13. changed => code # 0
  BY <1>2 DEF changed
<1> QED
  BY <1>1, <1>2, <1>5, <1>6, <1>11, <1>12, <1>13 DEF changed

\* A thread that leaves its trap, or has made the code not entrant, holds no more than before.
LEMMA ShareAtFlush ==
  ASSUME UTTypeOK, UTTypeOK', NEW t \in Threads, NEW s \in HasData,
         ut_pc[t] = "flush", ut_pc'[t] \in {"java", "recompiled"}, trap_state' = trap_state,
         SetsBit(t, s)' => trap'[t].tstate = trap_state[s]
  PROVE  /\ Share(t, s)' <= Share(t, s)
         /\ Credit(t, s) \/ SetsBit(t, s)' => Share(t, s)' + 1 <= Share(t, s)
<1> DEFINE P == Price(Rank(trap_state[s]))
<1>1. P \in Nat /\ Worth(t, s) \in Nat /\ P <= Worth(t, s) /\ Price0 \in Nat
  BY ShareRange, Prices
<1>2. ~SetsBit(t, s) /\ ~Holds(t, s)'
  BY DEF SetsBit, Holds, InTrap
<1>3. Worth(t, s)' = P
  <2>1. CASE SetsBit(t, s)'
    <3>1. Worth(t, s)' = Price(Lower(Rank(trap'[t].tstate), Rank(trap_state'[s])))
      BY <2>1 DEF Worth
    <3>2. Lower(Rank(trap_state[s]), Rank(trap_state[s])) = Rank(trap_state[s])
      BY DEF Lower
    <3> QED
      BY <2>1, <3>1, <3>2
  <2>2. CASE ~SetsBit(t, s)'
    BY <1>2, <2>2 DEF Worth, Stale
  <2> QED
    BY <2>1, <2>2
<1>4. Share(t, s)' = P - (IF SetsBit(t, s)' THEN 1 ELSE 0) + 0
  BY <1>2, <1>3 DEF Share, Credit
<1>5. Share(t, s) = Worth(t, s) - 0 + (IF Credit(t, s) THEN 1 ELSE 0)
  BY <1>2 DEF Share
<1> HIDE DEF P
<1> QED
  BY <1>1, <1>4, <1>5

\* A flush that is not counted is one of those that somebody can pay for.
LEMMA Uncounted ==
  ASSUME UTInv, UTTypeOK', NEW t \in Threads, InTrap(t), ut_pc[t] = "flush", trap[t].flush, ~trap[t].inc,
         t \notin FirstOfReason, t \notin Early,
         ut_pc'[t] = "recompiled", trap'[t].site = trap[t].site, trap_state' = trap_state,
         trap[t].site \in HasData => trap'[t].tstate = trap_state[trap[t].site]
  PROVE  \E s \in HasData : s = trap[t].site /\ (Credit(t, s) \/ SetsBit(t, s)')
<1> DEFINE r == trap[t]
<1>1. ~r.prior_trap \/ ~r.prior_recompile
  BY DEF UTInv, ThreadInv
<1>2. r.site \in HasData
  <2>1. ASSUME r.site \notin HasData PROVE FALSE
    <3>1. r.prior_trap
      BY <2>1 DEF FirstOfReason
    <3>2. r.prior_recompile
      BY <2>1 DEF Early
    <3> QED
      BY <1>1, <3>1, <3>2
  <2> QED
    BY <2>1
<1>3. PICK s \in HasData : s = r.site
  BY <1>2
<1>4. Holds(t, s)
  BY <1>3 DEF Holds
<1>5. CASE New(t)
  BY <1>3, <1>4, <1>5 DEF Credit
<1>6. CASE ~New(t)
  <2>1. ~r.prior_recompile
    BY <1>1, <1>6 DEF FirstOfReason
  <2>2. ~r.tstate.recompiled
    BY <1>2, <2>1 DEF UTInv, ThreadInv
  <2>3. CASE trap_state[s] # r.tstate
    BY <1>3, <1>4, <2>2, <2>3 DEF Credit
  <2>4. CASE trap_state[s] = r.tstate
    <3>1. SetsBit(t, s)'
      BY <1>2, <1>3, <2>2, <2>4 DEF SetsBit
    <3> QED
      BY <1>3, <3>1
  <2> QED
    BY <2>3, <2>4
<1> QED
  BY <1>5, <1>6

LEMMA AddUp ==
  /\ \A a, b, c, d \in Nat : a + 1 <= b /\ c <= d => a + 1 + c <= b + d
  /\ \A a, b, c, d, e, f, g, k \in Nat :
       a + 1 <= b /\ c <= d /\ e <= f /\ g <= k => a + c + e + g + 1 <= b + d + f + k
OBVIOUS

LEMMA MakeNotEntrantStep ==
  ASSUME UTInv, NEW t \in Threads, MakeNotEntrant(t)
  PROVE  UTInv'
<1> DEFINE r == trap[t]
           q == trap'[t]
           changed == r.flush /\ code = r.nm
<1>1. /\ ut_pc[t] = "flush" /\ r \in TrapType /\ UTTypeOK /\ UTTypeOK'
      /\ \A u \in Threads \ {t} : trap'[u] = trap[u] /\ ut_pc'[u] = ut_pc[u]
      /\ UNCHANGED <<compiles, not_compilable, trap_count, trap_state, overflow_recompile_count>>
  BY MakeNotEntrantEffect DEF UTInv
<1>2. changed => /\ code # 0 /\ code' = 0 /\ decompile_count' = decompile_count + 1
                 /\ ut_pc'[t] = "recompiled" /\ q \in TrapType
                 /\ q.site = r.site /\ q.action = r.action /\ q.inc = r.inc
                 /\ r.site \in HasData => q.tstate = trap_state[r.site]
  BY MakeNotEntrantEffect
<1>3. ~changed => UNCHANGED <<code, decompile_count>> /\ ut_pc'[t] = "java"
  BY MakeNotEntrantEffect
<1>4. r.flush \in BOOLEAN /\ r.inc \in BOOLEAN /\ (r.flush => r.action # "none")
  BY <1>1 DEF TrapType, UTInv, ThreadInv
<1>5. changed => InTrap(t)
  BY <1>1, <1>4 DEF InTrap
<1> HIDE DEF changed
<1>6. ut_pc'[t] \in {"java", "recompiled"} /\ ~InTrap(t)' /\ \A u \in Threads \ {t} : InTrap(u)' <=> InTrap(u)
  BY <1>1, <1>2, <1>3 DEF InTrap
<1>7. CodeInv'
  <2>1. RecompilationBound' = RecompilationBound
    BY DEF RecompilationBound, Stock
  <2>2. compiles' = decompile_count' + (IF code' = 0 THEN 0 ELSE 1)
    <3>1. /\ compiles = decompile_count + (IF code = 0 THEN 0 ELSE 1) /\ compiles' = compiles
          /\ decompile_count \in Nat
      BY <1>1 DEF UTInv, CodeInv, UTTypeOK
    <3>2. CASE changed
      BY <1>2, <3>1, <3>2
    <3>3. CASE ~changed
      BY <1>3, <3>1, <3>3
    <3> QED
      BY <3>2, <3>3
  <2> QED
    BY <1>1, <2>1, <2>2 DEF UTInv, CodeInv
<1>8. ThreadInv'
  <2> SUFFICES ASSUME NEW u \in Threads
               PROVE  (/\ ut_pc[u] \in {"query", "update", "recompiled", "count"} => trap[u].action # "none"
                       /\ ut_pc[u] = "flush" /\ trap[u].action = "none" => ~trap[u].flush
                       /\ InTrap(u) /\ trap[u].site \in HasData /\ ~trap[u].prior_recompile
                            => ~trap[u].tstate.recompiled
                       /\ InTrap(u) /\ ut_pc[u] = "flush" /\ trap[u].flush /\ ~trap[u].inc
                            => ~trap[u].prior_trap \/ ~trap[u].prior_recompile)'
    BY DEF ThreadInv
  <2>1. CASE u = t
    <3>1. ut_pc'[t] = "recompiled" => q.action # "none"
      BY <1>2, <1>3, <1>4 DEF changed
    <3> QED
      BY <1>6, <2>1, <3>1
  <2>2. CASE u # t
    BY <1>1, <1>6, <2>2 DEF UTInv, ThreadInv
  <2> QED
    BY <2>1, <2>2
<1>9. FirstInv'
  <2>1. CASE changed
    <3>1. decompile_count' # 0
      BY <1>1, <1>2, <2>1 DEF UTTypeOK
    <3> QED
      BY <3>1 DEF FirstInv
  <2>2. CASE ~changed
    BY <1>1, <1>3, <1>6, <2>2 DEF UTInv, FirstInv
  <2> QED
    BY <2>1, <2>2
<1>10. ASSUME NEW s \in HasData
       PROVE  /\ Share(t, s)' <= Share(t, s)
              /\ Credit(t, s) \/ SetsBit(t, s)' => Share(t, s)' + 1 <= Share(t, s)
  <2>1. SetsBit(t, s)' => q.tstate = trap_state[s]
    BY <1>2, <1>3 DEF SetsBit
  <2> QED
    BY <1>1, <1>6, <2>1, ShareAtFlush
<1>11. ASSUME NEW u \in Threads, NEW s \in HasData, u # t PROVE Share(u, s)' = Share(u, s)
  BY <1>1, <1>11, ShareKept
<1>12. ASSUME NEW u \in Threads, NEW s \in HasData PROVE Share(u, s)' <= Share(u, s)
  <2>1. Share(u, s) \in Int
    BY <1>1, ShareRange, Prices
  <2> QED
    BY <1>10, <1>11, <2>1
<1>13. Purse' <= Purse
  BY <1>1, <1>12, PurseKept
<1>14. /\ Fresh' = Fresh /\ FirstOfReason' \subseteq FirstOfReason \ {t} /\ Early' \subseteq Early
       /\ changed => t \notin Early'
  <2>1. Fresh' = Fresh
    BY <1>1 DEF Fresh
  <2>2. FirstOfReason' \subseteq FirstOfReason \ {t}
    BY <1>1, <1>6 DEF FirstOfReason, New
  <2>3. changed => decompile_count' # 0
    BY <1>1, <1>2 DEF UTTypeOK
  <2>4. Early' \subseteq Early
    <3>1. CASE decompile_count = 0
      BY <3>1 DEF Early
    <3>2. CASE decompile_count # 0
      <4>1. decompile_count' # 0
        BY <1>3, <2>3, <3>2
      <4> QED
        BY <1>1, <1>6, <3>2, <4>1 DEF Early
    <3> QED
      BY <3>1, <3>2
  <2>5. changed => t \notin Early'
    BY <1>6, <2>3 DEF Early
  <2> QED
    BY <2>1, <2>2, <2>4, <2>5
<1>15. Cardinality(FirstOfReason') <= Cardinality(FirstOfReason) /\ Cardinality(Early') <= Cardinality(Early)
  BY <1>14, SetsSmall, PairsFinite, Cards
<1>16. Purse \in Nat /\ Purse' \in Nat
  BY <1>1, PurseNat, PurseNatNext DEF PurseOK
<1>17. CASE ~changed
  <2>1. Counted' = Counted
    BY <1>1, <1>3, <1>17 DEF Counted
  <2>2. BudgetInv'
    BY <1>1, <1>3, <1>13, <1>14, <1>15, <1>17, <2>1, SetsSmall, BudgetKept DEF UTInv
  <2> QED
    BY <1>1, <1>7, <1>8, <1>9, <2>2 DEF UTInv
<1>18. CASE changed
  <2>1. Left \in Nat /\ Left' \in Nat /\ Left' <= Left
    BY <1>13, <1>14, <1>15, <1>16, SetsSmall DEF Left
  <2>2. Left' + 1 + Cardinality(Counted) <= Left + Cardinality(Counted')
    <3>1. CASE r.inc
      <4>1. t \in Counted' /\ Counted \subseteq Counted' \ {t}
        BY <1>1, <1>2, <1>18, <3>1 DEF Counted
      <4>2. Cardinality(Counted) + 1 <= Cardinality(Counted')
        BY <4>1, SetsSmall, PairsFinite, Cards
      <4> QED
        BY <2>1, <4>2, SetsSmall
    <3>2. CASE ~r.inc
      <4>1. Counted' = Counted
        BY <1>1, <1>2, <1>18, <3>2 DEF Counted
      <4>a. Cardinality(Counted) <= Cardinality(Counted') /\ Cardinality(Fresh') <= Cardinality(Fresh)
        BY <1>14, <4>1, SetsSmall
      <4>b. Cardinality(Counted) \in Nat /\ Cardinality(Counted') \in Nat /\ Cardinality(Fresh) \in Nat
            /\ Cardinality(Fresh') \in Nat /\ Cardinality(Early) \in Nat
            /\ Cardinality(Early') \in Nat /\ Cardinality(FirstOfReason) \in Nat
            /\ Cardinality(FirstOfReason') \in Nat
        BY SetsSmall
      <4>c. ASSUME Left' + 1 <= Left PROVE Left' + 1 + Cardinality(Counted) <= Left + Cardinality(Counted')
        BY <2>1, <4>a, <4>b, <4>c, AddUp
      <4>2. CASE t \in FirstOfReason
        <5>1. Cardinality(FirstOfReason') + 1 <= Cardinality(FirstOfReason)
          BY <1>14, <4>2, SetsSmall, PairsFinite, Cards
        <5>2. Left' + 1 <= Left
          BY <1>13, <1>15, <1>16, <4>a, <5>1, SetsSmall DEF Left
        <5> QED
          BY <4>c, <5>2
      <4>3. CASE t \in Early
        <5>1. Early' \subseteq Early \ {t}
          BY <1>14, <1>18
        <5>2. Cardinality(Early') + 1 <= Cardinality(Early)
          BY <4>3, <5>1, SetsSmall, PairsFinite, Cards
        <5>3. Left' + 1 <= Left
          BY <1>13, <1>15, <1>16, <4>a, <5>2, SetsSmall DEF Left
        <5> QED
          BY <4>c, <5>3
      <4>4. CASE t \notin FirstOfReason /\ t \notin Early
        <5>1. r.flush
          BY <1>18 DEF changed
        <5>2. PICK s \in HasData : s = r.site /\ (Credit(t, s) \/ SetsBit(t, s)')
          BY <1>1, <1>2, <1>5, <1>18, <3>2, <4>4, <5>1, Uncounted
        <5>3. Share(t, s)' + 1 <= Share(t, s) /\ Share(t, s) \in Nat
          BY <1>1, <1>10, <5>2, ShareRange, Prices
        <5>4. Share(t, s)' \in Nat
          <6>1. SharesOK'
            BY <1>1, SharesTypedNext
          <6>2. <<t, s>> \in Pairs /\ Shares'[<<t, s>>] = Share(t, s)' /\ Shares' \in [Pairs -> 0..(Price0 + 1)]
            BY <6>1 DEF SharesOK
          <6> QED
            BY <6>2, Prices
        <5>5. Share(t, s)' + Cardinality(Pairs) * 0 + 1 <= Share(t, s)
          BY <5>3, <5>4, PairsFinite
        <5>6. ASSUME NEW u \in Threads, NEW h \in HasData PROVE Share(u, h)' <= Share(u, h) + 0
          <6>1. Share(u, h) \in Int
            BY <1>1, ShareRange, Prices
          <6> QED
            BY <1>12, <6>1
        <5>7. Purse' + 1 <= Purse
          BY <1>1, <5>5, <5>6, PursePays
        <5>8. Left' + 1 <= Left
          BY <1>15, <1>16, <4>a, <4>b, <5>7, AddUp DEF Left
        <5> QED
          BY <4>c, <5>8
      <4> QED
        BY <4>2, <4>3, <4>4
    <3> QED
      BY <3>1, <3>2
  <2>3. decompile_count' + Left' <= Stock + overflow_recompile_count' + Cardinality(Counted')
    BY <1>1, <1>2, <1>18, <2>1, <2>2, SetsSmall, StockNat DEF UTInv, BudgetInv, UTTypeOK
  <2>4. BudgetInv'
    BY <2>3 DEF BudgetInv, Stock
  <2> QED
    BY <1>1, <1>7, <1>8, <1>9, <2>4 DEF UTInv
<1> QED
  BY <1>17, <1>18

-----------------------------------------------------------------------------
LEMMA SetRecompiledEffect ==
  ASSUME UTInv, Reasons \subseteq PerBytecode, NEW t \in Threads, SetRecompiled(t)
  PROVE  /\ ut_pc[t] = "recompiled" /\ ut_pc'[t] = "count" /\ trap[t] \in TrapType
         /\ \A u \in Threads \ {t} : ut_pc'[u] = ut_pc[u]
         /\ UNCHANGED <<code, compiles, not_compilable, trap_count, decompile_count,
                        overflow_recompile_count, trap>>
         /\ UTTypeOK'
         /\ trap[t].site \in HasData /\ ~trap[t].tstate.recompiled =>
              trap_state' = [trap_state EXCEPT ![trap[t].site] = [trap[t].tstate EXCEPT !.recompiled = TRUE]]
         /\ ~(trap[t].site \in HasData /\ ~trap[t].tstate.recompiled) => trap_state' = trap_state
<1> DEFINE r == trap[t]
           known == r.reason \in PerBytecode /\ r.site \in HasData /\ r.action # "none"
           w == [r.tstate EXCEPT !.recompiled = TRUE]
<1>1. /\ ut_pc[t] = "recompiled" /\ ut_pc' = [ut_pc EXCEPT ![t] = "count"]
      /\ trap_state' = IF known /\ ~r.tstate.recompiled THEN [trap_state EXCEPT ![r.site] = w] ELSE trap_state
      /\ UNCHANGED <<code, compiles, not_compilable, trap_count, decompile_count,
                     overflow_recompile_count, trap>>
  BY DEF SetRecompiled
<1>2. r \in TrapType /\ r.tstate \in StateType /\ r.reason \in Reasons /\ r.action # "none"
  BY <1>1 DEF UTInv, UTTypeOK, TrapType, ThreadInv
<1>3. known <=> r.site \in HasData
  BY <1>2
<1>4. ~r.tstate.recompiled => w \in StateType
  BY <1>2, RankOfWrite
<1> HIDE DEF known, w
<1>5. /\ r.site \in HasData /\ ~r.tstate.recompiled => trap_state' = [trap_state EXCEPT ![r.site] = w]
      /\ ~(r.site \in HasData /\ ~r.tstate.recompiled) => trap_state' = trap_state
  BY <1>1, <1>3
<1>6. trap_state' \in [HasData -> StateType]
  BY <1>4, <1>5 DEF UTInv, UTTypeOK
<1>7. ut_pc'[t] = "count" /\ \A u \in Threads \ {t} : ut_pc'[u] = ut_pc[u]
  BY <1>1 DEF UTInv, UTTypeOK
<1>8. UTTypeOK'
  BY <1>1, <1>2, <1>6, <1>7 DEF UTInv, UTTypeOK
<1> QED
  BY <1>1, <1>2, <1>5, <1>7, <1>8 DEF w

LEMMA SetRecompiledStep ==
  ASSUME UTInv, Reasons \subseteq PerBytecode, NEW t \in Threads, SetRecompiled(t)
  PROVE  UTInv'
<1> DEFINE r == trap[t]
           w == [r.tstate EXCEPT !.recompiled = TRUE]
<1>1. /\ ut_pc[t] = "recompiled" /\ ut_pc'[t] = "count" /\ r \in TrapType /\ UTTypeOK /\ UTTypeOK'
      /\ \A u \in Threads \ {t} : trap'[u] = trap[u] /\ ut_pc'[u] = ut_pc[u]
      /\ UNCHANGED <<code, compiles, not_compilable, trap_count, decompile_count,
                     overflow_recompile_count, trap>>
  BY SetRecompiledEffect DEF UTInv
<1>2. /\ r.site \in HasData /\ ~r.tstate.recompiled => trap_state' = [trap_state EXCEPT ![r.site] = w]
      /\ ~(r.site \in HasData /\ ~r.tstate.recompiled) => trap_state' = trap_state
  BY SetRecompiledEffect
<1>3. r.tstate \in StateType
  BY <1>1 DEF TrapType
<1>4. ~r.tstate.recompiled => w \in StateType /\ Rank(w) = Rank(r.tstate) + 1 /\ Rank(r.tstate) \in 0..2
  BY <1>3, RankOfWrite, Ranks
<1> HIDE DEF w
<1>5. ~InTrap(t) /\ ~InTrap(t)' /\ \A u \in Threads : InTrap(u)' <=> InTrap(u)
  BY <1>1 DEF InTrap
<1>6. CodeInv'
  BY <1>1 DEF UTInv, CodeInv, RecompilationBound, Stock
<1>7. ThreadInv'
  BY <1>1, <1>5 DEF UTInv, ThreadInv
<1>8. decompile_count # 0
  BY <1>1 DEF UTInv, FirstInv
<1>9. FirstInv'
  BY <1>1, <1>8 DEF FirstInv
<1>10. Purse' <= Purse
  <2>0. ASSUME NEW s \in HasData PROVE ~Holds(t, s) /\ ~Holds(t, s)' /\ ~SetsBit(t, s)'
    BY <1>1, <1>5 DEF Holds, SetsBit
  <2>1. CASE r.site \in HasData /\ ~r.tstate.recompiled
    <3>a. PICK s \in HasData, v \in StateType, z \in StateType : s = r.site /\ v = r.tstate /\ z = w
      BY <1>3, <1>4, <2>1
    <3>b. trap_state' = [trap_state EXCEPT ![s] = z] /\ Rank(v) \in 0..2 /\ Rank(z) = Rank(v) + 1
      BY <1>2, <1>4, <2>1, <3>a
    <3>c. trap_state'[s] = z /\ \A h \in HasData \ {s} : trap_state'[h] = trap_state[h]
      BY <1>1, <3>b DEF UTTypeOK
    <3>1. SetsBit(t, s)
      BY <1>1, <2>1, <3>a DEF SetsBit
    <3>2. Price(Rank(v)) <= Share(t, s) + 1
      <4>1. Rank(trap_state[s]) \in 0..3 /\ Rank(v) \in 0..3
        BY <1>1, <3>b, Ranks DEF UTTypeOK
      <4>2. Lower(Rank(v), Rank(trap_state[s])) \in 0..3
            /\ Lower(Rank(v), Rank(trap_state[s])) <= Rank(v)
        BY <4>1 DEF Lower
      <4>3. Worth(t, s) = Price(Lower(Rank(v), Rank(trap_state[s])))
        BY <3>1, <3>a DEF Worth
      <4>4. Price(Rank(v)) <= Worth(t, s) /\ Worth(t, s) \in Nat /\ Price(Rank(v)) \in Nat
        BY <4>1, <4>2, <4>3, Prices
      <4>5. Share(t, s) = Worth(t, s) - 1 + 0
        BY <2>0, <3>1 DEF Share, Credit
      <4> QED
        BY <4>4, <4>5
    <3>3. Share(t, s)' <= Price(Rank(z)) + 1
      <4>1. Share(t, s)' = Price(Rank(z)) - 0 + 0
        BY <2>0, <3>c DEF Share, Worth, Stale, Credit
      <4>2. Price(Rank(z)) \in Nat
        BY <3>b, Prices
      <4> QED
        BY <4>1, <4>2
    <3>4. ASSUME NEW h \in HasData \ {s} PROVE Share(t, h)' = Share(t, h)
      <4>1. ~SetsBit(t, h)
        BY <3>a DEF SetsBit
      <4> QED
        BY <2>0, <3>c, <4>1 DEF Share, Worth, Stale, Credit
    <3> QED
      BY <1>1, <3>b, <3>2, <3>3, <3>4, WritePaid
  <2>2. CASE ~(r.site \in HasData /\ ~r.tstate.recompiled)
    <3>1. trap_state' = trap_state
      BY <1>2, <2>2
    <3>2. ASSUME NEW u \in Threads, NEW s \in HasData PROVE Share(u, s)' <= Share(u, s)
      <4>0. Share(u, s) \in Int
        BY <1>1, ShareRange, Prices
      <4>1. CASE u = t
        <5>1. ~SetsBit(t, s)
          BY <2>2 DEF SetsBit
        <5>2. Share(t, s)' = Share(t, s)
          BY <2>0, <3>1, <5>1 DEF Share, Worth, Stale, Credit
        <5> QED
          BY <4>0, <4>1, <5>2
      <4>2. CASE u # t
        <5>1. Share(u, s)' = Share(u, s)
          BY <1>1, <3>1, <4>2, ShareKept
        <5> QED
          BY <4>0, <5>1
      <4> QED
        BY <4>1, <4>2
    <3> QED
      BY <1>1, <3>2, PurseKept
  <2> QED
    BY <2>1, <2>2
<1>11. Fresh' = Fresh /\ FirstOfReason' = FirstOfReason /\ Early' = Early /\ Counted' = Counted
  <2>1. Fresh' = Fresh
    BY <1>1 DEF Fresh
  <2>2. FirstOfReason' = FirstOfReason
    BY <1>1, <1>5 DEF FirstOfReason, New
  <2>3. Early' = Early
    BY <1>1, <1>5 DEF Early
  <2>4. Counted' = Counted
    BY <1>1 DEF Counted
  <2> QED
    BY <2>1, <2>2, <2>3, <2>4
<1>12. BudgetInv'
  BY <1>1, <1>10, <1>11, SetsSmall, BudgetKept DEF UTInv
<1> QED
  BY <1>1, <1>6, <1>7, <1>9, <1>12 DEF UTInv

LEMMA CountRecompileStep ==
  ASSUME UTInv, NEW t \in Threads, CountRecompile(t)
  PROVE  UTInv'
<1> DEFINE r == trap[t]
           n == IF r.inc THEN overflow_recompile_count + 1 ELSE overflow_recompile_count
<1>1. /\ ut_pc[t] = "count" /\ ut_pc' = [ut_pc EXCEPT ![t] = "java"]
      /\ overflow_recompile_count' = n
      /\ not_compilable' = (\/ not_compilable \/ r.action = "make_not_compilable"
                            \/ r.inc /\ n > PerBytecodeRecompilationCutoff)
      /\ trap' = [trap EXCEPT ![t] = NoTrap]
      /\ UNCHANGED <<code, compiles, trap_count, trap_state, decompile_count>>
  BY DEF CountRecompile
<1>2. r \in TrapType /\ r.inc \in BOOLEAN /\ UTTypeOK
  BY <1>1 DEF UTInv, UTTypeOK, TrapType
<1>3. /\ trap'[t] = NoTrap /\ ut_pc'[t] = "java"
      /\ \A u \in Threads \ {t} : trap'[u] = trap[u] /\ ut_pc'[u] = ut_pc[u]
  BY <1>1 DEF UTInv, UTTypeOK
<1>4. overflow_recompile_count' \in Nat /\ not_compilable' \in BOOLEAN
  BY <1>1 DEF UTInv, UTTypeOK
<1>5. UTTypeOK'
  BY <1>1, <1>3, <1>4 DEF UTInv, UTTypeOK
<1>6. ~InTrap(t) /\ ~InTrap(t)' /\ \A u \in Threads : InTrap(u)' <=> InTrap(u)
  BY <1>1, <1>3 DEF InTrap
<1>7. CodeInv'
  BY <1>1, <1>2 DEF UTInv, CodeInv, RecompilationBound, Stock
<1>8. ThreadInv'
  BY <1>3, <1>6 DEF UTInv, ThreadInv
<1>9. FirstInv'
  BY <1>1 DEF UTInv, FirstInv
<1>10. ASSUME NEW u \in Threads, NEW s \in HasData PROVE Share(u, s)' <= Share(u, s)
  <2>0. Share(u, s) \in Int
    BY <1>2, ShareRange, Prices
  <2>1. CASE u = t
    <3>1. ~Holds(t, s) /\ ~SetsBit(t, s) /\ ~Holds(t, s)' /\ ~SetsBit(t, s)'
      BY <1>1, <1>3, <1>6 DEF Holds, SetsBit
    <3>2. Share(t, s)' = Share(t, s)
      BY <1>1, <3>1 DEF Share, Worth, Stale, Credit
    <3> QED
      BY <2>0, <2>1, <3>2
  <2>2. CASE u # t
    <3>1. Share(u, s)' = Share(u, s)
      BY <1>1, <1>3, <2>2, ShareKept
    <3> QED
      BY <2>0, <3>1
  <2> QED
    BY <2>1, <2>2
<1>11. Purse' <= Purse /\ Purse \in Nat /\ Purse' \in Nat
  BY <1>2, <1>5, <1>10, PurseKept, PurseNat, PurseNatNext DEF PurseOK
<1>12. Fresh' = Fresh /\ FirstOfReason' = FirstOfReason /\ Early' = Early
  <2>1. Fresh' = Fresh
    BY <1>1 DEF Fresh
  <2>2. FirstOfReason' = FirstOfReason
    BY <1>3, <1>6 DEF FirstOfReason, New
  <2>3. Early' = Early
    BY <1>1, <1>3, <1>6 DEF Early
  <2> QED
    BY <2>1, <2>2, <2>3
<1>13. /\ Cardinality(Fresh') = Cardinality(Fresh) /\ Cardinality(FirstOfReason') = Cardinality(FirstOfReason)
       /\ Cardinality(Early') = Cardinality(Early)
  BY <1>12
<1>14. Left' <= Left /\ Left \in Nat /\ Left' \in Nat
  BY <1>11, <1>13, SetsSmall DEF Left
<1>15. overflow_recompile_count + Cardinality(Counted) <= overflow_recompile_count' + Cardinality(Counted')
  <2>1. CASE r.inc
    <3>1. Counted \subseteq Counted' \cup {t}
      BY <1>3 DEF Counted
    <3>2. Cardinality(Counted) <= Cardinality(Counted') + 1
      BY <3>1, SetsSmall, PairsFinite, Cards
    <3> QED
      BY <1>1, <1>2, <2>1, <3>2, SetsSmall DEF UTTypeOK
  <2>2. CASE ~r.inc
    <3>1. Counted \subseteq Counted'
      BY <1>3, <2>2 DEF Counted
    <3>2. Cardinality(Counted) <= Cardinality(Counted')
      BY <3>1, SetsSmall, PairsFinite, Cards
    <3> QED
      BY <1>1, <1>2, <2>2, <3>2, SetsSmall DEF UTTypeOK
  <2> QED
    BY <2>1, <2>2
<1>16. decompile_count' + Left' <= Stock + overflow_recompile_count' + Cardinality(Counted')
  BY <1>1, <1>2, <1>4, <1>14, <1>15, SetsSmall, StockNat DEF UTInv, BudgetInv, UTTypeOK
<1>17. BudgetInv'
  BY <1>16 DEF BudgetInv, Stock
<1> QED
  BY <1>5, <1>7, <1>8, <1>9, <1>17 DEF UTInv

-----------------------------------------------------------------------------
LEMMA TrapInit ==
  ASSUME UTInit
  PROVE  UTInv
<1>1. /\ code = 1 /\ compiles = 1 /\ not_compilable = FALSE
      /\ trap_count = [r \in Reasons |-> 0]
      /\ trap_state = [s \in HasData |-> [reason |-> "none", recompiled |-> FALSE]]
      /\ decompile_count = 0 /\ overflow_recompile_count = 0
      /\ ut_pc = [t \in Threads |-> "java"] /\ trap = [t \in Threads |-> NoTrap]
  BY DEF UTInit
<1>2. [reason |-> "none", recompiled |-> FALSE] \in StateType
  BY DEF StateType
<1>3. UTTypeOK
  <2>1. /\ trap_count \in [Reasons -> Nat]
        /\ ut_pc \in [Threads -> {"java", "query", "update", "flush", "recompiled", "count"}]
    BY <1>1
  <2>2. trap_state \in [HasData -> StateType]
    BY <1>1, <1>2
  <2>3. trap \in [Threads -> TrapType \cup {NoTrap}]
    BY <1>1
  <2>4. \A t \in Threads : ut_pc[t] = "java"
    BY <1>1
  <2>5. code \in Nat /\ compiles \in Nat \ {0} /\ decompile_count \in Nat /\ overflow_recompile_count \in Nat
    BY <1>1
  <2>6. not_compilable \in BOOLEAN
    BY <1>1, Zenon
  <2> QED
    BY <2>1, <2>2, <2>3, <2>4, <2>5, <2>6, Zenon DEF UTTypeOK
<1>4. \A t \in Threads : ut_pc[t] = "java" /\ ~InTrap(t)
  BY <1>1 DEF InTrap
<1>5. CodeInv
  <2>1. compiles <= RecompilationBound
    BY <1>1, StockNat, PairsFinite, TrapAssumption DEF RecompilationBound
  <2> QED
    BY <1>1, <2>1, TrapAssumption DEF CodeInv
<1>6. ThreadInv
  BY <1>4 DEF ThreadInv
<1>7. FirstInv
  BY <1>1, <1>4 DEF FirstInv
<1>8. BudgetInv
  <2>1. Purse \in Nat /\ Purse <= Cardinality(Pairs) * (Price0 + 1)
    BY <1>3, PurseType
  <2>2. Cardinality(Fresh) <= Cardinality(Reasons)
    BY SetsSmall, PairsFinite, Cards
  <2>3. Cardinality(Early) <= Cardinality(Threads)
    BY SetsSmall, PairsFinite, Cards
  <2>4. FirstOfReason = {}
    BY <1>4 DEF FirstOfReason
  <2>5. Cardinality(FirstOfReason) = 0
    BY <2>4, FS_EmptySet
  <2>6. Left <= Stock
    BY <2>1, <2>2, <2>3, <2>5, SetsSmall, StockNat, PairsFinite DEF Left, Stock
  <2>7. Left \in Nat
    BY <2>1, SetsSmall DEF Left
  <2> QED
    BY <1>1, <2>6, <2>7, SetsSmall, StockNat DEF BudgetInv
<1> QED
  BY <1>3, <1>5, <1>6, <1>7, <1>8 DEF UTInv

LEMMA TrapStutter ==
  ASSUME UTInv, UNCHANGED utVars
  PROVE  UTInv'
<1>1. UNCHANGED <<code, compiles, not_compilable, trap_count, trap_state, decompile_count,
                  overflow_recompile_count, ut_pc, trap>>
  BY DEF utVars
<1>2. UTTypeOK' /\ CodeInv'
  BY <1>1 DEF UTInv, UTTypeOK, CodeInv, RecompilationBound, Stock
<1>3. ThreadInv' /\ FirstInv'
  BY <1>1 DEF UTInv, ThreadInv, FirstInv, InTrap
<1>4. Left' = Left /\ Counted' = Counted
  BY <1>1 DEF Left, Purse, Shares, Share, Worth, Stale, SetsBit, Credit, Holds, InTrap, New, Fresh,
              FirstOfReason, Early, Counted
<1>5. BudgetInv'
  BY <1>1, <1>4 DEF UTInv, BudgetInv, Stock
<1> QED
  BY <1>2, <1>3, <1>5 DEF UTInv

LEMMA TrapStep ==
  ASSUME UTInv, [UTNext]_utVars, Reasons \subseteq PerBytecode, PerBytecodeTrapLimit <= PerMethodTrapLimit
  PROVE  UTInv'
<1>1. ASSUME NEW t \in Threads, NEW s \in Sites, NEW r \in Reasons, NEW a \in Actions, UncommonTrap(t, s, r, a)
      PROVE  UTInv'
  BY <1>1, UncommonTrapStep
<1>2. ASSUME NEW t \in Threads, QueryMethodData(t) PROVE UTInv'
  BY <1>2, QueryStep
<1>3. ASSUME NEW t \in Threads, UpdateMethodData(t) PROVE UTInv'
  BY <1>3, UpdateStep
<1>4. ASSUME NEW t \in Threads, MakeNotEntrant(t) PROVE UTInv'
  BY <1>4, MakeNotEntrantStep
<1>5. ASSUME NEW t \in Threads, SetRecompiled(t) PROVE UTInv'
  BY <1>5, SetRecompiledStep
<1>6. ASSUME NEW t \in Threads, CountRecompile(t) PROVE UTInv'
  BY <1>6, CountRecompileStep
<1>7. ASSUME Recompile PROVE UTInv'
  BY <1>7, RecompileStep
<1>8. ASSUME UNCHANGED utVars PROVE UTInv'
  BY <1>8, TrapStutter
<1> QED
  BY <1>1, <1>2, <1>3, <1>4, <1>5, <1>6, <1>7, <1>8 DEF UTNext

\* When every reason is recorded per bytecode, a method is compiled at most
\* RecompilationBound times, a number that depends on the threads, the bytecodes with
\* profile data, the reasons and the cutoff and on no interleaving, although
\* query_update_method_data and uncommon_trap_inner update the trap states without a lock.
THEOREM RecompilationsBounded ==
  ASSUME Reasons \subseteq PerBytecode, PerBytecodeTrapLimit <= PerMethodTrapLimit
  PROVE  UTSpec => [](compiles <= RecompilationBound)
<1>1. UTInit => UTInv
  BY TrapInit
<1>2. UTInv /\ [UTNext]_utVars => UTInv'
  BY TrapStep
<1>3. UTInv => compiles <= RecompilationBound
  BY DEF UTInv, CodeInv
<1> QED
  BY <1>1, <1>2, <1>3, PTL DEF UTSpec

\* The cycle of traps and recompilations ends before MaxCompiles compilations, for every
\* MaxCompiles above that bound: the compilation policy then finds no code to replace, or
\* uncommon_trap_inner has abandoned the method.
THEOREM RecompilationStops ==
  ASSUME Reasons \subseteq PerBytecode, PerBytecodeTrapLimit <= PerMethodTrapLimit,
         RecompilationBound < MaxCompiles
  PROVE  UTSpec => []RecompilationEnds
<1>1. UTInit => UTInv
  BY TrapInit
<1>2. UTInv /\ [UTNext]_utVars => UTInv'
  BY TrapStep
<1>3. UTInv => RecompilationEnds
  BY StockNat, TrapAssumption DEF UTInv, CodeInv, UTTypeOK, RecompilationEnds
<1> QED
  BY <1>1, <1>2, <1>3, PTL DEF UTSpec
=============================================================================
