----------------------------- MODULE OrderFacts -----------------------------
(***************************************************************************)
(* Facts the proofs need of numbers and of recursion, whatever they are    *)
(* about: sets of numbers have a least and a greatest member, and a greedy *)
(* recursion that descends has a solution, which takes only what is there. *)
(***************************************************************************)
EXTENDS Integers, WellFoundedInduction, TLAPS

----------------------------------------------------------------------------
(* Least and greatest *)

\* A set of naturals has a least member, by the well-foundedness of their order.
LEMMA LeastNatural ==
    ASSUME NEW S, S \subseteq Nat, S # {}
    PROVE  \E m \in S : \A k \in S : m <= k
<1> DEFINE R == OpToRel(<, Nat)
<1>1. IsWellFoundedOn(R, Nat)
  BY NatLessThanWellFounded
<1> HIDE DEF R
<1>2. PICK m \in S : \A k \in S : <<k, m>> \notin R
  BY <1>1, WFMin
<1>3. \A k \in S : k < m => <<k, m>> \in R
  BY DEF R, OpToRel
<1>4. \A k \in S : ~(k < m)
  BY <1>2, <1>3, Zenon
<1>5. m \in Nat /\ \A k \in S : k \in Nat
  OBVIOUS
<1>6. \A k \in S : m <= k
  BY <1>4, <1>5, SMT
<1> QED BY <1>6, Zenon

\* Numbers within bounds have a least and a greatest one.
LEMMA EndsOfASet ==
    ASSUME NEW K \in Nat, NEW S, S \subseteq -K .. K, S # {}
    PROVE  /\ \E m \in S : \A n \in S : m <= n
           /\ \E m \in S : \A n \in S : n <= m
<1>1. \E m \in S : \A n \in S : m <= n
  <2> DEFINE T == {n + K : n \in S}
  <2>1. T \subseteq Nat /\ T # {}
    <3>1. \A n \in S : n + K \in Nat
      OBVIOUS
    <3> QED BY <3>1
  <2>2. \E t \in T : \A u \in T : t <= u
    <3> HIDE DEF T
    <3> QED BY <2>1, LeastNatural
  <2> PICK t \in T : \A u \in T : t <= u
    BY <2>2
  <2>3. PICK m \in S : t = m + K
    BY Zenon
  <2>4. \A n \in S : m + K <= n + K
    BY <2>3, Zenon
  <2>5. \A n \in S : n \in Int
    OBVIOUS
  <2>6. \A n \in S : m <= n
    BY <2>4, <2>5
  <2> QED BY <2>6
<1>2. \E m \in S : \A n \in S : n <= m
  <2> DEFINE T == {K - n : n \in S}
  <2>1. T \subseteq Nat /\ T # {}
    <3>1. \A n \in S : K - n \in Nat
      OBVIOUS
    <3> QED BY <3>1
  <2>2. \E t \in T : \A u \in T : t <= u
    <3> HIDE DEF T
    <3> QED BY <2>1, LeastNatural
  <2> PICK t \in T : \A u \in T : t <= u
    BY <2>2
  <2>3. PICK m \in S : t = K - m
    BY Zenon
  <2>4. \A n \in S : K - m <= K - n
    BY <2>3, Zenon
  <2>5. \A n \in S : n \in Int
    OBVIOUS
  <2>6. \A n \in S : n <= m
    BY <2>4, <2>5
  <2> QED BY <2>6
<1> QED BY <1>1, <1>2

\* A function to naturals that are bounded takes its greatest value somewhere.
LEMMA GreatestValue ==
    ASSUME NEW S, S # {}, NEW C \in Nat, NEW f \in [S -> 0 .. C]
    PROVE  \E t \in S : \A o \in S : f[o] <= f[t]
<1> DEFINE T == {C - f[o] : o \in S}
<1>1. \A o \in S : f[o] \in Nat /\ f[o] <= C
  OBVIOUS
<1>2. T \subseteq Nat /\ T # {}
  BY <1>1
<1>3. PICK m \in T : \A k \in T : m <= k
  BY <1>2, LeastNatural
<1>4. PICK t \in S : m = C - f[t]
  OBVIOUS
<1>5. \A o \in S : C - f[t] <= C - f[o]
  BY <1>3, <1>4, Zenon
<1>6. \A o \in S : f[o] <= f[t]
  BY <1>1, <1>5
<1> QED BY <1>6

----------------------------------------------------------------------------
(* Greedy choice: a recursion that takes a member at a time while there is   *)
(* more, each time from a state of lower rank                                *)

Greedy(g, D, more, next, after) ==
    g = [h \in D |-> IF more[h] THEN {next[h]} \union g[after[h]] ELSE {}]

Descends(D, S, N, more, next, after, rank) ==
    /\ N \in Nat
    /\ more \in [D -> BOOLEAN]
    /\ after \in [D -> D]
    /\ rank \in [D -> 0 .. N]
    /\ \A h \in D : more[h] => next[h] \in S /\ rank[after[h]] < rank[h]

\* Such a recursion has a solution: one that is right up to any rank is, step by step,
\* right up to the next.
LEMMA GreedySolution ==
    ASSUME NEW D, NEW S, NEW N, NEW more, NEW next, NEW after, NEW rank,
           Descends(D, S, N, more, next, after, rank)
    PROVE  \E g : Greedy(g, D, more, next, after)
<1>0. /\ N \in Nat /\ more \in [D -> BOOLEAN] /\ after \in [D -> D] /\ rank \in [D -> 0 .. N]
      /\ \A h \in D : more[h] => next[h] \in S /\ rank[after[h]] < rank[h]
  BY DEF Descends
<1> DEFINE Step(f, h) == IF more[h] THEN {next[h]} \union f[after[h]] ELSE {}
           RightTo(f, k) == \A h \in D : rank[h] <= k => f[h] = Step(f, h)
           Wrong == {k \in Nat : ~\E f \in [D -> SUBSET S] : RightTo(f, k)}
<1>1. \A h \in D : after[h] \in D /\ rank[h] \in Nat /\ rank[after[h]] \in Nat /\ rank[h] <= N
  BY <1>0
<1>2. \E f \in [D -> SUBSET S] : RightTo(f, 0)
  <2> DEFINE f == [h \in D |-> {}]
  <2>1. f \in [D -> SUBSET S]
    OBVIOUS
  <2>2. ASSUME NEW h \in D, rank[h] <= 0
        PROVE  f[h] = Step(f, h)
    <3>1. ~more[h]
      BY <1>0, <1>1, <2>2
    <3> QED BY <3>1
  <2> QED BY <2>1, <2>2
<1>3. ASSUME NEW k \in Nat, NEW f \in [D -> SUBSET S], RightTo(f, k)
      PROVE  \E e \in [D -> SUBSET S] : RightTo(e, k + 1)
  <2> DEFINE e == [h \in D |-> IF rank[h] <= k THEN f[h] ELSE Step(f, h)]
  <2>1. \A h \in D : Step(f, h) \in SUBSET S
    BY <1>0
  <2>2. e \in [D -> SUBSET S]
    BY <2>1
  <2>3. \A h \in D : rank[h] <= k => e[h] = f[h]
    OBVIOUS
  <2>4. \A h \in D : ~(rank[h] <= k) => e[h] = Step(f, h)
    OBVIOUS
  <2> HIDE DEF e
  <2>5. ASSUME NEW h \in D, rank[h] <= k + 1
        PROVE  e[h] = Step(e, h)
    <3>1. e[h] = Step(f, h)
      BY <1>3, <2>3, <2>4, <2>5
    <3>2. more[h] => rank[after[h]] <= k
      BY <1>0, <1>1, <2>5
    <3>3. more[h] => e[after[h]] = f[after[h]]
      BY <1>1, <2>3, <3>2
    <3> QED BY <3>1, <3>3
  <2> QED BY <2>2, <2>5
<1> HIDE DEF RightTo
<1>4. Wrong = {}
  <2> SUFFICES ASSUME Wrong # {}
               PROVE  FALSE
    OBVIOUS
  <2>1. PICK m \in Wrong : \A k \in Wrong : m <= k
    <3>1. Wrong \subseteq Nat
      OBVIOUS
    <3> QED BY <3>1, LeastNatural
  <2>2. m \in Nat /\ m # 0
    BY <1>2
  <2>3. m - 1 \in Nat /\ m - 1 \notin Wrong /\ (m - 1) + 1 = m
    BY <2>1, <2>2
  <2>4. PICK f \in [D -> SUBSET S] : RightTo(f, m - 1)
    BY <2>3
  <2>5. \E e \in [D -> SUBSET S] : RightTo(e, (m - 1) + 1)
    BY <1>3, <2>3, <2>4
  <2> QED BY <2>3, <2>5
<1>5. PICK f \in [D -> SUBSET S] : RightTo(f, N)
  BY <1>0, <1>4
<1>6. f = [h \in D |-> Step(f, h)]
  BY <1>1, <1>5 DEF RightTo
<1> QED BY <1>6 DEF Greedy

\* A solution takes only what is there to take.
LEMMA GreedyTakes ==
    ASSUME NEW D, NEW S, NEW N, NEW more, NEW next, NEW after, NEW rank,
           Descends(D, S, N, more, next, after, rank),
           NEW g, Greedy(g, D, more, next, after)
    PROVE  \A h \in D : g[h] \subseteq S
<1>0. /\ N \in Nat /\ more \in [D -> BOOLEAN] /\ after \in [D -> D] /\ rank \in [D -> 0 .. N]
      /\ \A h \in D : more[h] => next[h] \in S /\ rank[after[h]] < rank[h]
  BY DEF Descends
<1> DEFINE Bad == {h \in D : ~(g[h] \subseteq S)}
           Ranks == {rank[h] : h \in Bad}
<1> SUFFICES ASSUME Bad # {}
             PROVE  FALSE
  OBVIOUS
<1>1. PICK m \in Ranks : \A k \in Ranks : m <= k
  <2>1. Ranks \subseteq Nat /\ Ranks # {}
    BY <1>0
  <2> QED BY <2>1, LeastNatural
<1>2. PICK h \in Bad : m = rank[h]
  OBVIOUS
<1>3. g[h] = IF more[h] THEN {next[h]} \union g[after[h]] ELSE {}
  BY DEF Greedy
<1>4. more[h] /\ next[h] \in S /\ after[h] \in D
  BY <1>0, <1>3
<1>5. rank[after[h]] < m /\ m \in Nat /\ rank[after[h]] \in Nat
  BY <1>0, <1>2, <1>4
<1>6. after[h] \notin Bad
  <2>1. after[h] \in Bad => rank[after[h]] \in Ranks
    BY Zenon
  <2> HIDE DEF Bad, Ranks
  <2>2. after[h] \in Bad => m <= rank[after[h]]
    BY <1>1, <2>1, Zenon
  <2> QED BY <1>5, <2>2
<1> QED BY <1>3, <1>4, <1>6
=============================================================================
